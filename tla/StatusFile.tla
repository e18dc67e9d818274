----------------------------- MODULE StatusFile -----------------------------
(***************************************************************************)
(* The status store as it is written (internal/status/status.go): a mutex, *)
(* a map, and a Save that runs under the mutex and goes through a          *)
(* temporary file, with one path for all, and a rename.                    *)
(*                                                                         *)
(* Each zone's runner changes its own entry and saves everything.  A step  *)
(* of Save may fail; the process may be killed between any two of them,    *)
(* which leaves both files as they are.  The loss of writes that the       *)
(* kernel has accepted (a power failure) is not modelled.                  *)
(***************************************************************************)
CONSTANTS Zones,    \* a zone stands for its runner, too
          States,   \* the entries a runner may store
          None,     \* no entry; nobody
          Absent,   \* in place of a file's contents: there is no file
          Torn      \* an empty or incomplete file

ASSUME NoneAssumption == None \notin States /\ None \notin Zones

VARIABLES
  data,   \* Store.data.Zones
  mu,     \* the holder of Store.mu
  pc,     \* where each runner is in a change and its Save
  raw,    \* Save's marshalled data
  tmp,    \* the contents of <path>.tmp
  file,   \* the contents of the status file
  saved   \* the runners whose last Save returned nil (observation only)

vars == <<data, mu, pc, raw, tmp, file, saved>>

Data == [Zones -> States \cup {None}]
ASSUME ContentsAssumption == Absent \notin Data /\ Torn \notin Data /\ Absent # Torn

Empty == [z \in Zones |-> None]
Contents == Data \cup {Absent, Torn}
PCs == {"idle", "changed", "mkdir", "open", "write", "rename"}
InSave(z) == pc[z] \in {"mkdir", "open", "write", "rename"}

Init ==
  /\ data = Empty
  /\ mu = None
  /\ pc = [z \in Zones |-> "idle"]
  /\ raw = Empty
  /\ tmp = Absent /\ file = Absent
  /\ saved = {}

Goto(z, label) == pc' = [pc EXCEPT ![z] = label]

\* Set or Clear, which hold the mutex for a moment.
Change(z, s) ==
  /\ pc[z] = "idle"
  /\ mu = None
  /\ data' = [data EXCEPT ![z] = s]
  /\ saved' = saved \ {z}
  /\ Goto(z, "changed")
  /\ UNCHANGED <<mu, raw, tmp, file>>

\* Mutant of Lock: Save does not take the mutex.
LockNothing(z) ==
  /\ pc[z] = "changed"
  /\ Goto(z, "mkdir")
  /\ UNCHANGED <<data, mu, raw, tmp, file, saved>>

\* Save begins: it takes the mutex until it returns.
Lock(z) ==
  /\ pc[z] = "changed"
  /\ mu = None
  /\ mu' = z
  /\ Goto(z, "mkdir")
  /\ UNCHANGED <<data, raw, tmp, file, saved>>

\* MkdirAll and MarshalIndent succeed.
Marshal(z) ==
  /\ pc[z] = "mkdir"
  /\ raw' = data
  /\ Goto(z, "open")
  /\ UNCHANGED <<data, mu, tmp, file, saved>>

\* WriteFile opens the temporary file, which truncates it ...
Truncate(z) ==
  /\ pc[z] = "open"
  /\ tmp' = Torn
  /\ Goto(z, "write")
  /\ UNCHANGED <<data, mu, raw, file, saved>>

\* ... and writes it.
Write(z) ==
  /\ pc[z] = "write"
  /\ tmp' = raw
  /\ Goto(z, "rename")
  /\ UNCHANGED <<data, mu, raw, file, saved>>

\* The rename, the unlock and the return of nil.
Rename(z) ==
  /\ pc[z] = "rename"
  /\ file' = tmp
  /\ tmp' = Absent
  /\ mu' = None
  /\ saved' = saved \cup {z}
  /\ Goto(z, "idle")
  /\ UNCHANGED <<data, raw>>

\* Mutant of SaveFails: an error is returned without an unlock.
SaveFailsLocked(z) ==
  /\ InSave(z)
  /\ Goto(z, "idle")
  /\ UNCHANGED <<data, mu, raw, tmp, file, saved>>

\* Mutant of SaveFails: the error is swallowed.
SaveFailsSilently(z) ==
  /\ InSave(z)
  /\ mu' = None
  /\ Goto(z, "idle")
  /\ saved' = saved \cup {z}
  /\ UNCHANGED <<data, raw, tmp, file>>

\* A step of Save fails: it returns the error, and the deferred unlock runs.
SaveFails(z) ==
  /\ InSave(z)
  /\ mu' = None
  /\ Goto(z, "idle")
  /\ UNCHANGED <<data, raw, tmp, file, saved>>

\* Mutant of Loaded: what is left of an interrupted Save is read.
LoadedTmp == IF tmp \notin {Absent, Torn} THEN tmp ELSE file

\* What Load makes of the status file: nothing if it is absent or corrupted.
Loaded == IF file \in {Absent, Torn} THEN Empty ELSE file

\* The process ends, at any point, or runOnce does; later a new Store loads
\* the file, unless that fails, and prunes it.
Reopen(valid, readable) ==
  /\ data' = IF readable THEN [z \in Zones |-> IF z \in valid THEN Loaded[z] ELSE None]
             ELSE Empty
  /\ mu' = None
  /\ pc' = [z \in Zones |-> "idle"]
  /\ raw' = Empty
  /\ saved' = {}
  /\ UNCHANGED <<tmp, file>>

Saving(z) ==
  Lock(z) \/ Marshal(z) \/ Truncate(z) \/ Write(z) \/ Rename(z) \/ SaveFails(z)

Next ==
  \/ \E z \in Zones : Saving(z) \/ \E s \in States \cup {None} : Change(z, s)
  \/ \E valid \in SUBSET Zones, readable \in BOOLEAN : Reopen(valid, readable)

Spec == Init /\ [][Next]_vars

\* File operations return, and sync.Mutex does not let a goroutine starve.
LiveSpec ==
  Spec /\ \A z \in Zones : SF_vars(Lock(z)) /\ WF_vars(InSave(z) /\ Saving(z))

-----------------------------------------------------------------------------
(* Properties.                                                             *)

TypeOK ==
  /\ data \in Data
  /\ mu \in Zones \cup {None}
  /\ pc \in [Zones -> PCs]
  /\ raw \in Data
  /\ tmp \in Contents /\ file \in Contents
  /\ saved \subseteq Zones

\* The status file is never a torn one, although all Saves share one temporary
\* file and each may be cut short (status.go:115-139).
FileIsWhole == file # Torn

\* Once a runner's Save has returned nil the file holds the runner's entry,
\* whatever the others save, or fail to save, at the same time.
SavedIsInFile ==
  \A z \in saved : file \in Data /\ file[z] = data[z]

\* Every Save returns, however the others end.
SaveReturns == \A z \in Zones : pc[z] = "changed" ~> pc[z] = "idle"

\* The store keeps the promise of a store.
Abstract == INSTANCE StatusStore WITH saved <- Loaded
IsStore == Abstract!Spec
=============================================================================
