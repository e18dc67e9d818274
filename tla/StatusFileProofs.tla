-------------------------- MODULE StatusFileProofs --------------------------
(***************************************************************************)
(* For any number of zones and any entries: the status file is never torn, *)
(* a Save that returned nil is in it, and StatusFile implements            *)
(* StatusStore.                                                            *)
(***************************************************************************)
EXTENDS StatusFile, TLAPS

\* The invariant: the mutex is held by the one runner in Save, which has
\* marshalled what is in memory still, and written it once it comes to rename.
MutexHeld == \A z \in Zones : InSave(z) <=> mu = z
SnapshotIsData ==
  \A z \in Zones : pc[z] \in {"open", "write", "rename"} => raw = data
TmpIsWhole == \A z \in Zones : pc[z] = "rename" => tmp = raw

FileOK == file \in Data \cup {Absent}

IInv ==
  /\ TypeOK
  /\ FileOK
  /\ SavedIsInFile
  /\ MutexHeld
  /\ SnapshotIsData
  /\ TmpIsWhole


LEMMA InitIInv == Init => IInv
  BY NoneAssumption DEF Init, IInv, TypeOK, FileOK, SavedIsInFile, MutexHeld, InSave,
     SnapshotIsData, TmpIsWhole, Data, Empty, Contents, PCs

\* What IInv says of the runner that holds the mutex: the others are not in Save.
LEMMA OneInSave ==
  ASSUME IInv, NEW z \in Zones, InSave(z)
  PROVE  mu = z /\ \A y \in Zones \ {z} : ~InSave(y)
  BY DEF IInv, MutexHeld

LEMMA StepIInv == IInv /\ [Next]_vars => IInv'
<1> SUFFICES ASSUME IInv, [Next]_vars PROVE IInv'
  OBVIOUS
<1> USE DEF IInv, TypeOK, FileOK, SavedIsInFile, MutexHeld, InSave, SnapshotIsData,
            TmpIsWhole, Contents, PCs, Goto
<1>1. ASSUME NEW z \in Zones, NEW s \in States \cup {None}, Change(z, s) PROVE IInv'
  <2>1. data' \in Data
    BY <1>1 DEF Change, Data
  <2>2. \A y \in Zones : pc'[y] \in {"open", "write", "rename"} => FALSE
    BY <1>1, NoneAssumption DEF Change
  <2>3. SavedIsInFile'
    BY <1>1 DEF Change, Data
  <2> QED BY <1>1, <2>1, <2>2, <2>3, NoneAssumption DEF Change
<1>2. ASSUME NEW z \in Zones, Lock(z) PROVE IInv'
  BY <1>2, NoneAssumption DEF Lock
<1>3. ASSUME NEW z \in Zones, Marshal(z) PROVE IInv'
  <2>1. \A y \in Zones \ {z} : ~InSave(y)
    BY <1>3, OneInSave DEF Marshal
  <2> QED BY <1>3, <2>1 DEF Marshal
<1>4. ASSUME NEW z \in Zones, Truncate(z) PROVE IInv'
  <2>1. \A y \in Zones \ {z} : ~InSave(y)
    BY <1>4, OneInSave DEF Truncate
  <2> QED BY <1>4, <2>1 DEF Truncate
<1>5. ASSUME NEW z \in Zones, Write(z) PROVE IInv'
  <2>1. \A y \in Zones \ {z} : ~InSave(y)
    BY <1>5, OneInSave DEF Write
  <2> QED BY <1>5, <2>1 DEF Write
<1>6. ASSUME NEW z \in Zones, Rename(z) PROVE IInv'
  <2>1. \A y \in Zones \ {z} : ~InSave(y)
    BY <1>6, OneInSave DEF Rename
  <2>2. tmp = data
    BY <1>6 DEF Rename
  <2> QED BY <1>6, <2>1, <2>2, NoneAssumption DEF Rename
<1>7. ASSUME NEW z \in Zones, SaveFails(z) PROVE IInv'
  <2>1. \A y \in Zones \ {z} : ~InSave(y)
    BY <1>7, OneInSave DEF SaveFails
  <2> QED BY <1>7, <2>1, NoneAssumption DEF SaveFails
<1>8. ASSUME NEW valid \in SUBSET Zones, NEW readable \in BOOLEAN, Reopen(valid, readable)
      PROVE  IInv'
  <2>1. Loaded \in Data
    BY DEF Loaded, Empty, Data
  <2>2. data' \in Data
    BY <1>8, <2>1 DEF Reopen, Empty, Data
  <2>3. raw' \in Data
    BY <1>8 DEF Reopen, Empty, Data
  <2> QED BY <1>8, <2>2, <2>3, NoneAssumption DEF Reopen
<1>9. ASSUME UNCHANGED vars PROVE IInv'
  BY <1>9 DEF vars
<1> QED BY <1>1, <1>2, <1>3, <1>4, <1>5, <1>6, <1>7, <1>8, <1>9 DEF Next, Saving

\* The invariant holds in every behaviour.
THEOREM StoreInductive == Spec => []IInv
<1>1. Init => IInv
  BY InitIInv
<1>2. IInv /\ [Next]_vars => IInv'
  BY StepIInv
<1> QED BY <1>1, <1>2, PTL DEF Spec

\* Types, for any number of zones.
THEOREM StoreTypes == Spec => []TypeOK
<1>1. IInv => TypeOK
  BY DEF IInv
<1> QED BY <1>1, StoreInductive, PTL

\* No interleaving of Saves, failures and restarts leaves a torn status file.
THEOREM NeverTorn == Spec => []FileIsWhole
<1>1. IInv => FileIsWhole
  BY ContentsAssumption DEF IInv, FileOK, FileIsWhole
<1> QED BY <1>1, StoreInductive, PTL

\* What a Save that returned nil has written stays in the file.
THEOREM SavedStays == Spec => []SavedIsInFile
<1>1. IInv => SavedIsInFile
  BY DEF IInv
<1> QED BY <1>1, StoreInductive, PTL

\* Each step of StatusFile is a step of StatusStore, or none.
LEMMA StoreStep == IInv /\ IInv' /\ [Next]_vars => [Abstract!Next]_<<data, Loaded>>
<1> SUFFICES ASSUME IInv, IInv', [Next]_vars PROVE [Abstract!Next]_<<data, Loaded>>
  OBVIOUS
<1>1. ASSUME NEW z \in Zones, NEW s \in States \cup {None}, Change(z, s)
      PROVE  Abstract!Change(z, s)
  BY <1>1 DEF Change, Abstract!Change, Loaded
<1>2. ASSUME NEW z \in Zones, Rename(z) PROVE Abstract!Save
  <2>1. tmp = data
    BY <1>2 DEF Rename, IInv, TmpIsWhole, SnapshotIsData
  <2>2. Loaded' = data
    BY <1>2, <2>1, ContentsAssumption DEF Rename, Loaded, IInv, TypeOK
  <2> QED BY <1>2, <2>2 DEF Rename, Abstract!Save
<1>3. ASSUME NEW z \in Zones,
             Lock(z) \/ Marshal(z) \/ Truncate(z) \/ Write(z) \/ SaveFails(z)
      PROVE  UNCHANGED <<data, Loaded>>
  BY <1>3 DEF Lock, Marshal, Truncate, Write, SaveFails, Loaded
<1>4. ASSUME NEW valid \in SUBSET Zones, NEW readable \in BOOLEAN, Reopen(valid, readable)
      PROVE  Abstract!Reopen
  <2>1. UNCHANGED Loaded
    BY <1>4 DEF Reopen, Loaded
  <2>2. \/ data' = [z \in Zones |-> IF z \in valid THEN Loaded[z] ELSE None]
        \/ data' = Empty
    BY <1>4 DEF Reopen
  <2> QED BY <2>1, <2>2 DEF Abstract!Reopen, Abstract!Empty, Empty
<1>5. ASSUME UNCHANGED vars PROVE UNCHANGED <<data, Loaded>>
  BY <1>5 DEF vars, Loaded
<1> QED BY <1>1, <1>2, <1>3, <1>4, <1>5 DEF Next, Saving, Abstract!Next

\* The mutex, the temporary file and the rename make Save atomic.
THEOREM ImplementsStore == Spec => IsStore
<1>1. Init => Abstract!Init
  BY ContentsAssumption DEF Init, Abstract!Init, Abstract!Empty, Empty, Loaded
<1>2. IInv /\ IInv' /\ [Next]_vars => [Abstract!Next]_<<data, Loaded>>
  BY StoreStep
<1> QED BY <1>1, <1>2, StoreInductive, PTL DEF Spec, IsStore, Abstract!Spec
=============================================================================
