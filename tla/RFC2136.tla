------------------------------ MODULE RFC2136 ------------------------------
(***************************************************************************)
(* The rfc2136 plugin (internal/plugin/rfc2136) driven by the runner of    *)
(* one zone against the primary server of the parent zone.                 *)
(*                                                                         *)
(* The runner compares a wish of the zone with a DS set, and has each from *)
(* one of several caching resolvers: either may be old, and the wish older *)
(* than the DS set.  Update asks the primary server for the DS set it has, *)
(* keeps of the difference what is not done yet, asks for the parent's SOA *)
(* and sends one UPDATE.  It is synchronous: nothing is stored, and a      *)
(* failure is retried from the comparison.  Every exchange may fail; a     *)
(* sent UPDATE may take effect although its response is lost; the process  *)
(* may crash at any point.                                                 *)
(***************************************************************************)
EXTENDS Naturals

CONSTANTS
  Records,        \* DS records, compared by their four fields (KeyRecords!Norm)
  Wishes,         \* the DS sets the zone's CDS/CDNSKEY records may ask for
  Patient,        \* the signer turns from its wish only when all is Quiet
  MaxFaults,      \* bound: failed exchanges and crashes
  MaxRollovers    \* bound: changes of the wish

ASSUME WishesAssumption == Wishes \subseteq (SUBSET Records) \ {{}}
ASSUME BoundsAssumption ==
  /\ Patient \in BOOLEAN
  /\ MaxFaults \in Nat /\ MaxRollovers \in Nat

VARIABLES
  want,      \* the zone's wish: the DS set of its CDS/CDNSKEY records
  last,      \* the wish before, whose keys the zone still has
  wishes,    \* the wishes that some resolver may return as validated
  server,    \* the DS set on the primary server
  caches,    \* the DS sets that some resolver may return
  pc,        \* where the runner is
  req,       \* the request: its goal, and the DS set it was computed from
  blind,     \* the DS query was answered with an error code
  toAdd, toRemove,      \* the UPDATE's records
  faults, rollovers,    \* bounds
  refused    \* observation: an UPDATE rested on an answer with an error code

zone == <<want, last, wishes>>
world == <<zone, server, caches>>
local == <<req, blind, toAdd, toRemove>>
vars == <<world, pc, local, faults, rollovers, refused>>

Request == [goal : SUBSET Records, seen : SUBSET Records]
NoRequest == [goal |-> {}, seen |-> {}]

Init ==
  /\ want \in Wishes /\ last \in Wishes
  /\ wishes = {want, last}
  /\ server = last
  /\ caches = {server}
  /\ pc = "idle"
  /\ req = NoRequest /\ blind = FALSE /\ toAdd = {} /\ toRemove = {}
  /\ faults = 0 /\ rollovers = 0
  /\ refused = FALSE

Fault == faults < MaxFaults /\ faults' = faults + 1

\* The end of a step, with an error or without.
Quit ==
  /\ pc' = "idle"
  /\ req' = NoRequest /\ blind' = FALSE /\ toAdd' = {} /\ toRemove' = {}

-----------------------------------------------------------------------------
(* The runner and Update.                                                  *)

\* prepareUpdateRequest finds a difference between a wish and a DS set, each as old
\* as a resolver still has it and from whichever resolver answers.  A DS answer
\* without records is validated like any other.
Check ==
  /\ pc = "idle"
  /\ \E goal \in wishes : \E seen \in caches \ {goal} :
       req' = [goal |-> goal, seen |-> seen]
  /\ pc' = "query"
  /\ UNCHANGED <<world, blind, toAdd, toRemove, faults, rollovers, refused>>

\* Mutant of KeptAdd: what the server has is added, too.
AddAll(current, r) == r.goal \ r.seen

\* Mutants of KeptRemove: nothing is removed; wanted records are removed.
RemoveNothing(current, r) == {}
RemoveSeen(current, r) == r.seen \cap current

\* filterDelta: what is to be added and not there, to be removed and there.
KeptAdd(current, r) == (r.goal \ r.seen) \ current
KeptRemove(current, r) == (r.seen \ r.goal) \cap current

\* Update goes on with the DS records of the server's answer.
Filter(current, error) ==
  IF KeptAdd(current, req) = {} /\ KeptRemove(current, req) = {}
    THEN Quit
    ELSE /\ toAdd' = KeptAdd(current, req)
         /\ toRemove' = KeptRemove(current, req)
         /\ blind' = error
         /\ pc' = "soa"
         /\ UNCHANGED req

QueryCurrentDS ==
  /\ pc = "query"
  /\ Filter(server, FALSE)
  /\ UNCHANGED <<world, faults, rollovers, refused>>

\* The answer's response code is not looked at: no records, none there.
QueryRefused ==
  /\ Fault
  /\ pc = "query"
  /\ Filter({}, TRUE)
  /\ UNCHANGED <<world, rollovers, refused>>

ResolveParentSOA ==
  /\ pc = "soa"
  /\ pc' = "send"
  /\ UNCHANGED <<world, local, faults, rollovers, refused>>

Updated == (server \cup toAdd) \ toRemove

\* The server applies the UPDATE.
Applies ==
  /\ server' = Updated
  /\ caches' = caches \cup {Updated}
  /\ refused' = (refused \/ blind)
  /\ UNCHANGED zone

Send ==
  /\ pc = "send"
  /\ Applies
  /\ Quit
  /\ UNCHANGED <<faults, rollovers>>

\* The UPDATE is applied, and its response is lost.
ResponseLost ==
  /\ Fault
  /\ pc = "send"
  /\ Applies
  /\ Quit
  /\ UNCHANGED rollovers

\* An exchange fails, there is no SOA, or the server rejects the UPDATE.
ExchangeFails ==
  /\ Fault
  /\ pc \in {"query", "soa", "send"}
  /\ Quit
  /\ UNCHANGED <<world, rollovers, refused>>

\* The process is killed or shut down between two exchanges.
Crash ==
  /\ Fault
  /\ pc # "idle"
  /\ Quit
  /\ UNCHANGED <<world, rollovers, refused>>

-----------------------------------------------------------------------------
(* The zone's signer and the resolvers.                                    *)

\* Every resolver shows the wish, as CDS/CDNSKEY and as DS records, and the runner
\* has nothing under way on behalf of an older one.
Quiet ==
  /\ wishes = {want} /\ caches = {want}
  /\ pc # "idle" => req.goal = want

\* The signer asks for another DS set, and keeps the keys of the one before.
Rollover ==
  /\ rollovers < MaxRollovers
  /\ Patient => Quiet
  /\ want' \in Wishes \ {want}
  /\ last' = want
  /\ rollovers' = rollovers + 1
  /\ refused' = (refused /\ ~Quiet)
  /\ UNCHANGED <<wishes, server, caches, pc, local, faults>>

\* The signer drops the keys of the wish before.
Retire ==
  /\ last # want
  /\ Patient => Quiet
  /\ last' = want
  /\ refused' = (refused /\ ~Quiet)
  /\ UNCHANGED <<want, wishes, server, caches, pc, local, faults, rollovers>>

\* Some resolver can validate the zone: a DS set it may have is of a key there.
Validates == \E ds \in caches : ds \cap (want \cup last) # {}

\* A resolver reads the zone's wish.
Learn ==
  /\ want \notin wishes /\ Validates
  /\ wishes' = wishes \cup {want}
  /\ UNCHANGED <<want, last, server, caches, pc, local, faults, rollovers, refused>>

\* A wish expires everywhere: an old one, or any when the zone no longer validates.
Forget(wish) ==
  /\ wish \in wishes
  /\ wish # want \/ ~Validates
  /\ wishes' = wishes \ {wish}
  /\ UNCHANGED <<want, last, server, caches, pc, local, faults, rollovers, refused>>

\* An old DS set expires everywhere.
Expire(old) ==
  /\ old \in caches \ {server}
  /\ caches' = caches \ {old}
  /\ UNCHANGED <<zone, server, pc, local, faults, rollovers, refused>>

Runner == Check \/ QueryCurrentDS \/ ResolveParentSOA \/ Send

Failure == QueryRefused \/ ResponseLost \/ ExchangeFails \/ Crash

World ==
  \/ Rollover \/ Retire \/ Learn
  \/ \E wish \in wishes : Forget(wish)
  \/ \E old \in caches : Expire(old)

Next == Runner \/ Failure \/ World

Spec == Init /\ [][Next]_vars

\* The runner keeps stepping (Daemon!ZoneIsStepped), resolvers read the zone, and
\* what they have expires.  Failures and the signer are bounded, not fair.
Fairness ==
  /\ WF_vars(Runner)
  /\ WF_vars(Learn)
  /\ WF_vars(\E wish \in wishes \ {want} : Forget(wish))
  /\ WF_vars(\E old \in caches : Expire(old))

LiveSpec == Spec /\ Fairness

-----------------------------------------------------------------------------
(* Properties.                                                             *)

TypeOK ==
  /\ want \in Wishes /\ last \in Wishes
  /\ wishes \subseteq Wishes
  /\ server \subseteq Records
  /\ caches \subseteq SUBSET Records
  /\ pc \in {"idle", "query", "soa", "send"}
  /\ req \in Request
  /\ blind \in BOOLEAN
  /\ toAdd \subseteq Records /\ toRemove \subseteq Records
  /\ faults \in 0..MaxFaults /\ rollovers \in 0..MaxRollovers
  /\ refused \in BOOLEAN

\* An UPDATE that rests on the server's answer makes the wish the request was
\* computed for out of whatever the server has, although only the difference to a
\* DS set as old as a resolver had it was asked for: that set is the zone's wish
\* or its last.  It adds nothing that is there and removes nothing that is not
\* (rfc2136_group.go:155-174).
UpdateIsExact ==
  (pc = "send" /\ ~blind /\ req.seen \in {want, last}) =>
    /\ Updated = req.goal
    /\ toAdd \cap server = {}
    /\ toRemove \subseteq server

\* Over failed exchanges, lost responses, retries, crashes, and wishes and DS sets
\* that resolvers return late, the parent has one of the zone's last two wishes,
\* whole, unless an UPDATE rested on an answer that was an error
\* (rfc2136_group.go:24, 118-121).  It may go back to the last wish, but not to
\* one before, nor to a mixture.
ParentFollowsZone == ~refused => server \in {want, last}

\* Even over answers that were errors the parent keeps what the zone's last two
\* wishes have in common, has nothing that neither of them has, and has the wish
\* itself when the zone turns to another.
Abstract == INSTANCE Publication WITH published <- server
IsPublication == Abstract!Spec

\* Once failures and changes of mind have ceased, the parent has what the zone
\* wants and keeps it, or, after an answer that was an error, is left with no DS
\* record of a key that the zone has: then no resolver can validate the wish.
Converges ==
  \/ <>[](server = want)
  \/ <>[](refused /\ server \cap (want \cup last) = {})
=============================================================================
