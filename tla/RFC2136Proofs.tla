--------------------------- MODULE RFC2136Proofs ---------------------------
(***************************************************************************)
(* For any wishes and any number of failures and rollovers: with a patient *)
(* signer each UPDATE that rests on an answer of the server is exact, the  *)
(* parent has one of the zone's last two wishes, and the daemon implements *)
(* Publication even over answers that were errors.                         *)
(***************************************************************************)
EXTENDS RFC2136, TLAPS

\* On the way between the last two wishes.
Between(ds) == want \cap last \subseteq ds /\ ds \subseteq want \cup last

InFlight == pc # "idle"
Prepared == pc \in {"soa", "send"}

\* The request is for one of the last two wishes, and what is to be sent of it
\* neither adds what that wish has not nor removes what it has.
RequestIsSane ==
  /\ InFlight => req.goal \in {want, last} /\ req.goal # req.seen
  /\ Prepared => toAdd \subseteq req.goal /\ toRemove \cap req.goal = {}

\* While an UPDATE is under way the server's DS set stays as it was asked for.
AnswerIsCurrent ==
  Prepared /\ ~blind =>
    toAdd = KeptAdd(server, req) /\ toRemove = KeptRemove(server, req)

\* A request from one of the last two wishes to the other, or one that the zone's
\* turn has overtaken, whose goal the server has.
LeadsAcross == req.seen \in {want, last}
Overtaken == req.goal = last /\ server = last

ExactInv ==
  ~refused =>
    /\ caches \subseteq {want, last}
    /\ InFlight => LeadsAcross \/ Overtaken

IInv ==
  /\ TypeOK
  /\ wishes \subseteq {want, last}
  /\ server \in caches
  /\ \A ds \in caches : Between(ds)
  /\ RequestIsSane
  /\ AnswerIsCurrent
  /\ ExactInv

LEMMA InitIInv == Init => IInv
<1> SUFFICES ASSUME Init PROVE IInv
  OBVIOUS
<1>1. TypeOK
  <2>1. req \in Request /\ toAdd \subseteq Records /\ toRemove \subseteq Records
    BY DEF Init, Request, NoRequest
  <2>2. server \subseteq Records /\ caches \subseteq SUBSET Records
    BY WishesAssumption DEF Init
  <2>3. faults \in 0..MaxFaults /\ rollovers \in 0..MaxRollovers
    BY BoundsAssumption DEF Init
  <2> QED BY <2>1, <2>2, <2>3 DEF Init, TypeOK
<1>2. server \in caches /\ caches = {last} /\ wishes = {want, last} /\ pc = "idle"
  BY DEF Init
<1>3. \A ds \in caches : Between(ds)
  BY <1>2 DEF Between
<1> QED
  BY <1>1, <1>2, <1>3
  DEF IInv, RequestIsSane, AnswerIsCurrent, ExactInv, InFlight, Prepared

LEMMA FaultTypes ==
  ASSUME faults \in 0..MaxFaults, Fault
  PROVE  faults' \in 0..MaxFaults
  BY BoundsAssumption DEF Fault

\* The end of a step leaves nothing under way.
LEMMA QuitKeeps ==
  ASSUME IInv, Quit, UNCHANGED zone, faults' \in 0..MaxFaults, UNCHANGED rollovers,
         refused' \in BOOLEAN, server' \subseteq Records, caches' \subseteq SUBSET Records,
         server' \in caches', \A ds \in caches' : Between(ds),
         ~refused' => caches' \subseteq {want, last}
  PROVE  IInv'
<1>1. /\ req' \in Request /\ toAdd' \subseteq Records /\ toRemove' \subseteq Records
      /\ blind' \in BOOLEAN /\ pc' = "idle"
  BY DEF Quit, NoRequest, Request
<1>2. UNCHANGED <<want, last, wishes>>
  BY DEF zone
<1>3. TypeOK'
  BY <1>1, <1>2 DEF IInv, TypeOK
<1>4. \A ds \in caches' : Between(ds)'
  BY <1>2 DEF Between
<1> QED
  BY <1>1, <1>2, <1>3, <1>4
  DEF IInv, RequestIsSane, AnswerIsCurrent, ExactInv, InFlight, Prepared

\* What an UPDATE under way leaves on the server, and what it does there when it
\* leads from one of the last two wishes to the other, or was overtaken.
LEMMA UpdatedIs ==
  ASSUME IInv, pc = "send"
  PROVE  /\ Between(Updated) /\ Updated \subseteq Records
         /\ ~blind /\ LeadsAcross => Updated = req.goal
         /\ ~blind /\ Overtaken => Updated = server
         /\ ~blind => toAdd \cap server = {} /\ toRemove \subseteq server
<1>1. /\ req.goal \in {want, last} /\ req.goal # req.seen
      /\ toAdd \subseteq req.goal /\ toRemove \cap req.goal = {}
  BY DEF IInv, RequestIsSane, InFlight, Prepared
<1>2. want \cap last \subseteq server /\ server \subseteq want \cup last
  BY DEF IInv, Between
<1>3. ~blind => /\ toAdd = (req.goal \ req.seen) \ server
                /\ toRemove = (req.seen \ req.goal) \cap server
  BY DEF IInv, AnswerIsCurrent, Prepared, KeptAdd, KeptRemove
<1>4. Between(Updated)
  BY <1>1, <1>2 DEF Between, Updated
<1>5. Updated \subseteq Records
  BY DEF Updated, IInv, TypeOK
<1>6. ASSUME ~blind, LeadsAcross PROVE Updated = req.goal
  BY <1>1, <1>2, <1>3, <1>6 DEF LeadsAcross, Updated
<1>7. ASSUME ~blind, Overtaken PROVE Updated = server
  BY <1>3, <1>7 DEF Overtaken, Updated
<1> QED BY <1>3, <1>4, <1>5, <1>6, <1>7

\* An UPDATE that takes effect, with its response or without.
LEMMA ApplyKeeps ==
  ASSUME IInv, pc = "send", Applies, Quit, faults' \in 0..MaxFaults, UNCHANGED rollovers
  PROVE  IInv'
<1>1. /\ UNCHANGED zone
      /\ server' = Updated /\ caches' = caches \cup {Updated}
      /\ refused' = (refused \/ blind)
  BY DEF Applies
<1>2. Between(Updated) /\ Updated \subseteq Records
  BY UpdatedIs
<1>3. \A ds \in caches' : Between(ds)
  BY <1>1, <1>2 DEF IInv
<1>4. ASSUME ~refused' PROVE caches' \subseteq {want, last}
  <2>1. ~blind /\ ~refused
    BY <1>1, <1>4 DEF IInv, TypeOK
  <2>2. caches \subseteq {want, last} /\ server \in {want, last}
    BY <2>1 DEF IInv, ExactInv
  <2>3. LeadsAcross \/ Overtaken
    BY <2>1 DEF IInv, ExactInv, InFlight
  <2>4. req.goal \in {want, last}
    BY DEF IInv, RequestIsSane, InFlight
  <2>5. Updated \in {want, last}
    BY <2>1, <2>2, <2>3, <2>4, UpdatedIs
  <2> QED BY <1>1, <2>2, <2>5
<1>5. /\ server' \subseteq Records /\ caches' \subseteq SUBSET Records
      /\ server' \in caches' /\ refused' \in BOOLEAN
  BY <1>1, <1>2 DEF IInv, TypeOK
<1> QED BY <1>1, <1>3, <1>4, <1>5, QuitKeeps

\* A step that ends without an effect.
LEMMA NothingKeeps ==
  ASSUME IInv, Quit, UNCHANGED world, faults' \in 0..MaxFaults,
         UNCHANGED <<rollovers, refused>>
  PROVE  IInv'
<1>1. UNCHANGED <<zone, server, caches>>
  BY DEF world
<1> QED BY <1>1, QuitKeeps DEF IInv, TypeOK, ExactInv

\* Update goes on with the server's DS set, or with an error that it takes for none.
LEMMA FilterKeeps ==
  ASSUME IInv, pc = "query",
         NEW error \in BOOLEAN, NEW current \in SUBSET Records,
         ~error => current = server, Filter(current, error),
         UNCHANGED world, faults' \in 0..MaxFaults, UNCHANGED <<rollovers, refused>>
  PROVE  IInv'
<1>1. CASE KeptAdd(current, req) = {} /\ KeptRemove(current, req) = {}
  BY <1>1, NothingKeeps DEF Filter
<1>2. CASE ~(KeptAdd(current, req) = {} /\ KeptRemove(current, req) = {})
  <2>1. /\ toAdd' = KeptAdd(current, req) /\ toRemove' = KeptRemove(current, req)
        /\ pc' = "soa" /\ blind' = error
        /\ UNCHANGED <<req, want, last, wishes, server, caches>>
    BY <1>2 DEF Filter, world, zone
  <2>2. req.goal \subseteq Records /\ req.seen \subseteq Records
    BY DEF IInv, TypeOK, Request
  <2>3. TypeOK'
    BY <2>1, <2>2 DEF IInv, TypeOK, KeptAdd, KeptRemove
  <2>4. RequestIsSane'
    BY <2>1 DEF IInv, RequestIsSane, InFlight, Prepared, KeptAdd, KeptRemove
  <2>5. AnswerIsCurrent'
    BY <2>1 DEF AnswerIsCurrent, KeptAdd, KeptRemove
  <2>6. ExactInv'
    BY <2>1 DEF IInv, ExactInv, InFlight, LeadsAcross, Overtaken
  <2>7. \A ds \in caches' : Between(ds)'
    BY <2>1 DEF IInv, Between
  <2> QED BY <2>1, <2>3, <2>4, <2>5, <2>6, <2>7 DEF IInv
<1> QED BY <1>1, <1>2

LEMMA CheckKeeps == IInv /\ Check => IInv'
<1> SUFFICES ASSUME IInv, Check PROVE IInv'
  OBVIOUS
<1>1. PICK goal \in wishes : \E seen \in caches \ {goal} :
        req' = [goal |-> goal, seen |-> seen]
  BY DEF Check
<1>2. PICK seen \in caches \ {goal} : req' = [goal |-> goal, seen |-> seen]
  BY <1>1
<1>3. /\ pc' = "query"
      /\ UNCHANGED <<want, last, wishes, server, caches, blind, toAdd, toRemove, faults,
                     rollovers, refused>>
  BY DEF Check, world, zone
<1>4. goal \in {want, last} /\ goal \subseteq Records /\ seen \subseteq Records
  BY WishesAssumption DEF IInv, TypeOK
<1>5. req' \in Request /\ req'.goal = goal /\ req'.seen = seen
  BY <1>2, <1>4 DEF Request
<1>6. TypeOK'
  BY <1>3, <1>5 DEF IInv, TypeOK
<1>7. RequestIsSane' /\ AnswerIsCurrent'
  BY <1>3, <1>4, <1>5 DEF RequestIsSane, AnswerIsCurrent, InFlight, Prepared
<1>8. ExactInv'
  BY <1>3, <1>5 DEF IInv, ExactInv, InFlight, LeadsAcross
<1>9. \A ds \in caches' : Between(ds)'
  BY <1>3 DEF IInv, Between
<1> QED BY <1>3, <1>6, <1>7, <1>8, <1>9 DEF IInv

\* The zone turns from its wish when all is quiet: what is under way has then been
\* overtaken.
LEMMA TurnKeeps ==
  ASSUME IInv, Quiet, want' \in Wishes, last' = want,
         UNCHANGED <<wishes, server, caches, pc, local, faults>>,
         rollovers' \in 0..MaxRollovers, refused' \in BOOLEAN
  PROVE  IInv'
<1>1. /\ wishes = {want} /\ caches = {want} /\ server = want
      /\ InFlight => req.goal = want
  BY DEF Quiet, IInv, InFlight
<1>2. UNCHANGED <<req, blind, toAdd, toRemove>>
  BY DEF local
<1>3. TypeOK'
  BY <1>2 DEF IInv, TypeOK
<1>4. RequestIsSane'
  BY <1>1, <1>2 DEF IInv, RequestIsSane, InFlight, Prepared
<1>5. AnswerIsCurrent'
  BY <1>2 DEF IInv, AnswerIsCurrent, Prepared, KeptAdd, KeptRemove
<1>6. \A ds \in caches' : Between(ds)'
  BY <1>1 DEF Between
<1>7. ExactInv'
  BY <1>1, <1>2 DEF ExactInv, InFlight, Overtaken
<1> QED BY <1>1, <1>3, <1>4, <1>5, <1>6, <1>7 DEF IInv

\* Resolvers read what the zone wants, and what they have expires.
LEMMA ResolversKeep ==
  ASSUME IInv, wishes' \subseteq Wishes, wishes' \subseteq {want, last},
         caches' \subseteq caches, server \in caches',
         UNCHANGED <<want, last, server, pc, local, faults, rollovers, refused>>
  PROVE  IInv'
<1>1. UNCHANGED <<req, blind, toAdd, toRemove>>
  BY DEF local
<1>2. TypeOK'
  BY <1>1 DEF IInv, TypeOK
<1>3. RequestIsSane' /\ AnswerIsCurrent'
  BY <1>1 DEF IInv, RequestIsSane, AnswerIsCurrent, InFlight, Prepared, KeptAdd, KeptRemove
<1>4. ExactInv'
  BY <1>1 DEF IInv, ExactInv, InFlight, LeadsAcross, Overtaken
<1>5. \A ds \in caches' : Between(ds)'
  BY DEF IInv, Between
<1> QED BY <1>2, <1>3, <1>4, <1>5 DEF IInv

LEMMA WorldKeeps ==
  ASSUME Patient, IInv, World
  PROVE  IInv'
<1>1. CASE Rollover
  <2>1. /\ Quiet /\ want' \in Wishes /\ last' = want
        /\ UNCHANGED <<wishes, server, caches, pc, local, faults>>
        /\ rollovers' \in 0..MaxRollovers /\ refused' \in BOOLEAN
    BY <1>1, BoundsAssumption DEF Rollover, IInv, TypeOK
  <2> QED BY <2>1, TurnKeeps
<1>2. CASE Retire
  <2>1. /\ Quiet /\ want' \in Wishes /\ last' = want
        /\ UNCHANGED <<wishes, server, caches, pc, local, faults>>
        /\ rollovers' \in 0..MaxRollovers /\ refused' \in BOOLEAN
    BY <1>2 DEF Retire, IInv, TypeOK
  <2> QED BY <2>1, TurnKeeps
<1>3. CASE Learn
  <2>1. wishes' \subseteq Wishes /\ wishes' \subseteq {want, last}
    BY <1>3 DEF Learn, IInv, TypeOK
  <2> QED BY <1>3, <2>1, ResolversKeep DEF Learn, IInv
<1>4. ASSUME NEW wish \in wishes, Forget(wish) PROVE IInv'
  <2>1. wishes' \subseteq Wishes /\ wishes' \subseteq {want, last}
    BY <1>4 DEF Forget, IInv, TypeOK
  <2> QED BY <1>4, <2>1, ResolversKeep DEF Forget, IInv
<1>5. ASSUME NEW old \in caches, Expire(old) PROVE IInv'
  <2>1. wishes' \subseteq Wishes /\ wishes' \subseteq {want, last}
    BY <1>5 DEF Expire, zone, IInv, TypeOK
  <2> QED BY <1>5, <2>1, ResolversKeep DEF Expire, zone, IInv
<1> QED BY <1>1, <1>2, <1>3, <1>4, <1>5 DEF World

LEMMA StepIInv ==
  ASSUME Patient, IInv, [Next]_vars
  PROVE  IInv'
<1>0. faults \in 0..MaxFaults /\ server \in SUBSET Records
  BY DEF IInv, TypeOK
<1>1. CASE Check
  BY <1>1, CheckKeeps
<1>2. CASE QueryCurrentDS
  BY <1>0, <1>2, FilterKeeps DEF QueryCurrentDS
<1>3. CASE ResolveParentSOA
  <2>1. UNCHANGED <<want, last, wishes, server, caches, req, blind, toAdd, toRemove, faults,
                    rollovers, refused>>
    BY <1>3 DEF ResolveParentSOA, world, zone, local
  <2>2. TypeOK'
    BY <1>3, <2>1 DEF ResolveParentSOA, IInv, TypeOK
  <2>3. RequestIsSane' /\ AnswerIsCurrent'
    BY <1>3, <2>1 DEF ResolveParentSOA, IInv, RequestIsSane, AnswerIsCurrent, InFlight,
                      Prepared, KeptAdd, KeptRemove
  <2>4. ExactInv'
    BY <1>3, <2>1 DEF ResolveParentSOA, IInv, ExactInv, InFlight, LeadsAcross, Overtaken
  <2>5. \A ds \in caches' : Between(ds)'
    BY <2>1 DEF IInv, Between
  <2> QED BY <2>1, <2>2, <2>3, <2>4, <2>5 DEF IInv
<1>4. CASE Send
  BY <1>0, <1>4, ApplyKeeps DEF Send
<1>5. CASE QueryRefused
  <2>1. {} \in SUBSET Records
    OBVIOUS
  <2> QED BY <1>0, <1>5, <2>1, FilterKeeps, FaultTypes DEF QueryRefused
<1>6. CASE ResponseLost
  BY <1>0, <1>6, ApplyKeeps, FaultTypes DEF ResponseLost
<1>7. CASE ExchangeFails \/ Crash
  BY <1>0, <1>7, NothingKeeps, FaultTypes DEF ExchangeFails, Crash
<1>8. CASE World
  BY <1>8, WorldKeeps
<1>9. CASE UNCHANGED vars
  BY <1>9, ResolversKeep DEF vars, world, zone, IInv, TypeOK
<1> QED BY <1>1, <1>2, <1>3, <1>4, <1>5, <1>6, <1>7, <1>8, <1>9 DEF Next, Runner, Failure

\* The invariant holds in every behaviour: whatever resolvers return late, what is
\* under way makes one of the zone's last two wishes, and takes no record that they
\* have in common.
THEOREM UpdateInductive ==
  ASSUME Patient
  PROVE  Spec => []IInv
<1>1. IInv /\ [Next]_vars => IInv'
  BY StepIInv
<1> QED BY <1>1, InitIInv, PTL DEF Spec

\* However stale the wish and the DS set that were compared, each UPDATE that rests
\* on an answer of the server makes exactly that wish of the server's DS set.
THEOREM ExactUpdates ==
  ASSUME Patient
  PROVE  Spec => []UpdateIsExact
<1>1. IInv => UpdateIsExact
  BY UpdatedIs DEF UpdateIsExact, LeadsAcross
<1> QED BY <1>1, UpdateInductive, PTL

\* Over failed exchanges, lost responses, crashes and stale wishes and DS sets the
\* parent has one of the zone's last two wishes, whole.
THEOREM ParentFollows ==
  ASSUME Patient
  PROVE  Spec => []ParentFollowsZone
<1>1. IInv => ParentFollowsZone
  BY DEF IInv, ExactInv, ParentFollowsZone
<1> QED BY <1>1, UpdateInductive, PTL

\* Each step publishes between the last two wishes, turns to another, or neither.
LEMMA PublicationStep ==
  ASSUME Patient, IInv, [Next]_vars
  PROVE  [Abstract!Next]_<<want, last, server>>
<1>1. CASE Send \/ ResponseLost
  <2>1. pc = "send" /\ server' = Updated /\ want' = want /\ last' = last
    BY <1>1 DEF Send, ResponseLost, Applies, zone
  <2>2. Between(server')
    BY <2>1, UpdatedIs
  <2> QED BY <2>1, <2>2 DEF Between, Abstract!Next, Abstract!Publish
<1>2. CASE Rollover \/ Retire
  <2>1. /\ Quiet /\ want' \in Wishes /\ last' = want /\ server' = server
    BY <1>2 DEF Rollover, Retire, IInv, TypeOK
  <2>2. server = want
    BY <2>1 DEF Quiet, IInv
  <2> QED BY <2>1, <2>2 DEF Abstract!Next, Abstract!Turn
<1>3. CASE Check \/ QueryCurrentDS \/ QueryRefused \/ ResolveParentSOA \/ ExchangeFails \/ Crash
  BY <1>3 DEF Check, QueryCurrentDS, QueryRefused, ResolveParentSOA, ExchangeFails, Crash,
              world, zone
<1>4. CASE Learn
  BY <1>4 DEF Learn
<1>5. ASSUME NEW wish \in wishes, Forget(wish) PROVE UNCHANGED <<want, last, server>>
  BY <1>5 DEF Forget
<1>6. ASSUME NEW old \in caches, Expire(old) PROVE UNCHANGED <<want, last, server>>
  BY <1>6 DEF Expire, zone
<1>7. CASE UNCHANGED vars
  BY <1>7 DEF vars, world, zone
<1> QED
  BY <1>1, <1>2, <1>3, <1>4, <1>5, <1>6, <1>7 DEF Next, Runner, Failure, World

\* Over failures, crashes, stale wishes and DS sets, and answers that were errors,
\* the parent never loses a record that the zone's last two wishes share, and never
\* gains one that neither has; and it has the wish when the zone turns from it.
THEOREM ImplementsPublication ==
  ASSUME Patient
  PROVE  Spec => IsPublication
<1>1. Init => Abstract!Init
  BY DEF Init, Abstract!Init
<1>2. IInv /\ [Next]_vars => [Abstract!Next]_<<want, last, server>>
  BY PublicationStep
<1> QED BY <1>1, <1>2, UpdateInductive, PTL DEF Spec, IsPublication, Abstract!Spec
=============================================================================
