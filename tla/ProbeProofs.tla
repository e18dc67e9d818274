----------------------------- MODULE ProbeProofs -----------------------------
(***************************************************************************)
(* What holds of the probe's timers for any keys, servers, delegations and *)
(* warning age, over any changes, failures and kills.  A timer of the file *)
(* is bounded from above by the age of the last reason to stop it          *)
(* (EarnedInv) and from below by its age in the file before (SurvivalInv). *)
(* Both say of a run under way what it has done so far: the servers in     *)
(* todo have not been asked, so nothing is known of their timers yet.      *)
(***************************************************************************)
EXTENDS Probe, TLAPS

-----------------------------------------------------------------------------
(* Ages.                                                                   *)

\* Ages stay within the warning age, and two ages grow in step.
LEMMA Ageing ==
  /\ \A a \in 0..Warn : Older(a) \in 0..Warn /\ a <= Older(a)
  /\ \A a, b \in 0..Warn : a <= b => Older(a) <= Older(b)
<1>1. Warn \in Nat /\ Warn > 0
  BY TimeAssumption
<1> QED BY <1>1 DEF Older

LEMMA AgeingStatus ==
  ASSUME NEW timers, IsStatus(timers)
  PROVE  /\ IsStatus(AllOlder(timers))
         /\ DOMAIN AllOlder(timers) = DOMAIN timers
         /\ \A t \in DOMAIN timers : AllOlder(timers)[t] = Older(timers[t])
  BY Ageing DEF IsStatus, AllOlder

LEMMA NoTimersStatus == IsStatus(NoTimers) /\ DOMAIN NoTimers = {}
  BY DEF IsStatus, NoTimers

\* A cached delegation expires and stays what it is.
LEMMA ShorterCache ==
  ASSUME NEW cache, IsCache(cache)
  PROVE  IsCache(Shorter(cache))
<1>1. CASE cache = NoCache
  BY <1>1 DEF IsCache, Shorter, NoCache
<1>2. CASE cache \in [ttl : 0..MaxTTL, of : Delegations]
  BY <1>2, TimeAssumption DEF IsCache, Shorter
<1> QED BY <1>1, <1>2 DEF IsCache

LEMMA RestrictedStatus ==
  ASSUME NEW timers, IsStatus(timers), NEW S, S \subseteq DOMAIN timers
  PROVE  /\ IsStatus(Restrict(timers, S))
         /\ DOMAIN Restrict(timers, S) = S
         /\ \A t \in S : Restrict(timers, S)[t] = timers[t]
  BY DEF IsStatus, Restrict

\* What check_rollover makes of the timers when server n has answered.
LEMMA RolloverStatus ==
  ASSUME NEW timers, IsStatus(timers), NEW n \in Servers,
         NEW dnskey \in SUBSET Keys, NEW signal
  PROVE  LET new == Rollover(timers, n, dnskey, signal)
         IN /\ IsStatus(new)
            /\ \A t \in DOMAIN new : \/ t \in DOMAIN timers /\ t[1] # n
                                     \/ t[1] = n /\ t[2] \in Missing(dnskey)
            /\ \A t \in DOMAIN new : new[t] = IF t \in DOMAIN timers THEN timers[t] ELSE 0
            /\ \A t \in DOMAIN timers : t[1] # n => t \in DOMAIN new
            /\ \A k \in Missing(dnskey) : <<n, k, Rule(k, signal)>> \in DOMAIN new
<1> DEFINE running == {<<n, k, Rule(k, signal)>> : k \in Missing(dnskey)}
           others == {t \in DOMAIN timers : t[1] # n}
           new == Rollover(timers, n, dnskey, signal)
<1>1. /\ DOMAIN new = others \cup running
      /\ \A t \in DOMAIN new : new[t] = IF t \in DOMAIN timers THEN timers[t] ELSE 0
  BY DEF Rollover
<1>2. \A k \in Missing(dnskey) : k \in Keys /\ Rule(k, signal) \in Rules
  BY DEF Missing, Rule, Rules
<1>3. running \subseteq Timers
  BY <1>2 DEF Timers
<1>4. IsStatus(new)
  BY <1>1, <1>3, TimeAssumption DEF IsStatus
<1>5. \A t \in running : t[1] = n /\ t[2] \in Missing(dnskey)
  OBVIOUS
<1>6. \A k \in Missing(dnskey) : <<n, k, Rule(k, signal)>> \in running
  OBVIOUS
<1> HIDE DEF running, new
<1>7. /\ \A t \in DOMAIN new : \/ t \in DOMAIN timers /\ t[1] # n
                               \/ t[1] = n /\ t[2] \in Missing(dnskey)
      /\ \A t \in DOMAIN timers : t[1] # n => t \in DOMAIN new
      /\ \A k \in Missing(dnskey) : <<n, k, Rule(k, signal)>> \in DOMAIN new
  BY <1>1, <1>5, <1>6
<1> QED BY <1>1, <1>4, <1>7 DEF new

-----------------------------------------------------------------------------
(* Types.                                                                  *)

LEMMA InitTypes == Init => TypeOK
<1> SUFFICES ASSUME Init PROVE TypeOK
  OBVIOUS
<1>1. parent \in Delegations /\ child \in [dnskey : SUBSET Keys, signal : SUBSET Keys]
  BY KeysAssumption, ServersAssumption DEF Init, Delegations
<1>2. IsCache(file.volatile) /\ IsStatus(file.permanent)
  BY NoTimersStatus DEF Init, NoEntry, IsCache
<1>3. IsCache(zone_cache) /\ IsStatus(zone_status)
  BY NoTimersStatus DEF Init, IsCache
<1>4. since \in [Servers \X Keys -> 0..Warn]
  BY TimeAssumption DEF Init
<1> QED BY <1>1, <1>2, <1>3, <1>4, BoundsAssumption DEF Init, TypeOK

LEMMA FaultTypes == TypeOK /\ Fault => faults' \in 0..MaxFaults
  BY BoundsAssumption DEF TypeOK, Fault

LEMMA IdleTypes ==
  Idle => /\ pc' = "idle" /\ color' = "green"
          /\ IsCache(zone_cache)' /\ IsStatus(zone_status)'
          /\ delegation' = NoCache.of
          /\ todo' = {} /\ collection' = {} /\ resolved' = {}
  BY NoTimersStatus DEF Idle, IsCache, IsStatus

\* The delegation a run judges, from the cache or from the parent, is one.
LEMMA JudgeTypes ==
  ASSUME TypeOK, NEW d \in Delegations, Judge(d)
  PROVE  /\ delegation' \in Delegations /\ IsStatus(zone_status') /\ todo' \subseteq Servers
         /\ resolved' \subseteq Servers \X Keys
         /\ pc' \in {"ask", "report"} /\ color' \in {"green", "alarm"}
<1>1. CASE d.ds = {} \/ d.ns = {}
  BY <1>1 DEF Judge, TypeOK
<1>2. CASE ~(d.ds = {} \/ d.ns = {})
  <2>1. d.ns \subseteq Servers
    BY ServersAssumption DEF Delegations
  <2>2. IsStatus(zone_status')
    BY <1>2, RestrictedStatus DEF Judge, TypeOK
  <2> QED BY <1>2, <2>1, <2>2 DEF Judge, TypeOK
<1> QED BY <1>1, <1>2

LEMMA StepTypes == TypeOK /\ [Next]_vars => TypeOK'
<1> SUFFICES ASSUME TypeOK, [Next]_vars PROVE TypeOK'
  OBVIOUS
<1> USE DEF world, run
<1>1. CASE Start
  BY <1>1 DEF Start, TypeOK, IsCache, IsStatus
<1>2. CASE UseCached
  <2>1. zone_cache.of \in Delegations
    BY <1>2 DEF UseCached, TypeOK, IsCache
  <2> QED BY <1>2, <2>1, JudgeTypes DEF UseCached, TypeOK, IsCache, IsStatus
<1>3. CASE Fetch
  <2>1. IsCache(zone_cache)'
    BY <1>3, TimeAssumption DEF Fetch, TypeOK, IsCache
  <2> QED BY <1>3, <2>1, JudgeTypes DEF Fetch, TypeOK, IsCache, IsStatus
<1>4. CASE FetchFails
  BY <1>4, FaultTypes DEF FetchFails, TypeOK, IsCache, IsStatus
<1>5. ASSUME NEW n \in Servers, Ask(n) \/ AskWithoutSignal(n) PROVE TypeOK'
  <2>1. ASSUME NEW signal \in SUBSET Keys, Answer(n, child.dnskey, signal),
               color' \in {"green", "alarm"}, UNCHANGED faults \/ Fault
        PROVE  TypeOK'
    <3>1. child.dnskey \in SUBSET Keys
      BY DEF TypeOK
    <3>2. IsStatus(zone_status')
      BY <2>1, <3>1, RolloverStatus DEF Answer, TypeOK
    <3>3. collection' \subseteq (SUBSET Keys) \X (SUBSET Keys)
      BY <2>1, <3>1 DEF Answer, TypeOK
    <3>4. resolved' \subseteq Servers \X Keys
      BY <2>1 DEF Answer, TypeOK
    <3>5. faults' \in 0..MaxFaults
      BY <2>1, FaultTypes DEF TypeOK
    <3> QED BY <2>1, <3>2, <3>3, <3>4, <3>5 DEF Answer, TypeOK, IsCache, IsStatus
  <2>2. child.signal \in SUBSET Keys /\ {} \in SUBSET Keys /\ color \in {"green", "alarm"}
    BY DEF TypeOK
  <2>3. CASE Ask(n)
    <3>1. Answer(n, child.dnskey, child.signal) /\ color' \in {"green", "alarm"}
      BY <2>2, <2>3 DEF Ask
    <3> QED BY <2>1, <2>2, <2>3, <3>1 DEF Ask
  <2>4. CASE AskWithoutSignal(n)
    BY <2>1, <2>2, <2>4 DEF AskWithoutSignal
  <2> QED BY <1>5, <2>3, <2>4
<1>6. ASSUME NEW n \in Servers, AskFails(n) PROVE TypeOK'
  BY <1>6, FaultTypes DEF AskFails, TypeOK, IsCache, IsStatus
<1>7. CASE Send
  <2>1. color' \in {"green", "alarm"} /\ faults' \in 0..MaxFaults
    BY <1>7, FaultTypes DEF Send, TypeOK
  <2> QED BY <1>7, <2>1 DEF Send, TypeOK, IsCache, IsStatus
<1>8. CASE Save
  <2>1. IsCache(file.volatile)' /\ IsStatus(file.permanent)'
    BY <1>8 DEF Save, TypeOK, IsCache, IsStatus
  <2>2. since' \in [Servers \X Keys -> 0..Warn]
    BY <1>8, TimeAssumption DEF Save, TypeOK
  <2>3. Idle /\ UNCHANGED <<world, faults, report>>
    BY <1>8 DEF Save
  <2> QED BY <2>1, <2>2, <2>3, IdleTypes DEF TypeOK
<1>9. CASE Tick
  <2>1. IsCache(file.volatile)' /\ IsStatus(file.permanent)'
    BY <1>9, ShorterCache, AgeingStatus DEF Tick, TypeOK
  <2>2. IsCache(zone_cache)' /\ IsStatus(zone_status)'
    BY <1>9, ShorterCache, AgeingStatus DEF Tick, TypeOK
  <2>3. since' \in [Servers \X Keys -> 0..Warn]
    BY <1>9, Ageing DEF Tick, TypeOK, AllOlder
  <2> QED BY <1>9, <2>1, <2>2, <2>3 DEF Tick, TypeOK
<1>10. CASE Change
  BY <1>10, BoundsAssumption DEF Change, TypeOK, IsCache, IsStatus
<1>11. CASE Kill
  <2>1. IsCache(file.volatile)' /\ IsStatus(file.permanent)'
    BY <1>11, NoTimersStatus DEF Kill, TypeOK, NoEntry, IsCache, IsStatus
  <2> QED BY <1>11, <2>1, IdleTypes, FaultTypes DEF Kill, TypeOK
<1>12. CASE RunElsewhere
  <2>1. IsCache(file.volatile)' /\ IsStatus(file.permanent)'
    BY <1>12, NoTimersStatus DEF RunElsewhere, NoEntry, IsCache, IsStatus
  <2> QED BY <1>12, <2>1, FaultTypes DEF RunElsewhere, TypeOK, IsCache, IsStatus
<1>13. CASE UNCHANGED vars
  BY <1>13 DEF vars, TypeOK, IsCache, IsStatus
<1> QED
  BY <1>1, <1>2, <1>3, <1>4, <1>5, <1>6, <1>7, <1>8, <1>9, <1>10, <1>11, <1>12, <1>13
  DEF Next, Step

\* The variables have their types: ages stay within the warning age, and no timer
\* is of another server or key than those there are (Checks.pm:230-344).
THEOREM ProbeTypes == Spec => []TypeOK
  BY InitTypes, StepTypes, PTL DEF Spec

-----------------------------------------------------------------------------
(* Not older.                                                              *)

\* A run has no reason to stop a timer it goes on with, nor any timer of a server
\* it has yet to ask; and before its first answer it has none at all.
EarnedInv ==
  /\ TimersAreEarned
  /\ pc = "idle" => zone_status = NoTimers
  /\ pc \in {"idle", "delegation"} => resolved = {}
  /\ \A t \in DOMAIN zone_status :
       /\ zone_status[t] <= since[<<t[1], t[2]>>]
       /\ <<t[1], t[2]>> \notin resolved
  /\ \A p \in resolved : p[1] \notin todo

LEMMA InitEarned == Init => EarnedInv
  BY NoTimersStatus DEF Init, EarnedInv, TimersAreEarned, NoEntry

LEMMA TimerPairs ==
  ASSUME NEW timers, IsStatus(timers), NEW t \in DOMAIN timers
  PROVE  /\ t = <<t[1], t[2], t[3]>> /\ t[1] \in Servers /\ t[2] \in Keys /\ t[3] \in Rules
         /\ <<t[1], t[2]>> \in Servers \X Keys
         /\ timers[t] \in 0..Warn
  BY DEF IsStatus, Timers

LEMMA JudgeKeepsEarned ==
  ASSUME TypeOK, EarnedInv, pc = "delegation", NEW d \in Delegations, Judge(d),
         UNCHANGED <<file, since>>
  PROVE  EarnedInv'
<1>1. resolved = {} /\ TimersAreEarned'
  BY DEF EarnedInv, TimersAreEarned
<1>2. CASE d.ds = {} \/ d.ns = {}
  BY <1>1, <1>2 DEF Judge, EarnedInv
<1>3. CASE ~(d.ds = {} \/ d.ns = {})
  <2> DEFINE S == {t \in DOMAIN zone_status : t[1] \in d.ns}
  <2>1. /\ DOMAIN zone_status' = S
        /\ \A t \in S : zone_status'[t] = zone_status[t]
    BY <1>3, RestrictedStatus DEF Judge, TypeOK
  <2>2. resolved' = (Servers \ d.ns) \X Keys /\ todo' = d.ns /\ pc' = "ask"
    BY <1>3 DEF Judge
  <2>3. ASSUME NEW t \in S
        PROVE  zone_status'[t] <= since'[<<t[1], t[2]>>] /\ <<t[1], t[2]>> \notin resolved'
    BY <2>1, <2>2, <2>3 DEF EarnedInv
  <2>4. \A p \in resolved' : p[1] \notin todo'
    BY <2>2
  <2> HIDE DEF S
  <2> QED BY <1>1, <2>1, <2>2, <2>3, <2>4 DEF EarnedInv
<1> QED BY <1>2, <1>3

\* A timer that check_rollover starts is young, and the server was not asked yet.
LEMMA AnswerKeepsEarned ==
  ASSUME TypeOK, EarnedInv, NEW n \in Servers, NEW signal, Answer(n, child.dnskey, signal)
  PROVE  EarnedInv'
<1> DEFINE dnskey == child.dnskey
<1>1. dnskey \in SUBSET Keys /\ n \in todo
  BY DEF TypeOK, Answer, IsNext
<1>2. zone_status' = Rollover(zone_status, n, dnskey, signal) /\ UNCHANGED <<file, pc, since>>
  BY DEF Answer
<1>3. resolved' = resolved \cup ({n} \X (Keys \ Missing(dnskey))) /\ todo' = todo \ {n}
  BY DEF Answer
<1>4. /\ IsStatus(zone_status')
      /\ \A t \in DOMAIN zone_status' : \/ t \in DOMAIN zone_status /\ t[1] # n
                                        \/ t[1] = n /\ t[2] \in Missing(dnskey)
      /\ \A t \in DOMAIN zone_status' :
           zone_status'[t] = IF t \in DOMAIN zone_status THEN zone_status[t] ELSE 0
  BY <1>1, <1>2, RolloverStatus DEF TypeOK
<1> HIDE DEF dnskey
<1>5. ASSUME NEW t \in DOMAIN zone_status'
      PROVE  zone_status'[t] <= since'[<<t[1], t[2]>>] /\ <<t[1], t[2]>> \notin resolved'
  <2>1. since[<<t[1], t[2]>>] \in 0..Warn
    BY <1>4, TimerPairs DEF TypeOK
  <2>2. zone_status'[t] <= since'[<<t[1], t[2]>>]
    BY <1>2, <1>4, <2>1 DEF EarnedInv
  <2>3. CASE t \in DOMAIN zone_status /\ t[1] # n
    BY <1>3, <2>2, <2>3 DEF EarnedInv
  <2>4. CASE t[1] = n /\ t[2] \in Missing(dnskey)
    <3>1. <<t[1], t[2]>> \notin resolved
      BY <1>1, <2>4 DEF EarnedInv
    <3> QED BY <1>3, <2>2, <2>4, <3>1
  <2> QED BY <1>4, <2>3, <2>4
<1>6. \A p \in resolved' : p[1] \notin todo'
  BY <1>3 DEF EarnedInv
<1>7. pc' = "ask" /\ TimersAreEarned'
  BY <1>2 DEF Answer, EarnedInv, TimersAreEarned
<1> QED BY <1>5, <1>6, <1>7 DEF EarnedInv

LEMMA IdleEarns ==
  ASSUME Idle, TimersAreEarned'
  PROVE  EarnedInv'
  BY NoTimersStatus DEF Idle, EarnedInv, NoTimers

LEMMA TickKeepsEarned == TypeOK /\ EarnedInv /\ Tick => EarnedInv'
<1> SUFFICES ASSUME TypeOK, EarnedInv, Tick PROVE EarnedInv'
  OBVIOUS
<1>1. \A p \in Servers \X Keys : since[p] \in 0..Warn /\ since'[p] = Older(since[p])
  BY DEF Tick, TypeOK, AllOlder
<1>2. ASSUME NEW timers, IsStatus(timers), NEW t \in DOMAIN timers,
             timers[t] <= since[<<t[1], t[2]>>]
      PROVE  AllOlder(timers)[t] <= since'[<<t[1], t[2]>>]
  BY <1>1, <1>2, TimerPairs, AgeingStatus, Ageing
<1>3. TimersAreEarned'
  BY <1>2, AgeingStatus DEF Tick, TypeOK, EarnedInv, TimersAreEarned
<1>4. /\ DOMAIN zone_status' = DOMAIN zone_status
      /\ \A t \in DOMAIN zone_status : zone_status'[t] <= since'[<<t[1], t[2]>>]
  BY <1>2, AgeingStatus DEF Tick, TypeOK, EarnedInv
<1>5. pc = "idle" => zone_status' = NoTimers
  BY DEF Tick, EarnedInv, NoTimers, AllOlder
<1> QED BY <1>3, <1>4, <1>5 DEF Tick, EarnedInv

LEMMA StepEarned == TypeOK /\ EarnedInv /\ [Next]_vars => EarnedInv'
<1> SUFFICES ASSUME TypeOK, EarnedInv, [Next]_vars PROVE EarnedInv'
  OBVIOUS
<1>1. CASE Start
  BY <1>1 DEF Start, EarnedInv, TimersAreEarned
<1>2. CASE UseCached
  <2>1. zone_cache.of \in Delegations
    BY <1>2 DEF UseCached, TypeOK, IsCache
  <2> QED BY <1>2, <2>1, JudgeKeepsEarned DEF UseCached
<1>3. CASE Fetch
  <2>1. parent \in Delegations
    BY DEF TypeOK
  <2> QED BY <1>3, <2>1, JudgeKeepsEarned DEF Fetch
<1>4. CASE FetchFails
  BY <1>4 DEF FetchFails, EarnedInv, TimersAreEarned
<1>5. ASSUME NEW n \in Servers, Ask(n) \/ AskWithoutSignal(n) PROVE EarnedInv'
  BY <1>5, AnswerKeepsEarned DEF Ask, AskWithoutSignal
<1>6. ASSUME NEW n \in Servers, AskFails(n) PROVE EarnedInv'
  BY <1>6 DEF AskFails, EarnedInv, TimersAreEarned
<1>7. CASE Send
  BY <1>7 DEF Send, EarnedInv, TimersAreEarned
<1>8. CASE Save
  <2>1. ASSUME NEW t \in DOMAIN zone_status PROVE zone_status[t] <= since'[<<t[1], t[2]>>]
    BY <1>8, <2>1, TimerPairs DEF Save, TypeOK, EarnedInv
  <2>2. TimersAreEarned'
    BY <1>8, <2>1 DEF Save, TimersAreEarned
  <2> QED BY <1>8, <2>2, IdleEarns DEF Save
<1>9. CASE Tick
  BY <1>9, TickKeepsEarned
<1>10. CASE Kill
  <2>1. TimersAreEarned'
    <3>1. file' = file \/ file'.permanent = NoTimers
      BY <1>10 DEF Kill, NoEntry
    <3>2. UNCHANGED since
      BY <1>10 DEF Kill
    <3> QED BY <3>1, <3>2, NoTimersStatus DEF EarnedInv, TimersAreEarned
  <2> QED BY <1>10, <2>1, IdleEarns DEF Kill
<1>11. CASE RunElsewhere
  <2>1. TimersAreEarned'
    BY <1>11, NoTimersStatus DEF RunElsewhere, TimersAreEarned, NoEntry
  <2> QED BY <1>11, <2>1 DEF RunElsewhere, run, EarnedInv
<1>12. CASE Change \/ UNCHANGED vars
  BY <1>12 DEF Change, vars, run, EarnedInv, TimersAreEarned
<1> QED
  BY <1>1, <1>2, <1>3, <1>4, <1>5, <1>6, <1>7, <1>8, <1>9, <1>10, <1>11, <1>12
  DEF Next, Step

\* No timer of the cache file is older than the last reason to stop it, whatever
\* the number of servers and keys, however the delegation and the keys change, and
\* whichever runs fail or are killed.
THEOREM TimersEarned == Spec => []TimersAreEarned
<1>1. EarnedInv => TimersAreEarned
  BY DEF EarnedInv
<1> QED BY <1>1, InitEarned, StepEarned, ProbeTypes, PTL DEF Spec

-----------------------------------------------------------------------------
(* Not younger.                                                            *)

\* The run has the timer t of the file, and it is not younger there.
Kept(t) == t \in DOMAIN zone_status /\ zone_status[t] >= file.permanent[t]

\* The run has learned why the timer is not to go on: its key is published or
\* gone, its server is out of the delegation, or the other rule has begun.
Answered(t) ==
  \/ <<t[1], t[2]>> \in resolved
  \/ \E r \in Rules \ {t[3]} : <<t[1], t[2], r>> \in DOMAIN zone_status

\* A run has every timer of the file that it has no answer about; and all those of
\* the servers it has still to ask.
SurvivalInv ==
  \A t \in DOMAIN file.permanent :
    /\ pc # "idle" => Kept(t) \/ Answered(t)
    /\ pc = "delegation" \/ t[1] \in todo => Kept(t)

LEMMA InitSurvival == Init => SurvivalInv
  BY NoTimersStatus DEF Init, SurvivalInv, NoEntry

LEMMA IdleSurvival == Idle => SurvivalInv'
  BY DEF Idle, SurvivalInv

LEMMA JudgeKeepsTimers ==
  ASSUME TypeOK, SurvivalInv, pc = "delegation", NEW d \in Delegations, Judge(d),
         UNCHANGED file
  PROVE  SurvivalInv'
<1>1. CASE d.ds = {} \/ d.ns = {}
  BY <1>1 DEF Judge, SurvivalInv, Kept, Answered
<1>2. CASE ~(d.ds = {} \/ d.ns = {})
  <2>1. resolved' = (Servers \ d.ns) \X Keys /\ todo' = d.ns /\ pc' = "ask"
    BY <1>2 DEF Judge
  <2>2. /\ DOMAIN zone_status' = {t \in DOMAIN zone_status : t[1] \in d.ns}
        /\ \A t \in DOMAIN zone_status : t[1] \in d.ns => zone_status'[t] = zone_status[t]
    BY <1>2, RestrictedStatus DEF Judge, TypeOK
  <2>3. ASSUME NEW t \in DOMAIN file.permanent
        PROVE  IF t[1] \in d.ns THEN Kept(t)' ELSE <<t[1], t[2]>> \in resolved'
    <3>1. t[1] \in Servers /\ t[2] \in Keys
      BY TimerPairs DEF TypeOK
    <3> QED BY <2>1, <2>2, <3>1 DEF SurvivalInv, Kept
  <2> QED BY <2>1, <2>3 DEF SurvivalInv, Answered
<1> QED BY <1>1, <1>2

\* check_rollover goes on with a timer, or has the answer that ends it.
LEMMA AnswerKeepsTimers ==
  ASSUME TypeOK, SurvivalInv, NEW n \in Servers, NEW signal, Answer(n, child.dnskey, signal)
  PROVE  SurvivalInv'
<1> DEFINE dnskey == child.dnskey
<1>1. dnskey \in SUBSET Keys /\ n \in todo /\ pc = "ask"
  BY DEF TypeOK, Answer, IsNext
<1>2. zone_status' = Rollover(zone_status, n, dnskey, signal) /\ UNCHANGED <<file, pc>>
  BY DEF Answer
<1>3. resolved' = resolved \cup ({n} \X (Keys \ Missing(dnskey))) /\ todo' = todo \ {n}
  BY DEF Answer
<1>4. /\ \A t \in DOMAIN zone_status' :
           zone_status'[t] = IF t \in DOMAIN zone_status THEN zone_status[t] ELSE 0
      /\ \A t \in DOMAIN zone_status : t[1] # n => t \in DOMAIN zone_status'
      /\ \A k \in Missing(dnskey) : <<n, k, Rule(k, signal)>> \in DOMAIN zone_status'
  BY <1>1, <1>2, RolloverStatus DEF TypeOK
<1> HIDE DEF dnskey
<1>5. ASSUME NEW t \in DOMAIN file.permanent
      PROVE  /\ Kept(t)' \/ Answered(t)'
             /\ t[1] \in todo' => Kept(t)'
  <2>1. t = <<t[1], t[2], t[3]>> /\ t[2] \in Keys
    BY TimerPairs DEF TypeOK
  <2>2. CASE t[1] # n
    <3>1. Kept(t) => Kept(t)'
      BY <1>2, <1>4, <2>2 DEF Kept
    <3>2. Answered(t) => Answered(t)'
      BY <1>3, <1>4, <2>2 DEF Answered
    <3> QED BY <1>1, <1>3, <3>1, <3>2 DEF SurvivalInv
  <2>3. CASE t[1] = n /\ t[2] \in Missing(dnskey)
    <3>1. Kept(t) /\ t[1] \notin todo'
      BY <1>1, <1>3, <2>3 DEF SurvivalInv
    <3>2. CASE Rule(t[2], signal) = t[3]
      <4>1. t \in DOMAIN zone_status'
        BY <1>4, <2>1, <2>3, <3>2
      <4> QED BY <1>2, <1>4, <3>1, <4>1 DEF Kept
    <3>3. CASE Rule(t[2], signal) # t[3]
      <4>1. Rule(t[2], signal) \in Rules \ {t[3]}
        BY <3>3 DEF Rule, Rules
      <4> QED BY <1>4, <2>3, <3>1, <4>1 DEF Answered
    <3> QED BY <3>2, <3>3
  <2>4. CASE t[1] = n /\ t[2] \notin Missing(dnskey)
    BY <1>3, <2>1, <2>4 DEF Answered
  <2> QED BY <2>2, <2>3, <2>4
<1> QED BY <1>1, <1>2, <1>5 DEF SurvivalInv

\* Older is monotone, so ages keep their order.
LEMMA TickKeepsTimers == TypeOK /\ SurvivalInv /\ Tick => SurvivalInv'
<1> SUFFICES ASSUME TypeOK, SurvivalInv, Tick PROVE SurvivalInv'
  OBVIOUS
<1>1. DOMAIN file'.permanent = DOMAIN file.permanent /\ DOMAIN zone_status' = DOMAIN zone_status
  BY AgeingStatus DEF Tick, TypeOK
<1>2. ASSUME NEW t \in DOMAIN file.permanent PROVE Kept(t) => Kept(t)'
  <2> SUFFICES ASSUME Kept(t) PROVE Kept(t)'
    OBVIOUS
  <2>1. /\ file'.permanent[t] = Older(file.permanent[t])
        /\ zone_status'[t] = Older(zone_status[t])
    BY AgeingStatus DEF Tick, TypeOK, Kept
  <2>2. file.permanent[t] \in 0..Warn /\ zone_status[t] \in 0..Warn
    BY DEF TypeOK, IsStatus, Kept
  <2>3. Older(file.permanent[t]) <= Older(zone_status[t])
    BY <2>2, Ageing DEF Kept
  <2>4. Older(file.permanent[t]) \in 0..Warn /\ Older(zone_status[t]) \in 0..Warn
    BY <2>2, Ageing
  <2> QED BY <1>1, <2>1, <2>3, <2>4 DEF Kept
<1>3. \A t \in DOMAIN file.permanent : Answered(t) => Answered(t)'
  BY <1>1 DEF Tick, Answered
<1> QED BY <1>1, <1>2, <1>3 DEF Tick, SurvivalInv

LEMMA StepSurvival == TypeOK /\ SurvivalInv /\ [Next]_vars => SurvivalInv'
<1> SUFFICES ASSUME TypeOK, SurvivalInv, [Next]_vars PROVE SurvivalInv'
  OBVIOUS
<1>1. CASE Start
  <2>1. ASSUME NEW t \in DOMAIN file.permanent PROVE Kept(t)'
    <3>1. file.permanent[t] \in 0..Warn
      BY DEF TypeOK, IsStatus
    <3> QED BY <1>1, <3>1 DEF Start, Kept
  <2> QED BY <1>1, <2>1 DEF Start, SurvivalInv
<1>2. CASE UseCached
  <2>1. zone_cache.of \in Delegations
    BY <1>2 DEF UseCached, TypeOK, IsCache
  <2> QED BY <1>2, <2>1, JudgeKeepsTimers DEF UseCached
<1>3. CASE Fetch
  <2>1. parent \in Delegations
    BY DEF TypeOK
  <2> QED BY <1>3, <2>1, JudgeKeepsTimers DEF Fetch
<1>4. CASE FetchFails
  BY <1>4 DEF FetchFails, SurvivalInv, Kept, Answered
<1>5. ASSUME NEW n \in Servers, Ask(n) \/ AskWithoutSignal(n) PROVE SurvivalInv'
  BY <1>5, AnswerKeepsTimers DEF Ask, AskWithoutSignal
<1>6. ASSUME NEW n \in Servers, AskFails(n) PROVE SurvivalInv'
  BY <1>6 DEF AskFails, SurvivalInv, Kept, Answered
<1>7. CASE Send
  BY <1>7 DEF Send, SurvivalInv, Kept, Answered
<1>8. CASE Save \/ Kill
  BY <1>8, IdleSurvival DEF Save, Kill
<1>9. CASE Tick
  BY <1>9, TickKeepsTimers
<1>10. CASE RunElsewhere
  BY <1>10, NoTimersStatus DEF RunElsewhere, NoEntry, SurvivalInv
<1>11. CASE Change \/ UNCHANGED vars
  BY <1>11 DEF Change, vars, run, SurvivalInv, Kept, Answered
<1> QED
  BY <1>1, <1>2, <1>3, <1>4, <1>5, <1>6, <1>7, <1>8, <1>9, <1>10, <1>11 DEF Next, Step

\* A timer of the cache file is only stopped, or replaced by one that starts anew,
\* by the answer that ends its rollover or by the loss of the file: over runs that
\* fail half-way, for any servers and keys.
THEOREM TimersSurviving == Spec => TimersSurvive
<1> DEFINE Survives ==
      \/ file' = NoEntry /\ faults' # faults
      \/ \A t \in DOMAIN file.permanent :
           \/ <<t[1], t[2]>> \in resolved
           \/ \E r \in Rules \ {t[3]} : <<t[1], t[2], r>> \in DOMAIN file'.permanent
           \/ t \in DOMAIN file'.permanent /\ file'.permanent[t] >= file.permanent[t]
<1>1. TypeOK /\ SurvivalInv /\ [Next]_vars => [Survives]_file
  <2> SUFFICES ASSUME TypeOK, SurvivalInv, [Next]_vars, file' # file PROVE Survives
    OBVIOUS
  <2>1. CASE Save
    BY <2>1 DEF Save, SurvivalInv, Kept, Answered
  <2>2. CASE Tick
    <3>1. ASSUME NEW t \in DOMAIN file.permanent
          PROVE  t \in DOMAIN file'.permanent /\ file'.permanent[t] >= file.permanent[t]
      <4>1. file.permanent[t] \in 0..Warn
        BY DEF TypeOK, IsStatus
      <4>2. Older(file.permanent[t]) \in 0..Warn /\ file.permanent[t] <= Older(file.permanent[t])
        BY <4>1, Ageing
      <4> QED BY <2>2, <4>1, <4>2, AgeingStatus DEF Tick, TypeOK
    <3> QED BY <3>1
  <2>3. CASE Kill \/ RunElsewhere
    <3>1. file' = NoEntry /\ Fault
      BY <2>3 DEF Kill, RunElsewhere
    <3>2. faults' # faults
      BY <3>1 DEF Fault, TypeOK
    <3> QED BY <3>1, <3>2
  <2> QED
    BY <2>1, <2>2, <2>3
    DEF Next, Step, vars, Start, UseCached, Fetch, FetchFails, Ask, AskWithoutSignal, Answer,
        AskFails, Send, Change
<1> QED
  BY <1>1, InitSurvival, StepSurvival, ProbeTypes, PTL DEF Spec, TimersSurvive

=============================================================================
