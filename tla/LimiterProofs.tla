--------------------------- MODULE LimiterProofs ---------------------------
(***************************************************************************)
(* For any limit and any number of callers: the limiter keeps account of   *)
(* its slots, wakes its waiters and implements Slots.                      *)
(***************************************************************************)
EXTENDS Limiter, FiniteSetTheorems, SequenceTheorems, TLAPS

IInv == TypeOK /\ SlotsAreCalls /\ NoIdleSlot /\ QueueIsWaiting

LEMMA HoldingIsFinite == IsFiniteSet(Holding) /\ Cardinality(Holding) \in Nat
<1>1. Holding \subseteq Callers
  BY DEF Holding
<1> QED BY <1>1, CallersAssumption, FS_Subset, FS_CardinalityType

\* A caller that takes a slot adds one to the calls at work.
LEMMA OneMore ==
  ASSUME NEW c \in Callers \ Holding, Holding' = Holding \cup {c}
  PROVE  Cardinality(Holding') = Cardinality(Holding) + 1
  BY HoldingIsFinite, FS_AddElement

\* A caller that leaves takes one from them.
LEMMA OneLess ==
  ASSUME NEW c \in Holding, Holding' = Holding \ {c}
  PROVE  Cardinality(Holding') = Cardinality(Holding) - 1
  BY HoldingIsFinite, FS_RemoveElement

\* A caller that hands its slot over changes nothing.
LEMMA OneForOne ==
  ASSUME NEW c \in Holding, NEW d \in Callers \ Holding, Holding' = (Holding \ {c}) \cup {d}
  PROVE  Cardinality(Holding') = Cardinality(Holding)
<1>1. IsFiniteSet(Holding \ {c}) /\ Cardinality(Holding \ {c}) = Cardinality(Holding) - 1
  BY HoldingIsFinite, FS_RemoveElement
<1>2. Cardinality((Holding \ {c}) \cup {d}) = Cardinality(Holding \ {c}) + 1
  BY <1>1, FS_AddElement
<1> QED BY <1>1, <1>2, HoldingIsFinite

LEMMA InitIInv == Init => IInv
<1> SUFFICES ASSUME Init PROVE IInv
  OBVIOUS
<1>1. Holding = {}
  BY DEF Init, Holding
<1>2. SlotsAreCalls
  BY <1>1, FS_EmptySet DEF Init, SlotsAreCalls
<1>3. QueueIsWaiting
  <2>1. 1..Len(queue) = {}
    BY DEF Init
  <2> QED BY <2>1 DEF Init, QueueIsWaiting
<1>4. TypeOK
  <2>1. sem \in 0..Limit /\ pc \in [Callers -> {"out", "waiting", "holding"}]
    BY LimitAssumption DEF Init
  <2>2. queue \in Seq(Callers)
    BY EmptySeq DEF Init
  <2> QED BY <2>1, <2>2 DEF Init, TypeOK
<1> QED BY <1>2, <1>3, <1>4 DEF Init, IInv, NoIdleSlot

LEMMA StepIInv == IInv /\ [Next]_vars => IInv'
<1> SUFFICES ASSUME IInv, [Next]_vars PROVE IInv'
  OBVIOUS
<1> USE LimitAssumption DEF IInv
<1>1. ASSUME NEW c \in Callers, Acquire(c) PROVE IInv'
  <2>1. TypeOK' /\ NoIdleSlot'
    BY <1>1 DEF Acquire, TypeOK, NoIdleSlot
  <2>2. SlotsAreCalls'
    <3>1. c \in Callers \ Holding /\ Holding' = Holding \cup {c}
      BY <1>1 DEF Acquire, Holding, TypeOK
    <3> QED BY <1>1, <3>1, OneMore DEF Acquire, SlotsAreCalls
  <2>3. QueueIsWaiting'
    BY <1>1 DEF Acquire, TypeOK, QueueIsWaiting
  <2> QED BY <2>1, <2>2, <2>3
<1>2. ASSUME NEW c \in Callers, Block(c) PROVE IInv'
  <2>1. TypeOK' /\ NoIdleSlot'
    BY <1>2 DEF Block, TypeOK, NoIdleSlot
  <2>2. SlotsAreCalls'
    <3>1. Holding' = Holding
      BY <1>2 DEF Block, Holding, TypeOK
    <3> QED BY <1>2, <3>1 DEF Block, SlotsAreCalls
  <2>3. QueueIsWaiting'
    <3>1. /\ Len(queue') = Len(queue) + 1
          /\ queue'[Len(queue) + 1] = c
          /\ \A i \in 1..Len(queue) : queue'[i] = queue[i]
          /\ Len(queue) \in Nat
      BY <1>2 DEF Block, TypeOK
    <3>2. \A i \in 1..Len(queue) : queue[i] # c
      BY <1>2 DEF Block, QueueIsWaiting
    <3>3. {d \in Callers : pc'[d] = "waiting"} = {d \in Callers : pc[d] = "waiting"} \cup {c}
      BY <1>2 DEF Block, TypeOK
    <3>4. {queue'[i] : i \in 1..Len(queue')} = {queue[i] : i \in 1..Len(queue)} \cup {c}
      BY <3>1
    <3>5. \A i, j \in 1..Len(queue') : queue'[i] = queue'[j] => i = j
      BY <3>1, <3>2 DEF QueueIsWaiting
    <3> QED BY <3>3, <3>4, <3>5 DEF QueueIsWaiting
  <2> QED BY <2>1, <2>2, <2>3
<1>3. ASSUME NEW i \in 1..Len(queue), GiveUp(i) PROVE IInv'
  <2>1. queue # <<>> /\ Len(queue) \in Nat \ {0} /\ queue[i] \in Callers
        /\ pc[queue[i]] = "waiting"
    BY <1>3 DEF TypeOK, QueueIsWaiting
  <2>2. queue' \in Seq(Callers) /\ Len(queue') = Len(queue) - 1
        /\ \A j \in 1..Len(queue') : queue'[j] = IF j < i THEN queue[j] ELSE queue[j + 1]
    <3> DEFINE q == [j \in 1..(Len(queue) - 1) |-> IF j < i THEN queue[j] ELSE queue[j + 1]]
    <3>1. queue' = q
      BY <1>3 DEF GiveUp, Without
    <3>2. \A j \in 1..(Len(queue) - 1) : q[j] \in Callers
      BY <2>1 DEF TypeOK
    <3>3. q \in [1..(Len(queue) - 1) -> Callers]
      BY <3>2
    <3>4. q \in Seq(Callers) /\ Len(q) = Len(queue) - 1
      <4> HIDE DEF q
      <4>1. Len(queue) - 1 \in Nat
        BY <2>1
      <4>2. q \in Seq(Callers)
        BY <3>3, <4>1, SeqDef
      <4> QED BY <3>3, <4>1, <4>2, LenProperties
    <3> QED BY <3>1, <3>4
  <2>3. TypeOK' /\ NoIdleSlot'
    BY <1>3, <2>1, <2>2 DEF GiveUp, TypeOK, NoIdleSlot
  <2>4. SlotsAreCalls'
    <3>1. Holding' = Holding
      BY <1>3, <2>1 DEF GiveUp, Holding, TypeOK
    <3> QED BY <1>3, <3>1 DEF GiveUp, SlotsAreCalls
  <2>5. \A j, k \in 1..Len(queue') : queue'[j] = queue'[k] => j = k
    BY <2>1, <2>2 DEF QueueIsWaiting
  <2>6. {queue'[j] : j \in 1..Len(queue')} = {queue[j] : j \in 1..Len(queue)} \ {queue[i]}
    <3>1. \A j \in 1..Len(queue') : \E k \in 1..Len(queue) : k # i /\ queue'[j] = queue[k]
      BY <2>1, <2>2
    <3>2. \A k \in 1..Len(queue) : k # i => \E j \in 1..Len(queue') : queue'[j] = queue[k]
      <4> SUFFICES ASSUME NEW k \in 1..Len(queue), k # i
                   PROVE  \E j \in 1..Len(queue') : queue'[j] = queue[k]
        OBVIOUS
      <4>1. CASE k < i
        BY <4>1, <2>1, <2>2
      <4>2. CASE k > i
        <5>1. k - 1 \in 1..Len(queue') /\ ~(k - 1 < i) /\ (k - 1) + 1 = k
          BY <4>2, <2>1, <2>2
        <5>2. queue'[k - 1] = queue[k]
          BY <5>1, <2>2
        <5> QED BY <5>1, <5>2
      <4> QED BY <4>1, <4>2
    <3>3. \A k \in 1..Len(queue) : k # i <=> queue[k] # queue[i]
      BY DEF QueueIsWaiting
    <3> DEFINE Before == {queue[k] : k \in 1..Len(queue)}
               After == {queue'[j] : j \in 1..Len(queue')}
    <3>4. After \subseteq Before \ {queue[i]}
      BY <3>1, <3>3
    <3>5. Before \ {queue[i]} \subseteq After
      BY <3>2, <3>3
    <3> QED BY <3>4, <3>5
  <2>7. {c \in Callers : pc'[c] = "waiting"} = {c \in Callers : pc[c] = "waiting"} \ {queue[i]}
    BY <1>3, <2>1 DEF GiveUp, TypeOK
  <2> QED BY <2>3, <2>4, <2>5, <2>6, <2>7 DEF QueueIsWaiting
<1>4. ASSUME NEW c \in Callers, Release(c) PROVE IInv'
  <2>1. c \in Holding /\ Holding' = Holding \ {c}
    BY <1>4 DEF Release, Holding, TypeOK
  <2>2. Cardinality(Holding) # 0
    BY <2>1, HoldingIsFinite, FS_EmptySet
  <2>3. SlotsAreCalls'
    BY <1>4, <2>1, OneLess DEF Release, SlotsAreCalls
  <2>4. TypeOK' /\ NoIdleSlot'
    BY <1>4, <2>2 DEF Release, TypeOK, NoIdleSlot, SlotsAreCalls
  <2>5. QueueIsWaiting'
    BY <1>4 DEF Release, TypeOK, QueueIsWaiting
  <2> QED BY <2>3, <2>4, <2>5
<1>5. ASSUME NEW c \in Callers, HandOver(c) PROVE IInv'
  <2>1. /\ Len(queue) \in Nat \ {0}
        /\ Head(queue) = queue[1]
        /\ Tail(queue) \in Seq(Callers)
        /\ Len(Tail(queue)) = Len(queue) - 1
        /\ \A i \in 1..Len(Tail(queue)) : Tail(queue)[i] = queue[i + 1]
    BY <1>5 DEF HandOver, TypeOK
  <2>2. queue[1] \in Callers /\ pc[queue[1]] = "waiting" /\ queue[1] # c
    BY <1>5, <2>1 DEF HandOver, QueueIsWaiting
  <2>3. TypeOK' /\ NoIdleSlot'
    BY <1>5, <2>1, <2>2 DEF HandOver, TypeOK, NoIdleSlot
  <2>4. SlotsAreCalls'
    <3>1. c \in Holding /\ queue[1] \in Callers \ Holding
          /\ Holding' = (Holding \ {c}) \cup {queue[1]}
      BY <1>5, <2>1, <2>2 DEF HandOver, Holding, TypeOK
    <3> QED BY <1>5, <3>1, OneForOne DEF HandOver, SlotsAreCalls
  <2>5. \A j, k \in 1..Len(queue') : queue'[j] = queue'[k] => j = k
    BY <1>5, <2>1 DEF HandOver, QueueIsWaiting
  <2>6. {queue'[j] : j \in 1..Len(queue')} = {queue[j] : j \in 1..Len(queue)} \ {queue[1]}
    <3>1. \A k \in 1..Len(queue) : k # 1 => \E j \in 1..Len(queue') : queue'[j] = queue[k]
      <4> SUFFICES ASSUME NEW k \in 1..Len(queue), k # 1
                   PROVE  \E j \in 1..Len(queue') : queue'[j] = queue[k]
        OBVIOUS
      <4>1. k - 1 \in 1..Len(Tail(queue)) /\ (k - 1) + 1 = k
        BY <2>1
      <4> QED BY <4>1, <2>1, <1>5 DEF HandOver
    <3>2. \A j \in 1..Len(queue') : j + 1 \in 1..Len(queue) /\ j + 1 # 1
                                    /\ queue'[j] = queue[j + 1]
      BY <1>5, <2>1 DEF HandOver
    <3>3. \A k \in 1..Len(queue) : k # 1 <=> queue[k] # queue[1]
      BY <2>1 DEF QueueIsWaiting
    <3> DEFINE Before == {queue[k] : k \in 1..Len(queue)}
               After == {queue'[j] : j \in 1..Len(queue')}
    <3>4. After \subseteq Before \ {queue[1]}
      BY <3>2, <3>3
    <3>5. Before \ {queue[1]} \subseteq After
      BY <3>1, <3>3
    <3> QED BY <3>4, <3>5
  <2>7. {d \in Callers : pc'[d] = "waiting"} = {d \in Callers : pc[d] = "waiting"} \ {queue[1]}
    BY <1>5, <2>1, <2>2 DEF HandOver, TypeOK
  <2> QED BY <2>3, <2>4, <2>5, <2>6, <2>7 DEF QueueIsWaiting
<1>6. ASSUME Cancel PROVE IInv'
  <2>1. Holding' = Holding
    BY <1>6 DEF Cancel, Holding
  <2> QED BY <1>6, <2>1 DEF Cancel, TypeOK, SlotsAreCalls, NoIdleSlot, QueueIsWaiting
<1>7. ASSUME UNCHANGED vars PROVE IInv'
  <2>1. Holding' = Holding
    BY <1>7 DEF vars, Holding
  <2> QED BY <1>7, <2>1 DEF vars, TypeOK, SlotsAreCalls, NoIdleSlot, QueueIsWaiting
<1> QED BY <1>1, <1>2, <1>3, <1>4, <1>5, <1>6, <1>7 DEF Next, Leave

\* The invariant holds in every behaviour.
THEOREM LimiterInductive == Spec => []IInv
<1>1. IInv /\ [Next]_vars => IInv'
  BY StepIInv
<1> QED BY <1>1, InitIInv, PTL DEF Spec

\* Types, for any limit and any callers.
THEOREM LimiterTypes == Spec => []TypeOK
<1>1. IInv => TypeOK
  BY DEF IInv
<1> QED BY <1>1, LimiterInductive, PTL

\* No slot is ever lost or taken twice.
THEOREM NoSlotIsLost == Spec => []SlotsAreCalls
<1>1. IInv => SlotsAreCalls
  BY DEF IInv
<1> QED BY <1>1, LimiterInductive, PTL

\* Nobody ever waits while a slot is free.
THEOREM NoLostWakeup == Spec => []NoIdleSlot
<1>1. IInv => NoIdleSlot
  BY DEF IInv
<1> QED BY <1>1, LimiterInductive, PTL

\* Each step of the channel is a step of the abstract limiter, or none.
LEMMA SlotsStep == IInv /\ [Next]_vars => [Abstract!Next]_Holding
<1> SUFFICES ASSUME IInv, [Next]_vars PROVE [Abstract!Next]_Holding
  OBVIOUS
<1> USE DEF IInv, TypeOK
<1>1. ASSUME NEW c \in Callers, Acquire(c) PROVE Abstract!Take(c)
  <2>1. c \notin Holding /\ Holding' = Holding \cup {c}
    BY <1>1 DEF Acquire, Holding
  <2>2. Cardinality(Holding) < Limit
    BY <1>1 DEF Acquire, SlotsAreCalls
  <2>3. Abstract!Cardinality(Holding) = Cardinality(Holding)
    BY DEF Cardinality, Abstract!Cardinality, IsFiniteSet, Abstract!IsFiniteSet
  <2> QED BY <2>1, <2>2, <2>3 DEF Abstract!Take
<1>2. ASSUME NEW c \in Callers, Release(c) PROVE Abstract!Give(c)
  BY <1>2 DEF Release, Holding, Abstract!Give
<1>3. ASSUME NEW c \in Callers, HandOver(c)
      PROVE  \E d \in Callers : Abstract!Pass(c, d)
  <2>1. Head(queue) = queue[1] /\ 1 \in 1..Len(queue)
    BY <1>3 DEF HandOver
  <2>2. queue[1] \in Callers /\ pc[queue[1]] = "waiting"
    BY <2>1 DEF QueueIsWaiting
  <2>3. c \in Holding /\ queue[1] \notin Holding
        /\ Holding' = (Holding \ {c}) \cup {queue[1]}
    BY <1>3, <2>1, <2>2 DEF HandOver, Holding
  <2> QED BY <2>2, <2>3 DEF Abstract!Pass
<1>4. ASSUME NEW c \in Callers, Block(c) PROVE UNCHANGED Holding
  BY <1>4 DEF Block, Holding
<1>5. ASSUME NEW i \in 1..Len(queue), GiveUp(i) PROVE UNCHANGED Holding
  <2>1. queue[i] \in Callers /\ pc[queue[i]] = "waiting"
    BY DEF QueueIsWaiting
  <2> QED BY <1>5, <2>1 DEF GiveUp, Holding
<1>6. ASSUME Cancel \/ UNCHANGED vars PROVE UNCHANGED Holding
  BY <1>6 DEF Cancel, vars, Holding
<1> QED BY <1>1, <1>2, <1>3, <1>4, <1>5, <1>6 DEF Next, Leave, Abstract!Next

\* The channel keeps at most Limit calls at work, in every behaviour.
THEOREM ImplementsSlots == Spec => KeepsLimit
<1>1. Init => Abstract!Init
  BY DEF Init, Holding, Abstract!Init
<1>2. IInv /\ [Next]_vars => [Abstract!Next]_Holding
  BY SlotsStep
<1> QED BY <1>1, <1>2, LimiterInductive, PTL DEF Spec, KeepsLimit, Abstract!Spec
=============================================================================
