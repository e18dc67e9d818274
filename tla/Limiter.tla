------------------------------ MODULE Limiter ------------------------------
(***************************************************************************)
(* The limiter that bounds a plugin's concurrent API calls over all groups *)
(* and zones (internal/plugin/limiter.go, ovhv1_throttle.go): a buffered   *)
(* channel used as a semaphore.                                            *)
(*                                                                         *)
(* The channel is modelled as the Go runtime implements it: a send to a    *)
(* full channel queues the sender; a receive hands the slot to the first   *)
(* sender in the queue, if any.  A select with a cancelled context may     *)
(* take either branch when the channel has room.                           *)
(***************************************************************************)
EXTENDS Naturals, Sequences, FiniteSets

CONSTANTS Callers,   \* the goroutines that call the API, one per zone
          Limit      \* max_concurrency

ASSUME LimitAssumption == Limit \in Nat \ {0}     \* NewLimiter
ASSUME CallersAssumption == IsFiniteSet(Callers)

VARIABLES
  sem,        \* the number of values in the channel's buffer
  queue,      \* the goroutines blocked in a send, in order
  pc,         \* "out" of WithLimiter, "waiting" in Acquire, "holding" a slot
  cancelled   \* the engine's context

vars == <<sem, queue, pc, cancelled>>

Init ==
  /\ sem = 0
  /\ queue = <<>>
  /\ pc = [c \in Callers |-> "out"]
  /\ cancelled = FALSE

\* Mutant of Acquire: there is always room.
AcquireUnbounded(c) ==
  /\ pc[c] = "out"
  /\ sem' = sem + 1
  /\ pc' = [pc EXCEPT ![c] = "holding"]
  /\ UNCHANGED <<queue, cancelled>>

\* Acquire finds room in the channel.
Acquire(c) ==
  /\ pc[c] = "out"
  /\ sem < Limit
  /\ sem' = sem + 1
  /\ pc' = [pc EXCEPT ![c] = "holding"]
  /\ UNCHANGED <<queue, cancelled>>

\* Acquire finds neither room nor a cancelled context: the goroutine blocks.
Block(c) ==
  /\ pc[c] = "out"
  /\ sem = Limit
  /\ ~cancelled
  /\ queue' = Append(queue, c)
  /\ pc' = [pc EXCEPT ![c] = "waiting"]
  /\ UNCHANGED <<sem, cancelled>>

\* The queue without its i-th goroutine.
Without(q, i) == [j \in 1..(Len(q) - 1) |-> IF j < i THEN q[j] ELSE q[j + 1]]

\* A blocked Acquire sees the cancellation: it leaves the queue with an error.
GiveUp(i) ==
  /\ cancelled
  /\ pc' = [pc EXCEPT ![queue[i]] = "out"]
  /\ queue' = Without(queue, i)
  /\ UNCHANGED <<sem, cancelled>>

\* Mutant of Release: a call ends without giving its slot back.
ReleaseNothing(c) ==
  /\ pc[c] = "holding"
  /\ queue = <<>>
  /\ pc' = [pc EXCEPT ![c] = "out"]
  /\ UNCHANGED <<sem, queue, cancelled>>

\* Mutant of Release: nobody is woken.
ReleaseSilently(c) ==
  /\ pc[c] = "holding"
  /\ sem' = sem - 1
  /\ pc' = [pc EXCEPT ![c] = "out"]
  /\ UNCHANGED <<queue, cancelled>>

\* WithLimiter's deferred Release, however fn ended, with nobody waiting.
Release(c) ==
  /\ pc[c] = "holding"
  /\ queue = <<>>
  /\ sem' = sem - 1
  /\ pc' = [pc EXCEPT ![c] = "out"]
  /\ UNCHANGED <<queue, cancelled>>

\* Release with goroutines waiting: the first one's value takes the place.
HandOver(c) ==
  /\ pc[c] = "holding"
  /\ queue # <<>>
  /\ pc' = [pc EXCEPT ![c] = "out", ![Head(queue)] = "holding"]
  /\ queue' = Tail(queue)
  /\ UNCHANGED <<sem, cancelled>>

\* The engine cancels the context.
Cancel ==
  /\ ~cancelled
  /\ cancelled' = TRUE
  /\ UNCHANGED <<sem, queue, pc>>

Leave(c) == Release(c) \/ HandOver(c)

Next ==
  \/ \E c \in Callers : Acquire(c) \/ Block(c) \/ Leave(c)
  \/ \E i \in 1..Len(queue) : GiveUp(i)
  \/ Cancel

Spec == Init /\ [][Next]_vars

\* A call made under the limiter ends: it has the client's timeout.  A blocked
\* goroutine whose context is cancelled is woken.  Nobody has to call.
Fairness ==
  /\ \A c \in Callers : WF_vars(Leave(c))
  /\ WF_vars(\E i \in 1..Len(queue) : GiveUp(i))

LiveSpec == Spec /\ Fairness

-----------------------------------------------------------------------------
Holding == {c \in Callers : pc[c] = "holding"}

TypeOK ==
  /\ sem \in 0..Limit
  /\ queue \in Seq(Callers)
  /\ pc \in [Callers -> {"out", "waiting", "holding"}]
  /\ cancelled \in BOOLEAN

\* No slot is lost and none is taken twice: the channel holds one value for
\* each call at work, after any errors and cancellations (limiter.go:62-77).
SlotsAreCalls == sem = Cardinality(Holding)

\* Nobody waits while a slot is free (no lost wake-up).
NoIdleSlot == queue # <<>> => sem = Limit

\* The queue holds each waiting goroutine, and once.
QueueIsWaiting ==
  /\ {queue[i] : i \in 1..Len(queue)} = {c \in Callers : pc[c] = "waiting"}
  /\ \A i, j \in 1..Len(queue) : queue[i] = queue[j] => i = j

\* Who waits gets a slot or gives up, whatever the other callers do.
WaiterIsServed == \A c \in Callers : pc[c] = "waiting" ~> pc[c] # "waiting"

\* The limiter keeps the promise of a limiter.
Abstract == INSTANCE Slots WITH busy <- Holding
KeepsLimit == Abstract!Spec
=============================================================================
