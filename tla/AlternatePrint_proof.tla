------------------------ MODULE AlternatePrint_proof ------------------------
(***************************************************************************)
(* Proofs about AlternatePrint, for every Limit, with and without spurious *)
(* wakeups and failing pthread_create.                                     *)
(***************************************************************************)
EXTENDS AlternatePrint, TLAPS

\* The thread that holds the mutex is the one inside the critical section.
OwnerInside == \A t \in Threads : mutex = t <=> pc[t] \in InCriticalSection

\* Sleepers are inside pthread_cond_wait.
SleepersWait == \A t \in waiting : pc[t] = "cond"

\* A thread that has raised the counter and not yet unlocked has passed the
\* turn to the other one.
TurnPassed == \A t \in Threads : pc[t] \in {"signal", "unlock"} => Blocked(t)

\* The thread that raised the counter last is the one that would have to wait.
LastBlocked == \A t \in Threads : Blocked(t) <=> last = t

\* Above the limit the thread that raised the counter last is on its way out
\* and raises it no more; a thread returns only above the limit, and at
\* Limit + 1 only the last one to raise it has.
EndGame ==
    /\ global_count <= Limit + 2
    /\ global_count > Limit =>
          \A t \in Threads : Blocked(t) => pc[t] \in {"signal", "unlock", "returned"}
    /\ global_count = Limit + 2 =>
          \A t \in Threads : pc[t] \in {"signal", "unlock", "returned"}
    /\ \A t \in Threads : pc[t] = "returned" =>
          /\ global_count > Limit
          /\ global_count = Limit + 1 => Blocked(t)

\* A thread is not created twice.
NotYetBorn == /\ main = "create_odd" => pc["odd_thread"] = "unborn"
              /\ main \in {"create_odd", "create_even"} => pc["even_thread"] = "unborn"

\* What main has joined is at its end.
Joined == /\ main \in {"join_even", "destroy", "exited"} =>
                pc["odd_thread"] \in {"returned", "absent"}
          /\ main \in {"destroy", "exited"} =>
                pc["even_thread"] \in {"returned", "absent"}

IInv == /\ TypeOK
        /\ NotYetBorn
        /\ Joined
        /\ OwnerInside
        /\ SleepersWait
        /\ LastBlocked
        /\ TurnPassed
        /\ NoLostWakeup
        /\ EndGame

\* Exactly one of the two threads is blocked, and raising the counter by one
\* swaps them.
LEMMA Parity ==
    ASSUME NEW n \in Nat
    PROVE  /\ n % 2 \in {0, 1}
           /\ (n + 1) % 2 = 1 - (n % 2)
  OBVIOUS

\* The process starts in the strengthened invariant: no thread exists yet.
LEMMA InitIInv == Init => IInv
  BY ThreadsAssumption, LimitAssumption, TwoThreads
  DEF Init, SyncInit, IInv, TypeOK, SyncTypeOK, MainSteps, InLoop, OwnerInside,
      InCriticalSection, SleepersWait, LastBlocked, TurnPassed, NoLostWakeup, EndGame,
      Blocked, NotYetBorn, Joined

\* An increment by one thread hands the turn over to the other one.
LEMMA TurnFlips ==
    ASSUME global_count \in Nat, global_count' = global_count + 1,
           NEW t \in Threads
    PROVE  Blocked(t)' <=> ~Blocked(t)
  <1>1. /\ global_count % 2 \in {0, 1}
        /\ (global_count + 1) % 2 = 1 - (global_count % 2)
    BY Parity
  <1>2. QED
    BY <1>1 DEF Blocked

\* Of two different threads exactly one is blocked.
LEMMA OneBlocked ==
    ASSUME global_count \in Nat, NEW t \in Threads, NEW u \in Threads, t # u
    PROVE  Blocked(t) <=> ~Blocked(u)
  <1>1. global_count % 2 \in {0, 1}
    BY Parity
  <1>2. QED
    BY <1>1, TwoThreads DEF Blocked

\* Every step of a thread, of main and of the condition variable preserves the
\* strengthened invariant.
LEMMA StepIInv == IInv /\ [Next]_vars => IInv'
  <1> SUFFICES ASSUME IInv, [Next]_vars
               PROVE  IInv'
    OBVIOUS
  <1> USE ThreadsAssumption, LimitAssumption
  <1> USE DEF IInv, TypeOK, SyncTypeOK, InLoop, NotYetBorn, Joined
  <1>1. ASSUME NEW t \in Threads, Lock(t)
        PROVE  IInv'
    <2>1. OwnerInside' /\ SleepersWait' /\ LastBlocked' /\ TurnPassed' /\ NoLostWakeup'
      BY <1>1 DEF Lock, pthread_mutex_lock, OwnerInside, InCriticalSection,
                  SleepersWait, LastBlocked, TurnPassed, NoLostWakeup, Blocked
    <2>2. EndGame'
      BY <1>1 DEF Lock, EndGame, Blocked
    <2>3. QED
      BY <1>1, <2>1, <2>2 DEF Lock, pthread_mutex_lock
  <1>2. ASSUME NEW t \in Threads, Wait(t)
        PROVE  IInv'
    <2>1. OwnerInside' /\ SleepersWait' /\ LastBlocked' /\ TurnPassed' /\ NoLostWakeup'
      BY <1>2 DEF Wait, pthread_cond_wait, OwnerInside, InCriticalSection,
                  SleepersWait, LastBlocked, TurnPassed, NoLostWakeup, Blocked
    <2>2. EndGame'
      BY <1>2 DEF Wait, EndGame, Blocked
    <2>3. QED
      BY <1>2, <2>1, <2>2 DEF Wait, pthread_cond_wait
  <1>3. ASSUME NEW t \in Threads, Resume(t)
        PROVE  IInv'
    <2>1. OwnerInside' /\ SleepersWait' /\ LastBlocked' /\ TurnPassed' /\ NoLostWakeup'
      BY <1>3 DEF Resume, CondWaitReturns, pthread_mutex_lock, OwnerInside,
                  InCriticalSection, SleepersWait, LastBlocked, TurnPassed, NoLostWakeup, Blocked
    <2>2. EndGame'
      BY <1>3 DEF Resume, EndGame, Blocked
    <2>3. QED
      BY <1>3, <2>1, <2>2 DEF Resume, CondWaitReturns, pthread_mutex_lock
  <1>4. ASSUME NEW t \in Threads, Increment(t)
        PROVE  IInv'
    <2>1. global_count' = global_count + 1
      BY <1>4 DEF Increment
    <2>2. \A u \in Threads : Blocked(u)' <=> ~Blocked(u)
      BY <2>1, TurnFlips
    <2>3. \A u \in Threads : u # t => Blocked(u)
      BY <1>4, OneBlocked DEF Increment
    <2>4. OwnerInside' /\ SleepersWait'
      BY <1>4 DEF Increment, OwnerInside, InCriticalSection, SleepersWait
    <2>5. LastBlocked'
      BY <1>4, <2>2, <2>3 DEF Increment, LastBlocked
    <2>6. TurnPassed'
      <3>1. \A u \in Threads : pc[u] \in {"signal", "unlock"} => FALSE
        BY <1>4 DEF Increment, OwnerInside, InCriticalSection
      <3>2. QED
        BY <1>4, <2>2, <3>1 DEF Increment, TurnPassed
    <2>7. NoLostWakeup'
      BY <1>4, <2>2 DEF Increment, NoLostWakeup, SleepersWait
    <2>8. EndGame'
      <3>1. global_count < Limit + 2
        BY <1>4 DEF Increment, EndGame
      <3>2. \A u \in Threads : u # t /\ global_count > Limit
                 => pc[u] \in {"signal", "unlock", "returned"}
        BY <2>3 DEF EndGame
      <3>3. \A u \in Threads : pc'[u] = IF u = t THEN "signal" ELSE pc[u]
        BY <1>4 DEF Increment
      <3>4. \A u \in Threads : u # t => ~Blocked(u)'
        BY <2>2, <2>3
      <3>5. QED
        BY <2>1, <3>1, <3>2, <3>3, <3>4 DEF EndGame
    <2>9. QED
      BY <1>4, <2>4, <2>5, <2>6, <2>7, <2>8 DEF Increment
  <1>5. ASSUME NEW t \in Threads, Signal(t)
        PROVE  IInv'
    <2>1. waiting' \subseteq waiting
      BY <1>5 DEF Signal, pthread_cond_signal
    <2>2. OwnerInside' /\ SleepersWait' /\ LastBlocked' /\ TurnPassed'
      BY <1>5, <2>1 DEF Signal, OwnerInside, InCriticalSection, SleepersWait,
                        LastBlocked, TurnPassed, Blocked
    <2>3. NoLostWakeup'
      <3>1. \A u \in waiting : u # t
        BY <1>5 DEF Signal, SleepersWait
      <3>2. \A u, v \in waiting : u = v
        BY <1>5, <3>1, TwoThreads
      <3>3. waiting' = {}
        BY <1>5, <3>2 DEF Signal, pthread_cond_signal
      <3>4. QED
        BY <3>3 DEF NoLostWakeup
    <2>4. EndGame'
      BY <1>5 DEF Signal, EndGame, Blocked
    <2>5. QED
      BY <1>5, <2>1, <2>2, <2>3, <2>4 DEF Signal
  <1>6. ASSUME NEW t \in Threads, Unlock(t)
        PROVE  IInv'
    <2>1. OwnerInside' /\ SleepersWait' /\ LastBlocked' /\ TurnPassed' /\ NoLostWakeup'
      BY <1>6 DEF Unlock, pthread_mutex_unlock, OwnerInside, InCriticalSection,
                  SleepersWait, LastBlocked, TurnPassed, NoLostWakeup, Blocked
    <2>2. EndGame'
      <3>1. Blocked(t)
        BY <1>6 DEF Unlock, TurnPassed
      <3>2. QED
        BY <1>6, <3>1 DEF Unlock, EndGame, Blocked
    <2>3. QED
      BY <1>6, <2>1, <2>2 DEF Unlock, pthread_mutex_unlock
  <1>7. ASSUME NEW t \in Threads, WakeUnsignalled(t)
        PROVE  IInv'
    BY <1>7 DEF WakeUnsignalled, SpuriousWakeup, OwnerInside, SleepersWait,
                LastBlocked, TurnPassed, NoLostWakeup, EndGame, Blocked
  <1>8. ASSUME NEW t \in Threads, NEW from \in MainSteps, NEW to \in MainSteps,
               pc[t] = "unborn", Create(t, from, to),
               \/ from = "create_odd" /\ to = "create_even" /\ t = "odd_thread"
               \/ to = "join_odd"
        PROVE  IInv'
    <2>1. PICK outcome \in {"lock", "absent"} : pc' = [pc EXCEPT ![t] = outcome]
      BY <1>8 DEF Create
    <2>2. OwnerInside' /\ SleepersWait' /\ LastBlocked' /\ TurnPassed' /\ NoLostWakeup'
      BY <1>8, <2>1 DEF Create, OwnerInside, InCriticalSection, SleepersWait,
                        LastBlocked, TurnPassed, NoLostWakeup, Blocked
    <2>3. EndGame'
      BY <1>8, <2>1 DEF Create, EndGame, Blocked
    <2>4. NotYetBorn'
      BY <1>8, <2>1, TwoThreads DEF Create
    <2>5. TypeOK'
      BY <1>8, <2>1 DEF Create
    <2>6. Joined'
      BY <1>8 DEF Create
    <2>7. QED
      BY <2>2, <2>3, <2>4, <2>5, <2>6
  <1>9. ASSUME NEW t \in Threads, NEW from \in MainSteps,
               NEW to \in {"join_even", "destroy"}, Join(t, from, to),
               \/ t = "odd_thread" /\ to = "join_even"
               \/ t = "even_thread" /\ from = "join_even"
        PROVE  IInv'
    BY <1>9 DEF Join, MainSteps, OwnerInside, SleepersWait, LastBlocked, TurnPassed,
                NoLostWakeup, EndGame, Blocked
  <1>10. CASE Destroy
    BY <1>10 DEF Destroy, MainSteps, OwnerInside, SleepersWait, LastBlocked, TurnPassed,
                 NoLostWakeup, EndGame, Blocked
  <1>11. CASE UNCHANGED vars
    BY <1>11 DEF vars, OwnerInside, SleepersWait, LastBlocked, TurnPassed, NoLostWakeup,
                 EndGame, Blocked
  <1>12. CASE MainNext
    <2>1. CASE Create("odd_thread", "create_odd", "create_even")
      BY <2>1, <1>8, TwoThreads DEF Create, MainSteps
    <2>2. CASE Create("even_thread", "create_even", "join_odd")
      BY <2>2, <1>8, TwoThreads DEF Create, MainSteps
    <2>3. CASE Join("odd_thread", "join_odd", "join_even")
      BY <2>3, <1>9, TwoThreads DEF MainSteps
    <2>4. CASE Join("even_thread", "join_even", "destroy")
      BY <2>4, <1>9, TwoThreads DEF MainSteps
    <2>5. QED
      BY <1>10, <1>12, <2>1, <2>2, <2>3, <2>4 DEF MainNext
  <1>13. QED
    BY <1>1, <1>2, <1>3, <1>4, <1>5, <1>6, <1>7, <1>11, <1>12
    DEF Next, ThreadNext, Over

\* The strengthened invariant holds of every behaviour of the program.
LEMMA Inductive == Spec => []IInv
  <1>1. QED
    BY InitIInv, StepIInv, PTL DEF Spec

\* The variables keep their types, whatever the schedule: in particular the
\* mutex is only ever held by one of the two threads (lines 16-48).
THEOREM TypeCorrect == Spec => []TypeOK
  BY Inductive, PTL DEF IInv

\* No signal is lost: in every reachable state, for every Limit, a thread that
\* sleeps through its turn is about to be signalled (lines 19-24 and 36-41).
THEOREM NoWakeupIsLost == Spec => []NoLostWakeup
  BY Inductive, PTL DEF IInv

\* The counter stops at exactly Limit + 2, 102 in the code, and main destroys
\* the mutex when no thread uses it any more (lines 25-28, 42-45 and 54-63).
THEOREM CounterEnds == Spec => []EndCount
  <1>1. IInv => EndCount
    <2> SUFFICES ASSUME IInv PROVE EndCount
      OBVIOUS
    <2>1. global_count <= Limit + 2
      BY DEF IInv, EndGame
    <2>2. ASSUME \A t \in Threads : pc[t] = "returned"
          PROVE  global_count = Limit + 2
      <3>1. "odd_thread" \in Threads /\ "even_thread" \in Threads
        BY TwoThreads
      <3>2. global_count > Limit
        BY <2>2, <3>1 DEF IInv, EndGame
      <3>3. global_count # Limit + 1
        BY <2>2, <3>1, OneBlocked DEF IInv, EndGame, TypeOK
      <3>4. QED
        BY <2>1, <3>2, <3>3, LimitAssumption DEF IInv, TypeOK
    <2>3. main \in {"destroy", "exited"} =>
             \A t \in Threads : pc[t] \in {"returned", "absent"}
      BY TwoThreads DEF IInv, Joined
    <2>4. QED
      BY <2>1, <2>2, <2>3 DEF EndCount
  <1>2. QED
    BY Inductive, <1>1, PTL


\* An increment is a turn of the abstract specification.
LEMMA IncrementTakes ==
    ASSUME NEW t \in Threads, IInv, Increment(t)
    PROVE  Turns!Take(t)
  <1>1. global_count \in Nat /\ Limit \in Nat
    BY LimitAssumption DEF IInv, TypeOK
  <1>2. global_count < Limit + 2
    <2>1. global_count # Limit + 2
      BY DEF IInv, EndGame, Increment
    <2>2. QED
      BY <1>1, <2>1 DEF IInv, EndGame
  <1>3. global_count' = global_count + 1
    BY DEF Increment
  <1>4. last # t /\ last' = t
    BY DEF IInv, LastBlocked, Increment
  <1>5. QED
    BY <1>2, <1>3, <1>4 DEF Turns!Take

\* Every step of the program is a turn or leaves the counter alone.
LEMMA StepTakesTurn == IInv /\ [Next]_vars => [Turns!TurnNext]_(Turns!turnVars)
  <1> SUFFICES ASSUME IInv, [Next]_vars
               PROVE  Turns!TurnNext \/ UNCHANGED <<global_count, last>>
    BY DEF Turns!turnVars
  <1>1. ASSUME NEW t \in Threads, Increment(t)
        PROVE  Turns!TurnNext
    <2>1. Turns!Take(t)
      BY <1>1, IncrementTakes
    <2>2. QED
      BY <2>1, TwoThreads DEF Turns!TurnNext
  <1>2. CASE MainNext \/ Over \/ UNCHANGED vars
    BY <1>2 DEF MainNext, Create, Join, Destroy, Over, vars
  <1>3. ASSUME NEW t \in Threads,
               Lock(t) \/ Wait(t) \/ Resume(t) \/ Signal(t) \/ Unlock(t) \/ WakeUnsignalled(t)
        PROVE  UNCHANGED <<global_count, last>>
    BY <1>3 DEF Lock, Wait, Resume, Signal, Unlock, WakeUnsignalled
  <1>4. QED
    BY <1>1, <1>2, <1>3 DEF Next, ThreadNext

\* The program implements the turn-taking specification, for every Limit and
\* whatever the scheduler and the condition variable do: the threads raise the
\* counter strictly in turn (lines 16-48).
THEOREM ImplementsTurnTaking == Spec => TakesTurns
  <1>1. Init => Turns!TurnInit
    BY DEF Init, Turns!TurnInit
  <1>2. QED
    BY <1>1, StepTakesTurn, Inductive, PTL DEF Spec, TakesTurns, Turns!TurnSpec
=============================================================================
