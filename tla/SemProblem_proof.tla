------------------------- MODULE SemProblem_proof ---------------------------
(***************************************************************************)
(* Proofs about SemProblem, for every party, with and without spurious     *)
(* wakeups, interrupted waits and failing pthread_create, and whatever     *)
(* bound MaxCount puts on the spurious wakeups.                            *)
(***************************************************************************)
EXTENDS SemProblem, FiniteSetTheorems, TLAPS

InCriticalSection == {"count", "post", "wait", "unlock", "reset", "broadcast"}

\* The thread that holds the mutex is the one inside the critical section.
OwnerInside == \A t \in Threads : mutex = t <=> pc[t] \in InCriticalSection

\* Sleepers are producers inside pthread_cond_wait.
SleepersWait == /\ waiting \subseteq Producers
                /\ \A p \in waiting : pc[p] = "cond"

\* The counter is never behind the producers that have arrived, and equal to
\* their number before the first spurious wakeup.  Between the reset and the
\* broadcast it is 0 already: then all are there, if none was startled.
CountsArrivals ==
    /\ pc[Consumer] # "broadcast" => /\ count >= Cardinality(Arrived)
                                     /\ ~startled => count = Cardinality(Arrived)
    /\ pc[Consumer] = "broadcast" => /\ count = 0
                                     /\ ~startled => Arrived = Producers

IInv == /\ TypeOK
        /\ OwnerInside
        /\ SleepersWait
        /\ OneCall
        /\ CountsArrivals
-----------------------------------------------------------------------------
\* At most one thread is inside the critical section.
LEMMA OneInside ==
    ASSUME OwnerInside, NEW t \in Threads, NEW u \in Threads,
           pc[t] \in InCriticalSection, pc[u] \in InCriticalSection
    PROVE  t = u
  BY DEF OwnerInside

\* The producers that have arrived can be counted, and there are at most Party.
LEMMA ArrivedFinite ==
    ASSUME SleepersWait
    PROVE  /\ Arrived \in SUBSET Producers /\ IsFiniteSet(Arrived)
           /\ Cardinality(Arrived) \in Nat
           /\ Cardinality(Arrived) = Party => Arrived = Producers
  <1>1. Arrived \in SUBSET Producers
    BY DEF Arrived, SleepersWait
  <1>2. IsFiniteSet(Arrived) /\ (Cardinality(Arrived) = Party => Arrived = Producers)
    BY <1>1, FS_Subset, PartiesAssumption
  <1>3. QED
    BY <1>1, <1>2, FS_CardinalityType

\* Nobody has arrived before anybody was created.
LEMMA InitIInv == Init => IInv
  <1> SUFFICES ASSUME Init PROVE IInv
    OBVIOUS
  <1> USE ThreadsAssumption, PartiesAssumption
  <1>1. \A t \in Threads : pc[t] = "unborn"
    BY DEF Init
  <1>2. TypeOK
    BY DEF Init, SyncInit, TypeOK, SyncTypeOK, ProducerSteps, ConsumerSteps
  <1>3. OwnerInside /\ SleepersWait
    BY <1>1 DEF Init, SyncInit, OwnerInside, InCriticalSection, SleepersWait
  <1>4. OneCall
    BY <1>1 DEF Init, OneCall, Called
  <1>5. Arrived = {}
    BY <1>1 DEF Init, SyncInit, Arrived
  <1>6. CountsArrivals
    BY <1>1, <1>5, FS_EmptySet DEF Init, CountsArrivals
  <1>7. QED
    BY <1>2, <1>3, <1>4, <1>6 DEF IInv

\* A step that leaves Arrived, the counter, the call and the consumer's place at
\* the broadcast alone keeps the count of arrivals.
LEMMA CountKept ==
    ASSUME CountsArrivals, Arrived' = Arrived, count' = count, startled' = startled,
           pc'[Consumer] = "broadcast" <=> pc[Consumer] = "broadcast"
    PROVE  CountsArrivals'
  BY DEF CountsArrivals

\* pthread_create adds a thread that is outside and has not arrived.
LEMMA CreateStep == ASSUME IInv, NEW t \in Threads, Create(t) PROVE IInv'
  <1> USE ThreadsAssumption, PartiesAssumption
  <1>1. PICK l \in {"semwait", "lock", "absent"} :
           /\ pc' = [pc EXCEPT ![t] = l]
           /\ t = Consumer => l # "lock"
           /\ t # Consumer => l # "semwait"
    BY DEF Create, Goto
  <1>2. pc[t] = "unborn"
    BY DEF Create
  <1>3. TypeOK'
    BY <1>1 DEF IInv, TypeOK, SyncTypeOK, Create, ProducerSteps, ConsumerSteps
  <1>4. OwnerInside' /\ SleepersWait'
    BY <1>1, <1>2 DEF IInv, TypeOK, OwnerInside, InCriticalSection, SleepersWait, Create
  <1>5. OneCall'
    BY <1>1, <1>2 DEF IInv, TypeOK, OneCall, Called, Create
  <1>6. Arrived' = Arrived
    BY <1>1, <1>2 DEF IInv, TypeOK, Arrived, Create
  <1>7. CountsArrivals'
    BY <1>1, <1>2, <1>6, CountKept DEF IInv, TypeOK, Create
  <1>8. QED
    BY <1>3, <1>4, <1>5, <1>7 DEF IInv

\* Locking, by a producer or by the consumer.
LEMMA LockStep ==
    ASSUME IInv, NEW t \in Threads, NEW next, Lock(t, next),
           \/ t \in Producers /\ next = "count"
           \/ t = Consumer /\ next = "reset"
    PROVE  IInv'
  <1> USE ThreadsAssumption, PartiesAssumption
  <1>1. pc' = [pc EXCEPT ![t] = next] /\ pc[t] = "lock"
    BY DEF Lock, Goto
  <1>2. TypeOK'
    BY <1>1 DEF IInv, TypeOK, SyncTypeOK, Lock, pthread_mutex_lock, ProducerSteps,
                ConsumerSteps
  <1>3. OwnerInside' /\ SleepersWait'
    BY <1>1 DEF IInv, TypeOK, OwnerInside, InCriticalSection, SleepersWait, Lock,
                pthread_mutex_lock
  <1>4. OneCall'
    BY <1>1 DEF IInv, TypeOK, OneCall, Called, Lock
  <1>5. Arrived' = Arrived
    BY <1>1 DEF IInv, TypeOK, Arrived, Lock
  <1>6. CountsArrivals'
    BY <1>1, <1>5, CountKept DEF IInv, TypeOK, Lock
  <1>7. QED
    BY <1>2, <1>3, <1>4, <1>6 DEF IInv

\* A producer arrives: the counter grows with the set.
LEMMA CountInStep ==
    ASSUME IInv, NEW p \in Producers, CountIn(p)
    PROVE  /\ IInv'
           /\ p \notin Arrived /\ Arrived' = Arrived \cup {p}
  <1> USE ThreadsAssumption, PartiesAssumption
  <1>1. PICK l \in {"post", "wait"} : /\ pc' = [pc EXCEPT ![p] = l]
                                      /\ l = "post" <=> count + 1 = Party
    BY DEF CountIn, Goto
  <1>2. pc[p] = "count" /\ count' = count + 1
    BY DEF CountIn
  <1>3. TypeOK'
    BY <1>1, <1>2 DEF IInv, TypeOK, SyncTypeOK, CountIn, ProducerSteps, ConsumerSteps
  <1>4. OwnerInside' /\ SleepersWait'
    BY <1>1, <1>2 DEF IInv, TypeOK, OwnerInside, InCriticalSection, SleepersWait, CountIn
  <1>5. \A q \in Producers : pc[q] # "post"
    BY <1>2 DEF IInv, OwnerInside, InCriticalSection
  <1>6. pc'[p] = l /\ \A t \in Threads : t # p => pc'[t] = pc[t]
    BY <1>1 DEF IInv, TypeOK
  <1>7. OneCall'
    <2>1. (\E q \in Producers : pc'[q] = "post") <=> count + 1 = Party
      BY <1>1, <1>5, <1>6
    <2>2. Called' <=> Called
      BY <1>6 DEF Called
    <2>3. count >= Party <=> c_sem = 1 \/ Called
      BY <1>5 DEF IInv, OneCall
    <2>4. count \in Nat /\ c_sem' = c_sem
      BY DEF IInv, TypeOK, CountIn
    <2>5. QED
      BY <1>2, <2>1, <2>2, <2>3, <2>4 DEF IInv, OneCall
  <1>8. p \notin Arrived
    BY <1>2 DEF IInv, SleepersWait, Arrived
  <1>9. Arrived' = Arrived \cup {p}
    BY <1>1, <1>6 DEF Arrived, CountIn
  <1>10. Cardinality(Arrived') = Cardinality(Arrived) + 1 /\ Cardinality(Arrived) \in Nat
    BY <1>8, <1>9, ArrivedFinite, FS_AddElement DEF IInv
  <1>11. pc[Consumer] # "broadcast" /\ pc'[Consumer] # "broadcast"
    BY <1>2, <1>6 DEF IInv, OwnerInside, InCriticalSection
  <1>12. CountsArrivals'
    BY <1>2, <1>10, <1>11 DEF IInv, TypeOK, CountsArrivals, CountIn
  <1>13. QED
    BY <1>3, <1>4, <1>7, <1>8, <1>9, <1>12 DEF IInv

\* The producer that filled the party calls the consumer.
LEMMA SemPostStep == ASSUME IInv, NEW p \in Producers, SemPost(p) PROVE IInv'
  <1> USE ThreadsAssumption, PartiesAssumption
  <1>1. pc' = [pc EXCEPT ![p] = "wait"] /\ pc[p] = "post"
    BY DEF SemPost, Goto
  <1>2. TypeOK'
    BY <1>1 DEF IInv, TypeOK, SyncTypeOK, SemPost, ProducerSteps, ConsumerSteps
  <1>3. OwnerInside' /\ SleepersWait'
    BY <1>1 DEF IInv, TypeOK, OwnerInside, InCriticalSection, SleepersWait, SemPost
  <1>4. OneCall'
    <2>1. \A q \in Producers : pc'[q] # "post"
      BY <1>1 DEF IInv, TypeOK, OwnerInside, InCriticalSection
    <2>2. count >= Party /\ c_sem = 0 /\ ~Called
      BY <1>1 DEF IInv, TypeOK, OneCall
    <2>3. c_sem' = 1 /\ count' = count /\ ~Called'
      BY <1>1, <2>2 DEF IInv, TypeOK, SemPost, Called
    <2>4. QED
      BY <2>1, <2>2, <2>3 DEF OneCall
  <1>5. Arrived' = Arrived
    BY <1>1 DEF IInv, TypeOK, Arrived, SemPost
  <1>6. CountsArrivals'
    BY <1>1, <1>5, CountKept DEF IInv, TypeOK, SemPost
  <1>7. QED
    BY <1>2, <1>3, <1>4, <1>6 DEF IInv

\* Falling asleep: the producer stays among those that have arrived.
LEMMA CondWaitStep ==
    ASSUME IInv, NEW p \in Producers, CondWait(p)
    PROVE  IInv' /\ Arrived' = Arrived
  <1> USE ThreadsAssumption, PartiesAssumption
  <1>1. pc' = [pc EXCEPT ![p] = "cond"] /\ pc[p] = "wait"
    BY DEF CondWait, Goto
  <1>2. TypeOK'
    BY <1>1 DEF IInv, TypeOK, SyncTypeOK, CondWait, pthread_cond_wait, ProducerSteps,
                ConsumerSteps
  <1>3. OwnerInside' /\ SleepersWait'
    BY <1>1 DEF IInv, TypeOK, OwnerInside, InCriticalSection, SleepersWait, CondWait,
                pthread_cond_wait
  <1>4. OneCall'
    BY <1>1 DEF IInv, TypeOK, OneCall, Called, CondWait
  <1>5. Arrived' = Arrived
    BY <1>1 DEF IInv, TypeOK, Arrived, CondWait, pthread_cond_wait
  <1>6. CountsArrivals'
    BY <1>1, <1>5, CountKept DEF IInv, TypeOK, CondWait
  <1>7. QED
    BY <1>2, <1>3, <1>4, <1>5, <1>6 DEF IInv

\* Waking up: the producer was taken out of Arrived when it was woken.
LEMMA CondReturnStep ==
    ASSUME IInv, NEW p \in Producers, CondReturn(p)
    PROVE  IInv' /\ Arrived' = Arrived
  <1> USE ThreadsAssumption, PartiesAssumption
  <1>1. pc' = [pc EXCEPT ![p] = "unlock"] /\ pc[p] = "cond"
    BY DEF CondReturn, Goto
  <1>2. TypeOK'
    BY <1>1 DEF IInv, TypeOK, SyncTypeOK, CondReturn, CondWaitReturns,
                pthread_mutex_lock, ProducerSteps, ConsumerSteps
  <1>3. OwnerInside' /\ SleepersWait'
    BY <1>1 DEF IInv, TypeOK, OwnerInside, InCriticalSection, SleepersWait, CondReturn,
                CondWaitReturns, pthread_mutex_lock
  <1>4. OneCall'
    BY <1>1 DEF IInv, TypeOK, OneCall, Called, CondReturn
  <1>5. Arrived' = Arrived
    BY <1>1 DEF IInv, TypeOK, Arrived, CondReturn
  <1>6. CountsArrivals'
    BY <1>1, <1>5, CountKept DEF IInv, TypeOK, CondReturn
  <1>7. QED
    BY <1>2, <1>3, <1>4, <1>5, <1>6 DEF IInv

\* Unlocking, by a producer or by the consumer.
LEMMA UnlockStep ==
    ASSUME IInv, NEW t \in Threads, NEW next, Unlock(t, next),
           \/ t \in Producers /\ next = "lock"
           \/ t = Consumer /\ next = "semwait"
    PROVE  IInv' /\ Arrived' = Arrived
  <1> USE ThreadsAssumption, PartiesAssumption
  <1>1. pc' = [pc EXCEPT ![t] = next] /\ pc[t] = "unlock"
    BY DEF Unlock, Goto
  <1>2. TypeOK'
    BY <1>1 DEF IInv, TypeOK, SyncTypeOK, Unlock, pthread_mutex_unlock, ProducerSteps,
                ConsumerSteps
  <1>3. OwnerInside' /\ SleepersWait'
    BY <1>1 DEF IInv, TypeOK, OwnerInside, InCriticalSection, SleepersWait, Unlock,
                pthread_mutex_unlock
  <1>4. OneCall'
    BY <1>1 DEF IInv, TypeOK, OneCall, Called, Unlock
  <1>5. Arrived' = Arrived
    BY <1>1 DEF IInv, TypeOK, Arrived, Unlock
  <1>6. CountsArrivals'
    BY <1>1, <1>5, CountKept DEF IInv, TypeOK, Unlock
  <1>7. QED
    BY <1>2, <1>3, <1>4, <1>5, <1>6 DEF IInv

\* A spurious wakeup takes a producer out of Arrived and leaves it counted.
LEMMA WakeStep == ASSUME IInv, NEW p \in Producers, WakeUnsignalled(p) PROVE IInv'
  <1> USE ThreadsAssumption, PartiesAssumption
  <1>1. waiting' = waiting \ {p} /\ UNCHANGED <<mutex, c_sem, count, pc>> /\ startled' = TRUE
    BY DEF WakeUnsignalled, SpuriousWakeup
  <1>2. TypeOK' /\ OwnerInside' /\ SleepersWait' /\ OneCall'
    BY <1>1 DEF IInv, TypeOK, SyncTypeOK, OwnerInside, SleepersWait, OneCall, Called
  <1>3. Arrived' \subseteq Arrived
    BY <1>1 DEF Arrived
  <1>4. IsFiniteSet(Arrived) /\ Cardinality(Arrived) \in Nat
    BY ArrivedFinite DEF IInv
  <1>5. Cardinality(Arrived') <= Cardinality(Arrived) /\ IsFiniteSet(Arrived')
    BY <1>3, <1>4, FS_Subset
  <1>6. Cardinality(Arrived') \in Nat
    BY <1>5, FS_CardinalityType
  <1>7. CountsArrivals'
    BY <1>1, <1>4, <1>5, <1>6 DEF IInv, TypeOK, CountsArrivals
  <1>8. QED
    BY <1>2, <1>7 DEF IInv

\* The consumer takes the call, or is interrupted.
LEMMA SemWaitStep == ASSUME IInv, SemWait \/ SemWaitFails PROVE IInv'
  <1> USE ThreadsAssumption, PartiesAssumption
  <1>1. PICK l \in {"lock", "returned"} :
           /\ pc' = [pc EXCEPT ![Consumer] = l]
           /\ l = "lock" => c_sem = 1 /\ c_sem' = 0
           /\ l = "returned" => c_sem' = c_sem
    BY DEF SemWait, SemWaitFails, Goto, IInv, TypeOK, OneCall
  <1>2. pc[Consumer] = "semwait" /\ UNCHANGED <<mutex, waiting, count, startled>>
    BY DEF SemWait, SemWaitFails
  <1>3. TypeOK'
    BY <1>1, <1>2 DEF IInv, TypeOK, SyncTypeOK, ProducerSteps, ConsumerSteps
  <1>4. OwnerInside' /\ SleepersWait'
    BY <1>1, <1>2 DEF IInv, TypeOK, OwnerInside, InCriticalSection, SleepersWait
  <1>5. OneCall'
    BY <1>1, <1>2 DEF IInv, TypeOK, OneCall, Called
  <1>6. Arrived' = Arrived
    BY <1>1, <1>2 DEF IInv, TypeOK, Arrived
  <1>7. CountsArrivals'
    BY <1>1, <1>2, <1>6, CountKept DEF IInv, TypeOK
  <1>8. QED
    BY <1>3, <1>4, <1>5, <1>7 DEF IInv

\* The reset answers the call; if nobody was startled, all have arrived by then.
LEMMA ResetStep == ASSUME IInv, Reset PROVE IInv' /\ Arrived' = Arrived
  <1> USE ThreadsAssumption, PartiesAssumption
  <1>1. pc' = [pc EXCEPT ![Consumer] = "broadcast"] /\ pc[Consumer] = "reset"
    BY DEF Reset, Goto
  <1>2. TypeOK'
    BY <1>1 DEF IInv, TypeOK, SyncTypeOK, Reset, ProducerSteps, ConsumerSteps
  <1>3. OwnerInside' /\ SleepersWait'
    BY <1>1 DEF IInv, TypeOK, OwnerInside, InCriticalSection, SleepersWait, Reset
  <1>4. OneCall'
    BY <1>1 DEF IInv, TypeOK, OneCall, Called, Reset
  <1>5. Arrived' = Arrived
    BY <1>1 DEF IInv, TypeOK, Arrived, Reset
  <1>6. ASSUME ~startled PROVE Arrived = Producers
    <2>1. count >= Party /\ count = Cardinality(Arrived)
      BY <1>1, <1>6 DEF IInv, OneCall, Called, CountsArrivals
    <2>2. Arrived \in SUBSET Producers
      BY ArrivedFinite DEF IInv
    <2>3. Cardinality(Arrived) <= Party
      BY <2>2, FS_Subset
    <2>4. QED
      BY <2>1, <2>3, ArrivedFinite DEF IInv
  <1>7. CountsArrivals'
    BY <1>1, <1>5, <1>6 DEF IInv, TypeOK, CountsArrivals, Reset
  <1>8. QED
    BY <1>2, <1>3, <1>4, <1>5, <1>7 DEF IInv

\* The broadcast empties Arrived: no producer is between its count and its wait.
LEMMA BroadcastStep == ASSUME IInv, Broadcast PROVE IInv' /\ Arrived' = {}
  <1> USE ThreadsAssumption, PartiesAssumption
  <1>1. /\ pc' = [pc EXCEPT ![Consumer] = "unlock"] /\ pc[Consumer] = "broadcast"
        /\ waiting' = {}
    BY DEF Broadcast, Goto, pthread_cond_broadcast
  <1>2. TypeOK'
    BY <1>1 DEF IInv, TypeOK, SyncTypeOK, Broadcast, ProducerSteps, ConsumerSteps
  <1>3. OwnerInside' /\ SleepersWait'
    BY <1>1 DEF IInv, TypeOK, OwnerInside, InCriticalSection, SleepersWait, Broadcast
  <1>4. OneCall'
    BY <1>1 DEF IInv, TypeOK, OneCall, Called, Broadcast
  <1>5. \A p \in Producers : pc'[p] \notin {"post", "wait"}
    BY <1>1 DEF IInv, TypeOK, OwnerInside, InCriticalSection
  <1>6. Arrived' = {}
    BY <1>1, <1>5 DEF Arrived
  <1>7. count = 0
    BY <1>1 DEF IInv, CountsArrivals
  <1>8. CountsArrivals'
    BY <1>1, <1>6, <1>7, FS_EmptySet DEF IInv, TypeOK, CountsArrivals, Broadcast
  <1>9. QED
    BY <1>2, <1>3, <1>4, <1>6, <1>8 DEF IInv

\* Every step of main, of a producer, of the consumer and of the condition
\* variable preserves the strengthened invariant.
LEMMA StepIInv == IInv /\ [Next]_vars => IInv'
  <1> SUFFICES ASSUME IInv, [Next]_vars
               PROVE  IInv'
    OBVIOUS
  <1>1. ASSUME NEW p \in Producers, ProducerNext(p)
        PROVE  IInv'
    <2>1. p \in Threads
      BY PartiesAssumption
    <2>2. QED
      BY <1>1, <2>1, LockStep, CountInStep, SemPostStep, CondWaitStep, CondReturnStep,
         UnlockStep DEF ProducerNext
  <1>2. CASE ConsumerNext
    <2>1. Consumer \in Threads
      BY PartiesAssumption
    <2>2. QED
      BY <1>2, <2>1, SemWaitStep, LockStep, ResetStep, BroadcastStep, UnlockStep
      DEF ConsumerNext
  <1>3. CASE UNCHANGED vars
    BY <1>3 DEF vars, IInv, TypeOK, SyncTypeOK, OwnerInside, SleepersWait, OneCall,
                Called, CountsArrivals, Arrived
  <1>4. QED
    BY <1>1, <1>2, <1>3, CreateStep, WakeStep, SemWaitStep DEF Next

\* The strengthened invariant holds of every behaviour of the program.
LEMMA Inductive == Spec => []IInv
  BY InitIInv, StepIInv, PTL DEF Spec
-----------------------------------------------------------------------------
\* The variables keep their types, for every party: the semaphore stays a
\* natural number and each thread in its own program (lines 42-77).
THEOREM TypeCorrect == Spec => []TypeOK
  BY Inductive, PTL DEF IInv

\* For every party and whatever is spurious, interrupted or missing: at most one
\* call of the consumer is outstanding, and one is exactly while the counter is
\* at Party or above (lines 47-55 and 64-71).
THEOREM CallsOnce == Spec => []OneCall
  BY Inductive, PTL DEF IInv

\* For every party, when all producers sleep the consumer has been called or is
\* about to wake them: the counter is never behind the sleepers, so it has
\* reached Party (line 57).
THEOREM NobodyStalls == Spec => []NoStall
  <1>1. IInv => NoStall
    <2> SUFFICES ASSUME IInv, waiting = Producers, pc[Consumer] # "broadcast"
                 PROVE  c_sem = 1 \/ pc[Consumer] \in {"lock", "reset"}
      BY DEF NoStall
    <2>1. Arrived = Producers
      BY DEF Arrived
    <2>2. count >= Party
      BY <2>1, PartiesAssumption DEF IInv, CountsArrivals
    <2>3. \A p \in Producers : pc[p] # "post"
      BY DEF IInv, SleepersWait
    <2>4. QED
      BY <2>2, <2>3 DEF IInv, OneCall, Called
  <1>2. QED
    BY Inductive, <1>1, PTL

\* A step of the program is an arrival, the release, a disturbance, or changes
\* nothing of the meeting.
LEMMA StepMeets == IInv /\ [Next]_vars => [Meeting!MeetNext]_(Meeting!meetVars)
  <1> SUFFICES ASSUME IInv, [Next]_vars
               PROVE  \/ Meeting!MeetNext
                      \/ Meeting!meetVars' = Meeting!meetVars
    OBVIOUS
  <1>1. ASSUME NEW p \in Producers, CountIn(p)
        PROVE  Meeting!MeetNext \/ Meeting!meetVars' = Meeting!meetVars
    <2>1. p \notin Arrived /\ Arrived' = Arrived \cup {p} /\ startled' = startled
      BY <1>1, CountInStep DEF CountIn
    <2>2. CASE startled
      BY <2>1, <2>2 DEF Meeting!meetVars
    <2>3. CASE ~startled
      BY <2>1, <2>3 DEF Meeting!MeetNext, Meeting!Arrive
    <2>4. QED
      BY <2>2, <2>3
  <1>2. CASE Broadcast
    <2>1. /\ Arrived' = {} /\ startled' = startled
          /\ ~startled => Arrived = Producers
      BY <1>2, BroadcastStep DEF Broadcast, IInv, CountsArrivals
    <2>2. CASE startled
      BY <2>1, <2>2 DEF Meeting!meetVars
    <2>3. CASE ~startled
      BY <2>1, <2>3 DEF Meeting!MeetNext, Meeting!Release
    <2>4. QED
      BY <2>2, <2>3
  <1>3. ASSUME NEW p \in Producers, WakeUnsignalled(p)
        PROVE  Meeting!MeetNext
    BY <1>3 DEF WakeUnsignalled, Meeting!MeetNext, Meeting!Disturb
  <1>4. ASSUME Arrived' = Arrived, startled' = startled
        PROVE  Meeting!meetVars' = Meeting!meetVars
    BY <1>4 DEF Meeting!meetVars
  <1>5. ASSUME NEW t \in Threads, Create(t)
        PROVE  Arrived' = Arrived /\ startled' = startled
    BY <1>5, PartiesAssumption DEF Create, Goto, Arrived, IInv, TypeOK
  <1>6. ASSUME NEW p \in Producers, ProducerNext(p), ~CountIn(p)
        PROVE  Arrived' = Arrived /\ startled' = startled
    <2>1. CASE Lock(p, "count") \/ Unlock(p, "lock") \/ SemPost(p)
      BY <2>1, PartiesAssumption DEF Lock, Unlock, SemPost, Goto, Arrived, IInv, TypeOK
    <2>2. CASE CondWait(p) \/ CondReturn(p)
      BY <2>2, CondWaitStep, CondReturnStep DEF CondWait, CondReturn
    <2>3. QED
      BY <1>6, <2>1, <2>2 DEF ProducerNext
  <1>7. ASSUME ConsumerNext \/ SemWaitFails, ~Broadcast
        PROVE  Arrived' = Arrived /\ startled' = startled
    BY <1>7, PartiesAssumption
    DEF ConsumerNext, SemWait, SemWaitFails, Lock, Reset, Unlock, Goto, Arrived, IInv, TypeOK
  <1>8. CASE UNCHANGED vars
    BY <1>8 DEF vars, Meeting!meetVars, Arrived
  <1>9. QED
    BY <1>1, <1>2, <1>3, <1>4, <1>5, <1>6, <1>7, <1>8 DEF Next

\* For every party, and until the first spurious wakeup, the program implements
\* the rendezvous: each producer is counted once per round, and the broadcast
\* comes when all have arrived and releases all of them (lines 42-77).
THEOREM ImplementsRendezvous == Spec => IsRendezvous
  <1>1. Init => Meeting!MeetInit
    BY PartiesAssumption DEF Init, SyncInit, Meeting!MeetInit, Arrived
  <1>2. QED
    BY <1>1, StepMeets, Inductive, PTL DEF Spec, IsRendezvous, Meeting!MeetSpec
-----------------------------------------------------------------------------
(***************************************************************************)
(* sem_usage.c, which has its threads on the same mutex and condition      *)
(* variable: here they are numbered, as SemUsage numbers them.             *)
(***************************************************************************)
CONSTANTS NProducers, CountModulus
VARIABLES reg, stored, main, phase, line

Usage == INSTANCE SemUsage WITH Threads <- 1 .. NProducers + 1

UsageAssumption == /\ NProducers \in Nat \ {0}
                   /\ CountModulus \in Nat \ {0, 1}
                   /\ NoThread \notin 1 .. NProducers + 1

InTurn == {"wait", "count", "store", "print", "broadcast", "unlock"}

\* The thread that holds my_mutex is the one between lock and unlock or wait.
HolderInTurn == \A t \in 1 .. NProducers + 1 : mutex = t <=> pc[t] \in InTurn

\* main creates no thread twice.
CreatedOnce == phase = "create" => \A t \in main .. NProducers + 1 : pc[t] = "unborn"

\* count is one ahead of the number of lines while a producer is between the
\* increment and its printf; else it is that number.
OneAhead == count = IF \E p \in 1 .. NProducers + 1 : pc[p] = "print"
                    THEN (line.nr + 1) % CountModulus ELSE line.nr

\* What a producer has loaded is still the counter when it stores, and the one
\* that prints is the one that stored last.
OwnCount == \A p \in 1 .. NProducers + 1 :
               /\ pc[p] = "store" => reg[p] = count
               /\ pc[p] = "print" => stored = p

UsageInv == /\ Usage!TypeOK
            /\ phase = "create" => main <= NProducers + 1
            /\ HolderInTurn
            /\ CreatedOnce
            /\ OneAhead
            /\ OwnCount

\* A new line of a producer shows its own number, and it stored that number.
OwnLine == line' # line => line'.val = line'.nr /\ line'.by = stored

\* A step after which the thread t is at another place of its loop.
LEMMA Moves ==
    ASSUME UsageAssumption, UsageInv, NEW t \in 1 .. NProducers + 1, NEW l,
           l \in {"lock", "wait", "cond", "count", "store", "print", "broadcast", "unlock"},
           pc[t] # "unborn", pc' = [pc EXCEPT ![t] = l],
           mutex' = IF l \in InTurn THEN t ELSE NoThread,
           mutex \in {NoThread, t},
           waiting' \subseteq 1 .. NProducers + 1,
           UNCHANGED <<main, phase>>
    PROVE  /\ Usage!SyncTypeOK' /\ HolderInTurn' /\ CreatedOnce'
           /\ pc' \in [1 .. NProducers + 1 -> {"unborn", "absent", "lock", "wait", "cond",
                                               "count", "store", "print", "broadcast", "unlock"}]
           /\ \A u \in 1 .. NProducers + 1 : u # t => pc'[u] = pc[u] /\ pc[u] \notin InTurn
           /\ pc'[t] = l
  <1>1. pc \in [1 .. NProducers + 1 -> {"unborn", "absent", "lock", "wait", "cond",
                                        "count", "store", "print", "broadcast", "unlock"}]
    BY DEF UsageInv, Usage!TypeOK
  <1>2. pc'[t] = l /\ \A u \in 1 .. NProducers + 1 : u # t => pc'[u] = pc[u]
    BY <1>1
  <1>3. \A u \in 1 .. NProducers + 1 : u # t => mutex # u /\ mutex' # u /\ pc[u] \notin InTurn
    BY DEF UsageInv, HolderInTurn, UsageAssumption
  <1>4. HolderInTurn'
    BY <1>2, <1>3 DEF HolderInTurn, UsageAssumption
  <1>5. CreatedOnce'
    BY <1>1, <1>2 DEF UsageInv, CreatedOnce, Usage!TypeOK
  <1>6. Usage!SyncTypeOK'
    BY DEF Usage!SyncTypeOK
  <1>7. QED
    BY <1>1, <1>2, <1>3, <1>4, <1>5, <1>6

\* Nobody counts or prints, and what it is about stays as it is.
LEMMA QuietMoves ==
    ASSUME UsageAssumption, UsageInv, NEW t \in 1 .. NProducers + 1, NEW l,
           l \in {"lock", "wait", "cond", "count", "broadcast", "unlock"},
           pc[t] \notin {"unborn", "store", "print"}, pc' = [pc EXCEPT ![t] = l],
           mutex' = IF l \in InTurn THEN t ELSE NoThread,
           mutex \in {NoThread, t},
           waiting' \subseteq 1 .. NProducers + 1,
           UNCHANGED <<main, phase, count, reg, stored, line>>
    PROVE  UsageInv'
  <1>1. /\ Usage!SyncTypeOK' /\ HolderInTurn' /\ CreatedOnce'
        /\ pc' \in [1 .. NProducers + 1 -> {"unborn", "absent", "lock", "wait", "cond",
                                            "count", "store", "print", "broadcast", "unlock"}]
        /\ \A u \in 1 .. NProducers + 1 : u # t => pc'[u] = pc[u] /\ pc[u] \notin InTurn
        /\ pc'[t] = l
    BY Moves
  <1>2. OneAhead' /\ OwnCount'
    BY <1>1 DEF UsageInv, OneAhead, OwnCount, InTurn
  <1>3. QED
    BY <1>1, <1>2 DEF UsageInv, Usage!TypeOK

\* A producer keeps the invariant, and a line it prints shows its own number.
LEMMA UsageProducerStep ==
    ASSUME UsageAssumption, UsageInv, NEW p \in Usage!Producers, Usage!ProducerNext(p)
    PROVE  UsageInv' /\ OwnLine
  <1> USE DEF Usage!Goto
  <1>0. p \in 1 .. NProducers + 1
    BY DEF Usage!Producers, UsageAssumption
  <1>1. CASE Usage!Lock(p, "wait")
    <2>1. UsageInv'
      BY <1>0, <1>1, QuietMoves
      DEF Usage!Lock, Usage!pthread_mutex_lock, InTurn, UsageInv, Usage!TypeOK, Usage!SyncTypeOK
    <2>2. QED BY <1>1, <2>1 DEF Usage!Lock, OwnLine
  <1>2. CASE Usage!CondWait(p)
    <2>1. UsageInv'
      BY <1>0, <1>2, QuietMoves
      DEF Usage!CondWait, Usage!pthread_cond_wait, InTurn, UsageInv, Usage!TypeOK, Usage!SyncTypeOK
    <2>2. QED BY <1>2, <2>1 DEF Usage!CondWait, OwnLine
  <1>3. CASE Usage!CondReturn(p)
    <2>1. UsageInv'
      BY <1>0, <1>3, QuietMoves
      DEF Usage!CondReturn, Usage!CondWaitReturns, Usage!pthread_mutex_lock, InTurn,
          UsageInv, Usage!TypeOK, Usage!SyncTypeOK
    <2>2. QED BY <1>3, <2>1 DEF Usage!CondReturn, OwnLine
  <1>4. CASE Usage!Load(p)
    <2>1. /\ pc[p] = "count" /\ reg' = [reg EXCEPT ![p] = count]
          /\ pc' = [pc EXCEPT ![p] = "store"]
          /\ UNCHANGED <<mutex, waiting, count, stored, main, phase, line>>
      BY <1>4 DEF Usage!Load
    <2>2. mutex = p
      BY <1>0, <2>1 DEF UsageInv, HolderInTurn, InTurn
    <2>3. /\ Usage!SyncTypeOK' /\ HolderInTurn' /\ CreatedOnce'
          /\ pc' \in [1 .. NProducers + 1 -> {"unborn", "absent", "lock", "wait", "cond",
                                              "count", "store", "print", "broadcast", "unlock"}]
          /\ \A u \in 1 .. NProducers + 1 : u # p => pc'[u] = pc[u] /\ pc[u] \notin InTurn
          /\ pc'[p] = "store"
      BY <1>0, <2>1, <2>2, Moves DEF InTurn, UsageInv, Usage!TypeOK, Usage!SyncTypeOK
    <2>4. OneAhead'
      BY <2>1, <2>3 DEF UsageInv, OneAhead, InTurn
    <2>5. reg' \in [1 .. NProducers + 1 -> 0 .. CountModulus - 1] /\ reg'[p] = count
      BY <1>0, <2>1 DEF UsageInv, Usage!TypeOK
    <2>6. OwnCount'
      BY <2>1, <2>3, <2>5 DEF OwnCount, InTurn
    <2>7. QED
      BY <2>1, <2>3, <2>4, <2>5, <2>6 DEF UsageInv, Usage!TypeOK, OwnLine
  <1>5. CASE Usage!Store(p)
    <2>1. /\ pc[p] = "store" /\ count' = (reg[p] + 1) % CountModulus
          /\ reg' = [reg EXCEPT ![p] = 0] /\ stored' = p
          /\ pc' = [pc EXCEPT ![p] = "print"]
          /\ UNCHANGED <<mutex, waiting, main, phase, line>>
      BY <1>5 DEF Usage!Store
    <2>2. mutex = p
      BY <1>0, <2>1 DEF UsageInv, HolderInTurn, InTurn
    <2>3. /\ Usage!SyncTypeOK' /\ HolderInTurn' /\ CreatedOnce'
          /\ pc' \in [1 .. NProducers + 1 -> {"unborn", "absent", "lock", "wait", "cond",
                                              "count", "store", "print", "broadcast", "unlock"}]
          /\ \A u \in 1 .. NProducers + 1 : u # p => pc'[u] = pc[u] /\ pc[u] \notin InTurn
          /\ pc'[p] = "print"
      BY <1>0, <2>1, <2>2, Moves DEF InTurn, UsageInv, Usage!TypeOK, Usage!SyncTypeOK
    <2>4. count = line.nr /\ reg[p] = count
      <3>1. reg[p] = count
        BY <2>1, <1>0 DEF UsageInv, OwnCount
      <3>2. \A u \in 1 .. NProducers + 1 : pc[u] # "print"
        BY <2>1, <2>3 DEF InTurn
      <3>3. QED
        BY <3>1, <3>2 DEF UsageInv, OneAhead
    <2>5. OneAhead' /\ OwnCount'
      BY <2>1, <2>3, <2>4, <1>0 DEF OneAhead, OwnCount, InTurn
    <2>6. /\ count' \in 0 .. CountModulus - 1
          /\ reg' \in [1 .. NProducers + 1 -> 0 .. CountModulus - 1]
      <3>1. count \in Nat /\ reg \in [1 .. NProducers + 1 -> 0 .. CountModulus - 1]
        BY DEF UsageInv, Usage!TypeOK, UsageAssumption
      <3>2. (count + 1) % CountModulus \in 0 .. CountModulus - 1 /\ 0 \in 0 .. CountModulus - 1
        BY <3>1 DEF UsageAssumption
      <3>3. QED
        BY <1>0, <2>1, <2>4, <3>1, <3>2
    <2>7. QED
      BY <1>0, <2>1, <2>3, <2>5, <2>6 DEF UsageInv, Usage!TypeOK, OwnLine
  <1>6. CASE Usage!PrintCount(p)
    <2>1. /\ pc[p] = "print"
          /\ line' = [by |-> p, val |-> count, nr |-> (line.nr + 1) % CountModulus]
          /\ pc' = [pc EXCEPT ![p] = "unlock"]
          /\ UNCHANGED <<mutex, waiting, count, reg, stored, main, phase>>
      BY <1>6 DEF Usage!PrintCount
    <2>2. mutex = p
      BY <1>0, <2>1 DEF UsageInv, HolderInTurn, InTurn
    <2>3. /\ Usage!SyncTypeOK' /\ HolderInTurn' /\ CreatedOnce'
          /\ pc' \in [1 .. NProducers + 1 -> {"unborn", "absent", "lock", "wait", "cond",
                                              "count", "store", "print", "broadcast", "unlock"}]
          /\ \A u \in 1 .. NProducers + 1 : u # p => pc'[u] = pc[u] /\ pc[u] \notin InTurn
          /\ pc'[p] = "unlock"
      BY <1>0, <2>1, <2>2, Moves DEF InTurn, UsageInv, Usage!TypeOK, Usage!SyncTypeOK
    <2>4. count = (line.nr + 1) % CountModulus /\ stored = p
      BY <2>1, <1>0 DEF UsageInv, OneAhead, OwnCount
    <2>5. OneAhead' /\ OwnCount'
      BY <2>1, <2>3, <2>4 DEF OneAhead, OwnCount, InTurn
    <2>6. /\ line'.val = line'.nr /\ line'.by = stored
          /\ line' \in [by : 1 .. NProducers + 1 \cup {NoThread},
                        val : 0 .. CountModulus - 1, nr : 0 .. CountModulus - 1]
      BY <1>0, <2>1, <2>4 DEF UsageInv, Usage!TypeOK
    <2>7. QED
      BY <2>1, <2>3, <2>5, <2>6 DEF UsageInv, Usage!TypeOK, OwnLine
  <1>7. CASE Usage!Unlock(p)
    <2>1. UsageInv'
      BY <1>0, <1>7, QuietMoves
      DEF Usage!Unlock, Usage!pthread_mutex_unlock, InTurn, UsageInv, Usage!TypeOK, Usage!SyncTypeOK
    <2>2. QED BY <1>7, <2>1 DEF Usage!Unlock, OwnLine
  <1>8. QED
    BY <1>1, <1>2, <1>3, <1>4, <1>5, <1>7, <1>6 DEF Usage!ProducerNext

\* The consumer keeps the invariant and prints no producer's line.
LEMMA UsageConsumerStep ==
    ASSUME UsageAssumption, UsageInv, Usage!ConsumerNext
    PROVE  UsageInv' /\ line' = line
  <1> USE DEF Usage!Goto
  <1> DEFINE c == Usage!Consumer
  <1>0. c \in 1 .. NProducers + 1
    BY DEF Usage!Consumer, UsageAssumption
  <1> HIDE DEF c
  <1>1. CASE Usage!Lock(c, "broadcast")
    <2>1. UsageInv'
      BY <1>0, <1>1, QuietMoves
      DEF Usage!Lock, Usage!pthread_mutex_lock, InTurn, UsageInv, Usage!TypeOK, Usage!SyncTypeOK
    <2>2. QED BY <1>1, <2>1 DEF Usage!Lock
  <1>2. CASE Usage!Broadcast
    <2>1. /\ pc[c] = "broadcast" /\ waiting' = {} /\ pc' = [pc EXCEPT ![c] = "unlock"]
          /\ UNCHANGED <<mutex, count, reg, stored, main, phase, line>>
      BY <1>2 DEF Usage!Broadcast, Usage!pthread_cond_broadcast, c
    <2>2. mutex = c
      BY <1>0, <2>1 DEF UsageInv, HolderInTurn, InTurn
    <2>3. QED
      BY <1>0, <2>1, <2>2, QuietMoves DEF InTurn
  <1>3. CASE Usage!Unlock(c)
    <2>1. UsageInv'
      BY <1>0, <1>3, QuietMoves
      DEF Usage!Unlock, Usage!pthread_mutex_unlock, InTurn, UsageInv, Usage!TypeOK, Usage!SyncTypeOK
    <2>2. QED BY <1>3, <2>1 DEF Usage!Unlock
  <1>4. QED
    BY <1>1, <1>2, <1>3 DEF Usage!ConsumerNext, c

\* main keeps the invariant and prints no such line.
LEMMA UsageMainStep ==
    ASSUME UsageAssumption, UsageInv, Usage!MainNext
    PROVE  UsageInv' /\ line' = line
  <1>1. CASE Usage!Create
    <2>1. PICK l \in {"lock", "absent"} : pc' = [pc EXCEPT ![main] = l]
      BY <1>1 DEF Usage!Create, Usage!Goto
    <2>2. /\ phase = "create" /\ UNCHANGED <<mutex, waiting, count, reg, stored, line>>
          /\ IF main = NProducers + 1 THEN main' = 1 /\ phase' = "join"
                                      ELSE main' = main + 1 /\ UNCHANGED phase
      BY <1>1 DEF Usage!Create, Usage!Consumer
    <2>3. main \in 1 .. NProducers + 1 /\ main \in Int
      BY <2>2 DEF UsageInv, Usage!TypeOK, UsageAssumption
    <2>4. pc[main] = "unborn"
      BY <2>2, <2>3 DEF UsageInv, CreatedOnce, UsageAssumption
    <2>5. pc \in [1 .. NProducers + 1 -> {"unborn", "absent", "lock", "wait", "cond",
                                          "count", "store", "print", "broadcast", "unlock"}]
      BY DEF UsageInv, Usage!TypeOK
    <2>6. /\ pc'[main] = l /\ \A u \in 1 .. NProducers + 1 : u # main => pc'[u] = pc[u]
          /\ pc' \in [1 .. NProducers + 1 -> {"unborn", "absent", "lock", "wait", "cond",
                                              "count", "store", "print", "broadcast", "unlock"}]
      BY <2>1, <2>3, <2>5
    <2>7. HolderInTurn'
      BY <2>2, <2>3, <2>4, <2>6 DEF UsageInv, HolderInTurn, InTurn
    <2>8. CreatedOnce'
      BY <2>2, <2>3, <2>6 DEF UsageInv, CreatedOnce, UsageAssumption
    <2>9. OneAhead' /\ OwnCount'
      BY <2>2, <2>3, <2>4, <2>6 DEF UsageInv, OneAhead, OwnCount
    <2>10. main' \in 1 .. NProducers + 2 /\ (phase' = "create" => main' <= NProducers + 1)
      BY <2>2, <2>3 DEF UsageAssumption
    <2>11. QED
      BY <2>2, <2>6, <2>7, <2>8, <2>9, <2>10 DEF UsageInv, Usage!TypeOK, Usage!SyncTypeOK
  <1>2. CASE Usage!Join
    <2>1. /\ phase = "join" /\ main \in 1 .. NProducers
          /\ UNCHANGED <<mutex, waiting, count, reg, stored, pc, line>>
          /\ main' \in {main, main + 1} /\ phase' \in {"join", "crashed"}
      BY <1>2 DEF Usage!Join, Usage!Producers
    <2>2. main' \in 1 .. NProducers + 2
      BY <2>1 DEF UsageAssumption
    <2>3. QED
      BY <2>1, <2>2 DEF UsageInv, Usage!TypeOK, Usage!SyncTypeOK, HolderInTurn, CreatedOnce, OneAhead, OwnCount
  <1>3. CASE Usage!Exit
    BY <1>3
    DEF Usage!Exit, UsageInv, Usage!TypeOK, Usage!SyncTypeOK, HolderInTurn, CreatedOnce, OneAhead, OwnCount
  <1>4. QED
    BY <1>1, <1>2, <1>3 DEF Usage!MainNext

\* Every step keeps the invariant, and a producer's line shows its own number.
LEMMA UsageStep ==
    ASSUME UsageAssumption
    PROVE  UsageInv /\ [Usage!Next]_(Usage!vars)
             => UsageInv' /\ OwnLine
  <1> SUFFICES ASSUME UsageInv, [Usage!Next]_(Usage!vars)
               PROVE  UsageInv' /\ OwnLine
    OBVIOUS
  <1>1. CASE Usage!MainNext
    BY <1>1, UsageMainStep DEF OwnLine
  <1>2. ASSUME NEW p \in Usage!Producers, Usage!ProducerNext(p)
        PROVE  UsageInv' /\ OwnLine
    BY <1>2, UsageProducerStep
  <1>3. CASE Usage!ConsumerNext
    BY <1>3, UsageConsumerStep DEF OwnLine
  <1>4. ASSUME NEW p \in Usage!Producers, Usage!WakeUnsignalled(p)
        PROVE  UsageInv' /\ line' = line
    BY <1>4 DEF Usage!WakeUnsignalled, Usage!SpuriousWakeup, UsageInv, Usage!TypeOK,
                Usage!SyncTypeOK, HolderInTurn, CreatedOnce, OneAhead, OwnCount
  <1>5. CASE UNCHANGED Usage!vars
    BY <1>5 DEF Usage!vars, UsageInv, Usage!TypeOK, Usage!SyncTypeOK, HolderInTurn,
                CreatedOnce, OneAhead, OwnCount, OwnLine
  <1>6. QED
    BY <1>1, <1>2, <1>3, <1>4, <1>5 DEF Usage!Next, Usage!Over, OwnLine

\* Nobody is between increment and printf when the consumer prints.
LEMMA ConsumerShows ==
    ASSUME UsageAssumption, UsageInv, Usage!Broadcast
    PROVE  count = line.nr
  <1>1. Usage!Consumer \in 1 .. NProducers + 1 /\ pc[Usage!Consumer] = "broadcast"
    BY DEF Usage!Broadcast, Usage!Consumer, UsageAssumption
  <1>2. mutex = Usage!Consumer
    BY <1>1 DEF UsageInv, HolderInTurn, InTurn
  <1>3. \A t \in 1 .. NProducers + 1 : pc[t] # "print"
    BY <1>1, <1>2 DEF UsageInv, HolderInTurn, InTurn
  <1>4. QED
    BY <1>3 DEF UsageInv, OneAhead

\* For any number of producers, whoever wakes up when and with or without
\* spurious wakeups, no increment is lost: the producers' n-th line shows n and
\* comes from the producer that stored n, and the consumer's line shows the
\* number of the producers' last line (sem_usage.c lines 21-25 and 31-32).
THEOREM LinesCountUp ==
    ASSUME UsageAssumption
    PROVE  Usage!Spec => Usage!CountsUp
  <1>1. Usage!Init => UsageInv
    BY DEF Usage!Init, Usage!SyncInit, UsageInv, Usage!TypeOK, Usage!SyncTypeOK, HolderInTurn,
           InTurn, CreatedOnce, OneAhead, OwnCount, UsageAssumption
  <1>2. UsageInv /\ [Usage!Next]_(Usage!vars) => UsageInv'
    BY UsageStep
  <1>3. UsageInv /\ [Usage!Next]_(Usage!vars)
          => [/\ line' # line => line'.val = line'.nr /\ line'.by = stored
              /\ Usage!Broadcast => count = line.nr]_(Usage!vars)
    BY UsageStep, ConsumerShows DEF OwnLine
  <1>4. QED
    BY <1>1, <1>2, <1>3, PTL DEF Usage!Spec, Usage!CountsUp
============================================================================
