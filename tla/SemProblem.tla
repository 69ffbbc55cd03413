----------------------------- MODULE SemProblem -----------------------------
(***************************************************************************)
(* sem_problem.c: producers meet.  Each counts itself in under mutex1; the *)
(* one that brings count to Party (6) posts c_sem; all of them, it too,    *)
(* sleep on condition_var.  The consumer takes the post, resets count and  *)
(* wakes everybody by a broadcast.                                         *)
(*                                                                         *)
(* pthread_cond_wait is called once, without a loop around a predicate, so *)
(* a spurious wakeup sends a producer through the counter a second time in *)
(* the same round.                                                         *)
(***************************************************************************)
EXTENDS Pthread

CONSTANTS Producers, Consumer,
          Party,             \* the 6 of "count == 6"
          MaxCount,          \* bound: no spurious wakeup may take count above it
          SpuriousWakeups,   \* may pthread_cond_wait return unsignalled?
          Interrupts,        \* may sem_wait fail (EINTR)?
          CreateMayFail      \* may pthread_create fail?

ASSUME PartiesAssumption == /\ IsFiniteSet(Producers)
                            /\ Consumer \notin Producers
                            /\ Threads = Producers \cup {Consumer}
                            /\ Party = Cardinality(Producers)
                            /\ Party \in Nat \ {0}
ASSUME BoundAssumption == MaxCount \in Nat
ASSUME FlagAssumption == {SpuriousWakeups, Interrupts, CreateMayFail} \subseteq BOOLEAN

VARIABLES c_sem,   \* the value of the semaphore
          count,
          pc,      \* where each thread is
          startled \* history: a wait has ended without a broadcast

vars == <<mutex, waiting, c_sem, count, pc, startled>>

ProducerSteps == {"unborn", "absent", "lock", "count", "post", "wait", "cond", "unlock"}
ConsumerSteps == {"unborn", "absent", "semwait", "lock", "reset", "broadcast",
                  "unlock", "returned"}

TypeOK == /\ SyncTypeOK
          /\ c_sem \in Nat
          /\ count \in Nat
          /\ startled \in BOOLEAN
          /\ pc \in [Threads -> ProducerSteps \cup ConsumerSteps]
          /\ \A p \in Producers : pc[p] \in ProducerSteps
          /\ pc[Consumer] \in ConsumerSteps

Init == /\ SyncInit
        /\ c_sem = 0
        /\ count = 0
        /\ startled = FALSE
        /\ pc = [t \in Threads |-> "unborn"]

Goto(t, l) == pc' = [pc EXCEPT ![t] = l]

\* pthread_create, by main: the producers first, then the consumer.  It reports
\* failure by a positive number; main compares with -1 and never notices.
Create(t) ==
    /\ pc[t] = "unborn"
    /\ t = Consumer => \A p \in Producers : pc[p] # "unborn"
    /\ \E start \in {IF t = Consumer THEN "semwait" ELSE "lock"}
                       \cup (IF CreateMayFail THEN {"absent"} ELSE {}) : Goto(t, start)
    /\ UNCHANGED <<mutex, waiting, c_sem, count, startled>>
-----------------------------------------------------------------------------
Lock(t, next) == /\ pc[t] = "lock"
                 /\ pthread_mutex_lock(t)
                 /\ Goto(t, next)
                 /\ UNCHANGED <<waiting, c_sem, count, startled>>

\* A mutant: every producer from the Party-th on posts.
CountInAtLeast(p) == /\ pc[p] = "count"
                     /\ count' = count + 1
                     /\ pc' = [pc EXCEPT ![p] = IF count + 1 >= Party
                                                THEN "post" ELSE "wait"]
                     /\ UNCHANGED <<mutex, waiting, c_sem, startled>>

\* count++ and the test of "count == 6".
CountIn(p) == /\ pc[p] = "count"
              /\ count' = count + 1
              /\ Goto(p, IF count + 1 = Party THEN "post" ELSE "wait")
              /\ UNCHANGED <<mutex, waiting, c_sem, startled>>

\* A mutant: the semaphore is not posted.
SemPostForgotten(p) == /\ pc[p] = "post"
                       /\ pc' = [pc EXCEPT ![p] = "wait"]
                       /\ UNCHANGED <<mutex, waiting, c_sem, count, startled>>

SemPost(p) == /\ pc[p] = "post"
              /\ c_sem' = c_sem + 1
              /\ Goto(p, "wait")
              /\ UNCHANGED <<mutex, waiting, count, startled>>

CondWait(p) == /\ pc[p] = "wait"
               /\ pthread_cond_wait(p)
               /\ Goto(p, "cond")
               /\ UNCHANGED <<c_sem, count, startled>>

CondReturn(p) == /\ pc[p] = "cond"
                 /\ CondWaitReturns(p)
                 /\ Goto(p, "unlock")
                 /\ UNCHANGED <<waiting, c_sem, count, startled>>

Unlock(t, next) == /\ pc[t] = "unlock"
                   /\ pthread_mutex_unlock(t)
                   /\ Goto(t, next)
                   /\ UNCHANGED <<waiting, c_sem, count, startled>>

WakeUnsignalled(p) ==
    /\ SpuriousWakeups
    /\ count + Cardinality(Producers \ waiting) < MaxCount
    /\ SpuriousWakeup(p)
    /\ startled' = TRUE
    /\ UNCHANGED <<mutex, c_sem, count, pc>>
-----------------------------------------------------------------------------
SemWait == /\ pc[Consumer] = "semwait"
           /\ c_sem > 0
           /\ c_sem' = c_sem - 1
           /\ Goto(Consumer, "lock")
           /\ UNCHANGED <<mutex, waiting, count, startled>>

\* sem_wait fails: the consumer returns, and nobody takes its place.
SemWaitFails == /\ Interrupts
                /\ pc[Consumer] = "semwait"
                /\ Goto(Consumer, "returned")
                /\ UNCHANGED <<mutex, waiting, c_sem, count, startled>>

Reset == /\ pc[Consumer] = "reset"
         /\ count' = 0
         /\ Goto(Consumer, "broadcast")
         /\ UNCHANGED <<mutex, waiting, c_sem, startled>>

\* A mutant: signal instead of broadcast.
BroadcastOne == /\ pc[Consumer] = "broadcast"
                /\ pthread_cond_signal
                /\ pc' = [pc EXCEPT ![Consumer] = "unlock"]
                /\ UNCHANGED <<mutex, c_sem, count, startled>>

Broadcast == /\ pc[Consumer] = "broadcast"
             /\ pthread_cond_broadcast
             /\ Goto(Consumer, "unlock")
             /\ UNCHANGED <<mutex, c_sem, count, startled>>

ProducerNext(p) == \/ Lock(p, "count")
                   \/ CountIn(p)
                   \/ SemPost(p)
                   \/ CondWait(p)
                   \/ CondReturn(p)
                   \/ Unlock(p, "lock")

ConsumerNext == \/ SemWait
                \/ Lock(Consumer, "reset")
                \/ Reset
                \/ Broadcast
                \/ Unlock(Consumer, "semwait")

Next == \/ \E t \in Threads : Create(t)
        \/ \E p \in Producers : ProducerNext(p)
        \/ ConsumerNext
        \/ \E p \in Producers : WakeUnsignalled(p)
        \/ SemWaitFails

Spec == Init /\ [][Next]_vars

\* The scheduler runs a thread that can run.  Nothing is assumed about who
\* wins the mutex.
FairSpec == /\ Spec
            /\ \A t \in Threads : WF_vars(Create(t))
            /\ \A p \in Producers : WF_vars(ProducerNext(p))
            /\ WF_vars(ConsumerNext)
-----------------------------------------------------------------------------
\* The producers that have counted themselves in and not been woken since.
Arrived == waiting \cup {p \in Producers : pc[p] \in {"post", "wait"}}

\* The consumer has taken the post of this round and not yet reset count.
Called == pc[Consumer] \in {"lock", "reset"}

\* At most one call of the consumer is outstanding, and one is exactly when
\* the counter has reached Party, spurious wakeups or not: sem_post is behind
\* "count == 6", and count only falls when the consumer resets it
\* (lines 47-55 and 64-71).
OneCall ==
    LET posting == \E p \in Producers : pc[p] = "post"
    IN  /\ c_sem <= 1
        /\ count >= Party <=> (posting \/ c_sem = 1 \/ Called)
        /\ ~(posting /\ (c_sem = 1 \/ Called))
        /\ ~(c_sem = 1 /\ Called)

\* Never are all producers asleep without a call outstanding or being answered,
\* spurious wakeups or not (line 57): the wakeup is on its way, or the consumer
\* that was to send it is gone.
NoStall == waiting = Producers =>
              \/ c_sem = 1
              \/ pc[Consumer] \in {"lock", "reset", "broadcast"}

\* "All producer threads start but wait at a point for all the threads to
\* meet.  At this point the last thread signals the consumer thread"
\* (lines 4-6): whoever posts c_sem finds all the others in pthread_cond_wait.
AllMeet == \A p, q \in Producers : pc[p] = "post" /\ q # p => pc[q] = "cond"

\* Until the first spurious wakeup the program implements Rendezvous: nobody is
\* counted twice in a round, nobody leaves before all have come, and the
\* broadcast releases everybody, however reset, broadcast and the way from the
\* count to the wait interleave (lines 42-77).
Meeting == INSTANCE Rendezvous
              WITH Parties <- Producers, disturbed <- startled,
                   arrived <- IF startled THEN {} ELSE Arrived
IsRendezvous == Meeting!MeetSpec

\* Round follows round, if all threads exist, sem_wait does not fail, and there
\* are finitely many spurious wakeups (lines 42-77).
AllPresent == \A t \in Threads : pc[t] \notin {"absent", "returned"}
FinitelySpurious == <>[][\A p \in Producers : ~WakeUnsignalled(p)]_vars
RoundsGoOn == FinitelySpurious => []<>(pc[Consumer] = "broadcast" \/ ~AllPresent)
=============================================================================
