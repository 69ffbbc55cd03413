--------------------------- MODULE AlternatePrint ---------------------------
(***************************************************************************)
(* alternate_print.c: two threads raise global_count in turn, guarded by   *)
(* count_lock and cond_var, and each returns once it has raised it above   *)
(* Limit (100 in the code).  The main thread creates them, joins them and  *)
(* exits.  The same program is kept twice in the repository, in            *)
(* mutex_sempaphores/ and in pthread/.                                     *)
(*                                                                         *)
(* One action per step between two synchronisation calls.  Everything      *)
(* between lock and unlock runs under the mutex, yet the test, the         *)
(* increment, the signal and the unlock are separate steps, so that the    *)
(* protection by the mutex is a result and not an assumption.              *)
(***************************************************************************)
EXTENDS Pthread

CONSTANTS Limit,            \* the 100 of "global_count > 100"
          SpuriousWakeups,  \* may pthread_cond_wait return unsignalled?
          CreateMayFail     \* may pthread_create fail?

ASSUME LimitAssumption == Limit \in Nat
ASSUME FlagAssumption == /\ SpuriousWakeups \in BOOLEAN
                         /\ CreateMayFail \in BOOLEAN
ASSUME TwoThreads == Threads = {"odd_thread", "even_thread"}

VARIABLES global_count,
          pc,      \* where each thread is
          main,    \* where the main thread is
          last     \* history: the thread that raised global_count last

vars == <<mutex, waiting, global_count, pc, main, last>>

InLoop == {"lock", "test", "cond", "signal", "unlock"}
InCriticalSection == {"test", "signal", "unlock"}
MainSteps == {"create_odd", "create_even", "join_odd", "join_even", "destroy",
              "exited", "crashed"}

TypeOK == /\ SyncTypeOK
          /\ global_count \in Nat
          /\ pc \in [Threads -> InLoop \cup {"unborn", "absent", "returned"}]
          /\ main \in MainSteps
          /\ last \in Threads

Init == /\ SyncInit
        /\ global_count = 0
        /\ pc = [t \in Threads |-> "unborn"]
        /\ main = "create_odd"
        /\ last = "even_thread"

\* The process is alive: main has neither returned nor crashed.
Running == main \notin {"exited", "crashed"}
-----------------------------------------------------------------------------
\* The condition under which the thread waits.
Blocked(t) == IF t = "odd_thread" THEN global_count % 2 # 0
                                  ELSE global_count % 2 = 0

Lock(t) == /\ pc[t] = "lock"
           /\ pthread_mutex_lock(t)
           /\ pc' = [pc EXCEPT ![t] = "test"]
           /\ UNCHANGED <<waiting, global_count, main, last>>

Wait(t) == /\ pc[t] = "test"
           /\ Blocked(t)
           /\ pthread_cond_wait(t)
           /\ pc' = [pc EXCEPT ![t] = "cond"]
           /\ UNCHANGED <<global_count, main, last>>

\* A mutant: the woken thread leaves the loop without testing again.
ResumeWithoutRetest(t) == /\ pc[t] = "cond"
                          /\ CondWaitReturns(t)
                          /\ global_count' = global_count + 1
                          /\ last' = t
                          /\ pc' = [pc EXCEPT ![t] = "signal"]
                          /\ UNCHANGED <<waiting, main>>

\* pthread_cond_wait returns, the thread prints the counter and tests again.
Resume(t) == /\ pc[t] = "cond"
             /\ CondWaitReturns(t)
             /\ pc' = [pc EXCEPT ![t] = "test"]
             /\ UNCHANGED <<waiting, global_count, main, last>>

Increment(t) == /\ pc[t] = "test"
                /\ ~Blocked(t)
                /\ global_count' = global_count + 1
                /\ last' = t
                /\ pc' = [pc EXCEPT ![t] = "signal"]
                /\ UNCHANGED <<mutex, waiting, main>>

\* A mutant: the signal is forgotten on the way out of the loop.
SignalForgotten(t) == /\ pc[t] = "signal"
                      /\ IF global_count > Limit THEN UNCHANGED waiting
                                                 ELSE pthread_cond_signal
                      /\ pc' = [pc EXCEPT ![t] = "unlock"]
                      /\ UNCHANGED <<mutex, global_count, main, last>>

Signal(t) == /\ pc[t] = "signal"
             /\ pthread_cond_signal
             /\ pc' = [pc EXCEPT ![t] = "unlock"]
             /\ UNCHANGED <<mutex, global_count, main, last>>

Unlock(t) == /\ pc[t] = "unlock"
             /\ pthread_mutex_unlock(t)
             /\ pc' = [pc EXCEPT ![t] = IF global_count > Limit
                                        THEN "returned" ELSE "lock"]
             /\ UNCHANGED <<waiting, global_count, main, last>>

WakeUnsignalled(t) == /\ SpuriousWakeups
                      /\ SpuriousWakeup(t)
                      /\ UNCHANGED <<mutex, global_count, pc, main, last>>
-----------------------------------------------------------------------------
\* pthread_create: on failure main prints a line and goes on.
Create(t, from, to) ==
    /\ main = from
    /\ \E outcome \in {"lock"} \cup (IF CreateMayFail THEN {"absent"} ELSE {}) :
          pc' = [pc EXCEPT ![t] = outcome]
    /\ main' = to
    /\ UNCHANGED <<mutex, waiting, global_count, last>>

\* A mutant: odd_thread is joined twice.
JoinOdd(t, from, to) ==
    /\ main = from
    /\ \/ /\ pc["odd_thread"] = "returned"
          /\ main' = to
       \/ /\ pc["odd_thread"] = "absent"
          /\ main' \in {to, "crashed"}
    /\ UNCHANGED <<mutex, waiting, global_count, pc, last>>

\* pthread_join of a thread that returned; or of a tid never written, which
\* is undefined: glibc reports ESRCH or faults.
Join(t, from, to) ==
    /\ main = from
    /\ \/ /\ pc[t] = "returned"
          /\ main' = to
       \/ /\ pc[t] = "absent"
          /\ main' \in {to, "crashed"}
    /\ UNCHANGED <<mutex, waiting, global_count, pc, last>>

Destroy == /\ main = "destroy"
           /\ main' = "exited"
           /\ UNCHANGED <<mutex, waiting, global_count, pc, last>>

MainNext == \/ Create("odd_thread", "create_odd", "create_even")
            \/ Create("even_thread", "create_even", "join_odd")
            \/ Join("odd_thread", "join_odd", "join_even")
            \/ Join("even_thread", "join_even", "destroy")
            \/ Destroy

ThreadNext(t) == /\ Running
                 /\ \/ Lock(t)
                    \/ Wait(t)
                    \/ Resume(t)
                    \/ Increment(t)
                    \/ Signal(t)
                    \/ Unlock(t)

\* The process is over; nothing happens any more.
Over == ~Running /\ UNCHANGED vars

Next == \/ MainNext
        \/ \E t \in Threads : ThreadNext(t)
        \/ \E t \in Threads : Running /\ WakeUnsignalled(t)
        \/ Over

Spec == Init /\ [][Next]_vars

\* The scheduler runs a thread that can run.  Nothing is assumed about who
\* wins the mutex: the default mutex is not fair.
FairSpec == Spec /\ WF_vars(MainNext) /\ \A t \in Threads : WF_vars(ThreadNext(t))
-----------------------------------------------------------------------------
\* No lost wakeup: a thread sleeps through its own turn only while the other
\* one is between its increment and its signal.  (The signal is not
\* remembered, so a signal sent before the other thread sleeps must not
\* matter: pthread_cond_wait under count_lock, lines 19-24 and 36-41.)
NoLostWakeup ==
    \A t \in waiting : ~Blocked(t) => \E u \in Threads : u # t /\ pc[u] = "signal"

\* The counter never exceeds Limit + 2, and when main has joined, nobody uses
\* or will use the mutex and the condition variable that main destroys: each
\* thread has returned, after at most one turn above the limit, or was never
\* created.  If both have, the counter is at exactly Limit + 2 (lines 25-28,
\* 42-45 and 54-63).
EndCount == /\ global_count <= Limit + 2
            /\ main \in {"destroy", "exited"} =>
                  \A t \in Threads : pc[t] \in {"returned", "absent"}
            /\ (\A t \in Threads : pc[t] = "returned") => global_count = Limit + 2

\* Both programs of the README take turns: AlternatePrint implements TurnTaking
\* with Top = Limit + 2.  Neither a spurious wakeup nor a missing thread lets
\* anybody raise the counter twice in a row (lines 19-23 and 36-40).
Turns == INSTANCE TurnTaking
            WITH First <- "odd_thread", Second <- "even_thread",
                 Top <- Limit + 2, counter <- global_count
TakesTurns == Turns!TurnSpec

\* If both threads were created, and pthread_cond_wait returns unsignalled only
\* finitely often, both return and main exits: nobody is left asleep.
FinitelySpurious == <>[][\A t \in Threads : ~WakeUnsignalled(t)]_vars
Terminates == FinitelySpurious => <>(main = "exited" \/ \E t \in Threads : pc[t] = "absent")
=============================================================================
