------------------------------ MODULE Pthread ------------------------------
(***************************************************************************)
(* The POSIX synchronisation objects the thread programs of this           *)
(* repository share: one default mutex and one condition variable.  The    *)
(* library is not part of the repository; it is modelled from the calls    *)
(* the programs make and from what POSIX lets those calls do.              *)
(*                                                                         *)
(* pthread_cond_wait is two steps of its caller: releasing the mutex and   *)
(* joining the wait set is atomic, and the return needs the mutex again.   *)
(* Between the two any thread may run, and POSIX lets the wait end without *)
(* a signal (SpuriousWakeup).                                              *)
(***************************************************************************)
EXTENDS Naturals, FiniteSets

CONSTANTS Threads,   \* the threads that use the mutex
          NoThread   \* "nobody": the mutex is free

ASSUME ThreadsAssumption == NoThread \notin Threads

VARIABLES mutex,     \* the thread that holds the mutex, or NoThread
          waiting    \* the threads asleep on the condition variable

SyncTypeOK == /\ mutex \in Threads \cup {NoThread}
              /\ waiting \subseteq Threads

SyncInit == /\ mutex = NoThread
            /\ waiting = {}

pthread_mutex_lock(t) == /\ mutex = NoThread
                         /\ mutex' = t

pthread_mutex_unlock(t) == /\ mutex = t
                           /\ mutex' = NoThread

\* The call: release the mutex and fall asleep in one step.
pthread_cond_wait(t) == /\ mutex = t
                        /\ mutex' = NoThread
                        /\ waiting' = waiting \cup {t}

\* The return from the call: awake, and owner of the mutex again.
CondWaitReturns(t) == /\ t \notin waiting
                      /\ pthread_mutex_lock(t)

\* A signal wakes one sleeper, if there is one; it is not remembered.
pthread_cond_signal == \/ /\ waiting = {}
                          /\ UNCHANGED waiting
                       \/ \E u \in waiting : waiting' = waiting \ {u}

pthread_cond_broadcast == waiting' = {}

SpuriousWakeup(t) == /\ t \in waiting
                     /\ waiting' = waiting \ {t}
============================================================================
