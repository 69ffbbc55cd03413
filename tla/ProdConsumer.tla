---------------------------- MODULE ProdConsumer ----------------------------
(***************************************************************************)
(* prod_consumer.c: NCP producers and NCP consumers share a buffer of      *)
(* BUF_LEN cells guarded by two semaphores and a mutex.  buf_empty starts  *)
(* at BUF_LEN, buf_full at 1.  Every thread visits the cells 0 .. NITERS,  *)
(* the producers upwards and the consumers downwards, and either kind      *)
(* stores i in cell i: no value is ever read back by another thread, so    *)
(* the cells' contents are left out.                                       *)
(*                                                                         *)
(* NITERS = BUF_LEN, so the last cell lies one past the array.  Where      *)
(* pthread_mutex_t is aligned to 8 bytes it is padding; where it is        *)
(* aligned to 4 it is the first word of my_mutex, glibc's lock word        *)
(* (LockWordNext).  The lock word is modelled by its value: 0 is free.     *)
(***************************************************************************)
EXTENDS Integers, FiniteSets

CONSTANTS NCP, NITERS, BUF_LEN,
          LockWordNext,    \* my_mutex directly follows the last cell
          CreateMayFail    \* may pthread_create fail?

ASSUME SizesAssumption == /\ NCP \in Nat \ {0}
                          /\ NITERS \in Nat \ {0}
                          /\ BUF_LEN \in Nat
                          /\ NITERS <= BUF_LEN
ASSUME FlagAssumption == {LockWordNext, CreateMayFail} \subseteq BOOLEAN

\* Threads in the order of their creation.
Producers == 0 .. NCP - 1
Consumers == NCP .. 2 * NCP - 1
Threads == 0 .. 2 * NCP - 1

VARIABLES buf_full, buf_empty,   \* the semaphores
          my_mutex,              \* the lock word
          pc,                    \* where each thread is
          i,                     \* each thread's loop variable
          main,                  \* the thread main creates next; then its joins
          alive,                 \* main has not returned from a failed create
          filled, taken          \* cells filled and emptied so far

vars == <<buf_full, buf_empty, my_mutex, pc, i, main, alive, filled, taken>>

TypeOK == /\ buf_full \in Nat
          /\ buf_empty \in Nat
          /\ my_mutex \in Nat
          /\ pc \in [Threads -> {"unborn", "semwait", "lock", "visit", "unlock",
                                 "post", "returned"}]
          /\ i \in [Threads -> Int]
          /\ \A t \in Threads : /\ pc[t] # "returned" => i[t] \in 0 .. NITERS
                                /\ pc[t] = "returned" => i[t] \in {-1, NITERS + 1}
          /\ main \in 0 .. 2 * NCP + 2
          /\ alive \in BOOLEAN
          /\ filled \in Nat
          /\ taken \in Nat

Init == /\ buf_full = 1
        /\ buf_empty = BUF_LEN
        /\ my_mutex = 0
        /\ pc = [t \in Threads |-> "unborn"]
        /\ i = [t \in Threads |-> IF t \in Producers THEN 0 ELSE NITERS]
        /\ main = 0
        /\ alive = TRUE
        /\ filled = 0
        /\ taken = 0

Goto(t, l) == pc' = [pc EXCEPT ![t] = l]
-----------------------------------------------------------------------------
\* sem_wait: producers on buf_empty, consumers on buf_full.
SemWait(t) ==
    /\ pc[t] = "semwait"
    /\ IF t \in Producers
       THEN buf_empty > 0 /\ buf_empty' = buf_empty - 1 /\ UNCHANGED buf_full
       ELSE buf_full > 0 /\ buf_full' = buf_full - 1 /\ UNCHANGED buf_empty
    /\ Goto(t, "lock")
    /\ UNCHANGED <<my_mutex, i, main, alive, filled, taken>>

Lock(t) == /\ pc[t] = "lock"
           /\ my_mutex = 0
           /\ my_mutex' = 1
           /\ Goto(t, "visit")
           /\ UNCHANGED <<buf_full, buf_empty, i, main, alive, filled, taken>>

\* A mutant: the consumer stores 0 to mark the cell empty.
VisitClears(t) ==
    /\ pc[t] = "visit"
    /\ my_mutex' = IF LockWordNext /\ i[t] = BUF_LEN
                   THEN (IF t \in Producers THEN i[t] ELSE 0) ELSE my_mutex
    /\ IF t \in Producers THEN filled' = filled + 1 /\ UNCHANGED taken
                          ELSE taken' = taken + 1 /\ UNCHANGED filled
    /\ pc' = [pc EXCEPT ![t] = "unlock"]
    /\ UNCHANGED <<buf_full, buf_empty, i, main, alive>>

\* buffer[i] = i, in a producer and in a consumer.
Visit(t) ==
    /\ pc[t] = "visit"
    /\ my_mutex' = IF LockWordNext /\ i[t] = BUF_LEN THEN i[t] ELSE my_mutex
    /\ IF t \in Producers THEN filled' = filled + 1 /\ UNCHANGED taken
                          ELSE taken' = taken + 1 /\ UNCHANGED filled
    /\ Goto(t, "unlock")
    /\ UNCHANGED <<buf_full, buf_empty, i, main, alive>>

\* glibc exchanges the lock word for 0, whatever it was.
Unlock(t) == /\ pc[t] = "unlock"
             /\ my_mutex' = 0
             /\ Goto(t, "post")
             /\ UNCHANGED <<buf_full, buf_empty, i, main, alive, filled, taken>>

\* The loop variable after the turn, and whether another turn follows.
NextIndex(t) == IF t \in Producers THEN i[t] + 1 ELSE i[t] - 1
Finished(t) == IF t \in Producers THEN NextIndex(t) > NITERS ELSE NextIndex(t) < 0

\* A mutant: everybody posts buf_full.
SemPostFull(t) ==
    /\ pc[t] = "post"
    /\ buf_full' = buf_full + 1
    /\ i' = [i EXCEPT ![t] = NextIndex(t)]
    /\ pc' = [pc EXCEPT ![t] = IF Finished(t) THEN "returned" ELSE "semwait"]
    /\ UNCHANGED <<buf_empty, my_mutex, main, alive, filled, taken>>

\* sem_post of the other semaphore, and the head of the for loop.
SemPost(t) ==
    /\ pc[t] = "post"
    /\ IF t \in Producers
       THEN buf_full' = buf_full + 1 /\ UNCHANGED buf_empty
       ELSE buf_empty' = buf_empty + 1 /\ UNCHANGED buf_full
    /\ i' = [i EXCEPT ![t] = NextIndex(t)]
    /\ Goto(t, IF Finished(t) THEN "returned" ELSE "semwait")
    /\ UNCHANGED <<my_mutex, main, alive, filled, taken>>

ThreadNext(t) == /\ alive
                 /\ \/ SemWait(t) \/ Lock(t) \/ Visit(t) \/ Unlock(t) \/ SemPost(t)
-----------------------------------------------------------------------------
Create == /\ main \in Threads
          /\ pc' = [pc EXCEPT ![main] = "semwait"]
          /\ main' = main + 1
          /\ UNCHANGED <<buf_full, buf_empty, my_mutex, i, alive, filled, taken>>

\* pthread_create fails: main returns -1, which ends the process, threads and all.
CreateFails == /\ CreateMayFail
               /\ main \in Threads
               /\ alive' = FALSE
               /\ UNCHANGED <<buf_full, buf_empty, my_mutex, pc, i, main, filled, taken>>

\* main joins the last producer, then the last consumer; its pthread_exit lets
\* the others go on.
Join == /\ main \in {2 * NCP, 2 * NCP + 1}
        /\ pc[IF main = 2 * NCP THEN NCP - 1 ELSE 2 * NCP - 1] = "returned"
        /\ main' = main + 1
        /\ UNCHANGED <<buf_full, buf_empty, my_mutex, pc, i, alive, filled, taken>>

MainNext == alive /\ (Create \/ CreateFails \/ Join)

AllReturned == /\ main = 2 * NCP + 2
               /\ \A t \in Threads : pc[t] = "returned"

\* The process is over; nothing happens any more.
Over == (AllReturned \/ ~alive) /\ UNCHANGED vars

Next == MainNext \/ (\E t \in Threads : ThreadNext(t)) \/ Over

Spec == Init /\ [][Next]_vars

\* The scheduler runs a thread that can run.  Nothing is assumed about who
\* wins the mutex or a semaphore.
FairSpec == Spec /\ WF_vars(MainNext) /\ \A t \in Threads : WF_vars(ThreadNext(t))
-----------------------------------------------------------------------------
\* Threads that hold a token of the semaphore they waited for, before and after
\* their visit of the buffer.
Entering(S) == {t \in S : pc[t] \in {"lock", "visit"}}
Leaving(S) == {t \in S : pc[t] \in {"unlock", "post"}}

\* The semaphores count the cells: what is filled and not taken, and not under
\* way, is on buf_full, over and above the 1 it starts with; dually buf_empty.
\* So the buffer never holds more than BUF_LEN items, and the consumers are
\* never more than that 1 ahead (lines 31-36, 47-52 and 62-63).
Tokens ==
    /\ buf_full = 1 + filled - taken
                    - Cardinality(Leaving(Producers)) - Cardinality(Entering(Consumers))
    /\ buf_empty = BUF_LEN - filled + taken
                    - Cardinality(Entering(Producers)) - Cardinality(Leaving(Consumers))
    /\ filled - taken \in -1 .. BUF_LEN

\* At most one thread is inside the mutex, although the visit of cell BUF_LEN
\* may store to the lock word itself (lines 32-35 and 48-51).
Exclusion == \A t, u \in Threads :
                {pc[t], pc[u]} \subseteq {"visit", "unlock"} => t = u

\* Unless a thread could not be created, all threads return.
Terminates == <>(AllReturned \/ ~alive)
=============================================================================
