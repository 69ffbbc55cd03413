---------------------------- MODULE MutexAltPrint ----------------------------
(***************************************************************************)
(* mutex_alt_print.c: func1 raises cnt_g when it is even, func2 when it is *)
(* odd.  Each thread takes the mutex once, before its loop, and unlocks it *)
(* again in every turn that is not its own, held or not: after its first   *)
(* unlock a thread runs on without the mutex, so that cnt_g is tested,     *)
(* printed, loaded and stored in a data race.                              *)
(*                                                                         *)
(* The race is modelled on the sequentially consistent interleavings of    *)
(* the single word cnt_g (printf and pthread_mutex_unlock keep a compiler  *)
(* from caching it); unlocking a default mutex that somebody else holds,   *)
(* or nobody, is undefined, and glibc sets the lock word free.             *)
(***************************************************************************)
EXTENDS Naturals

CONSTANTS Limit,          \* the 100 of "cnt_g < 100"
          NoThread,
          CreateMayFail   \* may pthread_create fail?

ASSUME LimitAssumption == Limit \in Nat \ {0}
ASSUME FlagAssumption == CreateMayFail \in BOOLEAN

Threads == {"func1", "func2"}

ASSUME NoThreadAssumption == NoThread \notin Threads

VARIABLES cnt_g, cnt_m,   \* the counter, and who locked the mutex last (NoThread: free)
          pc,             \* where each thread is
          reg,            \* the value cnt_g++ has loaded
          main,           \* where the main thread is
          out,            \* the last "thread id:.. val:.." line: who, what, and
                          \* how many there are by now
          last            \* history: the thread that raised cnt_g last

vars == <<cnt_g, cnt_m, pc, reg, main, out, last>>

TypeOK == /\ cnt_g \in Nat
          /\ cnt_m \in Threads \cup {NoThread}
          /\ pc \in [Threads -> {"unborn", "absent", "lock", "test", "print", "load",
                                 "store", "notice", "unlock", "while", "returned"}]
          /\ reg \in [Threads -> Nat]
          /\ main \in {"create1", "create2", "join1", "join2", "exited", "crashed"}
          /\ out \in [by : Threads \cup {NoThread}, val : Nat, nr : Nat]
          /\ last \in Threads

Init == /\ cnt_g = 0
        /\ cnt_m = NoThread
        /\ pc = [t \in Threads |-> "unborn"]
        /\ reg = [t \in Threads |-> 0]
        /\ main = "create1"
        /\ out = [by |-> NoThread, val |-> 0, nr |-> 0]
        /\ last = "func2"

Running == main \notin {"exited", "crashed"}
Goto(t, l) == pc' = [pc EXCEPT ![t] = l]
-----------------------------------------------------------------------------
\* It is t's turn.
Mine(t) == IF t = "func1" THEN cnt_g % 2 = 0 ELSE cnt_g % 2 # 0

Lock(t) == /\ pc[t] = "lock"
           /\ cnt_m = NoThread
           /\ cnt_m' = t
           /\ Goto(t, "test")
           /\ UNCHANGED <<cnt_g, reg, main, out, last>>

\* A mutant: the parity is not tested before the increment.
TestDropped(t) == /\ pc[t] = "test"
                  /\ pc' = [pc EXCEPT ![t] = "print"]
                  /\ UNCHANGED <<cnt_g, cnt_m, reg, main, out, last>>

Test(t) == /\ pc[t] = "test"
           /\ Goto(t, IF Mine(t) THEN "print" ELSE "notice")
           /\ UNCHANGED <<cnt_g, cnt_m, reg, main, out, last>>

PrintValue(t) == /\ pc[t] = "print"
                 /\ out' = [by |-> t, val |-> cnt_g, nr |-> out.nr + 1]
                 /\ Goto(t, "load")
                 /\ UNCHANGED <<cnt_g, cnt_m, reg, main, last>>

\* cnt_g++ loads the word and stores it back, with no lock held for both.
Load(t) == /\ pc[t] = "load"
           /\ reg' = [reg EXCEPT ![t] = cnt_g]
           /\ Goto(t, "store")
           /\ UNCHANGED <<cnt_g, cnt_m, main, out, last>>

\* A mutant: the increment is by two.
StoreTwice(t) == /\ pc[t] = "store"
                 /\ cnt_g' = reg[t] + 2
                 /\ last' = t
                 /\ pc' = [pc EXCEPT ![t] = "while"]
                 /\ UNCHANGED <<cnt_m, reg, main, out>>

Store(t) == /\ pc[t] = "store"
            /\ cnt_g' = reg[t] + 1
            /\ last' = t
            /\ Goto(t, "while")
            /\ UNCHANGED <<cnt_m, reg, main, out>>

\* The "Unlocking mutex cnt:.." line, which reads cnt_g once more.
PrintUnlocking(t) == /\ pc[t] = "notice"
                     /\ Goto(t, "unlock")
                     /\ UNCHANGED <<cnt_g, cnt_m, reg, main, out, last>>

\* A mutant: there is no else, the turn is taken after the unlock all the same.
UnlockFallsThrough(t) == /\ pc[t] = "unlock"
                         /\ cnt_m' = NoThread
                         /\ pc' = [pc EXCEPT ![t] = "print"]
                         /\ UNCHANGED <<cnt_g, reg, main, out, last>>

\* A mutant: the mutex is never unlocked.
UnlockNever(t) == /\ pc[t] = "unlock"
                  /\ pc' = [pc EXCEPT ![t] = "while"]
                  /\ UNCHANGED <<cnt_g, cnt_m, reg, main, out, last>>

\* pthread_mutex_unlock, whoever holds the mutex.
Unlock(t) == /\ pc[t] = "unlock"
             /\ cnt_m' = NoThread
             /\ Goto(t, "while")
             /\ UNCHANGED <<cnt_g, reg, main, out, last>>

\* A mutant: the bound of the loop is inclusive.
WhileInclusive(t) == /\ pc[t] = "while"
                     /\ pc' = [pc EXCEPT ![t] = IF cnt_g <= Limit
                                                THEN "test" ELSE "returned"]
                     /\ UNCHANGED <<cnt_g, cnt_m, reg, main, out, last>>

While(t) == /\ pc[t] = "while"
            /\ Goto(t, IF cnt_g < Limit THEN "test" ELSE "returned")
            /\ UNCHANGED <<cnt_g, cnt_m, reg, main, out, last>>
-----------------------------------------------------------------------------
\* pthread_create: on failure main prints a line and goes on.
Create(t, from, to) ==
    /\ main = from
    /\ \E outcome \in {"lock"} \cup (IF CreateMayFail THEN {"absent"} ELSE {}) :
          Goto(t, outcome)
    /\ main' = to
    /\ UNCHANGED <<cnt_g, cnt_m, reg, out, last>>

\* pthread_join; of a tid that was never written it is undefined: glibc
\* reports ESRCH or faults.
Join(t, from, to) ==
    /\ main = from
    /\ \/ /\ pc[t] = "returned"
          /\ main' = to
       \/ /\ pc[t] = "absent"
          /\ main' \in {to, "crashed"}
    /\ UNCHANGED <<cnt_g, cnt_m, pc, reg, out, last>>

MainNext == \/ Create("func1", "create1", "create2")
            \/ Create("func2", "create2", "join1")
            \/ Join("func1", "join1", "join2")
            \/ Join("func2", "join2", "exited")

ThreadNext(t) == /\ Running
                 /\ \/ Lock(t) \/ Test(t) \/ PrintValue(t) \/ Load(t)
                    \/ Store(t) \/ PrintUnlocking(t) \/ Unlock(t) \/ While(t)

Over == ~Running /\ UNCHANGED vars

Next == \/ MainNext
        \/ \E t \in Threads : ThreadNext(t)
        \/ Over

Spec == Init /\ [][Next]_vars

\* The scheduler runs a thread that can run.
FairSpec == Spec /\ WF_vars(MainNext) /\ \A t \in Threads : WF_vars(ThreadNext(t))
-----------------------------------------------------------------------------
\* In spite of the race no update is lost and nobody jumps the queue: the
\* program implements TurnTaking, but only up to Limit + 1.  (func1 may read 99
\* in its loop condition and 100 in the test that follows, lines 26 and 19.)
Turns == INSTANCE TurnTaking
            WITH First <- "func1", Second <- "func2",
                 Top <- Limit + 1, counter <- cnt_g
TakesTurns == Turns!TurnSpec

\* The "val:" lines are 0, 1, 2, ..., from the two threads in turn and none of
\* them twice: the n-th shows n - 1, the value that was tested (lines 19-21 and
\* 32-34).  What src/pthread/README:4 says is printed "again and again" is the
\* number of the "Unlocking" lines: the one printed last, or the next one, even
\* when the counter is raised between test and printf (lines 23 and 36).
ValueLinesAlternate ==
    [][/\ out' # out => out'.val = out.nr /\ out'.by # out.by
       /\ \A t \in Threads : PrintUnlocking(t) => cnt_g \in {out.val, out.nr}]_vars

\* Only one thread is ever between its test and its store, although no mutex
\* keeps the other out (lines 19-21 and 32-34).
Turnwise == \A t, u \in Threads :
               {pc[t], pc[u]} \subseteq {"print", "load", "store"} => t = u

\* When both threads have returned the counter is Limit, or one above it.
EndCount == (\A t \in Threads : pc[t] = "returned") => cnt_g \in Limit .. Limit + 1

\* Both threads return, although func1 locks a mutex it may never own again
\* and func2 waits for it (lines 17, 24 and 30).
Terminates == <>(main = "exited" \/ \E t \in Threads : pc[t] = "absent")
=============================================================================
