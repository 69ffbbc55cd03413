------------------------------ MODULE SemUsage ------------------------------
(***************************************************************************)
(* sem_usage.c: the producers wait on my_cond_var, the consumer broadcasts *)
(* it over and over, and every producer that is woken raises count, prints *)
(* it and waits again.  No thread returns and my_mutex is a default mutex, *)
(* so who gets it after an unlock is open: the consumer may lock it again  *)
(* and again before a woken producer does.                                 *)
(***************************************************************************)
EXTENDS Pthread

CONSTANTS NProducers,       \* 5 in the code
          CountModulus,     \* bound: count and the number of lines, modulo this
          SpuriousWakeups,  \* may pthread_cond_wait return unsignalled?
          CreateMayFail     \* may pthread_create fail?

Producers == 1 .. NProducers
Consumer == NProducers + 1

ASSUME SizesAssumption == /\ NProducers \in Nat \ {0}
                          /\ Threads = 1 .. NProducers + 1
                          /\ CountModulus \in Nat \ {0, 1}
ASSUME FlagAssumption == {SpuriousWakeups, CreateMayFail} \subseteq BOOLEAN

VARIABLES count,
          reg,     \* the value a producer's count++ has loaded (0: none)
          stored,  \* history: the producer whose count++ stored last
          pc,      \* where each thread is
          main,    \* the thread main creates next; then the producer it joins
          phase,   \* "create", "join", "exited" or "crashed"
          line     \* the last "From thread[..]: count: .." line: who, what,
                   \* and how many there are by now

vars == <<mutex, waiting, count, reg, stored, pc, main, phase, line>>

TypeOK == /\ SyncTypeOK
          /\ count \in 0 .. CountModulus - 1
          /\ reg \in [Threads -> 0 .. CountModulus - 1]
          /\ stored \in Threads \cup {NoThread}
          /\ pc \in [Threads -> {"unborn", "absent", "lock", "wait", "cond", "count",
                                 "store", "print", "broadcast", "unlock"}]
          /\ main \in 1 .. NProducers + 2
          /\ phase \in {"create", "join", "exited", "crashed"}
          /\ line \in [by : Threads \cup {NoThread}, val : 0 .. CountModulus - 1,
                       nr : 0 .. CountModulus - 1]

Init == /\ SyncInit
        /\ count = 0
        /\ reg = [t \in Threads |-> 0]
        /\ stored = NoThread
        /\ pc = [t \in Threads |-> "unborn"]
        /\ main = 1
        /\ phase = "create"
        /\ line = [by |-> NoThread, val |-> 0, nr |-> 0]

Running == phase \in {"create", "join"}
Goto(t, l) == pc' = [pc EXCEPT ![t] = l]
-----------------------------------------------------------------------------
Lock(t, next) == /\ pc[t] = "lock"
                 /\ pthread_mutex_lock(t)
                 /\ Goto(t, next)
                 /\ UNCHANGED <<waiting, count, reg, stored, main, phase, line>>

\* A mutant: the producer does not wait.
CondWaitSkipped(p) == /\ pc[p] = "wait"
                      /\ pc' = [pc EXCEPT ![p] = "count"]
                      /\ UNCHANGED <<mutex, waiting, count, reg, stored, main, phase, line>>

CondWait(p) == /\ pc[p] = "wait"
               /\ pthread_cond_wait(p)
               /\ Goto(p, "cond")
               /\ UNCHANGED <<count, reg, stored, main, phase, line>>

CondReturn(p) == /\ pc[p] = "cond"
                 /\ CondWaitReturns(p)
                 /\ Goto(p, "count")
                 /\ UNCHANGED <<waiting, count, reg, stored, main, phase, line>>

\* A mutant: the mutex is given up before count is stored.
LoadUnlocked(p) == /\ pc[p] = "count"
                   /\ reg' = [reg EXCEPT ![p] = count]
                   /\ mutex' = NoThread
                   /\ pc' = [pc EXCEPT ![p] = "store"]
                   /\ UNCHANGED <<waiting, count, stored, main, phase, line>>

\* count++ loads the word and stores it back.
Load(p) == /\ pc[p] = "count"
           /\ reg' = [reg EXCEPT ![p] = count]
           /\ Goto(p, "store")
           /\ UNCHANGED <<mutex, waiting, count, stored, main, phase, line>>

Store(p) == /\ pc[p] = "store"
            /\ count' = (reg[p] + 1) % CountModulus
            /\ reg' = [reg EXCEPT ![p] = 0]
            /\ stored' = p
            /\ Goto(p, "print")
            /\ UNCHANGED <<mutex, waiting, main, phase, line>>

PrintCount(p) == /\ pc[p] = "print"
                 /\ line' = [by |-> p, val |-> count, nr |-> (line.nr + 1) % CountModulus]
                 /\ Goto(p, "unlock")
                 /\ UNCHANGED <<mutex, waiting, count, reg, stored, main, phase>>

Unlock(t) == /\ pc[t] = "unlock"
             /\ pthread_mutex_unlock(t)
             /\ Goto(t, "lock")
             /\ UNCHANGED <<waiting, count, reg, stored, main, phase, line>>

WakeUnsignalled(p) == /\ SpuriousWakeups
                      /\ SpuriousWakeup(p)
                      /\ UNCHANGED <<mutex, count, reg, stored, pc, main, phase, line>>

\* The consumer's printf reads count under the mutex, so it is no step of its own.
Broadcast == /\ pc[Consumer] = "broadcast"
             /\ pthread_cond_broadcast
             /\ Goto(Consumer, "unlock")
             /\ UNCHANGED <<mutex, count, reg, stored, main, phase, line>>
-----------------------------------------------------------------------------
\* pthread_create, the producers first: a failure is printed or not noticed.
Create == /\ phase = "create"
          /\ \E start \in {"lock"} \cup (IF CreateMayFail THEN {"absent"} ELSE {}) :
                Goto(main, start)
          /\ IF main = Consumer THEN main' = 1 /\ phase' = "join"
                                ELSE main' = main + 1 /\ UNCHANGED phase
          /\ UNCHANGED <<mutex, waiting, count, reg, stored, line>>

\* pthread_join of a producer: it never returns, unless the tid was never
\* written, which is undefined: glibc reports ESRCH or faults.
Join == /\ phase = "join"
        /\ main \in Producers
        /\ pc[main] = "absent"
        /\ \/ main' = main + 1 /\ UNCHANGED phase
           \/ phase' = "crashed" /\ UNCHANGED main
        /\ UNCHANGED <<mutex, waiting, count, reg, stored, pc, line>>

\* main returns, and ends the process.
Exit == /\ phase = "join"
        /\ main = NProducers + 1
        /\ phase' = "exited"
        /\ UNCHANGED <<mutex, waiting, count, reg, stored, pc, main, line>>

MainNext == Create \/ Join \/ Exit

ProducerNext(p) == /\ Running
                   /\ \/ Lock(p, "wait") \/ CondWait(p) \/ CondReturn(p)
                      \/ Load(p) \/ Store(p) \/ PrintCount(p) \/ Unlock(p)

ConsumerNext == /\ Running
                /\ \/ Lock(Consumer, "broadcast") \/ Broadcast \/ Unlock(Consumer)

Over == ~Running /\ UNCHANGED vars

Next == \/ MainNext
        \/ \E p \in Producers : ProducerNext(p)
        \/ ConsumerNext
        \/ \E p \in Producers : Running /\ WakeUnsignalled(p)
        \/ Over

Spec == Init /\ [][Next]_vars

\* The scheduler runs a thread that can run: all that POSIX grants.
FairSpec == /\ Spec
            /\ WF_vars(MainNext)
            /\ \A p \in Producers : WF_vars(ProducerNext(p))
            /\ WF_vars(ConsumerNext)
-----------------------------------------------------------------------------
\* Whoever wakes up when, no increment is lost and no number is printed twice:
\* the producers' n-th line shows n and comes from the producer that stored n
\* (lines 21-25), and the consumer's line shows the number of the producers'
\* last line (lines 31-32).
CountsUp == [][/\ line' # line => line'.val = line'.nr /\ line'.by = stored
               /\ Broadcast => count = line.nr]_vars

\* The producers cannot keep the consumer out for ever, although nothing is
\* assumed about who wins the mutex: each of them sleeps again after one turn,
\* and only the consumer can wake it (lines 19-37).  This needs all threads to
\* exist and finitely many spurious wakeups.
AllExist == \A t \in Threads : pc[t] # "absent"
FinitelySpurious == <>[][\A p \in Producers : ~WakeUnsignalled(p)]_vars
ConsumerGoesOn == FinitelySpurious => []<>(pc[Consumer] = "broadcast" \/ ~AllExist)
=============================================================================
