------------------------ MODULE ProdConsumer_proof --------------------------
(***************************************************************************)
(* Proofs about ProdConsumer, for every number of producers and consumers, *)
(* every NITERS up to BUF_LEN, either layout of the mutex behind the       *)
(* buffer, with and without failing pthread_create.                        *)
(***************************************************************************)
EXTENDS ProdConsumer, FiniteSetTheorems, TLAPS

Inside(t) == pc[t] \in {"visit", "unlock"}

\* The lock word is nonzero exactly while a thread is inside, also when that
\* thread has stored its index to it.
LockWord == my_mutex # 0 <=> \E t \in Threads : Inside(t)

\* Threads main has not come to do not run.
NotYetBorn == \A t \in Threads : t >= main => pc[t] = "unborn"

\* The two equations of Tokens; its range follows from them.
Balance ==
    /\ buf_full = 1 + filled - taken
                    - Cardinality(Leaving(Producers)) - Cardinality(Entering(Consumers))
    /\ buf_empty = BUF_LEN - filled + taken
                    - Cardinality(Entering(Producers)) - Cardinality(Leaving(Consumers))

IInv == /\ TypeOK
        /\ NotYetBorn
        /\ LockWord
        /\ Exclusion
        /\ Balance
-----------------------------------------------------------------------------
\* Producers and consumers are the two halves of the threads, and finite.
LEMMA Halves ==
    /\ Producers \subseteq Threads /\ Consumers \subseteq Threads
    /\ \A t \in Threads : t \in Producers <=> t \notin Consumers
    /\ IsFiniteSet(Producers) /\ IsFiniteSet(Consumers)
  <1>1. NCP \in Nat \ {0}
    BY SizesAssumption
  <1>2. IsFiniteSet(0 .. NCP - 1) /\ IsFiniteSet(NCP .. 2 * NCP - 1)
    BY <1>1, FS_Interval
  <1>3. QED
    BY <1>1, <1>2 DEF Producers, Consumers, Threads

\* The threads on their way in or out of the buffer can be counted.
LEMMA Countable ==
    ASSUME NEW S, IsFiniteSet(S)
    PROVE  /\ IsFiniteSet(Entering(S)) /\ Cardinality(Entering(S)) \in Nat
           /\ IsFiniteSet(Leaving(S)) /\ Cardinality(Leaving(S)) \in Nat
  <1>1. Entering(S) \in SUBSET S /\ Leaving(S) \in SUBSET S
    BY DEF Entering, Leaving
  <1>2. IsFiniteSet(Entering(S)) /\ IsFiniteSet(Leaving(S))
    BY <1>1, FS_Subset
  <1>3. QED
    BY <1>2, FS_CardinalityType

\* By how much the number of threads of S in these places changes when t moves
\* to l.
Change(t, l, S, places) ==
    IF t \in S /\ l \in places /\ pc[t] \notin places THEN 1
    ELSE IF t \in S /\ l \notin places /\ pc[t] \in places THEN -1 ELSE 0

\* What a thread's move does to the counts of either half.
LEMMA Moves ==
    ASSUME TypeOK, NEW t \in Threads, NEW l, pc' = [pc EXCEPT ![t] = l],
           NEW S, S \subseteq Threads, IsFiniteSet(S)
    PROVE  /\ Cardinality(Entering(S))' = Cardinality(Entering(S))
                                            + Change(t, l, S, {"lock", "visit"})
           /\ Cardinality(Leaving(S))' = Cardinality(Leaving(S))
                                            + Change(t, l, S, {"unlock", "post"})
  <1> DEFINE In == {"lock", "visit"}
             Out == {"unlock", "post"}
  <1>1. \A u \in Threads : pc'[u] = IF u = t THEN l ELSE pc[u]
    BY DEF TypeOK
  <1>2. IsFiniteSet(Entering(S)) /\ IsFiniteSet(Leaving(S))
    BY Countable
  <1>3. Entering(S)' = {u \in S : pc'[u] \in In} /\ Leaving(S)' = {u \in S : pc'[u] \in Out}
    BY DEF Entering, Leaving
  <1>4. Cardinality(Entering(S))' = Cardinality(Entering(S)')
        /\ Cardinality(Leaving(S))' = Cardinality(Leaving(S)')
    OBVIOUS
  <1>5. Entering(S)' = IF t \in S /\ l \in In THEN Entering(S) \cup {t} ELSE Entering(S) \ {t}
    BY <1>1, <1>3 DEF Entering
  <1>6. Leaving(S)' = IF t \in S /\ l \in Out THEN Leaving(S) \cup {t} ELSE Leaving(S) \ {t}
    BY <1>1, <1>3 DEF Leaving
  <1>7. /\ Cardinality(Entering(S) \cup {t}) = IF t \in Entering(S)
              THEN Cardinality(Entering(S)) ELSE Cardinality(Entering(S)) + 1
        /\ Cardinality(Entering(S) \ {t}) = IF t \in Entering(S)
              THEN Cardinality(Entering(S)) - 1 ELSE Cardinality(Entering(S))
    BY <1>2, FS_AddElement, FS_RemoveElement
  <1>8. /\ Cardinality(Leaving(S) \cup {t}) = IF t \in Leaving(S)
              THEN Cardinality(Leaving(S)) ELSE Cardinality(Leaving(S)) + 1
        /\ Cardinality(Leaving(S) \ {t}) = IF t \in Leaving(S)
              THEN Cardinality(Leaving(S)) - 1 ELSE Cardinality(Leaving(S))
    BY <1>2, FS_AddElement, FS_RemoveElement
  <1>9. t \in Entering(S) <=> t \in S /\ pc[t] \in In
    BY DEF Entering
  <1>10. t \in Leaving(S) <=> t \in S /\ pc[t] \in Out
    BY DEF Leaving
  <1>11. Cardinality(Entering(S)) \in Nat /\ Cardinality(Leaving(S)) \in Nat
    BY Countable
  <1>12. Cardinality(Entering(S))' = Cardinality(Entering(S)) + Change(t, l, S, In)
    BY <1>4, <1>5, <1>7, <1>9, <1>11 DEF Change
  <1>13. Cardinality(Leaving(S))' = Cardinality(Leaving(S)) + Change(t, l, S, Out)
    BY <1>4, <1>6, <1>8, <1>10, <1>11 DEF Change
  <1>14. QED
    BY <1>12, <1>13

\* The same for both halves.
LEMMA MovesBoth ==
    ASSUME TypeOK, NEW t \in Threads, NEW l, pc' = [pc EXCEPT ![t] = l]
    PROVE  /\ Cardinality(Entering(Producers))' =
                Cardinality(Entering(Producers)) + Change(t, l, Producers, {"lock", "visit"})
           /\ Cardinality(Leaving(Producers))' =
                Cardinality(Leaving(Producers)) + Change(t, l, Producers, {"unlock", "post"})
           /\ Cardinality(Entering(Consumers))' =
                Cardinality(Entering(Consumers)) + Change(t, l, Consumers, {"lock", "visit"})
           /\ Cardinality(Leaving(Consumers))' =
                Cardinality(Leaving(Consumers)) + Change(t, l, Consumers, {"unlock", "post"})
  <1>1. QED
    BY Halves, Moves

\* Nobody is on the way in or out while no thread is born.
LEMMA InitIInv == Init => IInv
  <1> SUFFICES ASSUME Init PROVE IInv
    OBVIOUS
  <1> USE SizesAssumption, Halves
  <1>1. \A t \in Threads : pc[t] = "unborn"
    BY DEF Init
  <1>2. TypeOK
    BY DEF Init, TypeOK, Threads, Producers
  <1>3. NotYetBorn /\ LockWord /\ Exclusion
    BY <1>1 DEF Init, NotYetBorn, LockWord, Inside, Exclusion
  <1>4. /\ Entering(Producers) = {} /\ Leaving(Producers) = {}
        /\ Entering(Consumers) = {} /\ Leaving(Consumers) = {}
    BY <1>1 DEF Entering, Leaving
  <1>5. Balance
    BY <1>4, FS_EmptySet DEF Init, Balance
  <1>6. QED
    BY <1>2, <1>3, <1>5 DEF IInv

\* A thread that moves was born, so main has passed it.
LEMMA MovesOnlyBorn ==
    ASSUME IInv, NEW t \in Threads, pc[t] # "unborn", NEW l,
           pc' = [pc EXCEPT ![t] = l], main' = main
    PROVE  NotYetBorn'
  BY SizesAssumption DEF IInv, TypeOK, NotYetBorn, Threads

\* The counts of a state are natural numbers, and so are those of its successor.
LEMMA Counts ==
    /\ Cardinality(Entering(Producers)) \in Nat /\ Cardinality(Leaving(Producers)) \in Nat
    /\ Cardinality(Entering(Consumers)) \in Nat /\ Cardinality(Leaving(Consumers)) \in Nat
  BY Halves, Countable

\* The balance is kept by a move that changes the semaphores by what it changes
\* of the counts and of filled and taken.
LEMMA Shift ==
    ASSUME TypeOK, TypeOK', Balance, NEW t \in Threads, NEW l, pc' = [pc EXCEPT ![t] = l],
           buf_full' = buf_full + (filled' - filled) - (taken' - taken)
                         - Change(t, l, Producers, {"unlock", "post"})
                         - Change(t, l, Consumers, {"lock", "visit"}),
           buf_empty' = buf_empty - (filled' - filled) + (taken' - taken)
                         - Change(t, l, Producers, {"lock", "visit"})
                         - Change(t, l, Consumers, {"unlock", "post"})
    PROVE  Balance'
  <1> DEFINE LP == Cardinality(Leaving(Producers))
             EC == Cardinality(Entering(Consumers))
             EP == Cardinality(Entering(Producers))
             LC == Cardinality(Leaving(Consumers))
             dLP == Change(t, l, Producers, {"unlock", "post"})
             dEC == Change(t, l, Consumers, {"lock", "visit"})
             dEP == Change(t, l, Producers, {"lock", "visit"})
             dLC == Change(t, l, Consumers, {"unlock", "post"})
  <1>1. LP' = LP + dLP /\ EC' = EC + dEC /\ EP' = EP + dEP /\ LC' = LC + dLC
    BY MovesBoth
  <1>2. LP \in Int /\ EC \in Int /\ EP \in Int /\ LC \in Int
    BY Counts
  <1>3. dLP \in Int /\ dEC \in Int /\ dEP \in Int /\ dLC \in Int
    BY DEF Change
  <1>4. /\ {buf_full, buf_empty, filled, taken} \subseteq Int
        /\ {filled', taken'} \subseteq Int /\ BUF_LEN \in Int
    BY SizesAssumption DEF TypeOK
  <1>5. buf_full = 1 + filled - taken - LP - EC /\ buf_empty = BUF_LEN - filled + taken - EP - LC
    BY DEF Balance
  <1>6. buf_full' = 1 + filled' - taken' - LP' - EC'
        /\ buf_empty' = BUF_LEN - filled' + taken' - EP' - LC'
    <2> HIDE DEF LP, EC, EP, LC, dLP, dEC, dEP, dLC
    <2>1. buf_full' = buf_full + (filled' - filled) - (taken' - taken) - dLP - dEC
          /\ buf_empty' = buf_empty - (filled' - filled) + (taken' - taken) - dEP - dLC
      BY DEF dLP, dEC, dEP, dLC
    <2>2. QED
      BY <1>1, <1>2, <1>3, <1>4, <1>5, <2>1
  <1>7. QED
    BY <1>6 DEF Balance

\* Taking a token: the thread enters.
LEMMA SemWaitStep == ASSUME IInv, NEW t \in Threads, SemWait(t) PROVE IInv'
  <1>1. pc' = [pc EXCEPT ![t] = "lock"] /\ pc[t] = "semwait"
    BY DEF SemWait, Goto
  <1>2. TypeOK'
    BY <1>1 DEF IInv, TypeOK, SemWait
  <1>3. NotYetBorn'
    BY <1>1, MovesOnlyBorn DEF SemWait
  <1>4. LockWord' /\ Exclusion'
    BY <1>1 DEF IInv, TypeOK, LockWord, Inside, Exclusion, SemWait
  <1>5. Balance'
    <2>1. /\ buf_full' = buf_full + (filled' - filled) - (taken' - taken)
                             - Change(t, "lock", Producers, {"unlock", "post"})
                             - Change(t, "lock", Consumers, {"lock", "visit"})
          /\ buf_empty' = buf_empty - (filled' - filled) + (taken' - taken)
                             - Change(t, "lock", Producers, {"lock", "visit"})
                             - Change(t, "lock", Consumers, {"unlock", "post"})
      BY <1>1, <1>2, Halves DEF IInv, TypeOK, Change, SemWait
    <2>2. QED
      BY <1>1, <1>2, <2>1, Shift DEF IInv
  <1>6. QED
    BY <1>2, <1>3, <1>4, <1>5 DEF IInv

\* Locking: the word was 0, so nobody was inside.
LEMMA LockStep == ASSUME IInv, NEW t \in Threads, Lock(t) PROVE IInv'
  <1>1. pc' = [pc EXCEPT ![t] = "visit"] /\ pc[t] = "lock"
    BY DEF Lock, Goto
  <1>2. TypeOK'
    BY <1>1 DEF IInv, TypeOK, Lock
  <1>3. NotYetBorn'
    BY <1>1, MovesOnlyBorn DEF Lock
  <1>4. \A u \in Threads : ~Inside(u)
    BY DEF IInv, LockWord, Lock
  <1>5. LockWord' /\ Exclusion'
    BY <1>1, <1>4 DEF IInv, TypeOK, LockWord, Inside, Exclusion, Lock
  <1>6. Balance'
    <2>1. /\ buf_full' = buf_full + (filled' - filled) - (taken' - taken)
                             - Change(t, "visit", Producers, {"unlock", "post"})
                             - Change(t, "visit", Consumers, {"lock", "visit"})
          /\ buf_empty' = buf_empty - (filled' - filled) + (taken' - taken)
                             - Change(t, "visit", Producers, {"lock", "visit"})
                             - Change(t, "visit", Consumers, {"unlock", "post"})
      BY <1>1, <1>2, Halves DEF IInv, TypeOK, Change, Lock
    <2>2. QED
      BY <1>1, <1>2, <2>1, Shift DEF IInv
  <1>7. QED
    BY <1>2, <1>3, <1>5, <1>6 DEF IInv

\* The visit: what it may store to the lock word is BUF_LEN, which is not 0.
LEMMA VisitStep == ASSUME IInv, NEW t \in Threads, Visit(t) PROVE IInv'
  <1>1. pc' = [pc EXCEPT ![t] = "unlock"] /\ pc[t] = "visit"
    BY DEF Visit, Goto
  <1>2. my_mutex \in Nat /\ my_mutex # 0
    BY <1>1 DEF IInv, TypeOK, LockWord, Inside
  <1>3. my_mutex' \in Nat /\ my_mutex' # 0
    BY <1>2, SizesAssumption DEF Visit
  <1>4. TypeOK'
    BY <1>1, <1>3 DEF IInv, TypeOK, Visit
  <1>5. NotYetBorn'
    BY <1>1, MovesOnlyBorn DEF Visit
  <1>6. LockWord' /\ Exclusion'
    BY <1>1, <1>3 DEF IInv, TypeOK, LockWord, Inside, Exclusion, Visit
  <1>7. Balance'
    <2>1. /\ buf_full' = buf_full + (filled' - filled) - (taken' - taken)
                             - Change(t, "unlock", Producers, {"unlock", "post"})
                             - Change(t, "unlock", Consumers, {"lock", "visit"})
          /\ buf_empty' = buf_empty - (filled' - filled) + (taken' - taken)
                             - Change(t, "unlock", Producers, {"lock", "visit"})
                             - Change(t, "unlock", Consumers, {"unlock", "post"})
      BY <1>1, Halves DEF IInv, TypeOK, Change, Visit
    <2>2. QED
      BY <1>1, <1>4, <2>1, Shift DEF IInv
  <1>8. QED
    BY <1>4, <1>5, <1>6, <1>7 DEF IInv

\* Unlocking: the one thread inside leaves.
LEMMA UnlockStep == ASSUME IInv, NEW t \in Threads, Unlock(t) PROVE IInv'
  <1>1. pc' = [pc EXCEPT ![t] = "post"] /\ pc[t] = "unlock"
    BY DEF Unlock, Goto
  <1>2. TypeOK'
    BY <1>1 DEF IInv, TypeOK, Unlock
  <1>3. NotYetBorn'
    BY <1>1, MovesOnlyBorn DEF Unlock
  <1>4. \A u \in Threads : Inside(u) => u = t
    BY <1>1 DEF IInv, Exclusion, Inside
  <1>5. LockWord' /\ Exclusion'
    BY <1>1, <1>4 DEF IInv, TypeOK, LockWord, Inside, Exclusion, Unlock
  <1>6. Balance'
    <2>1. /\ buf_full' = buf_full + (filled' - filled) - (taken' - taken)
                             - Change(t, "post", Producers, {"unlock", "post"})
                             - Change(t, "post", Consumers, {"lock", "visit"})
          /\ buf_empty' = buf_empty - (filled' - filled) + (taken' - taken)
                             - Change(t, "post", Producers, {"lock", "visit"})
                             - Change(t, "post", Consumers, {"unlock", "post"})
      BY <1>1, <1>2, Halves DEF IInv, TypeOK, Change, Unlock
    <2>2. QED
      BY <1>1, <1>2, <2>1, Shift DEF IInv
  <1>7. QED
    BY <1>2, <1>3, <1>5, <1>6 DEF IInv

\* Posting the other semaphore, and the head of the loop.
LEMMA SemPostStep == ASSUME IInv, NEW t \in Threads, SemPost(t) PROVE IInv'
  <1>1. PICK l \in {"returned", "semwait"} :
           pc' = [pc EXCEPT ![t] = l] /\ l = IF Finished(t) THEN "returned" ELSE "semwait"
    BY DEF SemPost, Goto
  <1>2. pc[t] = "post"
    BY DEF SemPost
  <1>3. TypeOK'
    <2>1. /\ i'[t] = NextIndex(t) /\ i[t] \in 0 .. NITERS
          /\ \A u \in Threads : u # t => i'[u] = i[u] /\ pc'[u] = pc[u]
          /\ pc'[t] = l
      BY <1>1, <1>2 DEF IInv, TypeOK, SemPost
    <2>2. i'[t] \in Int
      BY <2>1, SizesAssumption DEF NextIndex
    <2>3. /\ l # "returned" => i'[t] \in 0 .. NITERS
          /\ l = "returned" => i'[t] \in {-1, NITERS + 1}
      BY <1>1, <2>1, SizesAssumption DEF NextIndex, Finished
    <2>4. /\ i' \in [Threads -> Int]
          /\ pc' \in [Threads -> {"unborn", "semwait", "lock", "visit", "unlock",
                                  "post", "returned"}]
      BY <1>1, <2>1, <2>2 DEF IInv, TypeOK, SemPost
    <2>5. \A u \in Threads : /\ pc'[u] # "returned" => i'[u] \in 0 .. NITERS
                             /\ pc'[u] = "returned" => i'[u] \in {-1, NITERS + 1}
      BY <2>1, <2>3 DEF IInv, TypeOK
    <2>6. QED
      BY <2>4, <2>5 DEF IInv, TypeOK, SemPost
  <1>4. NotYetBorn'
    BY <1>1, <1>2, MovesOnlyBorn DEF SemPost
  <1>5. LockWord' /\ Exclusion'
    BY <1>1, <1>2 DEF IInv, TypeOK, LockWord, Inside, Exclusion, SemPost
  <1>6. Balance'
    <2>1. /\ buf_full' = buf_full + (filled' - filled) - (taken' - taken)
                             - Change(t, l, Producers, {"unlock", "post"})
                             - Change(t, l, Consumers, {"lock", "visit"})
          /\ buf_empty' = buf_empty - (filled' - filled) + (taken' - taken)
                             - Change(t, l, Producers, {"lock", "visit"})
                             - Change(t, l, Consumers, {"unlock", "post"})
      BY <1>1, <1>2, <1>3, Halves DEF IInv, TypeOK, Change, SemPost
    <2>2. QED
      BY <1>1, <1>2, <1>3, <2>1, Shift DEF IInv
  <1>7. QED
    BY <1>3, <1>4, <1>5, <1>6 DEF IInv

\* A created thread is outside the buffer and outside the mutex.
LEMMA CreateStep == ASSUME IInv, Create PROVE IInv'
  <1>1. PICK t \in Threads : main = t
    BY DEF Create
  <1>2. pc[t] = "unborn" /\ pc' = [pc EXCEPT ![t] = "semwait"]
    BY <1>1, SizesAssumption DEF Create, IInv, NotYetBorn, Threads
  <1>3. TypeOK'
    BY <1>1, <1>2, SizesAssumption DEF IInv, TypeOK, Create, Threads
  <1>4. NotYetBorn'
    BY <1>1, <1>2, SizesAssumption DEF IInv, TypeOK, NotYetBorn, Create, Threads
  <1>5. LockWord' /\ Exclusion'
    BY <1>2 DEF IInv, TypeOK, LockWord, Inside, Exclusion, Create
  <1>6. Balance'
    <2>1. /\ buf_full' = buf_full + (filled' - filled) - (taken' - taken)
                             - Change(t, "semwait", Producers, {"unlock", "post"})
                             - Change(t, "semwait", Consumers, {"lock", "visit"})
          /\ buf_empty' = buf_empty - (filled' - filled) + (taken' - taken)
                             - Change(t, "semwait", Producers, {"lock", "visit"})
                             - Change(t, "semwait", Consumers, {"unlock", "post"})
      BY <1>2, <1>3, Halves DEF IInv, TypeOK, Change, Create
    <2>2. QED
      BY <1>2, <1>3, <2>1, Shift DEF IInv
  <1>7. QED
    BY <1>3, <1>4, <1>5, <1>6 DEF IInv

\* Every step of a thread and of main preserves the strengthened invariant.
LEMMA StepIInv == IInv /\ [Next]_vars => IInv'
  <1> SUFFICES ASSUME IInv, [Next]_vars
               PROVE  IInv'
    OBVIOUS
  <1>1. ASSUME NEW t \in Threads, ThreadNext(t)
        PROVE  IInv'
    BY <1>1, SemWaitStep, LockStep, VisitStep, UnlockStep, SemPostStep DEF ThreadNext
  <1>2. CASE CreateFails
    BY <1>2 DEF CreateFails, IInv, TypeOK, NotYetBorn, LockWord, Inside, Exclusion,
                Balance, Entering, Leaving
  <1>3. CASE Join
    BY <1>3, SizesAssumption
    DEF Join, IInv, TypeOK, NotYetBorn, LockWord, Inside, Exclusion, Balance, Entering,
        Leaving, Threads
  <1>4. CASE UNCHANGED vars
    BY <1>4 DEF vars, IInv, TypeOK, NotYetBorn, LockWord, Inside, Exclusion, Balance,
                Entering, Leaving
  <1>5. QED
    BY <1>1, <1>2, <1>3, <1>4, CreateStep DEF Next, MainNext, Over

\* The strengthened invariant holds of every behaviour of the program.
LEMMA Inductive == Spec => []IInv
  BY InitIInv, StepIInv, PTL DEF Spec
-----------------------------------------------------------------------------
\* The variables keep their types for every size of the program: no semaphore
\* falls below 0 and the loop variables stay in the cells they visit, 0 up to
\* and including NITERS (lines 29-58).
THEOREM TypeCorrect == Spec => []TypeOK
  BY Inductive, PTL DEF IInv

\* Mutual exclusion survives the store to the lock word, for every number of
\* threads and iterations: the store puts BUF_LEN there, which is not the value
\* of a free mutex (lines 32-35 and 48-51).
THEOREM MutualExclusion == Spec => []Exclusion
  BY Inductive, PTL DEF IInv

\* The semaphores count the cells, for every number of threads and iterations:
\* never more than BUF_LEN items are in the buffer, and the consumers are never
\* more than one item ahead (lines 31-36, 47-52 and 62-63).
THEOREM SemaphoresCount == Spec => []Tokens
  <1>1. IInv => Tokens
    BY Counts, SizesAssumption DEF IInv, TypeOK, Balance, Tokens
  <1>2. QED
    BY Inductive, <1>1, PTL
=============================================================================
