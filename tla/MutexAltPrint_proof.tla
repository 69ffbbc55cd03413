------------------------ MODULE MutexAltPrint_proof ------------------------
(***************************************************************************)
(* Proofs about MutexAltPrint, for every Limit, with and without failing   *)
(* pthread_create.  The mutex plays no part in them: what keeps the two    *)
(* threads apart is the parity of cnt_g alone.                             *)
(***************************************************************************)
EXTENDS MutexAltPrint, TLAPS

InTurn == {"print", "load", "store"}

\* A thread between its test and its store is the one whose turn it is.
OnlyInTurn == \A t \in Threads : pc[t] \in InTurn => Mine(t)

\* The value loaded is still the value of the counter when it is stored.
FreshLoad == \A t \in Threads : pc[t] = "store" => reg[t] = cnt_g

\* The thread that raised the counter last is the one whose turn it is not.
LastNotMine == \A t \in Threads : Mine(t) <=> last # t

\* From Limit on the thread that raised the counter last takes no further turn,
\* above Limit nobody does, and nobody returns below it.
EndGame ==
    /\ cnt_g <= Limit + 1
    /\ cnt_g >= Limit => \A t \in Threads : ~Mine(t) => pc[t] \in {"while", "returned"}
    /\ cnt_g = Limit + 1 => \A t \in Threads : pc[t] \in {"while", "returned"}
    /\ \A t \in Threads : pc[t] = "returned" => cnt_g >= Limit

\* The last value line: the counter, if it was printed in this turn, else the
\* value before, by the thread that raised it since; and one line per value.
Shown ==
    /\ \A t \in Threads : pc[t] \in {"load", "store"} =>
          out.by = t /\ out.val = cnt_g /\ out.nr = cnt_g + 1
    /\ (\A t \in Threads : pc[t] \notin {"load", "store"}) =>
          /\ out.nr = cnt_g
          /\ IF cnt_g = 0 THEN out.by = NoThread /\ out.val = 0
                          ELSE out.by = last /\ out.val + 1 = cnt_g

\* A thread is not created twice.
NotYetBorn == /\ main = "create1" => pc["func1"] = "unborn"
              /\ main \in {"create1", "create2"} => pc["func2"] = "unborn"

IInv == /\ TypeOK
        /\ NotYetBorn
        /\ OnlyInTurn
        /\ FreshLoad
        /\ LastNotMine
        /\ EndGame
        /\ Shown

\* Raising a number by one flips its parity.
LEMMA Parity ==
    ASSUME NEW n \in Nat
    PROVE  /\ n % 2 \in {0, 1}
           /\ (n + 1) % 2 = 1 - (n % 2)
  OBVIOUS

\* The increment hands the turn over to the other thread.
LEMMA TurnFlips ==
    ASSUME cnt_g \in Nat, cnt_g' = cnt_g + 1, NEW t \in Threads
    PROVE  Mine(t)' <=> ~Mine(t)
  <1>1. /\ cnt_g % 2 \in {0, 1}
        /\ (cnt_g + 1) % 2 = 1 - (cnt_g % 2)
    BY Parity
  <1>2. QED
    BY <1>1 DEF Mine

\* It is never the turn of both threads, and always the turn of one.
LEMMA OneTurn ==
    ASSUME cnt_g \in Nat, NEW t \in Threads, NEW u \in Threads, t # u
    PROVE  Mine(t) <=> ~Mine(u)
  <1>1. cnt_g % 2 \in {0, 1}
    BY Parity
  <1>2. QED
    BY <1>1 DEF Mine, Threads

\* The process starts in the strengthened invariant: no thread exists yet.
LEMMA InitIInv == Init => IInv
  <1> SUFFICES ASSUME Init PROVE IInv
    OBVIOUS
  <1>1. 0 % 2 = 0
    BY Parity
  <1>2. LastNotMine
    BY <1>1 DEF Init, LastNotMine, Mine, Threads
  <1>3. QED
    BY <1>2, LimitAssumption, NoThreadAssumption
    DEF Init, IInv, TypeOK, NotYetBorn, OnlyInTurn, InTurn, FreshLoad, EndGame,
        Shown, Threads

\* Every step of a thread and of main preserves the strengthened invariant.
LEMMA StepIInv == IInv /\ [Next]_vars => IInv'
  <1> SUFFICES ASSUME IInv, [Next]_vars
               PROVE  IInv'
    OBVIOUS
  <1> USE LimitAssumption, NoThreadAssumption
  <1> USE DEF IInv, TypeOK, NotYetBorn
  <1>1. ASSUME NEW t \in Threads, Lock(t)
        PROVE  IInv'
    <2>1. OnlyInTurn' /\ FreshLoad' /\ LastNotMine'
      BY <1>1 DEF Lock, Goto, OnlyInTurn, InTurn, FreshLoad, LastNotMine, Mine
    <2>2. EndGame'
      BY <1>1 DEF Lock, Goto, EndGame, Mine
    <2>3. Shown'
      BY <1>1 DEF Lock, Goto, Shown
    <2>4. QED
      BY <1>1, <2>1, <2>2, <2>3 DEF Lock, Goto
  <1>2. ASSUME NEW t \in Threads, Test(t)
        PROVE  IInv'
    <2>1. OnlyInTurn' /\ FreshLoad' /\ LastNotMine'
      BY <1>2 DEF Test, Goto, OnlyInTurn, InTurn, FreshLoad, LastNotMine, Mine
    <2>2. EndGame'
      BY <1>2 DEF Test, Goto, EndGame, Mine
    <2>3. Shown'
      BY <1>2 DEF Test, Goto, Shown
    <2>4. QED
      BY <1>2, <2>1, <2>2, <2>3 DEF Test, Goto
  <1>3. ASSUME NEW t \in Threads, PrintValue(t)
        PROVE  IInv'
    <2>1. OnlyInTurn' /\ FreshLoad' /\ LastNotMine'
      BY <1>3 DEF PrintValue, Goto, OnlyInTurn, InTurn, FreshLoad, LastNotMine, Mine
    <2>2. EndGame'
      BY <1>3 DEF PrintValue, Goto, EndGame, Mine
    <2>3. Shown'
      <3>1. \A u \in Threads : u # t => pc[u] \notin InTurn
        BY <1>3, OneTurn DEF PrintValue, OnlyInTurn, InTurn
      <3>2. QED
        BY <1>3, <3>1 DEF PrintValue, Goto, InTurn, Shown
    <2>4. QED
      BY <1>3, <2>1, <2>2, <2>3 DEF PrintValue, Goto
  <1>4. ASSUME NEW t \in Threads, Load(t)
        PROVE  IInv'
    <2>1. OnlyInTurn' /\ FreshLoad' /\ LastNotMine'
      BY <1>4 DEF Load, Goto, OnlyInTurn, InTurn, FreshLoad, LastNotMine, Mine
    <2>2. EndGame'
      BY <1>4 DEF Load, Goto, EndGame, Mine
    <2>3. Shown'
      BY <1>4 DEF Load, Goto, Shown
    <2>4. QED
      BY <1>4, <2>1, <2>2, <2>3 DEF Load, Goto
  <1>5. ASSUME NEW t \in Threads, Store(t)
        PROVE  IInv'
    <2>1. cnt_g' = cnt_g + 1 /\ last' = t
      BY <1>5 DEF Store, FreshLoad
    <2>2. \A u \in Threads : Mine(u)' <=> ~Mine(u)
      BY <2>1, TurnFlips
    <2>3. Mine(t)
      BY <1>5 DEF Store, OnlyInTurn, InTurn
    <2>4. \A u \in Threads : u # t => ~Mine(u)
      BY <2>3, OneTurn
    <2>5. \A u \in Threads : pc'[u] \notin InTurn
      BY <1>5, <2>4 DEF Store, Goto, OnlyInTurn, InTurn
    <2>6. OnlyInTurn' /\ FreshLoad'
      BY <2>5 DEF OnlyInTurn, InTurn, FreshLoad
    <2>7. LastNotMine'
      BY <2>1, <2>2, <2>3, <2>4 DEF LastNotMine
    <2>8. EndGame'
      <3>1. cnt_g < Limit + 1
        BY <1>5 DEF Store, EndGame
      <3>2. \A u \in Threads : pc'[u] = IF u = t THEN "while" ELSE pc[u]
        BY <1>5 DEF Store, Goto
      <3>3. \A u \in Threads : u # t /\ cnt_g >= Limit => pc[u] \in {"while", "returned"}
        BY <2>4 DEF EndGame
      <3>4. \A u \in Threads : u # t => Mine(u)'
        BY <2>2, <2>4
      <3>5. QED
        BY <2>1, <3>1, <3>2, <3>3, <3>4 DEF EndGame
    <2>9. Shown'
      BY <1>5, <2>1, <2>5 DEF Store, InTurn, Shown
    <2>10. QED
      BY <1>5, <2>1, <2>6, <2>7, <2>8, <2>9 DEF Store, Goto
  <1>6. ASSUME NEW t \in Threads, Unlock(t)
        PROVE  IInv'
    <2>1. OnlyInTurn' /\ FreshLoad' /\ LastNotMine'
      BY <1>6 DEF Unlock, Goto, OnlyInTurn, InTurn, FreshLoad, LastNotMine, Mine
    <2>2. EndGame'
      BY <1>6 DEF Unlock, Goto, EndGame, Mine
    <2>3. Shown'
      BY <1>6 DEF Unlock, Goto, Shown
    <2>4. QED
      BY <1>6, <2>1, <2>2, <2>3 DEF Unlock, Goto
  <1>7. ASSUME NEW t \in Threads, While(t)
        PROVE  IInv'
    <2>1. OnlyInTurn' /\ FreshLoad' /\ LastNotMine'
      BY <1>7 DEF While, Goto, OnlyInTurn, InTurn, FreshLoad, LastNotMine, Mine
    <2>2. EndGame'
      BY <1>7 DEF While, Goto, EndGame, Mine
    <2>3. Shown'
      BY <1>7 DEF While, Goto, Shown
    <2>4. QED
      BY <1>7, <2>1, <2>2, <2>3 DEF While, Goto
  <1>8. ASSUME NEW t \in Threads, NEW from, NEW to \in {"create2", "join1"},
               pc[t] = "unborn", Create(t, from, to),
               to = "create2" => t = "func1" /\ from = "create1"
        PROVE  IInv'
    <2>1. PICK outcome \in {"lock", "absent"} : pc' = [pc EXCEPT ![t] = outcome]
      BY <1>8 DEF Create, Goto
    <2>2. OnlyInTurn' /\ FreshLoad' /\ LastNotMine'
      BY <1>8, <2>1 DEF Create, OnlyInTurn, InTurn, FreshLoad, LastNotMine, Mine
    <2>3. EndGame'
      BY <1>8, <2>1 DEF Create, EndGame, Mine
    <2>4. Shown'
      BY <1>8, <2>1 DEF Create, Shown
    <2>5. TypeOK'
      BY <1>8, <2>1 DEF Create
    <2>6. NotYetBorn'
      BY <1>8, <2>1 DEF Create, Threads
    <2>7. QED
      BY <2>2, <2>3, <2>4, <2>5, <2>6
  <1>9. ASSUME NEW t \in Threads, NEW from, NEW to \in {"join2", "exited"},
               Join(t, from, to)
        PROVE  IInv'
    BY <1>9 DEF Join, OnlyInTurn, FreshLoad, LastNotMine, EndGame, Shown, Mine
  <1>10. CASE UNCHANGED vars
    BY <1>10 DEF vars, OnlyInTurn, FreshLoad, LastNotMine, EndGame, Shown, Mine
  <1>11. CASE MainNext
    <2>1. CASE Create("func1", "create1", "create2")
      BY <2>1, <1>8 DEF Create, Threads
    <2>2. CASE Create("func2", "create2", "join1")
      BY <2>2, <1>8 DEF Create, Threads
    <2>3. CASE Join("func1", "join1", "join2")
      BY <2>3, <1>9 DEF Threads
    <2>4. CASE Join("func2", "join2", "exited")
      BY <2>4, <1>9 DEF Threads
    <2>5. QED
      BY <1>11, <2>1, <2>2, <2>3, <2>4 DEF MainNext
  <1>12. ASSUME NEW t \in Threads, PrintUnlocking(t)
         PROVE  IInv'
    <2>1. OnlyInTurn' /\ FreshLoad' /\ LastNotMine'
      BY <1>12 DEF PrintUnlocking, Goto, OnlyInTurn, InTurn, FreshLoad, LastNotMine, Mine
    <2>2. EndGame'
      BY <1>12 DEF PrintUnlocking, Goto, EndGame, Mine
    <2>3. Shown'
      BY <1>12 DEF PrintUnlocking, Goto, Shown
    <2>4. QED
      BY <1>12, <2>1, <2>2, <2>3 DEF PrintUnlocking, Goto
  <1>13. QED
    BY <1>1, <1>2, <1>3, <1>4, <1>5, <1>6, <1>7, <1>10, <1>11, <1>12
    DEF Next, ThreadNext, Over

\* The strengthened invariant holds of every behaviour of the program.
LEMMA Inductive == Spec => []IInv
  <1>1. QED
    BY InitIInv, StepIInv, PTL DEF Spec

\* The variables keep their types, whatever the schedule (lines 13-53).
THEOREM TypeCorrect == Spec => []TypeOK
  BY Inductive, PTL DEF IInv

\* Although no mutex is held, the two threads are never both between their test
\* and their store, for every Limit (lines 19-21 and 32-34).
THEOREM TurnsExclude == Spec => []Turnwise
  <1>1. IInv => Turnwise
    BY OneTurn DEF IInv, TypeOK, OnlyInTurn, InTurn, Turnwise
  <1>2. QED
    BY Inductive, <1>1, PTL

\* The counter ends at Limit or one above it, for every Limit: a stale loop
\* condition lets in one turn and no more (lines 19, 26, 32 and 39).
THEOREM CounterEnds == Spec => []EndCount
  <1>1. IInv => EndCount
    BY LimitAssumption DEF IInv, TypeOK, EndGame, EndCount, Threads
  <1>2. QED
    BY Inductive, <1>1, PTL

\* Every step of the program is a turn or leaves the counter alone.
LEMMA StepTakesTurn == IInv /\ [Next]_vars => [Turns!TurnNext]_(Turns!turnVars)
  <1> SUFFICES ASSUME IInv, [Next]_vars
               PROVE  Turns!TurnNext \/ UNCHANGED <<cnt_g, last>>
    BY DEF Turns!turnVars
  <1>1. ASSUME NEW t \in Threads, Store(t)
        PROVE  Turns!TurnNext
    <2>1. cnt_g' = cnt_g + 1 /\ last' = t
      BY <1>1 DEF IInv, Store, FreshLoad
    <2>2. last # t
      BY <1>1 DEF IInv, Store, OnlyInTurn, InTurn, LastNotMine
    <2>3. cnt_g < Limit + 1
      BY <1>1, LimitAssumption DEF IInv, TypeOK, Store, EndGame
    <2>4. Turns!Take(t)
      BY <2>1, <2>2, <2>3 DEF Turns!Take
    <2>5. QED
      BY <2>4 DEF Turns!TurnNext, Threads
  <1>2. CASE MainNext \/ Over \/ UNCHANGED vars
    BY <1>2 DEF MainNext, Create, Join, Over, vars
  <1>3. ASSUME NEW t \in Threads,
               \/ Lock(t) \/ Test(t) \/ PrintValue(t) \/ Load(t)
               \/ PrintUnlocking(t) \/ Unlock(t) \/ While(t)
        PROVE  UNCHANGED <<cnt_g, last>>
    BY <1>3 DEF Lock, Test, PrintValue, Load, PrintUnlocking, Unlock, While
  <1>4. QED
    BY <1>1, <1>2, <1>3 DEF Next, ThreadNext

\* No increment is lost and nobody takes two turns in a row, in spite of the
\* data race: the program implements the turn-taking specification for every
\* Limit (lines 16-41).
THEOREM ImplementsTurnTaking == Spec => TakesTurns
  <1>1. Init => Turns!TurnInit
    BY DEF Init, Turns!TurnInit
  <1>2. QED
    BY <1>1, StepTakesTurn, Inductive, PTL DEF Spec, TakesTurns, Turns!TurnSpec

\* A new value line shows the next value, by the other thread; an Unlocking
\* line shows the last value or the next one.
NextLine == /\ out' # out => out'.val = out.nr /\ out'.by # out.by
            /\ \A t \in Threads : PrintUnlocking(t) => cnt_g \in {out.val, out.nr}

\* A number on an Unlocking line is the last value printed or the next one.
LEMMA CountShown == IInv => cnt_g \in {out.val, out.nr}
  <1> SUFFICES ASSUME IInv PROVE cnt_g \in {out.val, out.nr}
    OBVIOUS
  <1>1. CASE \E t \in Threads : pc[t] \in {"load", "store"}
    BY <1>1 DEF IInv, Shown
  <1>2. CASE \A t \in Threads : pc[t] \notin {"load", "store"}
    BY <1>2 DEF IInv, Shown
  <1>3. QED
    BY <1>1, <1>2

\* The n-th value line shows n - 1, from the two threads in turn, for every
\* Limit (lines 19-20 and 32-33); an Unlocking line shows the last number or
\* the next one (lines 23 and 36).
THEOREM LinesAlternate == Spec => ValueLinesAlternate
  <1>1. IInv /\ [Next]_vars => [NextLine]_vars
    <2> SUFFICES ASSUME IInv, [Next]_vars
                 PROVE  out' # out => out'.val = out.nr /\ out'.by # out.by
      BY CountShown DEF NextLine
    <2>1. ASSUME NEW t \in Threads, PrintValue(t)
          PROVE  out'.val = out.nr /\ out'.by # out.by
      <3>1. out' = [by |-> t, val |-> cnt_g, nr |-> out.nr + 1]
        BY <2>1 DEF PrintValue
      <3>2. Mine(t) /\ last # t
        BY <2>1 DEF IInv, PrintValue, OnlyInTurn, InTurn, LastNotMine
      <3>3. \A u \in Threads : pc[u] \notin {"load", "store"}
        BY <2>1, <3>2, OneTurn DEF IInv, TypeOK, PrintValue, OnlyInTurn, InTurn
      <3>4. out.nr = cnt_g /\ out.by \in {NoThread, last}
        BY <3>3 DEF IInv, Shown
      <3>5. QED
        BY <3>1, <3>2, <3>4, NoThreadAssumption
    <2>2. CASE MainNext \/ Over \/ UNCHANGED vars
      BY <2>2 DEF MainNext, Create, Join, Over, vars
    <2>3. ASSUME NEW t \in Threads,
                 \/ Lock(t) \/ Test(t) \/ Load(t) \/ Store(t)
                 \/ PrintUnlocking(t) \/ Unlock(t) \/ While(t)
          PROVE  UNCHANGED out
      BY <2>3 DEF Lock, Test, Load, Store, PrintUnlocking, Unlock, While
    <2>4. QED
      BY <2>1, <2>2, <2>3 DEF Next, ThreadNext
  <1>2. QED
    BY <1>1, Inductive, PTL DEF Spec, ValueLinesAlternate, NextLine
=============================================================================
