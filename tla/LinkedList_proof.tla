-------------------------- MODULE LinkedList_proof --------------------------
(***************************************************************************)
(* Proofs about the list functions, for every finite set of nodes and      *)
(* every set of numbers: between two calls no node is leaked, and insert,  *)
(* deletenode and sort do what AbstractList says when they return.         *)
(***************************************************************************)
EXTENDS LinkedList, FiniteSetTheorems, WellFoundedInduction, TLAPS

\* A set of numbers has a least member.
LEMMA Least ==
    ASSUME NEW T, T \subseteq Nat, T # {}
    PROVE  \E x \in T : \A y \in T : x <= y
  <1> DEFINE R == {ss \in Nat \X Nat : ss[1] < ss[2]}
  <1>0. OpToRel(<, Nat) = R
    BY DEF OpToRel
  <1>1. IsWellFoundedOn(R, Nat)
    BY <1>0, NatLessThanWellFounded
  <1>2. PICK x \in T : \A y \in T : ~(<<y, x>> \in R)
    BY <1>1, WFMin
  <1>3. ASSUME NEW y \in T PROVE x <= y
    <2>1. <<y, x>> \in Nat \X Nat /\ <<y, x>>[1] = y /\ <<y, x>>[2] = x
      OBVIOUS
    <2>2. ~(<<y, x>>[1] < <<y, x>>[2])
      BY <2>1, <1>2
    <2>3. QED BY <2>1, <2>2
  <1>4. QED
    BY <1>3

-----------------------------------------------------------------------------
\* s holds the n nodes from hd to the one whose next is NULL, each once.
Linked(h, hd, al, s, n) ==
    /\ hd = IF n = 0 THEN NULL ELSE s[1]
    /\ \A i \in 1 .. n : /\ s[i] \in al
                         /\ h[s[i]].data \in Data
                         /\ h[s[i]].next = IF i = n THEN NULL ELSE s[i + 1]
    /\ \A i, j \in 1 .. n : s[i] = s[j] => i = j

\* s holds the nodes of the list, and there is no other allocated node but the
\* one that insert has not linked yet.
Chain(s, n) ==
    /\ Linked(heap, head, allocated, s, n)
    /\ \A p \in allocated : (pc = "walk" /\ p = temp) \/ \E i \in 1 .. n : p = s[i]

\* The list still is as it was when the call was made.
Same(s, n) == before = [i \in 1 .. n |-> heap[s[i]].data]

\* insert: the new node is not linked, and the walk is on the list.
Inserting(s, n) ==
    /\ temp \in allocated
    /\ heap[temp] = [data |-> call[2], next |-> NULL]
    /\ \A i \in 1 .. n : s[i] # temp
    /\ \E k \in 1 .. n : current = s[k]

\* deletenode: only copies of the key are gone.
Kept(s, n) ==
    \E kept \in [1 .. n -> DOMAIN before] :
        /\ \A i, j \in 1 .. n : i < j => kept[i] < kept[j]
        /\ \A j \in DOMAIN before : before[j] # call[2] => \E i \in 1 .. n : kept[i] = j
        /\ \A i \in 1 .. n : heap[s[i]].data = before[kept[i]]

\* The search is at the k-th node, prev is the one before it and no node before
\* it holds the key; nor does the first node, for which there is no prev.
Searching(s, n, k) ==
    /\ temp = IF k = n + 1 THEN NULL ELSE s[k]
    /\ \A i \in 1 .. n : i < k \/ i = 1 => heap[s[i]].data # call[2]
    /\ k > 1 => prev = s[k - 1]

\* sort: the numbers are the same ones.
SameCopies(s, n) ==
    \A x \in Data : Cardinality({i \in 1 .. n : heap[s[i]].data = x})
                      = Cardinality({i \in DOMAIN before : before[i] = x})

\* The pass is at the k-th node, which holds the largest number so far; from the
\* r-th node on the numbers have their places.
Passing(s, n, k, r) ==
    /\ k < r
    /\ current = s[k]
    /\ rptr = IF r = n + 1 THEN NULL ELSE s[r]
    /\ \A i \in 1 .. k : heap[s[i]].data <= heap[s[k]].data
    /\ \A i, j \in 1 .. n : i < j /\ r <= j => heap[s[i]].data <= heap[s[j]].data
    /\ swapped => k > 1
    /\ ~swapped => \A i, j \in 1 .. k : i < j => heap[s[i]].data <= heap[s[j]].data

Running(s, n) ==
    /\ pc = "enter" => Same(s, n)
    /\ pc = "walk" => Same(s, n) /\ Inserting(s, n)
    /\ pc = "heads" => Kept(s, n) /\ temp = head
    /\ pc = "search" => Kept(s, n) /\ \E k \in 1 .. n + 1 : Searching(s, n, k)
    /\ pc = "pass" => SameCopies(s, n) /\ \E k \in 1 .. n, r \in 2 .. n + 1 : Passing(s, n, k, r)

\* Where the code is, and in which call.
InCall == /\ pc = "idle" <=> call = None
          /\ pc = "enter" /\ call = <<"sort">> => head # NULL
          /\ pc = "walk" => call \in {"insert"} \X Data
          /\ pc \in {"heads", "search"} => call \in {"deletenode"} \X Data
          /\ pc = "pass" => call = <<"sort">>

IInv == /\ TypeOK
        /\ InCall
        /\ \E n \in Nat : \E s \in [1 .. n -> Nodes] : Chain(s, n) /\ Running(s, n)
-----------------------------------------------------------------------------
\* What IsSpine says of a heap h, a head hd and a set of allocated nodes al.
SpineOf(h, hd, al, t) ==
    /\ hd = (IF t = <<>> THEN NULL ELSE t[1])
    /\ \A i \in DOMAIN t : /\ t[i] \in al
                           /\ h[t[i]].data \in Data
                           /\ h[t[i]].next = IF i = Len(t) THEN NULL ELSE t[i + 1]

\* A list whose nodes are s is no longer than there are nodes.
LEMMA ShortEnough ==
    ASSUME NEW n \in Nat, NEW s \in [1 .. n -> Nodes],
           \A i, j \in 1 .. n : s[i] = s[j] => i = j
    PROVE  s \in NodeSeqs /\ DOMAIN s = 1 .. n /\ Len(s) = n /\ (s = <<>> <=> n = 0)
  <1>1. s \in Injection(1 .. n, Nodes)
    BY DEF Injection, IsInjective
  <1>2. Cardinality(1 .. n) <= Cardinality(Nodes)
    BY <1>1, FS_Injection, NodesAssumption
  <1>3. Cardinality(1 .. n) = n
    BY FS_Interval
  <1>4. Cardinality(Nodes) \in Nat
    BY FS_CardinalityType, NodesAssumption
  <1>5. n \in 0 .. Cardinality(Nodes)
    BY <1>2, <1>3, <1>4
  <1>6. s \in NodeSeqs
    BY <1>5 DEF NodeSeqs
  <1>7. s \in Seq(Nodes) /\ DOMAIN s = 1 .. n /\ Len(s) = n
    OBVIOUS
  <1>8. QED
    BY <1>6, <1>7

\* There is one sequence of nodes from the head to NULL.
LEMMA OneSpine ==
    ASSUME NEW h, NEW hd, NEW al, NEW n \in Nat, NEW s \in [1 .. n -> Nodes],
           Linked(h, hd, al, s, n),
           NEW t \in NodeSeqs, SpineOf(h, hd, al, t)
    PROVE  t = s
  <1>0. PICK m \in Nat : t \in [1 .. m -> Nodes]
    <2>1. PICK m \in 0 .. Cardinality(Nodes) : t \in [1 .. m -> Nodes]
      BY DEF NodeSeqs
    <2>2. Cardinality(Nodes) \in Nat
      BY FS_CardinalityType, NodesAssumption
    <2>3. QED BY <2>1, <2>2
  <1>1. t \in Seq(Nodes) /\ DOMAIN t = 1 .. m /\ Len(t) = m /\ (t = <<>> <=> m = 0)
    BY <1>0
  <1>2. hd = IF m = 0 THEN NULL ELSE t[1]
    BY <1>1 DEF SpineOf
  <1>3. \A i \in 1 .. m : h[t[i]].next = IF i = m THEN NULL ELSE t[i + 1]
    BY <1>1 DEF SpineOf
  <1>4. \A i \in 1 .. n : h[s[i]].next = IF i = n THEN NULL ELSE s[i + 1]
    BY DEF Linked
  <1>5. hd = IF n = 0 THEN NULL ELSE s[1]
    BY DEF Linked
  <1>6. NULL \notin Nodes
    BY NodesAssumption
  <1>7. \A i \in 1 .. n : i <= m /\ t[i] = s[i]
    <2> DEFINE B == {i \in 1 .. n : ~(i <= m /\ t[i] = s[i])}
    <2>1. SUFFICES ASSUME B # {} PROVE FALSE
      OBVIOUS
    <2>2. PICK i \in B : \A j \in B : i <= j
      <3>1. B \subseteq Nat
        OBVIOUS
      <3> HIDE DEF B
      <3>2. QED BY <2>1, <3>1, Least
    <2>3. i \in 1 .. n /\ ~(i <= m /\ t[i] = s[i])
      BY <2>2
    <2>4. CASE i = 1
      BY <2>3, <2>4, <1>0, <1>2, <1>5, <1>6
    <2>5. CASE i # 1
      <3>1. i - 1 \in 1 .. n /\ i - 1 # n /\ (i - 1) + 1 = i
        BY <2>3, <2>5
      <3>2. i - 1 \notin B
        BY <2>2, <2>3
      <3>3. i - 1 <= m /\ t[i - 1] = s[i - 1]
        BY <3>1, <3>2
      <3>4. h[s[i - 1]].next = s[i]
        BY <3>1, <1>4
      <3>5. i - 1 \in 1 .. m
        BY <3>1, <3>3
      <3>6. h[t[i - 1]].next = IF i - 1 = m THEN NULL ELSE t[i]
        BY <3>5, <3>1, <1>3
      <3>7. s[i] \in Nodes
        BY <2>3
      <3>8. QED
        BY <2>3, <3>1, <3>3, <3>4, <3>5, <3>6, <3>7, <1>6
    <2>6. QED BY <2>4, <2>5
  <1>8. m = n
    <2>1. CASE n = 0
      BY <2>1, <1>0, <1>2, <1>5, <1>6
    <2>2. CASE n # 0
      <3>1. n \in 1 .. n /\ n <= m /\ t[n] = s[n] /\ n \in 1 .. m
        BY <2>2, <1>7
      <3>2. h[s[n]].next = NULL
        BY <3>1, <1>4
      <3>3. m # n => t[n + 1] = NULL
        BY <3>1, <3>2, <1>3
      <3>4. m # n => t[n + 1] \in Nodes
        BY <3>1, <1>0
      <3>5. QED BY <3>3, <3>4, <1>6
    <2>3. QED BY <2>1, <2>2
  <1>9. QED
    BY <1>0, <1>7, <1>8

\* The nodes of the list are its spine.
LEMMA TheSpine ==
    ASSUME NEW h, NEW hd, NEW al, NEW n \in Nat, NEW s \in [1 .. n -> Nodes],
           Linked(h, hd, al, s, n)
    PROVE  /\ s \in NodeSeqs
           /\ SpineOf(h, hd, al, s)
           /\ (CHOOSE t \in NodeSeqs : SpineOf(h, hd, al, t)) = s
  <1>1. s \in NodeSeqs /\ DOMAIN s = 1 .. n /\ Len(s) = n /\ (s = <<>> <=> n = 0)
    BY ShortEnough DEF Linked
  <1>2. SpineOf(h, hd, al, s)
    BY <1>1 DEF Linked, SpineOf
  <1>3. \A t \in NodeSeqs : SpineOf(h, hd, al, t) => t = s
    BY OneSpine
  <1>4. QED
    BY <1>1, <1>2, <1>3

\* The nodes and the numbers of the list.
LEMMA SpineIs ==
    ASSUME NEW n \in Nat, NEW s \in [1 .. n -> Nodes],
           Linked(heap, head, allocated, s, n)
    PROVE  /\ WellFormed
           /\ Spine = s
           /\ Contents = [i \in 1 .. n |-> heap[s[i]].data]
  <1>1. /\ s \in NodeSeqs
        /\ SpineOf(heap, head, allocated, s)
        /\ (CHOOSE t \in NodeSeqs : SpineOf(heap, head, allocated, t)) = s
    BY TheSpine
  <1>2. \A t : IsSpine(t) <=> SpineOf(heap, head, allocated, t)
    BY DEF IsSpine, SpineOf
  <1>3. Spine = s
    BY <1>1 DEF Spine, IsSpine, SpineOf
  <1>4. QED
    BY <1>1, <1>2, <1>3 DEF WellFormed, Contents

\* The same, after a step.
LEMMA SpineAfter ==
    ASSUME NEW n \in Nat, NEW s \in [1 .. n -> Nodes],
           Linked(heap', head', allocated', s, n)
    PROVE  Contents' = [i \in 1 .. n |-> heap'[s[i]].data]
  <1>1. (CHOOSE t \in NodeSeqs : SpineOf(heap', head', allocated', t)) = s
    BY TheSpine
  <1>2. Spine' = s
    BY <1>1 DEF Spine, IsSpine, SpineOf
  <1>3. QED
    BY <1>2 DEF Contents
-----------------------------------------------------------------------------
\* A node of the list is a node, with a number and a next one.
LEMMA OnList ==
    ASSUME TypeOK, NEW n \in Nat, NEW s \in [1 .. n -> Nodes], Chain(s, n)
    PROVE  \A i \in 1 .. n : /\ s[i] \in Nodes
                             /\ s[i] \in allocated
                             /\ s[i] # NULL
                             /\ heap[s[i]].data \in Data
                             /\ heap[s[i]].next = IF i = n THEN NULL ELSE s[i + 1]
                             /\ heap[s[i]].next \in Pointers
  <1>1. NULL \notin Nodes
    BY NodesAssumption
  <1>2. \A i \in 1 .. n : i # n => i + 1 \in 1 .. n
    OBVIOUS
  <1>3. QED
    BY <1>1, <1>2 DEF Chain, Linked, Pointers

\* The head is NULL when the list is empty, and only then.
LEMMA HeadIs ==
    ASSUME TypeOK, NEW n \in Nat, NEW s \in [1 .. n -> Nodes], Chain(s, n)
    PROVE  (head = NULL <=> n = 0) /\ (n # 0 => head = s[1] /\ 1 \in 1 .. n)
  <1>1. n # 0 => 1 \in 1 .. n
    OBVIOUS
  <1>2. QED
    BY <1>1, OnList DEF Chain, Linked

\* A call returns: only the list is left to see to.
LEMMA Returns ==
    ASSUME TypeOK, Return, heap' \in [Nodes -> Fields], allocated' \subseteq Nodes,
           head' \in Pointers,
           NEW m \in Nat, NEW t \in [1 .. m -> Nodes],
           Linked(heap', head', allocated', t, m),
           \A p \in allocated' : \E i \in 1 .. m : p = t[i]
    PROVE  IInv'
  <1>1. TypeOK'
    <2>1. before' \in Seq(Data)
      BY DEF Return
    <2>2. QED BY <2>1 DEF TypeOK, Return, Pointers
  <1>2. InCall'
    BY DEF InCall, Return
  <1>3. Chain(t, m)' /\ Running(t, m)'
    BY DEF Chain, Running, Return
  <1>4. QED
    BY <1>1, <1>2, <1>3 DEF IInv

\* insert: malloc and the first test.
LEMMA InsertStartsStep ==
    ASSUME TypeOK, InCall, NEW n \in Nat, NEW s \in [1 .. n -> Nodes],
           Chain(s, n), Running(s, n), InsertStarts
    PROVE  /\ IInv'
           /\ pc' = "idle" => Abstract!Effect(call, before, Contents')
           /\ pc' # "idle" => before' = before /\ call' = call
  <1>1. PICK p \in Nodes \ allocated :
                /\ allocated' = allocated \cup {p}
                /\ heap' = [heap EXCEPT ![p] = [data |-> call[2], next |-> NULL]]
                /\ \/ /\ head = NULL
                      /\ head' = p
                      /\ Return
                   \/ /\ head # NULL
                      /\ temp' = p
                      /\ current' = head
                      /\ pc' = "walk"
                      /\ UNCHANGED <<head, call, prev, rptr, swapped, before>>
    BY DEF InsertStarts
  <1>2. pc = "enter" /\ call \in {"insert"} \X Data /\ call[2] \in Data
    BY DEF InsertStarts, InCall, TypeOK, Calls
  <1>3. Same(s, n)
    BY <1>2 DEF Running
  <1>4. /\ heap' \in [Nodes -> Fields] /\ allocated' \subseteq Nodes
        /\ heap'[p] = [data |-> call[2], next |-> NULL]
        /\ \A q \in Nodes : q # p => heap'[q] = heap[q]
    BY <1>1, <1>2 DEF TypeOK, Fields
  <1>5. CASE head = NULL
    <2> DEFINE t == [i \in 1 .. 1 |-> p]
    <2>1. head' = p /\ Return
      BY <1>1, <1>5
    <2>2. n = 0
      BY <1>5, HeadIs
    <2>3. Linked(heap', head', allocated', t, 1)
      BY <1>1, <1>2, <1>4, <2>1 DEF Linked
    <2>4. \A q \in allocated' : \E i \in 1 .. 1 : q = t[i]
      BY <1>1, <1>2, <2>2 DEF Chain
    <2>5. IInv'
      <3>1. 1 \in Nat /\ t \in [1 .. 1 -> Nodes] /\ head' \in Pointers
        BY <1>1, <2>1 DEF Pointers
      <3> HIDE DEF t
      <3>2. QED BY <1>4, <2>1, <2>3, <2>4, <3>1, Returns, Zenon
    <2>6. Contents' = [i \in 1 .. 1 |-> heap'[t[i]].data]
      BY <1>1, <2>3, SpineAfter
    <2>7. before = <<>>
      BY <1>3, <2>2 DEF Same
    <2>8. Contents' = <<call[2]>>
      BY <2>6, <1>4
    <2>9. QED
      BY <2>1, <2>5, <2>7, <2>8, <1>2 DEF Abstract!Effect, Return
  <1>6. CASE head # NULL
    <2>1. /\ temp' = p /\ current' = head /\ pc' = "walk"
          /\ UNCHANGED <<head, call, prev, rptr, swapped, before>>
      BY <1>1, <1>6
    <2>2. 1 \in 1 .. n /\ head = s[1]
      BY <1>6, HeadIs
    <2>3. \A i \in 1 .. n : s[i] # p /\ heap'[s[i]] = heap[s[i]]
      BY <1>1, <1>4, OnList
    <2>4. Chain(s, n)'
      <3>1. Linked(heap', head', allocated', s, n)
        BY <1>1, <2>1, <2>3 DEF Chain, Linked
      <3>2. \A q \in allocated' : q = p \/ \E i \in 1 .. n : q = s[i]
        BY <1>1, <1>2 DEF Chain
      <3>3. QED
        BY <3>1, <3>2, <2>1 DEF Chain
    <2>5. Running(s, n)'
      <3>1. Same(s, n)'
        BY <1>3, <2>1, <2>3 DEF Same
      <3>2. Inserting(s, n)'
        BY <1>1, <1>4, <2>1, <2>2, <2>3 DEF Inserting
      <3>3. QED
        BY <2>1, <3>1, <3>2 DEF Running
    <2>6. TypeOK'
      BY <1>4, <2>1 DEF TypeOK, Pointers
    <2>7. InCall'
      <3>1. None # call
        BY <1>2 DEF InCall
      <3>2. QED BY <1>2, <2>1, <3>1 DEF InCall
    <2>8. QED
      BY <2>1, <2>4, <2>5, <2>6, <2>7 DEF IInv
  <1>7. QED
    BY <1>5, <1>6

\* insert: one node further.
LEMMA WalkStep ==
    ASSUME TypeOK, InCall, NEW n \in Nat, NEW s \in [1 .. n -> Nodes],
           Chain(s, n), Running(s, n), Walk
    PROVE  IInv' /\ pc' # "idle" /\ before' = before /\ call' = call
  <1>1. /\ pc = "walk" /\ heap[current].next # NULL
        /\ current' = heap[current].next
        /\ UNCHANGED <<heap, allocated, head, pc, call, temp, prev, rptr, swapped, before>>
    BY DEF Walk
  <1>2. Same(s, n) /\ Inserting(s, n)
    BY <1>1 DEF Running
  <1>3. PICK k \in 1 .. n : current = s[k]
    BY <1>2 DEF Inserting
  <1>4. k # n /\ current' = s[k + 1] /\ k + 1 \in 1 .. n
    BY <1>1, <1>3, OnList
  <1>5. Running(s, n)'
    <2>1. Inserting(s, n)'
      BY <1>1, <1>2, <1>4 DEF Inserting
    <2>2. Same(s, n)'
      BY <1>1, <1>2 DEF Same
    <2>3. QED BY <1>1, <2>1, <2>2 DEF Running
  <1>6. Chain(s, n)'
    BY <1>1 DEF Chain, Linked
  <1>7. TypeOK'
    <2>1. current' \in Pointers
      BY <1>4 DEF Pointers
    <2>2. QED BY <1>1, <2>1 DEF TypeOK
  <1>8. InCall'
    BY <1>1 DEF InCall
  <1>9. QED
    BY <1>1, <1>5, <1>6, <1>7, <1>8 DEF IInv

\* insert: the new node goes to the end.
LEMMA LinkStep ==
    ASSUME TypeOK, InCall, NEW n \in Nat, NEW s \in [1 .. n -> Nodes],
           Chain(s, n), Running(s, n), Link
    PROVE  IInv' /\ Abstract!Effect(call, before, Contents')
  <1>1. /\ pc = "walk" /\ heap[current].next = NULL
        /\ heap' = [heap EXCEPT ![current].next = temp]
        /\ Return
        /\ UNCHANGED <<allocated, head>>
    BY DEF Link
  <1>2. call \in {"insert"} \X Data /\ call[1] = "insert" /\ call[2] \in Data
    BY <1>1 DEF InCall
  <1>3. Same(s, n) /\ Inserting(s, n)
    BY <1>1 DEF Running
  <1>4. PICK k \in 1 .. n : current = s[k]
    BY <1>3 DEF Inserting
  <1>5. k = n /\ n \in 1 .. n /\ current = s[n]
    <2>1. k # n => k + 1 \in 1 .. n
      OBVIOUS
    <2>2. k = n
      BY <1>1, <1>4, <2>1, OnList
    <2>3. QED BY <1>4, <2>2
  <1>6. /\ temp \in Nodes /\ temp \in allocated /\ \A i \in 1 .. n : s[i] # temp
        /\ heap[temp] = [data |-> call[2], next |-> NULL]
    BY <1>3 DEF Inserting, TypeOK
  <1>7. \A i \in 1 .. n : s[i] \in Nodes /\ heap[s[i]] \in Fields
    BY DEF TypeOK
  <1>8. /\ heap' \in [Nodes -> Fields]
        /\ heap'[temp] = [data |-> call[2], next |-> NULL]
        /\ \A i \in 1 .. n : /\ heap'[s[i]].data = heap[s[i]].data
                             /\ i # n => heap'[s[i]] = heap[s[i]]
        /\ heap'[s[n]].next = temp
    <2>1. \A i \in 1 .. n : i # n => s[i] # s[n]
      BY <1>5 DEF Chain, Linked
    <2>2. heap'[temp] = heap[temp]
      BY <1>1, <1>5, <1>6 DEF TypeOK
    <2>3. heap' \in [Nodes -> Fields]
      BY <1>1, <1>5, <1>6, <1>7 DEF TypeOK, Fields
    <2>4. heap'[s[n]].next = temp /\ heap'[s[n]].data = heap[s[n]].data
      BY <1>1, <1>5, <1>7 DEF TypeOK, Fields
    <2>5. \A i \in 1 .. n : i # n => heap'[s[i]] = heap[s[i]]
      BY <1>1, <1>5, <1>7, <2>1 DEF TypeOK
    <2>6. QED
      BY <1>6, <2>2, <2>3, <2>4, <2>5
  <1> DEFINE t == [i \in 1 .. n + 1 |-> IF i <= n THEN s[i] ELSE temp]
  <1>9. /\ t \in [1 .. n + 1 -> Nodes] /\ n + 1 \in Nat
        /\ \A i \in 1 .. n + 1 : i \in 1 .. n \/ i = n + 1
        /\ \A i \in 1 .. n : t[i] = s[i] /\ i \in 1 .. n + 1 /\ i # n + 1
        /\ t[n + 1] = temp
    BY <1>6
  <1>10. Linked(heap', head', allocated', t, n + 1)
    <2>1. head' = IF n + 1 = 0 THEN NULL ELSE t[1]
      BY <1>1, <1>5, <1>9 DEF Chain, Linked
    <2>2. ASSUME NEW i \in 1 .. n + 1
          PROVE  /\ t[i] \in allocated'
                 /\ heap'[t[i]].data \in Data
                 /\ heap'[t[i]].next = IF i = n + 1 THEN NULL ELSE t[i + 1]
      <3>1. CASE i = n + 1
        BY <3>1, <1>1, <1>2, <1>6, <1>8, <1>9
      <3>2. CASE i = n
        BY <3>2, <1>1, <1>5, <1>8, <1>9, OnList
      <3>3. CASE i # n + 1 /\ i # n
        <4>1. i \in 1 .. n /\ i + 1 \in 1 .. n
          BY <3>3
        <4>2. heap'[s[i]].next = s[i + 1]
          <5>1. heap[s[i]].next = s[i + 1]
            BY <4>1, <3>3, OnList
          <5>2. QED BY <5>1, <4>1, <3>3, <1>8
        <4>3. QED
          BY <4>1, <4>2, <3>3, <1>1, <1>8, <1>9, OnList
      <3>4. QED
        BY <3>1, <3>2, <3>3
    <2>3. \A i, j \in 1 .. n + 1 : t[i] = t[j] => i = j
      BY <1>6, <1>9 DEF Chain, Linked
    <2> HIDE DEF t
    <2>4. QED
      BY <2>1, <2>2, <2>3 DEF Linked
  <1>11. \A p \in allocated' : \E i \in 1 .. n + 1 : p = t[i]
    <2>1. \A p \in allocated : p = temp \/ \E i \in 1 .. n : p = s[i]
      BY DEF Chain
    <2>2. n + 1 \in 1 .. n + 1
      OBVIOUS
    <2> HIDE DEF t
    <2>3. QED BY <2>1, <2>2, <1>1, <1>9
  <1>12. Contents' = [i \in 1 .. n + 1 |-> heap'[t[i]].data]
    <2> HIDE DEF t
    <2>1. QED BY <1>9, <1>10, SpineAfter
  <1>13. IInv'
    <2> HIDE DEF t
    <2>1. /\ heap' \in [Nodes -> Fields] /\ allocated' \subseteq Nodes
          /\ head' \in Pointers /\ Return
      BY <1>1, <1>8 DEF TypeOK
    <2>2. n + 1 \in Nat /\ t \in [1 .. n + 1 -> Nodes]
      BY <1>9
    <2>3. QED BY <1>10, <1>11, <2>1, <2>2, Returns, Zenon
  <1>14. Contents' = Append(before, call[2])
    <2>1. before \in Seq(Data) /\ Len(before) = n /\ DOMAIN before = 1 .. n
      BY <1>3 DEF Same, TypeOK
    <2>2. Append(before, call[2]) = [i \in 1 .. n + 1 |-> IF i <= n THEN before[i] ELSE call[2]]
      BY <2>1, <1>2
    <2>3. \A i \in 1 .. n : before[i] = heap[s[i]].data
      BY <1>3 DEF Same
    <2>4. \A i \in 1 .. n + 1 : heap'[t[i]].data = IF i <= n THEN before[i] ELSE call[2]
      BY <2>3, <1>8, <1>9
    <2>5. QED
      BY <2>2, <2>4, <1>12
  <1>15. QED
    BY <1>2, <1>13, <1>14 DEF Abstract!Effect

-----------------------------------------------------------------------------
\* Where the i-th node was before the k-th one was dropped.
Was(k, i) == IF i < k THEN i ELSE i + 1

\* The places before and after the k-th node was dropped.
LEMMA WasPlaces ==
    ASSUME NEW n \in Nat, NEW k \in 1 .. n
    PROVE  /\ n - 1 \in Nat
           /\ \A i \in 1 .. n - 1 : Was(k, i) \in 1 .. n /\ Was(k, i) # k
           /\ \A i, j \in 1 .. n - 1 : i < j => Was(k, i) < Was(k, j)
           /\ \A i, j \in 1 .. n - 1 : Was(k, i) = Was(k, j) => i = j
           /\ \A j \in 1 .. n : j # k => \E i \in 1 .. n - 1 : Was(k, i) = j
           /\ \A i \in 1 .. n - 1 :
                 /\ i = n - 1 => Was(k, i) = n \/ (Was(k, i) = k - 1 /\ k = n)
                 /\ i # n - 1 => \/ Was(k, i + 1) = Was(k, i) + 1
                                 \/ Was(k, i) = k - 1 /\ Was(k, i + 1) = k + 1
                 /\ i # n - 1 => Was(k, i) # n /\ i + 1 \in 1 .. n - 1
  <1>1. \A j \in 1 .. n : j # k => \E i \in 1 .. n - 1 : Was(k, i) = j
    <2>1. ASSUME NEW j \in 1 .. n, j < k PROVE \E i \in 1 .. n - 1 : Was(k, i) = j
      <3>1. j \in 1 .. n - 1 /\ Was(k, j) = j
        BY <2>1 DEF Was
      <3>2. QED BY <3>1
    <2>2. ASSUME NEW j \in 1 .. n, j > k PROVE \E i \in 1 .. n - 1 : Was(k, i) = j
      <3>1. j - 1 \in 1 .. n - 1 /\ Was(k, j - 1) = j
        BY <2>2 DEF Was
      <3>2. QED BY <3>1
    <2>3. QED BY <2>1, <2>2
  <1>2. QED
    BY <1>1 DEF Was

\* deletenode: a node with the key is unlinked and freed.
LEMMA Dropped ==
    ASSUME TypeOK, NEW n \in Nat, NEW s \in [1 .. n -> Nodes], Chain(s, n), Kept(s, n),
           pc # "walk", NEW k \in 1 .. n,
           heap[s[k]].data = call[2],
           head' = IF k = 1 THEN heap[s[1]].next ELSE head,
           allocated' = allocated \ {s[k]},
           \A i \in 1 .. n : i # k =>
               /\ heap'[s[i]].data = heap[s[i]].data
               /\ heap'[s[i]].next = IF i = k - 1 THEN heap[s[k]].next ELSE heap[s[i]].next,
           UNCHANGED <<pc, call, before>>,
           NEW t, t = [i \in 1 .. n - 1 |-> s[Was(k, i)]]
    PROVE  Chain(t, n - 1)' /\ Kept(t, n - 1)'
  <1>0. /\ n - 1 \in Nat
        /\ \A i \in 1 .. n - 1 : Was(k, i) \in 1 .. n /\ Was(k, i) # k
        /\ \A i, j \in 1 .. n - 1 : i < j => Was(k, i) < Was(k, j)
        /\ \A i, j \in 1 .. n - 1 : Was(k, i) = Was(k, j) => i = j
        /\ \A j \in 1 .. n : j # k => \E i \in 1 .. n - 1 : Was(k, i) = j
        /\ \A i \in 1 .. n - 1 :
              /\ i = n - 1 => Was(k, i) = n \/ (Was(k, i) = k - 1 /\ k = n)
              /\ i # n - 1 => \/ Was(k, i + 1) = Was(k, i) + 1
                              \/ Was(k, i) = k - 1 /\ Was(k, i + 1) = k + 1
              /\ i # n - 1 => Was(k, i) # n /\ i + 1 \in 1 .. n - 1
    BY WasPlaces
  <1>1. \A i \in 1 .. n - 1 : t[i] = s[Was(k, i)]
    OBVIOUS
  <1>2. Linked(heap', head', allocated', t, n - 1)
    <2>1. head' = IF n - 1 = 0 THEN NULL ELSE t[1]
      <3>1. CASE k = 1
        <4>1. head' = IF n = 1 THEN NULL ELSE s[2]
          BY <3>1, OnList
        <4>2. n # 1 => 1 \in 1 .. n - 1 /\ Was(k, 1) = 2
          BY <3>1 DEF Was
        <4>3. QED BY <4>1, <4>2, <1>1
      <3>2. CASE k # 1
        <4>1. n # 1 /\ 1 \in 1 .. n - 1 /\ Was(k, 1) = 1
          BY <3>2 DEF Was
        <4>2. head = s[1]
          BY HeadIs
        <4>3. QED BY <3>2, <4>1, <4>2, <1>1
      <3>3. QED BY <3>1, <3>2
    <2>2. ASSUME NEW i \in 1 .. n - 1
          PROVE  /\ t[i] \in allocated'
                 /\ heap'[t[i]].data \in Data
                 /\ heap'[t[i]].next = IF i = n - 1 THEN NULL ELSE t[i + 1]
      <3> DEFINE w == Was(k, i)
      <3>1. w \in 1 .. n /\ w # k /\ t[i] = s[w]
        BY <1>0, <1>1
      <3>2. s[w] # s[k]
        BY <3>1 DEF Chain, Linked
      <3>3. /\ heap'[s[w]].data = heap[s[w]].data
            /\ heap'[s[w]].next = IF w = k - 1 THEN heap[s[k]].next ELSE heap[s[w]].next
        BY <3>1
      <3>4. t[i] \in allocated' /\ heap'[t[i]].data \in Data
        BY <3>1, <3>2, <3>3, OnList
      <3>5. CASE i = n - 1
        <4>1. w = n \/ (w = k - 1 /\ k = n)
          BY <3>5, <1>0
        <4>2. w = n => w # k - 1
          OBVIOUS
        <4>3. heap'[s[w]].next = NULL
          BY <4>1, <4>2, <3>1, <3>3, OnList
        <4>4. QED BY <4>3, <3>1, <3>4, <3>5
      <3>6. CASE i # n - 1
        <4>1. i + 1 \in 1 .. n - 1 /\ t[i + 1] = s[Was(k, i + 1)] /\ w # n
          BY <3>6, <1>0, <1>1
        <4>2. Was(k, i + 1) = w + 1 \/ (w = k - 1 /\ Was(k, i + 1) = k + 1)
          BY <3>6, <1>0
        <4>3. Was(k, i + 1) \in 1 .. n /\ Was(k, i + 1) # k
          BY <4>1, <1>0
        <4>4. CASE w = k - 1
          <5>1. Was(k, i + 1) = k + 1 /\ k # n
            BY <4>2, <4>3, <4>4
          <5>2. heap'[s[w]].next = s[k + 1]
            <6>1. heap[s[k]].next = s[k + 1]
              BY <5>1, OnList
            <6>2. QED BY <6>1, <4>4, <3>3
          <5>3. QED BY <5>1, <5>2, <4>1, <3>1, <3>4, <3>6
        <4>5. CASE w # k - 1
          <5>1. Was(k, i + 1) = w + 1
            BY <4>2, <4>5
          <5>2. heap'[s[w]].next = s[w + 1]
            <6>1. heap[s[w]].next = s[w + 1]
              BY <4>1, <3>1, OnList
            <6>2. QED BY <6>1, <4>5, <3>3
          <5>3. QED BY <5>1, <5>2, <4>1, <3>1, <3>4, <3>6
        <4>6. QED BY <4>4, <4>5
      <3>7. QED BY <3>5, <3>6
    <2>3. \A i, j \in 1 .. n - 1 : t[i] = t[j] => i = j
      BY <1>0, <1>1 DEF Chain, Linked
    <2>4. QED
      BY <2>1, <2>2, <2>3 DEF Linked
  <1>3. \A p \in allocated' : \E i \in 1 .. n - 1 : p = t[i]
    <2>1. ASSUME NEW p \in allocated' PROVE \E i \in 1 .. n - 1 : p = t[i]
      <3>1. PICK j \in 1 .. n : p = s[j]
        BY DEF Chain
      <3>2. j # k
        BY <3>1
      <3>3. PICK i \in 1 .. n - 1 : Was(k, i) = j
        BY <3>2, <1>0
      <3>4. QED BY <3>1, <3>3, <1>1
    <2>2. QED BY <2>1
  <1>4. Kept(t, n - 1)'
    <2>1. PICK kept \in [1 .. n -> DOMAIN before] :
            /\ \A i, j \in 1 .. n : i < j => kept[i] < kept[j]
            /\ \A j \in DOMAIN before : before[j] # call[2] => \E i \in 1 .. n : kept[i] = j
            /\ \A i \in 1 .. n : heap[s[i]].data = before[kept[i]]
      BY DEF Kept
    <2> DEFINE new == [i \in 1 .. n - 1 |-> kept[Was(k, i)]]
    <2>2. new \in [1 .. n - 1 -> DOMAIN before]
      BY <2>1, <1>0
    <2>3. \A i, j \in 1 .. n - 1 : i < j => new[i] < new[j]
      BY <2>1, <1>0
    <2>4. ASSUME NEW j \in DOMAIN before, before[j] # call[2]
          PROVE  \E i \in 1 .. n - 1 : new[i] = j
      <3>1. PICK o \in 1 .. n : kept[o] = j
        BY <2>4, <2>1
      <3>2. o # k
        BY <3>1, <2>1, <2>4
      <3>3. PICK i \in 1 .. n - 1 : Was(k, i) = o
        BY <3>2, <1>0
      <3>4. new[i] = j
        BY <3>1, <3>3
      <3>5. QED BY <3>4
    <2>5. \A i \in 1 .. n - 1 : heap'[t[i]].data = before[new[i]]
      BY <2>1, <1>0, <1>1
    <2> HIDE DEF new
    <2>6. QED
      BY <2>2, <2>3, <2>4, <2>5 DEF Kept
  <1>5. QED
    BY <1>2, <1>3, <1>4 DEF Chain

\* deletenode begins at the head.
LEMMA DeleteStep ==
    ASSUME TypeOK, InCall, NEW n \in Nat, NEW s \in [1 .. n -> Nodes],
           Chain(s, n), Running(s, n), Delete
    PROVE  IInv' /\ pc' # "idle" /\ before' = before /\ call' = call
  <1>1. /\ pc = "enter" /\ temp' = head /\ pc' = "heads"
        /\ UNCHANGED <<heap, allocated, head, call, current, prev, rptr, swapped, before>>
    BY DEF Delete
  <1>2. call \in {"deletenode"} \X Data
    BY <1>1 DEF Delete, InCall, TypeOK, Calls
  <1>3. Same(s, n)
    BY <1>1 DEF Running
  <1>4. Kept(s, n)'
    <2> DEFINE id == [i \in 1 .. n |-> i]
    <2>1. DOMAIN before = 1 .. n /\ \A i \in 1 .. n : before[i] = heap[s[i]].data
      BY <1>3 DEF Same
    <2>2. id \in [1 .. n -> DOMAIN before] /\ \A i \in 1 .. n : id[i] = i
      BY <2>1
    <2> HIDE DEF id
    <2>3. QED
      BY <1>1, <2>1, <2>2 DEF Kept
  <1>5. Running(s, n)'
    BY <1>1, <1>4 DEF Running
  <1>6. Chain(s, n)'
    BY <1>1 DEF Chain, Linked
  <1>7. TypeOK'
    BY <1>1 DEF TypeOK
  <1>8. InCall'
    BY <1>1, <1>2 DEF InCall
  <1>9. QED
    BY <1>1, <1>5, <1>6, <1>7, <1>8 DEF IInv

\* deletenode: the head holds the key.
LEMMA DropHeadStep ==
    ASSUME TypeOK, InCall, NEW n \in Nat, NEW s \in [1 .. n -> Nodes],
           Chain(s, n), Running(s, n), DropHead
    PROVE  IInv' /\ pc' # "idle" /\ before' = before /\ call' = call
  <1>1. /\ pc = "heads" /\ temp \in allocated
        /\ heap[temp].data = call[2]
        /\ head' = heap[temp].next
        /\ heap' = Free(temp, heap)
        /\ allocated' = allocated \ {temp}
        /\ temp' = head'
        /\ UNCHANGED <<pc, call, current, prev, rptr, swapped, before>>
    BY DEF DropHead, Valid
  <1>2. Kept(s, n) /\ temp = head
    BY <1>1 DEF Running
  <1>3. temp \in Nodes /\ temp # NULL
    BY <1>1, NodesAssumption DEF TypeOK
  <1>4. 1 \in 1 .. n /\ temp = s[1]
    BY <1>2, <1>3, HeadIs
  <1>5. \A i \in 1 .. n : i # 1 => heap'[s[i]] = heap[s[i]]
    <2>1. \A i \in 1 .. n : i # 1 => s[i] # temp
      BY <1>4 DEF Chain, Linked
    <2>2. QED BY <1>1, <2>1 DEF TypeOK, Free
  <1> DEFINE t == [i \in 1 .. n - 1 |-> s[Was(1, i)]]
  <1>6. n - 1 \in Nat /\ t \in [1 .. n - 1 -> Nodes]
    BY <1>4, WasPlaces
  <1>7. Chain(t, n - 1)' /\ Kept(t, n - 1)'
    <2>1. \A i \in 1 .. n : i # 1 =>
               /\ heap'[s[i]].data = heap[s[i]].data
               /\ heap'[s[i]].next = IF i = 1 - 1 THEN heap[s[1]].next ELSE heap[s[i]].next
      BY <1>5
    <2>2. /\ heap[s[1]].data = call[2] /\ allocated' = allocated \ {s[1]}
          /\ head' = IF 1 = 1 THEN heap[s[1]].next ELSE head
          /\ pc # "walk" /\ UNCHANGED <<pc, call, before>>
      BY <1>1, <1>4
    <2>3. QED
      BY <1>2, <1>4, <2>1, <2>2, Dropped
  <1> HIDE DEF t
  <1>8. Running(t, n - 1)'
    BY <1>1, <1>7 DEF Running
  <1>9. TypeOK'
    <2>1. head' \in Pointers
      BY <1>1, <1>4, OnList
    <2>2. heap' \in [Nodes -> Fields]
      BY <1>1, <1>3 DEF TypeOK, Free, Fields
    <2>3. QED BY <1>1, <2>1, <2>2 DEF TypeOK
  <1>10. InCall'
    BY <1>1 DEF InCall
  <1>11. QED
    BY <1>1, <1>6, <1>7, <1>8, <1>9, <1>10 DEF IInv

\* deletenode: the head does not hold the key, or there is none.
LEMMA HeadsDoneStep ==
    ASSUME TypeOK, InCall, NEW n \in Nat, NEW s \in [1 .. n -> Nodes],
           Chain(s, n), Running(s, n), HeadsDone
    PROVE  IInv' /\ pc' # "idle" /\ before' = before /\ call' = call
  <1>1. /\ pc = "heads"
        /\ temp = NULL \/ heap[temp].data # call[2]
        /\ pc' = "search"
        /\ UNCHANGED <<heap, allocated, head, call, locals, before>>
    BY DEF HeadsDone
  <1>2. Kept(s, n) /\ temp = head
    BY <1>1 DEF Running
  <1>3. 1 \in 1 .. n + 1
    OBVIOUS
  <1>4. Searching(s, n, 1)'
    <2>1. temp = IF 1 = n + 1 THEN NULL ELSE s[1]
      BY <1>2, HeadIs
    <2>2. n # 0 => heap[s[1]].data # call[2]
      BY <1>1, <1>2, HeadIs
    <2>3. QED
      BY <1>1, <2>1, <2>2 DEF Searching, locals
  <1>5. Kept(s, n)'
    BY <1>1, <1>2 DEF Kept
  <1>6. Running(s, n)'
    BY <1>1, <1>3, <1>4, <1>5 DEF Running
  <1>7. Chain(s, n)'
    BY <1>1 DEF Chain, Linked, locals
  <1>8. TypeOK'
    BY <1>1 DEF TypeOK, locals
  <1>9. InCall'
    BY <1>1 DEF InCall
  <1>10. QED
    BY <1>1, <1>6, <1>7, <1>8, <1>9 DEF IInv

\* deletenode: the next node does not hold the key.
LEMMA SkipStep ==
    ASSUME TypeOK, InCall, NEW n \in Nat, NEW s \in [1 .. n -> Nodes],
           Chain(s, n), Running(s, n), Skip
    PROVE  IInv' /\ pc' # "idle" /\ before' = before /\ call' = call
  <1>1. /\ pc = "search" /\ temp \in allocated
        /\ heap[temp].data # call[2]
        /\ prev' = temp
        /\ temp' = heap[temp].next
        /\ UNCHANGED <<heap, allocated, head, pc, call, current, rptr, swapped, before>>
    BY DEF Skip, Valid
  <1>2. Kept(s, n)
    BY <1>1 DEF Running
  <1>3. PICK k \in 1 .. n + 1 : Searching(s, n, k)
    BY <1>1 DEF Running
  <1>4. k # n + 1 /\ k \in 1 .. n /\ temp = s[k]
    BY <1>1, <1>3, NodesAssumption DEF Searching, TypeOK
  <1>5. k + 1 \in 1 .. n + 1
    BY <1>4
  <1>6. Searching(s, n, k + 1)'
    <2>1. temp' = IF k + 1 = n + 1 THEN NULL ELSE s[k + 1]
      BY <1>1, <1>4, OnList
    <2>2. \A i \in 1 .. n : i < k + 1 \/ i = 1 => heap[s[i]].data # call[2]
      <3>1. \A i \in 1 .. n : i < k + 1 => i < k \/ i = k
        BY <1>4
      <3>2. QED BY <3>1, <1>1, <1>3, <1>4 DEF Searching
    <2>3. prev' = s[(k + 1) - 1]
      BY <1>1, <1>4
    <2>4. QED
      BY <1>1, <2>1, <2>2, <2>3 DEF Searching
  <1>7. Kept(s, n)'
    BY <1>1, <1>2 DEF Kept
  <1>8. Running(s, n)'
    BY <1>1, <1>5, <1>6, <1>7 DEF Running
  <1>9. Chain(s, n)'
    BY <1>1 DEF Chain, Linked
  <1>10. TypeOK'
    <2>1. temp' \in Pointers /\ prev' \in Pointers
      BY <1>1, <1>4, OnList DEF Pointers
    <2>2. QED BY <1>1, <2>1 DEF TypeOK
  <1>11. InCall'
    BY <1>1 DEF InCall
  <1>12. QED
    BY <1>1, <1>8, <1>9, <1>10, <1>11 DEF IInv

\* deletenode: a node further on holds the key.
LEMMA UnlinkStep ==
    ASSUME TypeOK, InCall, NEW n \in Nat, NEW s \in [1 .. n -> Nodes],
           Chain(s, n), Running(s, n), Unlink
    PROVE  IInv' /\ pc' # "idle" /\ before' = before /\ call' = call
  <1>1. /\ pc = "search" /\ temp \in allocated /\ prev \in allocated
        /\ heap[temp].data = call[2]
        /\ heap' = Free(temp, [heap EXCEPT ![prev].next = heap[temp].next])
        /\ allocated' = allocated \ {temp}
        /\ temp' = heap'[prev].next
        /\ UNCHANGED <<head, pc, call, current, prev, rptr, swapped, before>>
    BY DEF Unlink, Valid
  <1>2. Kept(s, n)
    BY <1>1 DEF Running
  <1>3. PICK k \in 1 .. n + 1 : Searching(s, n, k)
    BY <1>1 DEF Running
  <1>4. k # n + 1 /\ k \in 1 .. n /\ temp = s[k]
    BY <1>1, <1>3, NodesAssumption DEF Searching, TypeOK
  <1>5. k # 1 /\ k - 1 \in 1 .. n /\ prev = s[k - 1]
    BY <1>1, <1>3, <1>4 DEF Searching
  <1>6. \A i \in 1 .. n : (i = k <=> s[i] = temp) /\ (i = k - 1 <=> s[i] = prev)
    BY <1>4, <1>5 DEF Chain, Linked
  <1>7. prev # temp /\ prev \in Nodes /\ temp \in Nodes
    BY <1>4, <1>5, <1>6
  <1>8. heap[temp].next \in Pointers
    BY <1>4, OnList
  <1>9. /\ heap' \in [Nodes -> Fields]
        /\ heap'[prev].data = heap[prev].data
        /\ heap'[prev].next = heap[temp].next
        /\ \A q \in Nodes : q # prev /\ q # temp => heap'[q] = heap[q]
    BY <1>1, <1>7, <1>8 DEF TypeOK, Free, Fields, Pointers
  <1> DEFINE t == [i \in 1 .. n - 1 |-> s[Was(k, i)]]
  <1>10. n - 1 \in Nat /\ t \in [1 .. n - 1 -> Nodes]
    BY <1>4, WasPlaces
  <1>11. \A i \in 1 .. n : i # k =>
             /\ heap'[s[i]].data = heap[s[i]].data
             /\ heap'[s[i]].next = IF i = k - 1 THEN heap[s[k]].next ELSE heap[s[i]].next
    BY <1>4, <1>5, <1>6, <1>9
  <1>12. Chain(t, n - 1)' /\ Kept(t, n - 1)'
    <2>1. /\ heap[s[k]].data = call[2] /\ allocated' = allocated \ {s[k]}
          /\ head' = IF k = 1 THEN heap[s[1]].next ELSE head
          /\ pc # "walk" /\ UNCHANGED <<pc, call, before>>
      BY <1>1, <1>4, <1>5
    <2>2. QED
      BY <1>2, <1>4, <1>11, <2>1, Dropped
  <1>13. Searching(t, n - 1, k)'
    <2>1. temp' = IF k = (n - 1) + 1 THEN NULL ELSE t[k]
      <3>1. k # n => k \in 1 .. n - 1 /\ t[k] = s[k + 1]
        BY <1>4 DEF Was
      <3>2. temp' = IF k = n THEN NULL ELSE s[k + 1]
        BY <1>1, <1>4, <1>9, OnList
      <3>3. QED BY <3>1, <3>2
    <2>2. \A i \in 1 .. n - 1 : i < k \/ i = 1 => heap'[t[i]].data # call[2]
      <3>1. ASSUME NEW i \in 1 .. n - 1, i < k \/ i = 1
            PROVE  heap'[t[i]].data # call[2]
        <4>1. i < k /\ i \in 1 .. n /\ t[i] = s[i] /\ i # k
          BY <3>1, <1>4, <1>5 DEF Was
        <4>2. heap[s[i]].data # call[2]
          BY <4>1, <1>3 DEF Searching
        <4>3. QED BY <4>1, <4>2, <1>11
      <3>2. QED BY <3>1
    <2>3. prev' = t[k - 1]
      <3>1. k - 1 \in 1 .. n - 1 /\ Was(k, k - 1) = k - 1
        BY <1>4, <1>5 DEF Was
      <3>2. QED BY <3>1, <1>1, <1>5
    <2> HIDE DEF t
    <2>4. QED
      BY <2>1, <2>2, <2>3, <1>1 DEF Searching
  <1>14. k \in 1 .. (n - 1) + 1
    BY <1>4
  <1> HIDE DEF t
  <1>15. Running(t, n - 1)'
    BY <1>1, <1>12, <1>13, <1>14 DEF Running
  <1>16. TypeOK'
    <2>1. temp' \in Pointers
      BY <1>1, <1>8, <1>9
    <2>2. QED BY <1>1, <1>9, <2>1 DEF TypeOK
  <1>17. InCall'
    BY <1>1 DEF InCall
  <1>18. QED
    BY <1>1, <1>10, <1>12, <1>15, <1>16, <1>17 DEF IInv

\* deletenode: the end of the list.
LEMMA DeleteReturnsStep ==
    ASSUME TypeOK, InCall, NEW n \in Nat, NEW s \in [1 .. n -> Nodes],
           Chain(s, n), Running(s, n), DeleteReturns
    PROVE  IInv' /\ Abstract!Effect(call, before, Contents')
  <1>1. pc = "search" /\ temp = NULL /\ Return /\ UNCHANGED <<heap, allocated, head>>
    BY DEF DeleteReturns
  <1>2. Linked(heap', head', allocated', s, n)
    BY <1>1 DEF Chain
  <1>3. IInv'
    <2>1. \A p \in allocated' : \E i \in 1 .. n : p = s[i]
      BY <1>1 DEF Chain
    <2>2. /\ heap' \in [Nodes -> Fields] /\ allocated' \subseteq Nodes
          /\ head' \in Pointers /\ Return
      BY <1>1 DEF TypeOK
    <2>3. QED BY <1>2, <2>1, <2>2, Returns, Zenon
  <1>4. Contents' = [i \in 1 .. n |-> heap[s[i]].data]
    BY <1>1, <1>2, SpineAfter
  <1>5. PICK k \in 1 .. n + 1 : Searching(s, n, k)
    BY <1>1 DEF Running
  <1>6. k = n + 1
    <2>1. k # n + 1 => k \in 1 .. n /\ temp = s[k]
      BY <1>5 DEF Searching
    <2>2. QED BY <1>1, <2>1, OnList
  <1>7. \A i \in 1 .. n : heap[s[i]].data # call[2]
    BY <1>5, <1>6 DEF Searching
  <1>8. PICK kept \in [1 .. n -> DOMAIN before] :
            /\ \A i, j \in 1 .. n : i < j => kept[i] < kept[j]
            /\ \A j \in DOMAIN before : before[j] # call[2] => \E i \in 1 .. n : kept[i] = j
            /\ \A i \in 1 .. n : heap[s[i]].data = before[kept[i]]
    BY <1>1 DEF Running, Kept
  <1>9. {kept[i] : i \in 1 .. n} = {j \in DOMAIN before : before[j] # call[2]}
    BY <1>7, <1>8
  <1>10. DOMAIN Contents' = 1 .. n /\ \A i \in 1 .. n : Contents'[i] = heap[s[i]].data
    BY <1>4
  <1>11. Abstract!Without(Contents', before, call[2])
    BY <1>8, <1>9, <1>10 DEF Abstract!Without
  <1>12. call[1] = "deletenode"
    BY <1>1 DEF InCall
  <1>13. QED
    BY <1>3, <1>11, <1>12 DEF Abstract!Effect

-----------------------------------------------------------------------------
\* The places where the first n numbers of f are x.
Places(f, n, x) == {i \in 1 .. n : f[i] = x}

\* The numbers d with the k-th and the l-th one exchanged.
Swapped(d, e, n, k, l) == /\ e[k] = d[l] /\ e[l] = d[k]
                          /\ \A i \in 1 .. n : i # k /\ i # l => e[i] = d[i]

\* Two numbers that change places: there are as many copies as before.
LEMMA SwapCopies ==
    ASSUME NEW n \in Nat, NEW d, NEW e, NEW k \in 1 .. n, NEW l \in 1 .. n, NEW x,
           Swapped(d, e, n, k, l)
    PROVE  Cardinality(Places(e, n, x)) = Cardinality(Places(d, n, x))
  <1> DEFINE D == {i \in 1 .. n : d[i] = x}
             E == {i \in 1 .. n : e[i] = x}
             f == [i \in D |-> IF i = k THEN l ELSE IF i = l THEN k ELSE i]
  <1>1. f \in [D -> E]
    BY DEF Swapped
  <1>2. \A a, b \in D : f[a] = f[b] => a = b
    OBVIOUS
  <1>3. \A b \in E : \E a \in D : f[a] = b
    <2>1. ASSUME NEW b \in E PROVE \E a \in D : f[a] = b
      <3> DEFINE a == IF b = k THEN l ELSE IF b = l THEN k ELSE b
      <3>1. a \in D /\ f[a] = b
        BY DEF Swapped
      <3>2. QED BY <3>1
    <2>2. QED BY <2>1
  <1>4. IsFiniteSet(D)
    <2>1. IsFiniteSet(1 .. n)
      BY FS_Interval
    <2>2. QED BY <2>1, FS_Subset
  <1>5. ExistsBijection(D, E)
    <2> HIDE DEF D, E, f
    <2>1. f \in Bijection(D, E)
      BY <1>1, <1>2, <1>3 DEF Bijection, Injection, Surjection, IsInjective
    <2>2. QED BY <2>1 DEF ExistsBijection
  <1>6. Cardinality(E) = Cardinality(D)
    <2> HIDE DEF D, E
    <2>1. QED BY <1>4, <1>5, FS_Bijection
  <1>7. QED
    BY <1>6 DEF Places

\* sort begins at the head.
LEMMA SortStep ==
    ASSUME TypeOK, InCall, NEW n \in Nat, NEW s \in [1 .. n -> Nodes],
           Chain(s, n), Running(s, n), Sort
    PROVE  IInv' /\ pc' # "idle" /\ before' = before /\ call' = call
  <1>1. /\ pc = "enter" /\ call[1] = "sort"
        /\ current' = head /\ rptr' = NULL /\ swapped' = FALSE /\ pc' = "pass"
        /\ UNCHANGED <<heap, allocated, head, call, temp, prev, before>>
    BY DEF Sort
  <1>2. call = <<"sort">>
    <2>1. call # None
      BY <1>1 DEF InCall
    <2>2. call \in Calls
      BY <2>1 DEF TypeOK
    <2>3. QED BY <1>1, <2>2 DEF Calls
  <1>3. 1 \in 1 .. n /\ head = s[1]
    BY <1>1, <1>2, HeadIs DEF InCall
  <1>4. n + 1 \in 2 .. n + 1 /\ 1 < n + 1
    BY <1>3
  <1>5. Passing(s, n, 1, n + 1)'
    <2>1. \A i \in 1 .. 1 : heap'[s[i]].data <= heap'[s[1]].data
      <3>1. heap'[s[1]].data \in Int
        BY <1>1, <1>3, OnList, DataAssumption
      <3>2. QED BY <3>1
    <2>2. QED
      BY <1>1, <1>3, <1>4, <2>1 DEF Passing
  <1>6. SameCopies(s, n)'
    <2>1. DOMAIN before = 1 .. n /\ \A i \in 1 .. n : before[i] = heap[s[i]].data
      BY <1>1 DEF Running, Same
    <2>2. \A x : {i \in 1 .. n : heap[s[i]].data = x} = {i \in DOMAIN before : before[i] = x}
      BY <2>1
    <2>3. ASSUME NEW x \in Data
          PROVE  Cardinality({i \in 1 .. n : heap'[s[i]].data = x})
                   = Cardinality({i \in DOMAIN before' : before'[i] = x})
      <3>1. /\ {i \in 1 .. n : heap'[s[i]].data = x} = {i \in 1 .. n : heap[s[i]].data = x}
            /\ {i \in DOMAIN before' : before'[i] = x} = {i \in DOMAIN before : before[i] = x}
        BY <1>1
      <3>2. QED BY <3>1, <2>2
    <2>4. QED
      BY <2>3 DEF SameCopies
  <1>7. Running(s, n)'
    BY <1>1, <1>3, <1>4, <1>5, <1>6 DEF Running
  <1>8. Chain(s, n)'
    BY <1>1 DEF Chain, Linked
  <1>9. TypeOK'
    BY <1>1 DEF TypeOK, Pointers
  <1>10. InCall'
    BY <1>1, <1>2, NoneAssumption DEF InCall
  <1>11. QED
    BY <1>1, <1>7, <1>8, <1>9, <1>10 DEF IInv

\* sort: two neighbours are compared.
LEMMA CompareStep ==
    ASSUME TypeOK, InCall, NEW n \in Nat, NEW s \in [1 .. n -> Nodes],
           Chain(s, n), Running(s, n), Compare
    PROVE  IInv' /\ pc' # "idle" /\ before' = before /\ call' = call
  <1> DEFINE next == heap[current].next
             wrong == heap[current].data > heap[next].data
  <1>1. /\ pc = "pass" /\ next # rptr
        /\ heap' = IF wrong
                   THEN [heap EXCEPT ![current].data = heap[next].data,
                                     ![next].data = heap[current].data]
                   ELSE heap
        /\ swapped' = (swapped \/ wrong)
        /\ current' = next
        /\ UNCHANGED <<allocated, head, pc, call, temp, prev, rptr, before>>
    BY DEF Compare
  <1>2. PICK k \in 1 .. n, r \in 2 .. n + 1 : Passing(s, n, k, r)
    BY <1>1 DEF Running
  <1>3. current = s[k] /\ k + 1 < r /\ k + 1 \in 1 .. n /\ k # n
    <2>1. k < r /\ current = s[k] /\ rptr = IF r = n + 1 THEN NULL ELSE s[r]
      BY <1>2 DEF Passing
    <2>2. k + 1 = r => next = rptr
      BY <2>1, OnList
    <2>3. k + 1 # r
      BY <2>2, <1>1
    <2>4. QED BY <2>1, <2>3
  <1>4. next = s[k + 1] /\ next \in Nodes /\ current \in Nodes /\ next # current
    <2>1. next = s[k + 1]
      BY <1>3, OnList
    <2>2. s[k] # s[k + 1]
      BY <1>3 DEF Chain, Linked
    <2>3. QED BY <2>1, <2>2, <1>3
  <1> DEFINE d == [i \in 1 .. n |-> heap[s[i]].data]
             e == [i \in 1 .. n |-> heap'[s[i]].data]
  <1>5. \A i \in 1 .. n : d[i] \in Data /\ d[i] \in Int
    BY OnList, DataAssumption
  <1>6. \A i \in 1 .. n : (i = k <=> s[i] = current) /\ (i = k + 1 <=> s[i] = next)
    BY <1>3, <1>4 DEF Chain, Linked
  <1>7. wrong <=> d[k] > d[k + 1]
    BY <1>3, <1>4
  <1>8. /\ heap' \in [Nodes -> Fields]
        /\ \A q \in Nodes : heap'[q].next = heap[q].next
        /\ \A q \in Nodes : q # current /\ q # next => heap'[q].data = heap[q].data
        /\ heap'[current].data = IF wrong THEN heap[next].data ELSE heap[current].data
        /\ heap'[next].data = IF wrong THEN heap[current].data ELSE heap[next].data
    <2>1. heap \in [Nodes -> Fields] /\ \A q \in Nodes : heap[q] \in Fields
      BY DEF TypeOK
    <2>2. CASE ~wrong
      BY <2>1, <2>2, <1>1
    <2>3. CASE wrong
      <3>1. heap' = [heap EXCEPT ![current].data = heap[next].data,
                                 ![next].data = heap[current].data]
        BY <2>3, <1>1
      <3> DEFINE x == heap[next].data
                 y == heap[current].data
      <3>2. x \in Data \cup {Garbage} /\ y \in Data \cup {Garbage}
        BY <2>1, <1>4 DEF Fields
      <3> HIDE DEF wrong, next, x, y
      <3>3. heap' = [heap EXCEPT ![current].data = x, ![next].data = y]
        BY <3>1 DEF x, y
      <3>4. /\ heap'[current] = [heap[current] EXCEPT !.data = x]
            /\ heap'[next] = [heap[next] EXCEPT !.data = y]
            /\ \A q \in Nodes : q # current /\ q # next => heap'[q] = heap[q]
            /\ heap' \in [Nodes -> Fields]
        BY <3>2, <3>3, <1>4, <2>1 DEF Fields
      <3>5. /\ heap'[current].data = x /\ heap'[current].next = heap[current].next
            /\ heap'[next].data = y /\ heap'[next].next = heap[next].next
        BY <3>4, <1>4, <2>1 DEF Fields
      <3>6. QED
        BY <2>3, <3>4, <3>5 DEF x, y
    <2>4. QED BY <2>2, <2>3
  <1>9. /\ \A i \in 1 .. n : i # k /\ i # k + 1 => e[i] = d[i]
        /\ e[k] = IF d[k] > d[k + 1] THEN d[k + 1] ELSE d[k]
        /\ e[k + 1] = IF d[k] > d[k + 1] THEN d[k] ELSE d[k + 1]
    BY <1>3, <1>4, <1>6, <1>7, <1>8
  <1>10. \A i \in 1 .. n : e[i] \in Data /\ e[i] \in Int
    BY <1>3, <1>5, <1>9
  <1>11. Chain(s, n)'
    <2>1. \A i \in 1 .. n : heap'[s[i]].data \in Data
      BY <1>10
    <2>2. \A i \in 1 .. n : heap'[s[i]].next = heap[s[i]].next
      BY <1>8
    <2>3. QED
      BY <1>1, <2>1, <2>2 DEF Chain, Linked
  <1>12. SameCopies(s, n)'
    <2>1. SameCopies(s, n)
      BY <1>1 DEF Running
    <2>2. ASSUME NEW x \in Data
          PROVE  Cardinality(Places(e, n, x)) = Cardinality(Places(d, n, x))
      <3>1. CASE d[k] > d[k + 1]
        <4>1. /\ e[k] = d[k + 1] /\ e[k + 1] = d[k]
              /\ \A i \in 1 .. n : i # k /\ i # k + 1 => e[i] = d[i]
          BY <3>1, <1>9
        <4> HIDE DEF d, e
        <4>2. k + 1 \in 1 .. n /\ Swapped(d, e, n, k, k + 1)
          BY <4>1, <1>3 DEF Swapped
        <4>3. QED BY <4>2, SwapCopies
      <3>2. CASE ~(d[k] > d[k + 1])
        <4>1. \A i \in 1 .. n : e[i] = d[i]
          BY <3>2, <1>9
        <4> HIDE DEF d, e
        <4>2. Places(e, n, x) = Places(d, n, x)
          BY <4>1 DEF Places
        <4>3. QED BY <4>2
      <3>3. QED BY <3>1, <3>2
    <2>3. \A x : Places(e, n, x) = {i \in 1 .. n : heap'[s[i]].data = x}
      BY DEF Places
    <2>4. \A x : Places(d, n, x) = {i \in 1 .. n : heap[s[i]].data = x}
      BY DEF Places
    <2> HIDE DEF d, e
    <2>5. QED
      BY <1>1, <2>1, <2>2, <2>3, <2>4 DEF SameCopies
  <1>13. /\ \A i \in 1 .. k : d[i] <= d[k]
         /\ \A i, j \in 1 .. n : i < j /\ r <= j => d[i] <= d[j]
         /\ ~swapped => \A i, j \in 1 .. k : i < j => d[i] <= d[j]
    <2>1. \A i \in 1 .. k : i \in 1 .. n
      OBVIOUS
    <2>2. QED BY <1>2, <2>1 DEF Passing
  <1>14. \A i \in 1 .. k + 1 : e[i] <= e[k + 1]
    <2>1. ASSUME NEW i \in 1 .. k + 1 PROVE e[i] <= e[k + 1]
      <3>1. i \in 1 .. n /\ (i \in 1 .. k \/ i = k + 1)
        BY <1>3
      <3> HIDE DEF d, e
      <3>2. CASE i = k + 1
        BY <3>1, <3>2, <1>10
      <3>3. CASE i # k + 1
        BY <3>1, <3>3, <1>3, <1>5, <1>9, <1>13
      <3>4. QED BY <3>2, <3>3
    <2>2. QED BY <2>1
  <1>15. \A i, j \in 1 .. n : i < j /\ r <= j => e[i] <= e[j]
    <2>1. ASSUME NEW i \in 1 .. n, NEW j \in 1 .. n, i < j, r <= j PROVE e[i] <= e[j]
      <3>1. j # k /\ j # k + 1 /\ k < j /\ k + 1 < j
        BY <2>1, <1>3
      <3> HIDE DEF d, e
      <3>2. e[j] = d[j]
        BY <3>1, <1>9
      <3>3. d[i] <= d[j] /\ d[k] <= d[j] /\ d[k + 1] <= d[j]
        BY <2>1, <3>1, <1>3, <1>13
      <3>4. e[i] = d[i] \/ e[i] = d[k] \/ e[i] = d[k + 1]
        BY <1>9
      <3>5. QED BY <3>2, <3>3, <3>4
    <2>2. QED BY <2>1
  <1>16. ~swapped' => \A i, j \in 1 .. k + 1 : i < j => e[i] <= e[j]
    <2>1. ASSUME ~swapped', NEW i \in 1 .. k + 1, NEW j \in 1 .. k + 1, i < j
          PROVE  e[i] <= e[j]
      <3>1. ~swapped /\ ~(d[k] > d[k + 1])
        BY <2>1, <1>1, <1>7 DEF TypeOK
      <3>2. i \in 1 .. k /\ i \in 1 .. n /\ j \in 1 .. n /\ (j \in 1 .. k \/ j = k + 1)
        BY <2>1, <1>3
      <3> HIDE DEF d, e
      <3>3. e[i] = d[i] /\ e[j] = d[j]
        BY <3>1, <3>2, <1>9
      <3>4. j \in 1 .. k => d[i] <= d[j]
        BY <2>1, <3>1, <3>2, <1>13
      <3>5. j = k + 1 => d[i] <= d[j]
        <4>1. d[i] <= d[k] /\ d[i] \in Int /\ d[k] \in Int /\ d[k + 1] \in Int
          BY <3>2, <1>3, <1>5, <1>13
        <4>2. QED BY <4>1, <3>1
      <3>6. QED BY <3>2, <3>3, <3>4, <3>5
    <2>2. QED BY <2>1
  <1>17. Passing(s, n, k + 1, r)'
    <2>1. \A i \in 1 .. n : e[i] = heap'[s[i]].data
      OBVIOUS
    <2>2. \A i \in 1 .. k + 1 : i \in 1 .. n
      BY <1>3
    <2>3. rptr' = IF r = n + 1 THEN NULL ELSE s[r]
      BY <1>1, <1>2 DEF Passing
    <2>4. current' = s[k + 1]
      BY <1>1, <1>4
    <2>5. k + 1 > 1
      OBVIOUS
    <2> HIDE DEF e, d, next, wrong
    <2>6. \A i \in 1 .. k + 1 : heap'[s[i]].data <= heap'[s[k + 1]].data
      BY <2>1, <2>2, <1>3, <1>14
    <2>7. \A i, j \in 1 .. n : i < j /\ r <= j => heap'[s[i]].data <= heap'[s[j]].data
      BY <2>1, <1>15
    <2>8. ~swapped' => \A i, j \in 1 .. k + 1 : i < j => heap'[s[i]].data <= heap'[s[j]].data
      BY <2>1, <2>2, <1>16
    <2>9. QED
      BY <1>3, <2>3, <2>4, <2>5, <2>6, <2>7, <2>8 DEF Passing
  <1> HIDE DEF next, wrong, d, e
  <1>18. Running(s, n)'
    BY <1>1, <1>3, <1>12, <1>17 DEF Running
  <1>19. TypeOK'
    <2>1. current' \in Pointers
      BY <1>1, <1>4 DEF Pointers
    <2>2. swapped' \in BOOLEAN
      BY <1>1 DEF TypeOK, wrong
    <2>3. QED BY <1>1, <1>8, <2>1, <2>2 DEF TypeOK
  <1>20. InCall'
    BY <1>1 DEF InCall
  <1>21. QED
    BY <1>1, <1>11, <1>18, <1>19, <1>20 DEF IInv

\* sort: a pass ends, and the next one begins or sort returns.
LEMMA PassEndsStep ==
    ASSUME TypeOK, InCall, NEW n \in Nat, NEW s \in [1 .. n -> Nodes],
           Chain(s, n), Running(s, n), PassEnds
    PROVE  /\ IInv'
           /\ pc' = "idle" => Abstract!Effect(call, before, Contents')
           /\ pc' # "idle" => before' = before /\ call' = call
  <1>1. /\ pc = "pass" /\ heap[current].next = rptr
        /\ \/ /\ swapped
              /\ rptr' = current
              /\ swapped' = FALSE
              /\ current' = head
              /\ UNCHANGED <<pc, call, temp, prev, before>>
           \/ ~swapped /\ Return
        /\ UNCHANGED <<heap, allocated, head>>
    BY DEF PassEnds
  <1>2. PICK k \in 1 .. n, r \in 2 .. n + 1 : Passing(s, n, k, r)
    BY <1>1 DEF Running
  <1>3. SameCopies(s, n)
    BY <1>1 DEF Running
  <1>4. k < r /\ current = s[k] /\ rptr = IF r = n + 1 THEN NULL ELSE s[r]
    BY <1>2 DEF Passing
  <1>5. r = k + 1
    <2>1. heap[current].next = IF k = n THEN NULL ELSE s[k + 1]
      BY <1>4, OnList
    <2>2. CASE k = n
      BY <2>2, <1>4
    <2>3. CASE k # n
      <3>1. k + 1 \in 1 .. n /\ rptr = s[k + 1] /\ rptr # NULL
        BY <2>1, <2>3, <1>1, OnList
      <3>2. r # n + 1 /\ r \in 1 .. n /\ rptr = s[r]
        BY <3>1, <1>4
      <3>3. QED BY <3>1, <3>2 DEF Chain, Linked
    <2>4. QED BY <2>2, <2>3
  <1>6. \A i \in 1 .. k : i \in 1 .. n
    OBVIOUS
  <1>7. 1 \in 1 .. n /\ head = s[1]
    BY HeadIs
  <1>8. CASE swapped
    <2>1. /\ pc' = "pass" /\ rptr' = s[k] /\ swapped' = FALSE /\ current' = s[1]
          /\ UNCHANGED <<heap, allocated, head, call, temp, prev, before>>
      BY <1>1, <1>4, <1>7, <1>8
    <2>2. k > 1 /\ k # n + 1 /\ k \in 2 .. n + 1
      BY <1>2, <1>8 DEF Passing
    <2>3. Passing(s, n, 1, k)'
      <3>1. \A i \in 1 .. 1 : heap'[s[i]].data <= heap'[s[1]].data
        <4>1. heap'[s[1]].data \in Int
          BY <2>1, <1>7, OnList, DataAssumption
        <4>2. QED BY <4>1
      <3>2. ASSUME NEW i \in 1 .. n, NEW j \in 1 .. n, i < j, k <= j
            PROVE  heap'[s[i]].data <= heap'[s[j]].data
        <4>1. CASE j = k
          BY <3>2, <4>1, <1>2, <2>1 DEF Passing
        <4>2. CASE j # k
          <5>1. r <= j
            BY <3>2, <4>2, <1>5
          <5>2. QED BY <3>2, <5>1, <1>2, <2>1 DEF Passing
        <4>3. QED BY <4>1, <4>2
      <3>3. \A i, j \in 1 .. 1 : ~(i < j)
        OBVIOUS
      <3>4. QED
        BY <2>1, <2>2, <3>1, <3>2, <3>3 DEF Passing
    <2>4. SameCopies(s, n)'
      BY <1>3, <2>1 DEF SameCopies
    <2>5. Running(s, n)'
      BY <1>7, <2>1, <2>2, <2>3, <2>4 DEF Running
    <2>6. Chain(s, n)'
      BY <1>1, <2>1 DEF Chain, Linked
    <2>7. TypeOK'
      <3>1. {rptr', current'} \subseteq Pointers
        BY <1>7, <2>1 DEF Pointers
      <3>2. QED BY <2>1, <3>1, <1>1 DEF TypeOK
    <2>8. InCall'
      BY <1>1, <2>1 DEF InCall
    <2>9. QED
      BY <2>1, <2>5, <2>6, <2>7, <2>8 DEF IInv
  <1>9. CASE ~swapped
    <2>1. Return /\ UNCHANGED <<heap, allocated, head>>
      BY <1>1, <1>9
    <2>2. Linked(heap', head', allocated', s, n)
      BY <2>1 DEF Chain
    <2>3. IInv'
      <3>1. \A p \in allocated' : \E i \in 1 .. n : p = s[i]
        BY <1>1, <2>1 DEF Chain
      <3>2. /\ heap' \in [Nodes -> Fields] /\ allocated' \subseteq Nodes
            /\ head' \in Pointers /\ Return
        BY <2>1 DEF TypeOK
      <3>3. QED BY <2>2, <3>1, <3>2, Returns, Zenon
    <2>4. Contents' = [i \in 1 .. n |-> heap[s[i]].data]
      BY <2>1, <2>2, SpineAfter
    <2>5. DOMAIN Contents' = 1 .. n /\ \A i \in 1 .. n : Contents'[i] = heap[s[i]].data
      BY <2>4
    <2>6. \A i, j \in 1 .. n : i < j => heap[s[i]].data <= heap[s[j]].data
      <3>1. ASSUME NEW i \in 1 .. n, NEW j \in 1 .. n, i < j
            PROVE  heap[s[i]].data <= heap[s[j]].data
        <4>1. CASE r <= j
          BY <3>1, <4>1, <1>2 DEF Passing
        <4>2. CASE ~(r <= j)
          <5>1. i \in 1 .. k /\ j \in 1 .. k
            BY <3>1, <4>2, <1>5
          <5>2. QED BY <3>1, <5>1, <1>2, <1>9 DEF Passing
        <4>3. QED BY <4>1, <4>2
      <3>2. QED BY <3>1
    <2>7. Abstract!Sorted(Contents')
      BY <2>5, <2>6 DEF Abstract!Sorted
    <2>8. \A x \in Data : Abstract!Copies(Contents', x) = Abstract!Copies(before, x)
      <3>1. \A x : {i \in DOMAIN Contents' : Contents'[i] = x} = {i \in 1 .. n : heap[s[i]].data = x}
        BY <2>5
      <3>2. ASSUME NEW x \in Data PROVE Abstract!Copies(Contents', x) = Abstract!Copies(before, x)
        <4>1. Cardinality({i \in 1 .. n : heap[s[i]].data = x})
                = Cardinality({i \in DOMAIN before : before[i] = x})
          BY <1>3 DEF SameCopies
        <4>2. \A c : Abstract!Copies(c, x) = Cardinality({i \in DOMAIN c : c[i] = x})
          BY DEF Abstract!Copies, Abstract!Cardinality, Cardinality
        <4>3. QED BY <3>1, <4>1, <4>2
      <3>3. QED BY <3>2
    <2>9. call[1] = "sort" /\ pc' = "idle"
      BY <1>1, <2>1 DEF InCall, Return
    <2>10. QED
      BY <2>3, <2>7, <2>8, <2>9 DEF Abstract!Effect
  <1>10. QED
    BY <1>8, <1>9

-----------------------------------------------------------------------------
\* main calls a function.
LEMMA CallStep ==
    ASSUME IInv, NEW c \in Calls, Call(c)
    PROVE  /\ IInv'
           /\ pc = "idle" /\ call = None
           /\ pc' = "enter" /\ call' = c /\ before' = Contents
  <1>1. /\ pc = "idle" /\ (c[1] = "sort" => head # NULL)
        /\ pc' = "enter" /\ call' = c /\ before' = Contents
        /\ UNCHANGED <<heap, allocated, head, locals>>
    BY DEF Call
  <1>2. PICK n \in Nat : \E s \in [1 .. n -> Nodes] : Chain(s, n) /\ Running(s, n)
    BY DEF IInv
  <1>3. PICK s \in [1 .. n -> Nodes] : Chain(s, n)
    BY <1>2
  <1>4. Contents = [i \in 1 .. n |-> heap[s[i]].data]
    BY <1>3, SpineIs DEF Chain
  <1>5. Contents \in Seq(Data)
    <2>1. \A i \in 1 .. n : heap[s[i]].data \in Data
      BY <1>3 DEF Chain, Linked
    <2>2. QED BY <1>4, <2>1
  <1>6. Running(s, n)'
    BY <1>1, <1>4 DEF Running, Same
  <1>7. Chain(s, n)'
    BY <1>1, <1>3 DEF Chain, Linked
  <1>8. TypeOK'
    BY <1>1, <1>5 DEF IInv, TypeOK, locals
  <1>9. InCall'
    <2>1. c # None
      BY NoneAssumption
    <2>2. c = <<"sort">> => head # NULL
      BY <1>1
    <2>3. QED BY <1>1, <2>1, <2>2 DEF InCall
  <1>10. QED
    BY <1>1, <1>6, <1>7, <1>8, <1>9 DEF IInv, InCall

\* A step of a function keeps the invariant.  If the function returns, the list
\* is what AbstractList says; if not, the call goes on.
LEMMA FunctionStep ==
    ASSUME IInv, Step
    PROVE  /\ IInv'
           /\ pc # "idle" /\ call # None
           /\ pc' = "idle" => call' = None /\ Abstract!Effect(call, before, Contents')
           /\ pc' # "idle" => before' = before /\ call' = call
  <1>1. PICK n \in Nat : \E s \in [1 .. n -> Nodes] : Chain(s, n) /\ Running(s, n)
    BY DEF IInv
  <1>2. PICK s \in [1 .. n -> Nodes] : Chain(s, n) /\ Running(s, n)
    BY <1>1
  <1>3. TypeOK /\ InCall
    BY DEF IInv
  <1>4. pc # "idle" /\ call # None
    <2>1. pc # "idle"
      BY DEF Step, InsertStarts, Walk, Link, Delete, DropHead, HeadsDone, Skip, Unlink,
             DeleteReturns, Sort, Compare, PassEnds
    <2>2. QED BY <2>1, <1>3 DEF InCall
  <1>5. /\ IInv'
        /\ pc' = "idle" => Abstract!Effect(call, before, Contents')
        /\ pc' # "idle" => before' = before /\ call' = call
    <2>1. CASE InsertStarts
      BY <2>1, <1>2, <1>3, InsertStartsStep
    <2>2. CASE Walk
      BY <2>2, <1>2, <1>3, WalkStep
    <2>3. CASE Link
      BY <2>3, <1>2, <1>3, LinkStep DEF Link, Return
    <2>4. CASE Delete
      BY <2>4, <1>2, <1>3, DeleteStep
    <2>5. CASE DropHead
      BY <2>5, <1>2, <1>3, DropHeadStep
    <2>6. CASE HeadsDone
      BY <2>6, <1>2, <1>3, HeadsDoneStep
    <2>7. CASE Skip
      BY <2>7, <1>2, <1>3, SkipStep
    <2>8. CASE Unlink
      BY <2>8, <1>2, <1>3, UnlinkStep
    <2>9. CASE DeleteReturns
      BY <2>9, <1>2, <1>3, DeleteReturnsStep DEF DeleteReturns, Return
    <2>10. CASE Sort
      BY <2>10, <1>2, <1>3, SortStep
    <2>11. CASE Compare
      BY <2>11, <1>2, <1>3, CompareStep
    <2>12. CASE PassEnds
      BY <2>12, <1>2, <1>3, PassEndsStep
    <2>13. QED
      BY <2>1, <2>2, <2>3, <2>4, <2>5, <2>6, <2>7, <2>8, <2>9, <2>10, <2>11, <2>12 DEF Step
  <1>6. pc' = "idle" => call' = None
    BY <1>5 DEF IInv, InCall
  <1>7. QED
    BY <1>4, <1>5, <1>6

\* At first there is no node.
LEMMA Start ==
    ASSUME Init
    PROVE  IInv /\ Contents = <<>>
  <1> DEFINE s == [i \in 1 .. 0 |-> NULL]
  <1>1. s \in [1 .. 0 -> Nodes] /\ 0 \in Nat
    OBVIOUS
  <1>2. Chain(s, 0) /\ Linked(heap, head, allocated, s, 0)
    BY DEF Init, Chain, Linked
  <1>3. Running(s, 0)
    BY DEF Init, Running
  <1>4. TypeOK
    <2>1. <<>> \in Seq(Data)
      OBVIOUS
    <2>2. heap \in [Nodes -> Fields]
      BY DEF Init, Fields
    <2>3. None \in Calls \cup {None} /\ NULL \in Pointers
      BY DEF Pointers
    <2>4. QED
      BY <2>1, <2>2, <2>3 DEF Init, TypeOK
  <1>5. InCall
    BY DEF Init, InCall
  <1>6. Contents = [i \in 1 .. 0 |-> heap[s[i]].data]
    <2> HIDE DEF s
    <2>1. QED BY <1>1, <1>2, SpineIs
  <1>7. IInv
    <2> HIDE DEF s
    <2>1. QED BY <1>1, <1>2, <1>3, <1>4, <1>5 DEF IInv
  <1>8. QED
    BY <1>6, <1>7

\* The invariant holds at every step of the functions and of main.
THEOREM Invariance == Spec => []IInv
  <1>1. Init => IInv
    BY Start
  <1>2. IInv /\ [Next]_vars => IInv'
    <2> SUFFICES ASSUME IInv, [Next]_vars PROVE IInv'
      OBVIOUS
    <2>1. ASSUME NEW c \in Calls, Call(c) PROVE IInv'
      BY <2>1, CallStep
    <2>2. CASE Step
      BY <2>2, FunctionStep
    <2>3. CASE UNCHANGED vars
      <3>1. TypeOK' /\ InCall'
        BY <2>3 DEF vars, locals, IInv, TypeOK, InCall
      <3>2. PICK n \in Nat : \E s \in [1 .. n -> Nodes] : Chain(s, n) /\ Running(s, n)
        BY DEF IInv
      <3>3. PICK s \in [1 .. n -> Nodes] : Chain(s, n) /\ Running(s, n)
        BY <3>2
      <3>4. Chain(s, n)'
        BY <2>3, <3>3 DEF vars, locals, Chain, Linked
      <3>5. Running(s, n)'
        <4>1. /\ Same(s, n)' <=> Same(s, n)
              /\ Inserting(s, n)' <=> Inserting(s, n)
              /\ Kept(s, n)' <=> Kept(s, n)
              /\ SameCopies(s, n)' <=> SameCopies(s, n)
          BY <2>3 DEF vars, locals, Same, Inserting, Kept, SameCopies
        <4>2. /\ \A k : Searching(s, n, k)' <=> Searching(s, n, k)
              /\ \A k, r : Passing(s, n, k, r)' <=> Passing(s, n, k, r)
          BY <2>3 DEF vars, locals, Searching, Passing
        <4>3. QED
          BY <2>3, <3>3, <4>1, <4>2 DEF vars, locals, Running
      <3>6. QED
        BY <3>1, <3>4, <3>5 DEF IInv
    <2>4. QED
      BY <2>1, <2>2, <2>3 DEF Next
  <1>3. QED
    BY <1>1, <1>2, PTL DEF Spec

\* Every pointer is a node or NULL, also those that deletenode and sort read
\* from the heap: no variable ever holds the fields of a freed node (mylist.c
\* lines 36-61, PS_3.c lines 58-75).
THEOREM TypeCorrect == Spec => []TypeOK
  <1>1. IInv => TypeOK
    BY DEF IInv
  <1>2. QED
    BY <1>1, Invariance, PTL

\* No node is leaked and none is used after it was freed, however many nodes
\* there are: between two calls the nodes from head on are the allocated ones,
\* each once (mylist.c lines 36-38 and 56-61).
THEOREM NoLeak == Spec => []NothingLeaks
  <1>1. IInv => NothingLeaks
    <2> SUFFICES ASSUME IInv, pc = "idle"
                 PROVE  /\ WellFormed
                        /\ {Spine[i] : i \in DOMAIN Spine} = allocated
                        /\ Len(Spine) = Cardinality(allocated)
      BY DEF NothingLeaks
    <2>1. PICK n \in Nat : \E s \in [1 .. n -> Nodes] : Chain(s, n) /\ Running(s, n)
      BY DEF IInv
    <2>2. PICK s \in [1 .. n -> Nodes] : Chain(s, n)
      BY <2>1
    <2>3. WellFormed /\ Spine = s
      BY <2>2, SpineIs DEF Chain
    <2>4. DOMAIN s = 1 .. n /\ Len(s) = n
      BY <2>2, ShortEnough DEF Chain, Linked
    <2>5. {s[i] : i \in 1 .. n} = allocated
      BY <2>2 DEF Chain, Linked
    <2>6. Cardinality(allocated) = n
      <3>1. s \in Bijection(1 .. n, allocated)
        BY <2>2, <2>5 DEF Chain, Linked, Bijection, Injection, Surjection, IsInjective
      <3>2. IsFiniteSet(1 .. n) /\ Cardinality(1 .. n) = n
        BY FS_Interval
      <3>3. QED
        BY <3>1, <3>2, FS_Bijection DEF ExistsBijection
    <2>7. QED
      BY <2>3, <2>4, <2>5, <2>6
  <1>2. QED
    BY <1>1, Invariance, PTL

\* insert, deletenode and sort implement AbstractList for every list: a call
\* takes effect at once when it returns, insert appends, deletenode removes
\* every copy of the key and nothing else and keeps the order, sort returns the
\* same numbers in order (mylist.c lines 3-63, PS_3.c lines 58-75).
THEOREM ImplementsList == Spec => Abstract!ListSpec
  <1>1. Init => Abstract!ListInit
    BY Start DEF Init, Abstract!ListInit
  <1>2. IInv /\ [Next]_vars =>
          [Abstract!Called \/ Abstract!Returned]_<<IF pc = "idle" THEN Contents ELSE before, call>>
    <2> SUFFICES ASSUME IInv, [Next]_vars
                 PROVE  [Abstract!Called \/ Abstract!Returned]_<<IF pc = "idle" THEN Contents ELSE before, call>>
      OBVIOUS
    <2>1. ASSUME NEW c \in Calls, Call(c) PROVE Abstract!Called
      BY <2>1, CallStep DEF Abstract!Called, Abstract!Calls, Calls
    <2>2. CASE Step
      <3>1. CASE pc' = "idle"
        BY <2>2, <3>1, FunctionStep DEF Abstract!Returned
      <3>2. CASE pc' # "idle"
        BY <2>2, <3>2, FunctionStep
      <3>3. QED BY <3>1, <3>2
    <2>3. CASE UNCHANGED vars
      BY <2>3 DEF vars, Contents, Spine, IsSpine
    <2>4. QED
      BY <2>1, <2>2, <2>3 DEF Next
  <1>3. QED
    BY <1>1, <1>2, Invariance, PTL DEF Spec, Abstract!ListSpec
=============================================================================
