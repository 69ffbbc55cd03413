-------------------------- MODULE DnsServer_proof --------------------------
(***************************************************************************)
(* Proofs about the DNS forwarder: the name conversions of DnsName, for    *)
(* every name; that its parser reads every message that DnsMessage writes; *)
(* and the invariants of DnsServer, for every set of clients, questions    *)
(* and ports.                                                              *)
(*                                                                         *)
(* The loops of DnsName are recursive functions.  That such a function     *)
(* exists, and what it computes, is shown by looking at the first (Least)  *)
(* or the last (Greatest) position where it would go wrong.                *)
(***************************************************************************)
EXTENDS DnsServer, DnsMessage, SequenceTheorems, WellFoundedInduction,
        FiniteSetTheorems, TLAPS

\* A set of numbers has a least member.
LEMMA Least ==
    ASSUME NEW T, T \subseteq Nat, T # {}
    PROVE  \E x \in T : \A y \in T : x <= y
  <1> DEFINE R == {ss \in Nat \X Nat : ss[1] < ss[2]}
  <1>0. OpToRel(<, Nat) = R
    BY DEF OpToRel
  <1>1. IsWellFoundedOn(R, Nat)
    BY <1>0, NatLessThanWellFounded
  <1>2. PICK x \in T : \A y \in T : ~(<<y, x>> \in R)
    BY <1>1, WFMin
  <1>3. ASSUME NEW y \in T PROVE x <= y
    <2>1. <<y, x>> \in Nat \X Nat /\ <<y, x>>[1] = y /\ <<y, x>>[2] = x
      OBVIOUS
    <2>2. ~(<<y, x>>[1] < <<y, x>>[2])
      BY <2>1, <1>2
    <2>3. QED BY <2>1, <2>2
  <1>4. QED
    BY <1>3

\* A bounded set of numbers has a greatest member.
LEMMA Greatest ==
    ASSUME NEW M \in Nat, NEW T, T \subseteq 0 .. M, T # {}
    PROVE  \E x \in T : \A y \in T : y <= x
  <1> DEFINE U == {M - t : t \in T}
  <1>1. U \subseteq Nat /\ U # {}
    <2>1. \A t \in T : M - t \in Nat
      OBVIOUS
    <2>2. QED
      BY <2>1, Zenon
  <1>2. PICK u \in U : \A v \in U : u <= v
    BY <1>1, Least
  <1>3. PICK x \in T : u = M - x
    OBVIOUS
  <1>4. ASSUME NEW y \in T PROVE y <= x
    <2>1. M - y \in U
      OBVIOUS
    <2>2. M - x <= M - y
      BY <2>1, <1>2, <1>3
    <2>3. QED
      BY <2>2
  <1>5. QED BY <1>4

\* f is the function of a loop that goes from position i to h[i] and collects g[i],
\* until it is beyond M.
Loops(f, M, g, h) ==
    f = [i \in Nat \ {0} |-> IF i > M THEN <<>> ELSE g[i] \o f[h[i]]]

\* A loop that walks up to M defines a function.
LEMMA Recursion ==
    ASSUME NEW M \in Nat, NEW g, NEW h, \A i \in 1 .. M : h[i] \in Nat /\ h[i] > i
    PROVE  \E f : Loops(f, M, g, h)
  <1> DEFINE Cat(a, b) == a \o b
             Def(f, i) == IF i > M THEN <<>> ELSE Cat(g[i], f[h[i]])
             From(m) == \E f : /\ f = [i \in Nat \ {0} |-> f[i]]
                               /\ \A i \in Nat \ {0} : i > m => f[i] = Def(f, i)
             Bad == {m \in 0 .. M : From(m)}
  <1> HIDE DEF Cat
  <1>1. From(M)
    <2> DEFINE f == [i \in Nat \ {0} |-> <<>>]
    <2>1. f = [i \in Nat \ {0} |-> f[i]] /\ \A i \in Nat \ {0} : i > M => f[i] = Def(f, i)
      OBVIOUS
    <2>2. QED
      BY <2>1
  <1>2. ASSUME NEW m \in 1 .. M, From(m)
        PROVE  From(m - 1)
    <2>1. PICK f : /\ f = [i \in Nat \ {0} |-> f[i]]
                   /\ \A i \in Nat \ {0} : i > m => f[i] = Def(f, i)
      BY <1>2
    <2> DEFINE e == [i \in Nat \ {0} |-> IF i = m THEN Cat(g[m], f[h[m]]) ELSE f[i]]
    <2>5. \A i \in Nat \ {0} : e[i] = IF i = m THEN Cat(g[m], f[h[m]]) ELSE f[i]
      OBVIOUS
    <2>6. \A i \in Nat \ {0} : i > m => f[i] = Def(f, i)
      BY <2>1
    <2> HIDE DEF e
    <2>2. ASSUME NEW i \in Nat \ {0}, i > m - 1 PROVE e[i] = Def(e, i)
      <3>1. CASE i > M
        <4>1. e[i] = f[i] /\ f[i] = <<>>
          BY <2>5, <2>6, <3>1
        <4>2. QED BY <4>1, <3>1
      <3>2. CASE i <= M
        <4>1. h[i] \in Nat \ {0} /\ h[i] # m
          BY <2>2, <3>2
        <4>2. e[h[i]] = f[h[i]]
          BY <4>1, <2>5
        <4>3. e[i] = Cat(g[i], f[h[i]])
          BY <2>5, <2>6, <2>2, <3>2
        <4>4. QED BY <4>2, <4>3, <3>2
      <3>3. QED BY <3>1, <3>2
    <2>3. e = [i \in Nat \ {0} |-> e[i]]
      BY DEF e
    <2> HIDE DEF Def
    <2>4. QED
      BY <2>2, <2>3
  <1>3. From(0)
    <2> HIDE DEF From
    <2>1. Bad # {} /\ Bad \subseteq Nat
      BY <1>1
    <2>2. PICK m \in Bad : \A n \in Bad : m <= n
      BY <2>1, Least
    <2>3. m = 0
      <3> SUFFICES ASSUME m # 0 PROVE FALSE
        OBVIOUS
      <3>1. m \in 1 .. M /\ From(m)
        BY <2>2
      <3>2. From(m - 1) /\ m - 1 \in 0 .. M
        BY <3>1, <1>2
      <3>3. QED
        BY <3>2, <2>2
    <2>4. QED
      BY <2>2, <2>3
  <1>4. PICK f : /\ f = [i \in Nat \ {0} |-> f[i]]
                 /\ \A i \in Nat \ {0} : i > 0 => f[i] = Def(f, i)
    BY <1>3
  <1>5. f = [i \in Nat \ {0} |-> Def(f, i)]
    BY <1>4
  <1>6. QED
    BY <1>5 DEF Cat, Loops


\* A loop that collects the parts of X between the positions it stops at.
Collects(f, X, starts, next) ==
    /\ f[Len(X) + 1] = <<>>
    /\ \A i \in starts : i <= Len(X) => /\ next[i] \in starts
                                        /\ next[i] > i
                                        /\ f[i] = SubSeq(X, i, next[i] - 1) \o f[next[i]]

\* Such a loop collects all of X from where it starts.
LEMMA Walk ==
    ASSUME NEW X \in Seq(Nat), NEW starts, NEW f, NEW next,
           starts \subseteq 1 .. Len(X) + 1, Collects(f, X, starts, next)
    PROVE  \A i \in starts : f[i] = SubSeq(X, i, Len(X))
  <1> DEFINE N == Len(X)
             Bad == {i \in starts : f[i] # SubSeq(X, i, N)}
  <1>0. N \in Nat /\ N + 1 \in Nat /\ starts \subseteq 0 .. N + 1
    <2>1. N \in Nat
      BY LenProperties
    <2> HIDE DEF N
    <2>2. 1 .. N + 1 \subseteq 0 .. N + 1 /\ N + 1 \in Nat
      BY <2>1
    <2>3. QED
      BY <2>1, <2>2 DEF N
  <1> SUFFICES ASSUME Bad # {} PROVE FALSE
    OBVIOUS
  <1>1. PICK i \in Bad : \A k \in Bad : k <= i
    <2>1. Bad \subseteq 0 .. N + 1
      BY <1>0
    <2> HIDE DEF Bad, N
    <2>2. QED
      BY <1>0, <2>1, Greatest
  <1>2. i \in starts /\ i \in 1 .. N + 1 /\ f[i] # SubSeq(X, i, N)
    BY <1>1
  <1>3. CASE i = N + 1
    <2>1. SubSeq(X, N + 1, N) = <<>>
      BY <1>0
    <2>2. QED
      BY <1>2, <1>3, <2>1 DEF Collects
  <1>4. CASE i <= N
    <2>1. /\ next[i] \in starts /\ next[i] > i
          /\ f[i] = SubSeq(X, i, next[i] - 1) \o f[next[i]]
      BY <1>2, <1>4 DEF Collects
    <2>2. next[i] \in 1 .. N + 1
      BY <2>1
    <2>3. f[next[i]] = SubSeq(X, next[i], N)
      <3> SUFFICES ASSUME next[i] \in Bad PROVE FALSE
        BY <2>1
      <3>1. next[i] <= i
        BY <1>1
      <3>2. QED
        BY <3>1, <2>1, <2>2, <1>2
    <2>4. SubSeq(X, i, next[i] - 1) \o SubSeq(X, next[i], N) = SubSeq(X, i, N)
      <3> DEFINE m == next[i]
      <3>1. m \in Nat /\ i \in Nat /\ 1 <= i /\ i < m /\ m <= N + 1
        BY <2>1, <2>2, <1>2
      <3> HIDE DEF m
      <3>2. i \in 1 .. Len(X) + 1 /\ m - 1 \in i - 1 .. Len(X) /\ N \in m - 1 .. Len(X)
        BY <3>1, <1>0
      <3>4. SubSeq(X, i, m - 1) \o SubSeq(X, (m - 1) + 1, N) = SubSeq(X, i, N)
        BY <3>2, ConcatAdjacentSubSeq
      <3>5. (m - 1) + 1 = m
        BY <3>1
      <3>3. QED BY <3>4, <3>5 DEF m
    <2>5. QED
      BY <2>1, <2>3, <2>4, <1>2
  <1>5. QED
    BY <1>2, <1>3, <1>4

\* A part of a sequence, possibly empty.
LEMMA Piece ==
    ASSUME NEW s \in Seq(Nat), NEW a \in Nat, NEW b \in Nat,
           1 <= a, a <= b + 1, b <= Len(s)
    PROVE  /\ SubSeq(s, a, b) \in Seq(Nat)
           /\ Len(SubSeq(s, a, b)) = b + 1 - a
           /\ \A k \in 1 .. b + 1 - a : SubSeq(s, a, b)[k] = s[a + k - 1]
  <1>1. a \in Int /\ b \in Int /\ b - a + 1 = b + 1 - a
    OBVIOUS
  <1>2. \A k \in a .. b : s[k] \in Nat
    OBVIOUS
  <1>3. /\ SubSeq(s, a, b) \in Seq(Nat)
        /\ Len(SubSeq(s, a, b)) = IF a <= b THEN b - a + 1 ELSE 0
        /\ \A k \in 1 .. b - a + 1 : SubSeq(s, a, b)[k] = s[a + k - 1]
    BY <1>1, <1>2, SubSeqProperties
  <1>4. (IF a <= b THEN b - a + 1 ELSE 0) = b + 1 - a
    OBVIOUS
  <1>5. QED
    BY <1>1, <1>3, <1>4

\* Its dotted form, with the dot behind the last label.
WithDots(wire, starts) ==
    [k \in 1 .. Len(wire) |-> IF k + 1 \in starts THEN Dot ELSE wire[k + 1]]

\* Types of a wire form, and where its labels end.
LEMMA WireFacts ==
    ASSUME NEW wire, NEW starts, WireForm(wire, starts)
    PROVE  /\ Len(wire) \in Nat /\ wire \in Seq(Nat)
           /\ \A i \in 1 .. Len(wire) : wire[i] \in Nat
           /\ WithDots(wire, starts) \in Seq(Nat)
           /\ Len(WithDots(wire, starts)) = Len(wire)
           /\ \A i \in starts : i \in Nat /\ i >= 1 /\ i <= Len(wire) + 1
           /\ \A i \in starts : i <= Len(wire) =>
                 /\ wire[i] \in Nat
                 /\ i + wire[i] + 1 \in starts /\ i + wire[i] <= Len(wire)
  <1>1. Len(wire) \in Nat /\ wire \in [1 .. Len(wire) -> 0 .. 255]
    <2>1. wire \in Seq(0 .. 255)
      BY DEF WireForm
    <2>2. QED
      BY <2>1, LenProperties
  <1>2. ASSUME NEW i \in 1 .. Len(wire) PROVE wire[i] \in Nat
    <2>1. wire[i] \in 0 .. 255
      BY <1>1
    <2>2. \A x \in 0 .. 255 : x \in Nat
      OBVIOUS
    <2>3. QED
      BY <2>1, <2>2
  <1>0. wire \in Seq(Nat)
    BY <1>1, <1>2 DEF WireForm
  <1> DEFINE D == WithDots(wire, starts)
  <1>3. D \in [1 .. Len(wire) -> Nat]
    <2>1. Len(wire) + 1 \in starts
      BY DEF WireForm
    <2>2. ASSUME NEW k \in 1 .. Len(wire), k + 1 \notin starts
          PROVE  wire[k + 1] \in Nat
      BY <1>1, <1>2, <2>1, <2>2
    <2>3. Dot \in Nat
      BY DEF Dot
    <2>4. QED
      BY <2>2, <2>3 DEF WithDots
  <1>4. D \in Seq(Nat) /\ Len(D) = Len(wire)
    BY <1>1, <1>3
  <1>5. \A i \in starts : i \in Nat /\ i >= 1 /\ i <= Len(wire) + 1
    BY <1>1 DEF WireForm
  <1>6. ASSUME NEW i \in starts, i <= Len(wire)
        PROVE  wire[i] \in Nat /\ i + wire[i] + 1 \in starts /\ i + wire[i] <= Len(wire)
    <2>1. i + wire[i] + 1 \in starts
      BY <1>6 DEF WireForm
    <2>2. i + wire[i] + 1 <= Len(wire) + 1 /\ i \in Nat
      BY <1>5, <1>6, <2>1
    <2>3. wire[i] \in Nat
      BY <1>1, <1>2, <1>5, <1>6
    <2>4. QED
      BY <1>1, <2>1, <2>2, <2>3
  <1>7. QED
    BY <1>0, <1>1, <1>2, <1>4, <1>5, <1>6

\* What the dotted form holds behind a label's length byte: the label, a dot.
LEMMA DotFacts ==
    ASSUME NEW wire, NEW starts, WireForm(wire, starts), NEW i \in starts, i <= Len(wire)
    PROVE  /\ WithDots(wire, starts)[i + wire[i]] = Dot
           /\ \A k \in i .. i + wire[i] - 1 : /\ WithDots(wire, starts)[k] = wire[k + 1]
                                             /\ WithDots(wire, starts)[k] # Dot
  <1>1. /\ Len(wire) \in Nat /\ i \in Nat /\ i >= 1 /\ wire[i] \in Nat
        /\ i + wire[i] + 1 \in starts /\ i + wire[i] <= Len(wire)
    BY WireFacts
  <1>2. \A k \in i + 1 .. i + wire[i] : k \notin starts /\ wire[k] # Dot
    BY DEF WireForm
  <1>3. WithDots(wire, starts)[i + wire[i]] = Dot
    <2>1. i + wire[i] \in 1 .. Len(wire)
      BY <1>1
    <2>2. QED
      BY <1>1, <2>1 DEF WithDots
  <1>4. ASSUME NEW k \in i .. i + wire[i] - 1
        PROVE  WithDots(wire, starts)[k] = wire[k + 1] /\ wire[k + 1] # Dot
    <2> DEFINE l == wire[i]
               N == Len(wire)
    <2>0. l \in Nat /\ N \in Nat /\ i + l <= N /\ k \in i .. i + l - 1
      BY <1>1
    <2> HIDE DEF l, N
    <2>1. k \in 1 .. N /\ k + 1 \in i + 1 .. i + l
      BY <1>1, <2>0
    <2>2. QED
      BY <1>2, <2>1 DEF WithDots, l, N
  <1>5. QED
    BY <1>3, <1>4

\* read_and_print_dns_header: the loop computes the dotted form.
LEMMA ToDottedIs ==
    ASSUME NEW wire, NEW starts, WireForm(wire, starts)
    PROVE  ToDotted(wire) = Front(WithDots(wire, starts))
  <1> DEFINE N == Len(wire)
             D == WithDots(wire, starts)
             g == [i \in 1 .. N |-> SubSeq(wire, i + 1, i + wire[i]) \o <<Dot>>]
             h == [i \in 1 .. N |-> i + wire[i] + 1]
             IsLoop(f) == f = [i \in Nat \ {0} |->
                 IF i > Len(wire) THEN <<>>
                 ELSE SubSeq(wire, i + 1, i + wire[i]) \o <<Dot>> \o f[i + wire[i] + 1]]
             from == CHOOSE f : IsLoop(f)
  <1>0. N \in Nat /\ \A i \in 1 .. N : wire[i] \in Nat
    BY WireFacts
  <1>1. \E f : IsLoop(f)
    <2>1. \A i \in 1 .. N : h[i] \in Nat /\ h[i] > i
      BY <1>0
    <2>2. PICK f : Loops(f, N, g, h)
      <3> HIDE DEF N, g, h
      <3>1. QED
        BY <1>0, <2>1, Recursion
    <2>3. IsLoop(f)
      <3> DEFINE Cat(a, b) == a \o b
                 Part(i) == SubSeq(wire, i + 1, i + wire[i]) \o <<Dot>>
      <3> HIDE DEF Cat, Part
      <3>1. f = [i \in Nat \ {0} |-> IF i > N THEN <<>> ELSE Cat(g[i], f[h[i]])]
        BY <2>2 DEF Loops, Cat
      <3>2. \A i \in 1 .. N : g[i] = Part(i) /\ h[i] = i + wire[i] + 1
        BY DEF Part
      <3>3. \A i \in Nat \ {0} : ~(i > N) => i \in 1 .. N
        BY <1>0
      <3>4. f = [i \in Nat \ {0} |-> IF i > N THEN <<>> ELSE Cat(Part(i), f[i + wire[i] + 1])]
        <4> HIDE DEF N, g, h
        <4>1. QED
          BY <3>1, <3>2, <3>3, SMTT(30)
      <3>5. QED
        BY <3>4 DEF Cat, Part
    <2>4. QED
      BY <2>3
  <1>2. IsLoop(from)
    BY <1>1, Zenon
  <1>3. ToDotted(wire) = Front(from[1])
    BY DEF ToDotted
  <1>4. Collects(from, D, starts, h)
    <2> HIDE DEF from
    <2>1. /\ D \in Seq(Nat) /\ Len(D) = N
          /\ \A i \in starts : i \in Nat /\ i >= 1 /\ i <= N + 1
      BY WireFacts
    <2>2. from[N + 1] = <<>>
      <3>1. N + 1 \in Nat \ {0} /\ N + 1 > N
        BY <1>0
      <3>2. QED
        BY <3>1, <1>2
    <2>3. ASSUME NEW i \in starts, i <= N
          PROVE  /\ h[i] \in starts /\ h[i] > i
                 /\ from[i] = SubSeq(D, i, h[i] - 1) \o from[h[i]]
      <3>1. /\ i \in Nat /\ i >= 1 /\ wire[i] \in Nat
            /\ i + wire[i] + 1 \in starts /\ i + wire[i] <= N
        BY <2>3, WireFacts
      <3>2. h[i] = i + wire[i] + 1
        BY <3>1
      <3> DEFINE Cat(a, b) == a \o b
                 Part(j) == SubSeq(wire, j + 1, j + wire[j]) \o <<Dot>>
      <3>3. from[i] = Part(i) \o from[h[i]]
        <4>1. from = [j \in Nat \ {0} |->
                        IF j > N THEN <<>> ELSE Cat(Part(j), from[j + wire[j] + 1])]
          BY <1>2
        <4> HIDE DEF Cat, Part, N
        <4>2. from[i] = Cat(Part(i), from[i + wire[i] + 1])
          BY <4>1, <3>1, <1>0
        <4>3. QED
          BY <4>2, <3>2 DEF Cat
      <3>4. Part(i) = SubSeq(D, i, i + wire[i])
        <4>1. wire \in Seq(Nat)
          BY WireFacts
        <4>2. /\ SubSeq(wire, i + 1, i + wire[i]) \in Seq(Nat)
              /\ Len(SubSeq(wire, i + 1, i + wire[i])) = wire[i]
              /\ \A k \in 1 .. wire[i] : SubSeq(wire, i + 1, i + wire[i])[k] = wire[i + k]
          <5>1. /\ i + 1 \in Nat /\ i + wire[i] \in Nat /\ 1 <= i + 1
                /\ i + 1 <= i + wire[i] + 1 /\ i + wire[i] <= Len(wire)
            BY <3>1
          <5>2. /\ SubSeq(wire, i + 1, i + wire[i]) \in Seq(Nat)
                /\ Len(SubSeq(wire, i + 1, i + wire[i])) = i + wire[i] + 1 - (i + 1)
                /\ \A k \in 1 .. i + wire[i] + 1 - (i + 1) :
                      SubSeq(wire, i + 1, i + wire[i])[k] = wire[i + 1 + k - 1]
            BY <4>1, <5>1, Piece
          <5>3. i + wire[i] + 1 - (i + 1) = wire[i]
            <6>1. \A l \in Nat : i + l + 1 - (i + 1) = l
              BY <3>1
            <6>2. QED
              BY <3>1, <6>1
          <5>4. ASSUME NEW k \in 1 .. wire[i] PROVE i + 1 + k - 1 = i + k
            BY <3>1
          <5>5. QED
            BY <5>2, <5>3, <5>4
        <4>3. /\ SubSeq(D, i, i + wire[i]) \in Seq(Nat)
              /\ Len(SubSeq(D, i, i + wire[i])) = wire[i] + 1
              /\ \A k \in 1 .. wire[i] + 1 : SubSeq(D, i, i + wire[i])[k] = D[i + k - 1]
          <5> HIDE DEF D
          <5>1. /\ i + wire[i] \in Nat /\ i + wire[i] + 1 - i = wire[i] + 1
                /\ i <= i + wire[i] + 1 /\ i + wire[i] <= Len(D)
            BY <2>1, <3>1
          <5>2. /\ SubSeq(D, i, i + wire[i]) \in Seq(Nat)
                /\ Len(SubSeq(D, i, i + wire[i])) = i + wire[i] + 1 - i
                /\ \A k \in 1 .. i + wire[i] + 1 - i : SubSeq(D, i, i + wire[i])[k] = D[i + k - 1]
            BY <2>1, <3>1, <5>1, Piece
          <5>3. QED
            BY <5>1, <5>2
        <4>4. <<Dot>> \in Seq(Nat) /\ Len(<<Dot>>) = 1 /\ <<Dot>>[1] = Dot
          BY DEF Dot
        <4>5. D[i + wire[i]] = Dot /\ \A k \in i .. i + wire[i] - 1 : D[k] = wire[k + 1]
          BY <2>3, DotFacts
        <4> DEFINE A == SubSeq(wire, i + 1, i + wire[i])
                   B == SubSeq(D, i, i + wire[i])
                   C == <<Dot>>
        <4>6. /\ A \o C \in Seq(Nat)
              /\ Len(A \o C) = wire[i] + 1
              /\ \A k \in 1 .. wire[i] + 1 :
                    (A \o C)[k] = IF k <= wire[i] THEN A[k] ELSE C[k - wire[i]]
          <5> HIDE DEF A, C
          <5>1. A \in Seq(Nat) /\ C \in Seq(Nat) /\ Len(A) = wire[i] /\ Len(C) = 1
            BY <4>2, <4>4 DEF A, C
          <5>2. /\ A \o C \in Seq(Nat)
                /\ Len(A \o C) = Len(A) + Len(C)
                /\ \A k \in 1 .. Len(A) + Len(C) :
                      (A \o C)[k] = IF k <= Len(A) THEN A[k] ELSE C[k - Len(A)]
            BY <5>1, ConcatProperties
          <5>3. QED
            BY <5>1, <5>2
        <4>7. ASSUME NEW k \in 1 .. wire[i] + 1 PROVE (A \o C)[k] = B[k]
          <5>1. CASE k <= wire[i]
            <6>0. k \in 1 .. wire[i]
              BY <5>1, <3>1
            <6>1. A[k] = wire[i + k] /\ B[k] = D[i + k - 1]
              <7> HIDE DEF D
              <7>1. QED BY <4>2, <4>3, <6>0
            <6>2. i + k - 1 \in i .. i + wire[i] - 1 /\ i + k - 1 + 1 = i + k
              BY <5>1, <3>1
            <6>3. QED
              BY <4>5, <4>6, <5>1, <6>1, <6>2
          <5>2. CASE k = wire[i] + 1
            <6>1. k - wire[i] = 1 /\ i + k - 1 = i + wire[i] /\ ~(k <= wire[i])
              BY <5>2, <3>1
            <6>2. B[k] = D[i + wire[i]]
              <7> HIDE DEF D
              <7>1. QED BY <4>3, <6>1
            <6>3. (A \o C)[k] = C[1]
              BY <4>6, <6>1
            <6>4. C[1] = Dot
              BY <4>4
            <6>5. QED
              <7> HIDE DEF A, B, C, D
              <7>1. QED BY <4>5, <6>2, <6>3, <6>4
          <5>3. k <= wire[i] \/ k = wire[i] + 1
            BY <3>1
          <5>4. QED
            BY <5>1, <5>2, <5>3
        <4>8. QED
          <5> HIDE DEF A, B, C
          <5>1. A \o C = B
            BY <4>3, <4>6, <4>7, SeqEqual DEF B
          <5>2. QED
            BY <5>1 DEF A, B, C
      <3>5. QED
        <4>1. h[i] - 1 = i + wire[i] /\ h[i] > i
          BY <3>1, <3>2
        <4>2. QED
          BY <3>1, <3>2, <3>3, <3>4, <4>1
    <2>4. QED
      <3> HIDE DEF D, h
      <3>1. QED
        BY <2>1, <2>2, <2>3 DEF Collects
  <1>5. from[1] = D
    <2>1. D \in Seq(Nat) /\ Len(D) = N /\ starts \subseteq 1 .. Len(D) + 1 /\ 1 \in starts
      BY WireFacts DEF WireForm
    <2> HIDE DEF from, D, h
    <2>4. \A i \in starts : from[i] = SubSeq(D, i, Len(D))
      BY <1>4, <2>1, Walk
    <2>2. from[1] = SubSeq(D, 1, Len(D))
      BY <2>1, <2>4
    <2>3. QED
      BY <2>1, <2>2, SubSeqFull
  <1>6. QED
    BY <1>3, <1>5, Zenon

\* The first dot at or behind a position that has one.
LEMMA FirstDot ==
    ASSUME NEW D \in Seq(Nat), NEW lock \in Nat, 1 <= lock, lock <= Len(D), D[Len(D)] = Dot
    PROVE  LET i == SelectInSubSeq(D, lock, Len(D), LAMBDA b : b = Dot)
           IN  /\ i \in Nat /\ lock <= i /\ i <= Len(D) /\ D[i] = Dot
               /\ \A k \in lock .. Len(D) : D[k] = Dot => i <= k
  <1> DEFINE I == {k \in lock .. Len(D) : D[k] = Dot}
             i == SelectInSubSeq(D, lock, Len(D), LAMBDA b : b = Dot)
  <1>1. Len(D) \in Nat
    BY LenProperties
  <1>2. I # {} /\ I \subseteq Nat
    <2>1. Len(D) \in lock .. Len(D) /\ lock .. Len(D) \subseteq Nat
      BY <1>1
    <2>2. QED
      BY <2>1
  <1>3. \E x \in I : \A y \in I : x <= y
    <2> HIDE DEF I
    <2>1. QED
      BY <1>2, Least
  <1>4. i = Min(I)
    BY <1>2 DEF SelectInSubSeq
  <1>5. Min(I) \in I /\ \A y \in I : Min(I) <= y
    <2> HIDE DEF I
    <2>1. QED
      BY <1>3 DEF Min
  <1>6. i \in I /\ \A y \in I : i <= y
    <2> HIDE DEF I, i
    <2>1. QED
      BY <1>4, <1>5
  <1> HIDE DEF i
  <1>7. QED
    <2>1. i \in lock .. Len(D) /\ D[i] = Dot
      BY <1>6
    <2>2. \A k \in lock .. Len(D) : D[k] = Dot => i <= k
      BY <1>6
    <2>3. i \in Nat /\ lock <= i /\ i <= Len(D)
      BY <1>1, <2>1
    <2>4. QED
      BY <2>1, <2>2, <2>3 DEF i

\* ChangetoDnsNameFormat: the loop computes the wire form again.
LEMMA LabelledIs ==
    ASSUME NEW wire, NEW starts, WireForm(wire, starts), wire # <<>>
    PROVE  Labelled(WithDots(wire, starts)) = wire
  <1> DEFINE D == WithDots(wire, starts)
             N == Len(D)
             Stop(lock) == SelectInSubSeq(D, lock, Len(D), LAMBDA b : b = Dot)
             Part(lock) == <<Stop(lock) - lock>> \o SubSeq(D, lock, Stop(lock) - 1)
             Cat(a, b) == a \o b
             g == [lock \in 1 .. N |-> Part(lock)]
             h == [lock \in 1 .. N |-> Stop(lock) + 1]
             IsLoop(f) == f = [lock \in Nat \ {0} |->
                 IF lock > Len(D) THEN <<>>
                 ELSE LET i == SelectInSubSeq(D, lock, Len(D), LAMBDA b : b = Dot)
                      IN  <<i - lock>> \o SubSeq(D, lock, i - 1) \o f[i + 1]]
             IsWalk(f) == f = [lock \in Nat \ {0} |->
                 IF lock > N THEN <<>> ELSE Cat(Part(lock), f[Stop(lock) + 1])]
             from == CHOOSE f : IsLoop(f)
  <1>0. /\ Len(wire) \in Nat /\ wire \in Seq(Nat) /\ D \in Seq(Nat) /\ N = Len(wire)
        /\ N \in Nat /\ N >= 1
    <2>1. Len(wire) \in Nat /\ wire \in Seq(Nat) /\ D \in Seq(Nat) /\ N = Len(wire)
      BY WireFacts
    <2>2. Len(wire) # 0
      BY <2>1, EmptySeq
    <2>3. QED
      BY <2>1, <2>2
  <1>1. D[N] = Dot
    <2>1. N \in 1 .. Len(wire) /\ N + 1 \in starts
      BY <1>0 DEF WireForm
    <2>2. QED
      BY <2>1 DEF WithDots
  <1>2. ASSUME NEW lock \in 1 .. N
        PROVE  /\ Stop(lock) \in Nat /\ lock <= Stop(lock) /\ Stop(lock) <= N
               /\ D[Stop(lock)] = Dot
               /\ \A k \in lock .. N : D[k] = Dot => Stop(lock) <= k
    <2>1. lock \in Nat /\ 1 <= lock /\ lock <= Len(D)
      BY <1>0
    <2> HIDE DEF D
    <2>2. QED
      BY <1>0, <1>1, <2>1, FirstDot
  <1> HIDE DEF Stop, Cat, Part
  <1>3. \A f : IsLoop(f) <=> IsWalk(f)
    BY DEF Stop, Cat, Part
  <1>4. \E f : IsLoop(f)
    <2>1. ASSUME NEW i \in 1 .. N PROVE h[i] \in Nat /\ h[i] > i
      <3>1. h[i] = Stop(i) + 1
        OBVIOUS
      <3>2. Stop(i) \in Nat /\ i <= Stop(i)
        BY <1>2
      <3> HIDE DEF h
      <3>3. QED
        BY <1>0, <3>1, <3>2
    <2>2. PICK f : Loops(f, N, g, h)
      <3> HIDE DEF N, g, h
      <3>1. QED
        BY <1>0, <2>1, Recursion
    <2>3. IsWalk(f)
      <3>1. f = [i \in Nat \ {0} |-> IF i > N THEN <<>> ELSE Cat(g[i], f[h[i]])]
        BY <2>2, Zenon DEF Loops, Cat
      <3>2. \A i \in 1 .. N : g[i] = Part(i) /\ h[i] = Stop(i) + 1
        OBVIOUS
      <3>3. \A i \in Nat \ {0} : ~(i > N) => i \in 1 .. N
        BY <1>0
      <3>4. QED
        <4> HIDE DEF N, g, h
        <4>1. QED
          BY <3>1, <3>2, <3>3
    <2>4. QED
      <3> HIDE DEF IsWalk, IsLoop
      <3>1. QED BY <2>3, <1>3
  <1>5. IsWalk(from)
    <2>1. IsLoop(from)
      BY <1>4, Zenon
    <2>2. QED
      <3> HIDE DEF from, IsLoop, IsWalk
      <3>1. QED BY <1>3, <2>1
  <1>6. Labelled(D) = from[1]
    BY DEF Labelled
  <1> HIDE DEF from
  <1>7. Collects(from, wire, starts, h)
    <2>1. \A i \in starts : i \in Nat /\ i >= 1 /\ i <= N + 1
      BY WireFacts, <1>0
    <2>2. from[N + 1] = <<>>
      <3> HIDE DEF D, N
      <3>1. N + 1 \in Nat \ {0} /\ N + 1 > N
        BY <1>0
      <3>2. QED
        BY <3>1, <1>5
    <2>3. ASSUME NEW i \in starts, i <= N
          PROVE  /\ h[i] \in starts /\ h[i] > i
                 /\ from[i] = SubSeq(wire, i, h[i] - 1) \o from[h[i]]
      <3>1. /\ i \in Nat /\ i >= 1 /\ wire[i] \in Nat
            /\ i + wire[i] + 1 \in starts /\ i + wire[i] <= N /\ i \in 1 .. N
        BY <2>3, <1>0, WireFacts
      <3>2. /\ D[i + wire[i]] = Dot
            /\ \A k \in i .. i + wire[i] - 1 : D[k] = wire[k + 1] /\ D[k] # Dot
        BY <2>3, <1>0, DotFacts, SMTT(30)
      <3>3. Stop(i) = i + wire[i]
        <4> HIDE DEF D
        <4>1. Stop(i) \in Nat /\ i <= Stop(i) /\ D[Stop(i)] = Dot
          BY <1>2, <3>1
        <4>2. Stop(i) <= i + wire[i]
          <5>1. i + wire[i] \in i .. N
            BY <1>0, <3>1
          <5>2. QED
            BY <1>2, <3>1, <3>2, <5>1
        <4>3. ~(Stop(i) <= i + wire[i] - 1)
          <5> SUFFICES ASSUME Stop(i) <= i + wire[i] - 1 PROVE FALSE
            OBVIOUS
          <5>1. Stop(i) \in i .. i + wire[i] - 1
            BY <4>1, <3>1
          <5>2. QED
            BY <5>1, <4>1, <3>2
        <4>4. QED
          BY <4>1, <4>2, <4>3, <3>1
      <3>4. h[i] = i + wire[i] + 1
        BY <3>1, <3>3
      <3>5. from[i] = Part(i) \o from[h[i]]
        <4> HIDE DEF D, N
        <4>0. i \in Nat \ {0} /\ ~(i > N)
          BY <1>0, <3>1, <2>3
        <4>1. from[i] = Cat(Part(i), from[Stop(i) + 1])
          BY <1>5, <4>0
        <4>2. QED
          BY <4>1, <3>3, <3>4 DEF Cat
      <3>6. Part(i) = SubSeq(wire, i, i + wire[i])
        <4> DEFINE l == wire[i]
                   A == <<l>>
                   B == SubSeq(D, i, i + l - 1)
                   C == SubSeq(wire, i, i + l)
        <4>0. /\ i \in Nat /\ 1 <= i /\ l \in Nat /\ i + l <= N /\ wire[i] = l
              /\ Stop(i) = i + l
          BY <3>1, <3>3
        <4>1. Part(i) = A \o B
          <5>1. Stop(i) - i = l /\ Stop(i) - 1 = i + l - 1
            BY <4>0
          <5>2. QED
            BY <5>1 DEF Part
        <4>2. A \in Seq(Nat) /\ Len(A) = 1 /\ A[1] = l
          BY <4>0
        <4>3. B \in Seq(Nat) /\ Len(B) = l /\ \A k \in 1 .. l : B[k] = D[i + k - 1]
          <5> HIDE DEF l, D
          <5>1. /\ i + l - 1 \in Nat /\ i <= i + l - 1 + 1 /\ i + l - 1 <= Len(D)
                /\ i + l - 1 + 1 - i = l
            BY <4>0, <1>0
          <5>2. /\ B \in Seq(Nat) /\ Len(B) = i + l - 1 + 1 - i
                /\ \A k \in 1 .. i + l - 1 + 1 - i : B[k] = D[i + k - 1]
            <6>1. i \in Nat /\ 1 <= i /\ wire \in Seq(Nat) /\ D \in Seq(Nat)
              BY <4>0, <1>0
            <6>2. QED
              BY <5>1, <6>1, Piece
          <5>3. QED
            <6> HIDE DEF B
            <6>1. QED BY <5>1, <5>2
        <4>4. C \in Seq(Nat) /\ Len(C) = l + 1 /\ \A k \in 1 .. l + 1 : C[k] = wire[i + k - 1]
          <5> HIDE DEF l, D
          <5>1. /\ i + l \in Nat /\ i <= i + l + 1 /\ i + l <= Len(wire)
                /\ i + l + 1 - i = l + 1
            BY <4>0, <1>0
          <5>2. /\ C \in Seq(Nat) /\ Len(C) = i + l + 1 - i
                /\ \A k \in 1 .. i + l + 1 - i : C[k] = wire[i + k - 1]
            <6>1. i \in Nat /\ 1 <= i /\ wire \in Seq(Nat) /\ D \in Seq(Nat)
              BY <4>0, <1>0
            <6>2. QED
              BY <5>1, <6>1, Piece
          <5>3. QED
            <6> HIDE DEF C
            <6>1. QED BY <5>1, <5>2
        <4> HIDE DEF A, B, C, D, l
        <4>5. /\ A \o B \in Seq(Nat) /\ Len(A \o B) = 1 + l
              /\ \A k \in 1 .. 1 + l : (A \o B)[k] = IF k <= 1 THEN A[k] ELSE B[k - 1]
          <5>1. /\ A \o B \in Seq(Nat) /\ Len(A \o B) = Len(A) + Len(B)
                /\ \A k \in 1 .. Len(A) + Len(B) :
                      (A \o B)[k] = IF k <= Len(A) THEN A[k] ELSE B[k - Len(A)]
            BY <4>2, <4>3, ConcatProperties
          <5>2. QED
            BY <4>2, <4>3, <5>1
        <4>6. ASSUME NEW k \in 1 .. 1 + l PROVE (A \o B)[k] = C[k]
          <5>0. k \in Nat /\ k >= 1 /\ k <= l + 1 /\ k \in 1 .. l + 1
            BY <4>0
          <5>1. CASE k = 1
            <6>1. C[1] = wire[i + 1 - 1] /\ i + 1 - 1 = i
              BY <4>4, <4>0, <5>0, <5>1
            <6>2. (A \o B)[1] = A[1]
              BY <4>5, <5>1
            <6>3. QED
              BY <4>0, <4>2, <5>1, <6>1, <6>2
          <5>2. CASE k > 1
            <6>1. (A \o B)[k] = B[k - 1]
              BY <4>5, <5>0, <5>2
            <6>2. k - 1 \in 1 .. l /\ i + (k - 1) - 1 \in i .. i + l - 1
                  /\ i + (k - 1) - 1 + 1 = i + k - 1
              BY <4>0, <5>0, <5>2
            <6>3. B[k - 1] = D[i + (k - 1) - 1]
              BY <4>3, <6>2
            <6>4. D[i + (k - 1) - 1] = wire[i + k - 1]
              BY <3>2, <4>0, <6>2
            <6>5. C[k] = wire[i + k - 1]
              BY <4>4, <5>0
            <6>6. QED
              BY <6>1, <6>3, <6>4, <6>5
          <5>3. k = 1 \/ k > 1
            BY <5>0
          <5>4. QED
            BY <5>1, <5>2, <5>3
        <4>7. A \o B = C
          <5>1. 1 + l = l + 1
            BY <4>0
          <5>2. QED
            BY <4>4, <4>5, <4>6, <5>1, SeqEqual
        <4>8. QED
          BY <4>1, <4>7 DEF C, l
      <3>7. QED
        <4>1. h[i] - 1 = i + wire[i] /\ h[i] > i
          BY <3>1, <3>4
        <4>2. QED
          BY <3>1, <3>4, <3>5, <3>6, <4>1
    <2>4. QED
      <3> HIDE DEF D, h
      <3>1. QED
        BY <1>0, <2>1, <2>2, <2>3 DEF Collects
  <1>8. QED
    <2>1. starts \subseteq 1 .. Len(wire) + 1 /\ 1 \in starts
      BY DEF WireForm
    <2> HIDE DEF D, h
    <2>2. \A i \in starts : from[i] = SubSeq(wire, i, Len(wire))
      BY <1>0, <1>7, <2>1, Walk
    <2>3. from[1] = wire
      BY <1>0, <2>1, <2>2, SubSeqFull
    <2>4. QED
      BY <1>6, <2>3 DEF D

\* The terminator of a C string that has no other 0.
LEMMA CStringIs ==
    ASSUME NEW wire \in Seq(Nat \ {0}), NEW rest \in Seq(Nat)
    PROVE  CString(wire \o <<0>> \o rest) = wire
  <1> DEFINE s == wire \o <<0>> \o rest
             N == Len(wire)
             I == {i \in 1 .. Len(s) : s[i] = 0}
             end == SelectInSeq(s, LAMBDA b : b = 0)
  <1>1. N \in Nat /\ wire \in Seq(Nat) /\ \A k \in 1 .. N : wire[k] \in Nat /\ wire[k] # 0
    OBVIOUS
  <1>2. /\ s \in Seq(Nat) /\ Len(s) = N + 1 + Len(rest) /\ Len(rest) \in Nat
        /\ s[N + 1] = 0 /\ \A k \in 1 .. N : s[k] = wire[k]
    BY <1>1
  <1> HIDE DEF s
  <1>3. I \subseteq Nat /\ N + 1 \in I
    BY <1>1, <1>2
  <1>4. \A i \in I : N + 1 <= i
    <2>1. ASSUME NEW i \in 1 .. Len(s), ~(N + 1 <= i) PROVE s[i] # 0
      <3>1. i \in 1 .. N
        BY <1>1, <1>2, <2>1
      <3>2. QED
        BY <1>1, <1>2, <3>1
    <2>2. QED
      BY <2>1
  <1>5. Min(I) = N + 1
    <2> HIDE DEF I
    <2>1. \E x \in I : \A y \in I : x <= y
      BY <1>3, <1>4
    <2>2. Min(I) \in I /\ \A y \in I : Min(I) <= y
      BY <2>1 DEF Min
    <2> HIDE DEF N
    <2>3. Min(I) <= N + 1 /\ N + 1 <= Min(I) /\ Min(I) \in Nat
      BY <1>3, <1>4, <2>2
    <2>4. QED
      BY <1>1, <2>3 DEF N
  <1>6. end = N + 1
    <2>1. I # {}
      BY <1>3
    <2>2. end = Min(I)
      BY <2>1 DEF SelectInSeq
    <2>3. QED
      BY <1>5, <2>2
  <1> HIDE DEF end
  <1>7. CString(s) = SubSeq(s, 1, N)
    <2>1. end # 0 /\ end - 1 = N
      BY <1>1, <1>6
    <2>2. CString(s) = IF end = 0 THEN s ELSE SubSeq(s, 1, end - 1)
      BY DEF CString, end
    <2>3. QED
      BY <2>1, <2>2
  <1>8. SubSeq(s, 1, N) = wire
    <2>1. /\ SubSeq(s, 1, N) \in Seq(Nat) /\ Len(SubSeq(s, 1, N)) = N + 1 - 1
          /\ \A k \in 1 .. N + 1 - 1 : SubSeq(s, 1, N)[k] = s[1 + k - 1]
      <3> HIDE DEF N
      <3>1. 1 \in Nat /\ N \in Nat /\ 1 <= N + 1 /\ N <= Len(s) /\ s \in Seq(Nat)
        BY <1>1, <1>2
      <3>2. QED
        BY <3>1, Piece
    <2>2. N + 1 - 1 = N
      BY <1>1
    <2>3. ASSUME NEW k \in 1 .. N PROVE SubSeq(s, 1, N)[k] = wire[k]
      <3>1. 1 + k - 1 = k
        BY <1>1
      <3>2. QED
        BY <1>2, <2>1, <2>2, <3>1
    <2> DEFINE t == SubSeq(s, 1, N)
    <2> HIDE DEF t
    <2>4. t = wire
      BY <1>1, <2>1, <2>2, <2>3, SeqEqual, SMTT(30) DEF t
    <2>5. QED
      BY <2>4 DEF t
  <1>9. QED
    BY <1>7, <1>8 DEF s

\* A label more in wire form is a label and a dot more in dotted form.
LabelAdded(wire, starts, label) ==
    LET w    == wire \o <<Len(label)>> \o label
        more == starts \cup {Len(wire) + Len(label) + 2}
    IN  /\ WireForm(w, more)
        /\ WithDots(w, more) = WithDots(wire, starts) \o label \o <<Dot>>

\* The wire form stays one when a label is added to it.
LEMMA OneMore ==
    ASSUME NEW wire, NEW starts, WireForm(wire, starts),
           NEW label \in Seq(0 .. 255), Len(label) \in 0 .. 255,
           \A k \in 1 .. Len(label) : label[k] # Dot
    PROVE  LabelAdded(wire, starts, label)
  <1> DEFINE N == Len(wire)
             L == Len(label)
             w == wire \o <<L>> \o label
             more == starts \cup {N + L + 2}
  <1>1. /\ N \in Nat /\ wire \in Seq(Nat) /\ L \in Nat
        /\ \A i \in starts : i \in Nat /\ i >= 1 /\ i <= N + 1
        /\ \A i \in starts : i <= N =>
              wire[i] \in Nat /\ i + wire[i] + 1 \in starts /\ i + wire[i] <= N
    BY WireFacts
  <1>2. /\ w \in Seq(0 .. 255) /\ Len(w) = N + L + 1 /\ w[N + 1] = L
        /\ \A k \in 1 .. N : w[k] = wire[k]
        /\ \A k \in 1 .. L : w[N + 1 + k] = label[k]
    <2>1. wire \in Seq(0 .. 255) /\ <<L>> \in Seq(0 .. 255) /\ Len(<<L>>) = 1 /\ <<L>>[1] = L
      BY DEF WireForm
    <2> DEFINE c == <<L>>
               v == wire \o c
    <2>2. /\ v \in Seq(0 .. 255) /\ Len(v) = N + 1 /\ v[N + 1] = L
          /\ \A k \in 1 .. N : v[k] = wire[k]
      <3> HIDE DEF N, L
      <3>1. QED BY <2>1, <1>1 DEF N
    <2> HIDE DEF v
    <2>3. /\ v \o label \in Seq(0 .. 255) /\ Len(v \o label) = Len(v) + L
          /\ \A k \in 1 .. Len(v) + L :
                (v \o label)[k] = IF k <= Len(v) THEN v[k] ELSE label[k - Len(v)]
      <3>1. v \in Seq(0 .. 255)
        BY <2>2
      <3>2. QED
        BY <3>1, ConcatProperties
    <2>4. w = v \o label
      BY DEF v
    <2> HIDE DEF w, N, L, c
    <2>5. Len(w) = N + L + 1
      BY <1>1, <2>2, <2>3, <2>4
    <2>6. ASSUME NEW k \in 1 .. N + 1 PROVE w[k] = v[k]
      <3>1. k \in 1 .. Len(v) + L /\ k <= Len(v)
        BY <1>1, <2>2
      <3>2. QED
        BY <2>3, <2>4, <3>1
    <2>7. ASSUME NEW k \in 1 .. L PROVE w[N + 1 + k] = label[k]
      <3>1. N + 1 + k \in 1 .. Len(v) + L /\ ~(N + 1 + k <= Len(v)) /\ (N + 1 + k) - Len(v) = k
        BY <1>1, <2>2
      <3>2. QED
        BY <2>3, <2>4, <3>1
    <2>8. N + 1 \in 1 .. N + 1 /\ \A k \in 1 .. N : k \in 1 .. N + 1
      BY <1>1
    <2>9. QED
      BY <2>2, <2>3, <2>4, <2>5, <2>6, <2>7, <2>8
  <1>3. N + 1 \in starts /\ 1 \in starts
    BY DEF WireForm
  <1>4. ASSUME NEW i \in starts, i <= N
        PROVE  \A k \in i + 1 .. i + wire[i] : k \notin starts /\ wire[k] # Dot
    BY <1>4 DEF WireForm
  <1> HIDE DEF w, N
  <1>5. WireForm(w, more)
    <2> HIDE DEF L
    <2>1. more \subseteq 1 .. Len(w) + 1 /\ {1, Len(w) + 1} \subseteq more
      <3>1. Len(w) + 1 = N + L + 2
        BY <1>1, <1>2
      <3>2. \A i \in more : i \in 1 .. N + L + 2
        BY <1>1
      <3>3. QED
        BY <1>3, <3>1, <3>2
    <2>2. ASSUME NEW i \in more, i <= Len(w)
          PROVE  /\ i + w[i] + 1 \in more
                 /\ \A k \in i + 1 .. i + w[i] : k \notin more /\ w[k] # Dot
      <3>0. i \in starts /\ i \in Nat /\ i >= 1 /\ i <= N + 1
        BY <1>1, <1>2, <2>2
      <3>1. CASE i = N + 1
        <4>1. w[i] = L /\ i + L + 1 = N + L + 2
          BY <1>1, <1>2, <3>1
        <4>2. ASSUME NEW k \in i + 1 .. i + L PROVE k \notin more /\ w[k] # Dot
          <5>1. k - (N + 1) \in 1 .. L /\ N + 1 + (k - (N + 1)) = k
            BY <1>1, <3>1
          <5>2. k > N + 1 /\ k # N + L + 2
            BY <1>1, <3>1
          <5>3. w[k] = label[k - (N + 1)]
            BY <1>2, <5>1
          <5>4. label[k - (N + 1)] # Dot
            BY <5>1 DEF L
          <5>5. k \notin starts
            BY <1>1, <5>2
          <5>6. QED
            BY <5>2, <5>3, <5>4, <5>5
        <4>3. QED
          BY <4>1, <4>2
      <3>2. CASE i <= N
        <4>1. w[i] = wire[i]
          BY <1>2, <3>0, <3>2, <1>1
        <4>2. i + wire[i] + 1 \in starts /\ i + wire[i] <= N /\ wire[i] \in Nat
          BY <1>1, <3>0, <3>2
        <4>3. ASSUME NEW k \in i + 1 .. i + wire[i]
              PROVE  k \notin more /\ w[k] # Dot
          <5>1. k \in 1 .. N /\ k # N + L + 2
            BY <1>1, <3>0, <4>2
          <5>2. k \notin starts /\ wire[k] # Dot
            BY <1>4, <3>0, <3>2
          <5>3. QED
            BY <1>2, <5>1, <5>2
        <4>4. QED
          BY <4>1, <4>2, <4>3
      <3>3. i = N + 1 \/ i <= N
        BY <1>1, <3>0, SMTT(30)
      <3>4. QED
        BY <3>1, <3>2, <3>3
    <2> HIDE DEF more
    <2>3. QED
      BY <1>2, <2>1, <2>2 DEF WireForm
  <1>6. WithDots(w, more) = WithDots(wire, starts) \o label \o <<Dot>>
    <2> DEFINE D == WithDots(wire, starts)
               E == WithDots(w, more)
               c == <<Dot>>
               v == D \o label
               F == v \o c
    <2>1. D \in Seq(Nat) /\ Len(D) = N
      BY WireFacts DEF N
    <2>2. E \in Seq(Nat) /\ Len(E) = N + L + 1
      <3> HIDE DEF L, more
      <3>1. QED BY <1>2, <1>5, WireFacts
    <2>0. label \in Seq(Nat)
      <3>1. \A x \in 0 .. 255 : x \in Nat
        OBVIOUS
      <3>2. 0 .. 255 \subseteq Nat
        BY <3>1
      <3>3. QED BY <3>2, SeqMonotonic
    <2>3. /\ F \in Seq(Nat) /\ Len(F) = N + L + 1 /\ F[N + L + 1] = Dot
          /\ \A k \in 1 .. N : F[k] = D[k]
          /\ \A k \in 1 .. L : F[N + k] = label[k]
      <3>1. c \in Seq(Nat) /\ Len(c) = 1 /\ c[1] = Dot
        BY DEF Dot
      <3> HIDE DEF D, c, L
      <3>2. /\ v \in Seq(Nat) /\ Len(v) = N + L
            /\ \A k \in 1 .. N : v[k] = D[k]
            /\ \A k \in 1 .. L : v[N + k] = label[k]
        <4>1. /\ v \in Seq(Nat) /\ Len(v) = Len(D) + Len(label)
              /\ \A k \in 1 .. Len(D) + Len(label) :
                    v[k] = IF k <= Len(D) THEN D[k] ELSE label[k - Len(D)]
          <5>1. D \in Seq(Nat) /\ label \in Seq(Nat)
            BY <2>0, <2>1
          <5>2. QED
            BY <5>1, ConcatProperties
        <4> HIDE DEF v
        <4>2. Len(v) = N + L
          BY <2>1, <4>1 DEF L
        <4>3. ASSUME NEW k \in 1 .. N PROVE v[k] = D[k]
          <5>1. k \in 1 .. N + L /\ k <= N
            BY <1>1
          <5>2. QED BY <5>1, <2>1, <4>1 DEF L
        <4>4. ASSUME NEW k \in 1 .. L PROVE v[N + k] = label[k]
          <5>1. N + k \in 1 .. N + L /\ ~(N + k <= N) /\ (N + k) - N = k
            BY <1>1
          <5>2. QED BY <5>1, <2>1, <4>1 DEF L
        <4>5. QED
          BY <4>1, <4>2, <4>3, <4>4
      <3> HIDE DEF v
      <3>3. /\ F \in Seq(Nat) /\ Len(F) = Len(v) + Len(c)
            /\ \A k \in 1 .. Len(v) + Len(c) :
                  F[k] = IF k <= Len(v) THEN v[k] ELSE c[k - Len(v)]
        <4>1. v \in Seq(Nat) /\ c \in Seq(Nat)
          BY <3>1, <3>2
        <4>2. QED
          BY <4>1, ConcatProperties
      <3> HIDE DEF F
      <3>4. Len(F) = N + L + 1
        BY <1>1, <3>1, <3>2, <3>3
      <3>5. F[N + L + 1] = Dot
        <4>1. N + L + 1 \in 1 .. Len(v) + Len(c) /\ ~(N + L + 1 <= Len(v)) /\ (N + L + 1) - Len(v) = 1
          BY <1>1, <3>1, <3>2
        <4>2. QED BY <3>1, <3>3, <4>1
      <3>6. ASSUME NEW k \in 1 .. N + L PROVE F[k] = v[k]
        <4>1. k \in 1 .. Len(v) + Len(c) /\ k <= Len(v)
          BY <1>1, <3>1, <3>2
        <4>2. QED BY <3>3, <4>1
      <3>7. (\A k \in 1 .. N : k \in 1 .. N + L) /\ (\A k \in 1 .. L : N + k \in 1 .. N + L)
        BY <1>1
      <3>8. QED
        BY <3>2, <3>3, <3>4, <3>5, <3>6, <3>7
    <2>4. ASSUME NEW k \in 1 .. N + L + 1 PROVE E[k] = F[k]
      <3> HIDE DEF L, F
      <3>0. k \in Nat /\ k >= 1 /\ k <= N + L + 1 /\ k \in 1 .. Len(w)
        BY <1>1, <1>2
      <3>1. E[k] = IF k + 1 \in more THEN Dot ELSE w[k + 1]
        BY <3>0 DEF WithDots
      <3>2. CASE k = N + L + 1
        <4>1. k + 1 = N + L + 2
          BY <1>1, <3>2
        <4>2. E[k] = Dot
          BY <3>1, <4>1
        <4>3. QED
          <5> HIDE DEF E, F
          <5>1. QED BY <2>3, <4>2, <3>2
      <3>3. CASE k <= N
        <4>0. k \in 1 .. N /\ k + 1 # N + L + 2 /\ (k + 1 \in 1 .. N \/ k + 1 = N + 1)
          BY <1>1, <3>0, <3>3
        <4>1. D[k] = IF k + 1 \in starts THEN Dot ELSE wire[k + 1]
          BY <4>0 DEF WithDots, N
        <4>2. k + 1 \in more <=> k + 1 \in starts
          BY <4>0
        <4>3. k + 1 \notin starts => w[k + 1] = wire[k + 1]
          BY <1>2, <1>3, <4>0
        <4>4. E[k] = D[k]
          <5> HIDE DEF D, E, more
          <5>1. QED BY <3>1, <4>1, <4>2, <4>3
        <4>5. QED
          <5> HIDE DEF D, E
          <5>1. QED BY <2>3, <4>0, <4>4
      <3>4. CASE k > N /\ k <= N + L
        <4>0. /\ k - N \in 1 .. L /\ N + (k - N) = k /\ N + 1 + (k - N) = k + 1
              /\ k + 1 > N + 1 /\ k + 1 # N + L + 2
          BY <1>1, <3>0, <3>4
        <4>1. k + 1 \notin more
          BY <1>1, <4>0
        <4>2. E[k] = w[k + 1] /\ w[k + 1] = label[k - N]
          BY <1>2, <3>1, <4>0, <4>1
        <4>3. F[k] = label[k - N]
          <5> HIDE DEF D
          <5>1. QED BY <2>3, <4>0
        <4>4. QED
          BY <4>2, <4>3
      <3>5. k = N + L + 1 \/ k <= N \/ (k > N /\ k <= N + L)
        BY <1>1, <3>0
      <3>6. QED
        BY <3>2, <3>3, <3>4, <3>5
    <2> HIDE DEF E, F
    <2>5. E = F
      BY <2>2, <2>3, <2>4, SeqEqual
    <2>6. QED
      BY <2>5 DEF E, F
  <1>7. QED
    BY <1>5, <1>6 DEF w, N, LabelAdded

\* A terminated name in wire form is one with an empty label more.
LEMMA Terminated ==
    ASSUME NEW wire, NEW starts, WireForm(wire, starts)
    PROVE  /\ WireForm(wire \o <<0>>, starts \cup {Len(wire) + 2})
           /\ WithDots(wire \o <<0>>, starts \cup {Len(wire) + 2})
                = WithDots(wire, starts) \o <<Dot>>
  <1> DEFINE none == <<>>
  <1>1. /\ Len(wire) \in Nat /\ wire \in Seq(Nat) /\ WithDots(wire, starts) \in Seq(Nat)
    BY WireFacts
  <1>2. none \in Seq(0 .. 255) /\ Len(none) = 0
    OBVIOUS
  <1>3. wire \o <<Len(none)>> \o none = wire \o <<0>> /\ Len(wire) + Len(none) + 2 = Len(wire) + 2
    BY <1>1, <1>2
  <1>4. WithDots(wire, starts) \o none = WithDots(wire, starts)
    BY <1>1
  <1> HIDE DEF none
  <1>5. Len(none) \in 0 .. 255 /\ \A k \in 1 .. Len(none) : none[k] # Dot
    BY <1>2
  <1>6. LabelAdded(wire, starts, none)
    BY <1>2, <1>5, OneMore, ZenonT(40)
  <1>7. QED
    BY <1>3, <1>4, <1>6 DEF LabelAdded

\* The dot that ChangetoDnsNameFormat appends is the one that was cut off.
LEMMA DotBack ==
    ASSUME NEW wire, NEW starts, WireForm(wire, starts), wire # <<>>
    PROVE  ToDotted(wire) \o <<Dot>> = WithDots(wire, starts)
  <1> DEFINE D == WithDots(wire, starts)
             N == Len(D)
  <1>1. D \in Seq(Nat) /\ N = Len(wire) /\ N \in Nat /\ wire \in Seq(Nat)
    BY WireFacts
  <1>2. N \in 1 .. N
    <2>1. Len(wire) # 0
      BY <1>1, EmptySeq
    <2>2. QED
      BY <1>1, <2>1
  <1>3. D[N] = Dot
    <2>1. N + 1 \in starts
      BY <1>1 DEF WireForm
    <2>2. QED
      BY <1>1, <1>2, <2>1 DEF WithDots
  <1>4. ToDotted(wire) = SubSeq(D, 1, N - 1)
    BY ToDottedIs DEF Front
  <1> HIDE DEF D
  <1>5. SubSeq(D, 1, N) = SubSeq(D, 1, N - 1) \o <<D[N]>>
    <2>1. 1 \in 1 .. Len(D)
      BY <1>1, <1>2
    <2>2. QED
      BY <1>1, <1>2, <2>1, SubSeqRecursiveSecond
  <1>6. SubSeq(D, 1, N) = D
    BY <1>1, SubSeqFull
  <1>7. QED
    BY <1>3, <1>4, <1>5, <1>6 DEF D

\* Both calls of ChangetoDnsNameFormat give back the name that was dotted, and
\* the host the second one leaves is one byte longer than it (utils.c 185-195,
\* 238-247).
THEOREM NameConversions ==
    ASSUME NEW wire, IsName(wire)
    PROVE  LET first  == ChangetoDnsNameFormat(ToDotted(wire))
               second == ChangetoDnsNameFormat(first.host)
           IN  /\ CString(first.dns) = wire
               /\ CString(second.dns) = wire
               /\ Len(second.host) = Len(wire) + 1
  <1>0. PICK starts \in SUBSET (1 .. Len(wire) + 1) : WireForm(wire, starts)
    BY DEF IsName
  <1> DEFINE first == ChangetoDnsNameFormat(ToDotted(wire))
             second == ChangetoDnsNameFormat(first.host)
             D == WithDots(wire, starts)
             w == wire \o <<0>>
             more == starts \cup {Len(wire) + 2}
  <1>1. /\ wire # <<>> /\ wire \in Seq(Nat \ {0}) /\ Len(wire) \in Nat
        /\ D \in Seq(Nat) /\ Len(D) = Len(wire)
    BY <1>0, WireFacts DEF IsName
  <1>2. first.host = D /\ first.dns = wire \o <<0>>
    <2>1. ToDotted(wire) \o <<Dot>> = D
      BY <1>0, <1>1, DotBack
    <2>2. Labelled(D) = wire
      BY <1>0, <1>1, LabelledIs
    <2> HIDE DEF D
    <2>3. QED
      BY <2>1, <2>2 DEF ChangetoDnsNameFormat
  <1>3. second.host = D \o <<Dot>> /\ second.dns = w \o <<0>>
    <2>1. WireForm(w, more) /\ WithDots(w, more) = D \o <<Dot>>
      BY <1>0, Terminated
    <2>2. w # <<>>
      BY <1>1
    <2> HIDE DEF w, more
    <2>3. Labelled(WithDots(w, more)) = w
      BY <2>1, <2>2, LabelledIs
    <2>4. second = [host |-> first.host \o <<Dot>>,
                    dns |-> Labelled(first.host \o <<Dot>>) \o <<0>>]
      BY DEF ChangetoDnsNameFormat
    <2> HIDE DEF D, second, first
    <2>5. QED
      BY <1>2, <2>1, <2>3, <2>4
  <1>4. CString(first.dns) = wire
    <2>1. wire \o <<0>> \o <<>> = wire \o <<0>> /\ <<>> \in Seq(Nat)
      BY <1>1
    <2>2. CString(wire \o <<0>> \o <<>>) = wire
      BY <1>1, <2>1, CStringIs
    <2> HIDE DEF first
    <2>3. QED
      BY <1>2, <2>1, <2>2
  <1>5. CString(second.dns) = wire
    <2>1. <<0>> \in Seq(Nat)
      OBVIOUS
    <2>2. CString(wire \o <<0>> \o <<0>>) = wire
      BY <1>1, <2>1, CStringIs
    <2> HIDE DEF second
    <2>3. QED
      BY <1>3, <2>2
  <1>6. Len(second.host) = Len(wire) + 1
    <2>1. Dot \in Nat
      BY DEF Dot
    <2> HIDE DEF second, D
    <2>2. Len(D \o <<Dot>>) = Len(D) + 1
      BY <1>1, <2>1
    <2>3. QED
      BY <1>1, <1>3, <2>2
  <1>7. QED
    BY <1>4, <1>5, <1>6

\* f[i] is the first i sequences of seqs in one.
Glued(f, seqs) ==
    f = [i \in 1 .. Len(seqs) |-> IF i = 1 THEN seqs[i] ELSE f[i - 1] \o seqs[i]]

\* The recursion of FlattenSeq defines a function.
LEMMA Gluing ==
    ASSUME NEW seqs, Len(seqs) \in Nat
    PROVE  \E f : Glued(f, seqs)
  <1> DEFINE n == Len(seqs)
             Cat(a, b) == a \o b
             Def(f, i) == IF i = 1 THEN seqs[i] ELSE Cat(f[i - 1], seqs[i])
             UpTo(m) == \E f : /\ f = [i \in 1 .. n |-> f[i]]
                               /\ \A i \in 1 .. n : i <= m => f[i] = Def(f, i)
             Good == {m \in 0 .. n : UpTo(m)}
  <1> HIDE DEF Cat, n
  <1>0. n \in Nat
    BY DEF n
  <1>1. UpTo(0)
    <2> DEFINE f == [i \in 1 .. n |-> <<>>]
    <2>1. f = [i \in 1 .. n |-> f[i]] /\ \A i \in 1 .. n : ~(i <= 0)
      BY <1>0
    <2>2. QED
      BY <2>1
  <1>2. ASSUME NEW m \in 0 .. n - 1, UpTo(m)
        PROVE  UpTo(m + 1)
    <2>1. PICK f : /\ f = [i \in 1 .. n |-> f[i]]
                   /\ \A i \in 1 .. n : i <= m => f[i] = Def(f, i)
      BY <1>2
    <2> DEFINE e == [i \in 1 .. n |-> IF i = m + 1 THEN Def(f, i) ELSE f[i]]
    <2>2. \A i \in 1 .. n : e[i] = IF i = m + 1 THEN Def(f, i) ELSE f[i]
      OBVIOUS
    <2>3. e = [i \in 1 .. n |-> e[i]]
      OBVIOUS
    <2>6. \A i \in 1 .. n : i <= m => f[i] = Def(f, i)
      BY <2>1
    <2> HIDE DEF e
    <2>4. ASSUME NEW i \in 1 .. n, i <= m + 1 PROVE e[i] = Def(e, i)
      <3>1. e[i] = Def(f, i)
        <4>1. i = m + 1 \/ i <= m
          BY <1>0, <2>4
        <4>2. i <= m => i # m + 1
          BY <1>0
        <4> HIDE DEF Def
        <4>3. QED
          BY <2>2, <2>6, <4>1, <4>2
      <3>2. i # 1 => e[i - 1] = f[i - 1]
        <4>1. i # 1 => i - 1 \in 1 .. n /\ i - 1 # m + 1
          BY <1>0, <2>4
        <4>2. QED
          BY <2>2, <4>1
      <3>3. QED
        BY <3>1, <3>2
    <2> HIDE DEF Def
    <2>5. QED
      BY <2>3, <2>4
  <1>3. UpTo(n)
    <2> HIDE DEF UpTo
    <2>1. Good # {} /\ Good \subseteq 0 .. n
      BY <1>0, <1>1
    <2>2. PICK m \in Good : \A k \in Good : k <= m
      BY <1>0, <2>1, Greatest
    <2>3. m = n
      <3> SUFFICES ASSUME m # n PROVE FALSE
        OBVIOUS
      <3>1. m \in 0 .. n - 1 /\ UpTo(m) /\ m \in Nat
        BY <1>0, <2>2
      <3>2. UpTo(m + 1) /\ m + 1 \in 0 .. n
        BY <1>0, <3>1, <1>2
      <3>3. m + 1 <= m
        BY <3>2, <2>2
      <3>4. QED
        BY <3>1, <3>3
    <2>4. QED
      BY <2>2, <2>3
  <1>4. PICK f : /\ f = [i \in 1 .. n |-> f[i]]
                 /\ \A i \in 1 .. n : i <= n => f[i] = Def(f, i)
    BY <1>3
  <1>5. f = [i \in 1 .. n |-> Def(f, i)]
    <2>1. \A i \in 1 .. n : i <= n
      BY <1>0
    <2>2. \A i \in 1 .. n : f[i] = Def(f, i)
      BY <1>4, <2>1, Zenon
    <2> HIDE DEF Def
    <2>3. QED
      BY <1>4, <2>2
  <1>6. QED
    BY <1>5 DEF Cat, Glued, n

\* FlattenSeq glues all of them.
LEMMA FlattenIs ==
    ASSUME NEW seqs, Len(seqs) \in Nat \ {0}
    PROVE  \E f : Glued(f, seqs) /\ FlattenSeq(seqs) = f[Len(seqs)]
  <1> DEFINE flatten == CHOOSE f : f = [i \in 1 .. Len(seqs) |->
                            IF i = 1 THEN seqs[i] ELSE f[i - 1] \o seqs[i]]
  <1>1. \E f : Glued(f, seqs)
    BY Gluing
  <1>2. Glued(flatten, seqs)
    BY <1>1, Zenon DEF Glued
  <1>3. FlattenSeq(seqs) = flatten[Len(seqs)]
    BY DEF FlattenSeq
  <1> HIDE DEF flatten
  <1>4. QED
    BY <1>2, <1>3

\* w and d are the wire form and the dotted form of the same labels, with a dot
\* in front of every label of d.
SameLabels(w, d) ==
    \E starts : /\ WireForm(w, starts)
                /\ w \in Seq(Nat \ {0})
                /\ d \in Seq(Nat)
                /\ d \o <<Dot>> = <<Dot>> \o WithDots(w, starts)

\* The bytes of a label.
LEMMA LabelBytes ==
    /\ (1 .. 191) \ {Dot} \subseteq Nat \ {0} /\ (1 .. 191) \ {Dot} \subseteq Nat
    /\ (1 .. 191) \ {Dot} \subseteq 0 .. 255
  <1>1. ASSUME NEW x \in (1 .. 191) \ {Dot}
        PROVE  x \in Nat \ {0} /\ x \in Nat /\ x \in 0 .. 255
    <2>1. x \in 1 .. 191
      OBVIOUS
    <2>2. QED
      BY <2>1
  <1> DEFINE S == (1 .. 191) \ {Dot}
             T == 0 .. 255
  <1>2. \A x \in S : x \in Nat \ {0} /\ x \in Nat /\ x \in T
    BY <1>1
  <1> HIDE DEF S, T
  <1>3. S \subseteq Nat \ {0} /\ S \subseteq Nat /\ S \subseteq T
    BY <1>2
  <1>4. QED BY <1>3 DEF S, T

\* Concatenation is associative.
LEMMA Assoc ==
    \A r, s, t \in Seq(Nat) : r \o (s \o t) = (r \o s) \o t
  <1>1. ASSUME NEW r \in Seq(Nat), NEW s \in Seq(Nat), NEW t \in Seq(Nat)
        PROVE  (r \o s) \o t = r \o (s \o t)
    BY ConcatAssociative, SMTT(30)
  <1>2. QED
    BY <1>1, Zenon

\* A label is added to both forms.
LEMMA SameLabelsStep ==
    ASSUME NEW w, NEW d, SameLabels(w, d),
           NEW l \in Seq((1 .. 191) \ {Dot}), Len(l) \in 1 .. 63
    PROVE  SameLabels(w \o (<<Len(l)>> \o l), d \o (<<Dot>> \o l))
  <1>0. PICK starts : /\ WireForm(w, starts) /\ w \in Seq(Nat \ {0}) /\ d \in Seq(Nat)
                      /\ d \o <<Dot>> = <<Dot>> \o WithDots(w, starts)
    BY DEF SameLabels
  <1> DEFINE D == WithDots(w, starts)
             a == <<Len(l)>>
             c == <<Dot>>
             more == starts \cup {Len(w) + Len(l) + 2}
  <1>1. /\ l \in Seq(Nat \ {0}) /\ l \in Seq(Nat) /\ l \in Seq(0 .. 255)
        /\ \A k \in 1 .. Len(l) : l[k] # Dot
    <2>2. \A k \in 1 .. Len(l) : l[k] \in (1 .. 191) \ {Dot}
      BY ElementOfSeq
    <2>3. QED
      BY <2>2, LabelBytes, SeqMonotonic
  <1>2. /\ Len(l) \in 0 .. 255 /\ a \in Seq(Nat \ {0}) /\ a \in Seq(Nat)
        /\ c \in Seq(Nat) /\ D \in Seq(Nat) /\ w \in Seq(Nat)
    <2>1. D \in Seq(Nat) /\ w \in Seq(Nat)
      BY <1>0, WireFacts
    <2>2. \A x \in 1 .. 63 : x \in 0 .. 255 /\ x \in Nat \ {0} /\ x \in Nat
      OBVIOUS
    <2>3. Len(l) \in 0 .. 255 /\ Len(l) \in Nat \ {0} /\ Len(l) \in Nat
      BY <2>2
    <2>4. a \in Seq(Nat \ {0}) /\ a \in Seq(Nat)
      BY <2>3
    <2>5. c \in Seq(Nat)
      BY DEF Dot
    <2>6. QED
      BY <2>1, <2>3, <2>4, <2>5
  <1>3. LabelAdded(w, starts, l)
    BY <1>0, <1>1, <1>2, OneMore
  <1>4. w \o (a \o l) = w \o a \o l
    <2>1. w \in Seq(Nat) /\ a \in Seq(Nat) /\ l \in Seq(Nat)
      BY <1>1, <1>2
    <2> HIDE DEF a
    <2>2. QED
      BY <2>1, Assoc, Zenon
  <1>5. WireForm(w \o (a \o l), more) /\ WithDots(w \o (a \o l), more) = D \o l \o c
    <2>1. WireForm(w \o a \o l, more) /\ WithDots(w \o a \o l, more) = D \o l \o c
      BY <1>3 DEF LabelAdded
    <2> HIDE DEF D, c, more, a
    <2>2. QED
      BY <1>4, <2>1
  <1> HIDE DEF D, a, c
  <1>6. w \o (a \o l) \in Seq(Nat \ {0}) /\ d \o (c \o l) \in Seq(Nat)
    BY <1>0, <1>1, <1>2, ConcatProperties
  <1>7. (d \o (c \o l)) \o c = c \o (D \o l \o c)
    <2>0. d \in Seq(Nat) /\ c \in Seq(Nat) /\ l \in Seq(Nat) /\ D \in Seq(Nat)
      BY <1>0, <1>1, <1>2
    <2>1. d \o (c \o l) = (d \o c) \o l
      BY <2>0, Assoc, Zenon
    <2>2. d \o c = c \o D
      BY <1>0 DEF c, D
    <2>3. (c \o D) \o l = c \o (D \o l)
      BY <2>0, Assoc, Zenon
    <2>4. D \o l \in Seq(Nat)
      BY <1>1, <1>2, ConcatProperties
    <2>5. (c \o (D \o l)) \o c = c \o ((D \o l) \o c)
      BY <2>0, <2>4, Assoc, ZenonT(40)
    <2>6. QED
      BY <2>1, <2>2, <2>3, <2>5
  <1>8. SameLabels(w \o (a \o l), d \o (c \o l))
    <2> HIDE DEF more
    <2>1. QED
      BY <1>5, <1>6, <1>7 DEF SameLabels, c
  <1>9. QED
    BY <1>8 DEF a, c

-----------------------------------------------------------------------------
(***************************************************************************)
(* The messages of DnsMessage, in which a name is a sequence of labels.    *)
(***************************************************************************)
\* The dot in front of the labels is the one behind them.
LEMMA DotMoves ==
    ASSUME NEW g \in Seq(Nat), NEW D \in Seq(Nat), g # <<>>, g \o <<Dot>> = <<Dot>> \o D
    PROVE  Tail(g) = Front(D)
  <1> DEFINE c == <<Dot>>
  <1>1. c \in Seq(Nat) /\ Len(c) = 1 /\ Len(g) \in Nat /\ Len(D) \in Nat /\ Len(g) # 0
    BY EmptySeq DEF Dot
  <1>2. g \o c = c \o D
    OBVIOUS
  <1> HIDE DEF c
  <1>3. /\ Len(g \o c) = Len(g) + 1
        /\ \A k \in 1 .. Len(g) + 1 : (g \o c)[k] = IF k <= Len(g) THEN g[k] ELSE c[k - Len(g)]
    <2>1. /\ Len(g \o c) = Len(g) + Len(c)
          /\ \A k \in 1 .. Len(g) + Len(c) :
                (g \o c)[k] = IF k <= Len(g) THEN g[k] ELSE c[k - Len(g)]
      BY <1>1, ConcatProperties
    <2>2. QED BY <1>1, <2>1
  <1>4. /\ Len(c \o D) = 1 + Len(D)
        /\ \A k \in 1 .. 1 + Len(D) : (c \o D)[k] = IF k <= 1 THEN c[k] ELSE D[k - 1]
    <2>1. /\ Len(c \o D) = Len(c) + Len(D)
          /\ \A k \in 1 .. Len(c) + Len(D) :
                (c \o D)[k] = IF k <= Len(c) THEN c[k] ELSE D[k - Len(c)]
      BY <1>1, ConcatProperties
    <2>2. QED BY <1>1, <2>1
  <1>5. Len(D) = Len(g)
    BY <1>1, <1>2, <1>3, <1>4
  <1>6. Tail(g) \in Seq(Nat) /\ Len(Tail(g)) = Len(g) - 1
        /\ \A k \in 1 .. Len(g) - 1 : Tail(g)[k] = g[k + 1]
    BY HeadTailProperties
  <1>7. Front(D) \in Seq(Nat) /\ Len(Front(D)) = Len(g) - 1
        /\ \A k \in 1 .. Len(g) - 1 : Front(D)[k] = D[k]
    <2> DEFINE m == Len(g) - 1
    <2>1. m \in Nat /\ m <= Len(D) /\ 1 <= m + 1 /\ m + 1 - 1 = m /\ Front(D) = SubSeq(D, 1, m)
      BY <1>1, <1>5 DEF Front
    <2> HIDE DEF m
    <2>2. /\ Front(D) \in Seq(Nat) /\ Len(Front(D)) = m + 1 - 1
          /\ \A k \in 1 .. m + 1 - 1 : Front(D)[k] = D[1 + k - 1]
      BY <2>1, Piece, SMTT(30)
    <2>3. ASSUME NEW k \in 1 .. m PROVE 1 + k - 1 = k
      BY <2>1
    <2>4. QED
      BY <2>1, <2>2, <2>3 DEF m
  <1>8. ASSUME NEW k \in 1 .. Len(g) - 1 PROVE Tail(g)[k] = Front(D)[k]
    <2>1. /\ k + 1 \in 1 .. Len(g) + 1 /\ k + 1 <= Len(g) /\ k + 1 \in 1 .. 1 + Len(D)
          /\ ~(k + 1 <= 1) /\ (k + 1) - 1 = k
      BY <1>1, <1>5
    <2>2. g[k + 1] = (g \o c)[k + 1]
      BY <1>3, <2>1
    <2>3. (c \o D)[k + 1] = D[k]
      BY <1>4, <2>1
    <2>4. QED
      BY <1>2, <1>6, <1>7, <2>2, <2>3
  <1> DEFINE t == Tail(g)
             u == Front(D)
  <1> HIDE DEF t, u
  <1>9. t = u
    BY <1>6, <1>7, <1>8, SeqEqual DEF t, u
  <1>10. QED
    BY <1>9 DEF t, u

\* A sequence of labels is written as a name, and read as its labels with dots
\* between them.
LEMMA WireOf ==
    ASSUME NEW labels, NEW n \in Nat, n >= 1, labels = [k \in 1 .. n |-> labels[k]],
           \A k \in 1 .. n : IsLabel(labels[k])
    PROVE  /\ IsName(Wire(labels))
           /\ ToDotted(Wire(labels)) = Dotted(labels)
  <1> DEFINE ws == [k \in 1 .. n |-> <<Len(labels[k])>> \o labels[k]]
             ds == [k \in 1 .. n |-> <<Dot>> \o labels[k]]
             W == Wire(labels)
  <1>1. DOMAIN labels = 1 .. n /\ Len(ws) = n /\ Len(ds) = n
    OBVIOUS
  <1>2. /\ Wire(labels) = FlattenSeq(ws)
        /\ Dotted(labels) = Tail(FlattenSeq(ds))
    <2>1. /\ Wire(labels) = FlattenSeq(ws)
          /\ Dotted(labels) = Tail(FlattenSeq(ds))
      BY <1>1 DEF Wire, Dotted
    <2> HIDE DEF ws, ds
    <2>2. QED
      BY <2>1
  <1>3. \A k \in 1 .. n : ws[k] = <<Len(labels[k])>> \o labels[k] /\ ds[k] = <<Dot>> \o labels[k]
    OBVIOUS
  <1> HIDE DEF ws, ds
  <1>4. PICK f : Glued(f, ws) /\ FlattenSeq(ws) = f[n]
    BY <1>1, FlattenIs
  <1>5. PICK g : Glued(g, ds) /\ FlattenSeq(ds) = g[n]
    BY <1>1, FlattenIs
  <1> DEFINE Bad == {k \in 1 .. n : ~SameLabels(f[k], g[k])}
  <1>6. ASSUME NEW k \in 1 .. n
        PROVE  /\ labels[k] \in Seq((1 .. 191) \ {Dot}) /\ Len(labels[k]) \in 1 .. 63
               /\ <<Len(labels[k])>> \o labels[k] \in Seq(Nat)
               /\ <<Dot>> \o labels[k] \in Seq(Nat)
    <2> DEFINE l == labels[k]
    <2>1. l \in Seq((1 .. 191) \ {Dot}) /\ Len(l) \in 1 .. 63
      BY DEF IsLabel
    <2>2. l \in Seq(Nat)
      <3> HIDE DEF l
      <3>1. QED
        BY <2>1, LabelBytes, SeqMonotonic
    <2>3. <<Len(l)>> \in Seq(Nat) /\ <<Dot>> \in Seq(Nat)
      BY <2>2 DEF Dot
    <2> HIDE DEF l
    <2>4. <<Len(l)>> \o l \in Seq(Nat) /\ <<Dot>> \o l \in Seq(Nat)
      BY <2>2, <2>3, ConcatProperties
    <2>5. QED
      BY <2>1, <2>4 DEF l
  <1>7. SameLabels(f[1], g[1])
    <2>1. SameLabels(<<>>, <<>>)
      <3>1. WireForm(<<>>, {1}) /\ WithDots(<<>>, {1}) = <<>>
        BY DEF WireForm, WithDots
      <3>2. <<>> \o <<Dot>> = <<Dot>> \o <<>> /\ <<>> \in Seq(Nat) /\ <<>> \in Seq(Nat \ {0})
        BY DEF Dot
      <3>3. QED
        BY <3>1, <3>2 DEF SameLabels
    <2>2. 1 \in 1 .. n
      OBVIOUS
    <2>3. SameLabels(<<>> \o ws[1], <<>> \o ds[1])
      BY <1>3, <1>6, <2>1, <2>2, SameLabelsStep
    <2>4. <<>> \o ws[1] = ws[1] /\ <<>> \o ds[1] = ds[1]
      BY <1>3, <1>6, <2>2, ConcatEmptySeq
    <2>5. f[1] = ws[1] /\ g[1] = ds[1]
      BY <1>1, <1>4, <1>5, <2>2 DEF Glued
    <2>6. QED
      BY <2>3, <2>4, <2>5
  <1>8. ASSUME NEW k \in 2 .. n, SameLabels(f[k - 1], g[k - 1])
        PROVE  SameLabels(f[k], g[k])
    <2>1. k \in 1 .. n /\ k # 1
      OBVIOUS
    <2>2. f[k] = f[k - 1] \o ws[k] /\ g[k] = g[k - 1] \o ds[k]
      BY <1>1, <1>4, <1>5, <2>1 DEF Glued
    <2>3. SameLabels(f[k - 1] \o ws[k], g[k - 1] \o ds[k])
      BY <1>3, <1>6, <1>8, <2>1, SameLabelsStep
    <2>4. QED
      BY <2>2, <2>3
  <1>9. Bad = {}
    <2> SUFFICES ASSUME Bad # {} PROVE FALSE
      OBVIOUS
    <2>1. Bad \subseteq Nat
      OBVIOUS
    <2>2. PICK k \in Bad : \A j \in Bad : k <= j
      <3> HIDE DEF Bad
      <3>1. QED BY <2>1, Least
    <2>3. k \in 1 .. n /\ ~SameLabels(f[k], g[k])
      BY <2>2
    <2>4. k # 1
      BY <1>7, <2>3
    <2>5. k \in 2 .. n /\ k - 1 \in 1 .. n /\ ~(k <= k - 1)
      BY <2>3, <2>4
    <2>6. SameLabels(f[k - 1], g[k - 1])
      BY <2>2, <2>5
    <2>7. QED
      BY <1>8, <2>3, <2>5, <2>6
  <1>10. SameLabels(f[n], g[n])
    <2>1. n \in 1 .. n
      OBVIOUS
    <2>2. QED
      BY <1>9, <2>1
  <1>11. W = f[n] /\ Dotted(labels) = Tail(g[n])
    BY <1>2, <1>4, <1>5
  <1>12. PICK starts : /\ WireForm(f[n], starts) /\ f[n] \in Seq(Nat \ {0}) /\ g[n] \in Seq(Nat)
                       /\ g[n] \o <<Dot>> = <<Dot>> \o WithDots(f[n], starts)
    BY <1>10 DEF SameLabels
  <1>13. f[n] # <<>> /\ g[n] # <<>>
    <2> DEFINE a == <<Len(labels[n])>> \o labels[n]
               b == <<Dot>> \o labels[n]
    <2>0. n \in 1 .. n
      OBVIOUS
    <2>1. a \in Seq(Nat) /\ b \in Seq(Nat) /\ a # <<>> /\ b # <<>>
      <3>1. labels[n] \in Seq((1 .. 191) \ {Dot})
        BY <1>6, <2>0
      <3>2. Len(a) = 1 + Len(labels[n]) /\ Len(b) = 1 + Len(labels[n]) /\ Len(labels[n]) \in Nat
        BY <3>1
      <3>3. QED
        BY <1>6, <2>0, <3>2, EmptySeq
    <2>2. CASE n = 1
      <3>1. f[n] = ws[n] /\ g[n] = ds[n]
        BY <1>1, <1>4, <1>5, <2>0, <2>2 DEF Glued
      <3> HIDE DEF a, b
      <3>2. QED BY <1>3, <2>0, <2>1, <3>1 DEF a, b
    <2>3. CASE n # 1
      <3>0. f[n] = f[n - 1] \o ws[n] /\ g[n] = g[n - 1] \o ds[n]
        BY <1>1, <1>4, <1>5, <2>0, <2>3 DEF Glued
      <3>1. f[n] = f[n - 1] \o a /\ g[n] = g[n - 1] \o b
        BY <1>3, <2>0, <3>0
      <3>2. n - 1 \in 1 .. n
        BY <2>3
      <3>3. SameLabels(f[n - 1], g[n - 1])
        BY <1>9, <3>2
      <3>4. PICK some : WireForm(f[n - 1], some) /\ g[n - 1] \in Seq(Nat)
        BY <3>3 DEF SameLabels
      <3>5. f[n - 1] \in Seq(Nat)
        BY <3>4, WireFacts
      <3> HIDE DEF a, b
      <3>6. f[n - 1] \o a # <<>> /\ g[n - 1] \o b # <<>>
        BY <2>1, <3>4, <3>5, ConcatSimplifications
      <3>7. QED BY <3>1, <3>6
    <2>4. QED BY <2>2, <2>3
  <1>14. IsName(f[n])
    <2>1. starts \in SUBSET (1 .. Len(f[n]) + 1)
      BY <1>12 DEF WireForm
    <2>2. QED
      BY <1>12, <1>13, <2>1 DEF IsName
  <1>15. ToDotted(f[n]) = Tail(g[n])
    <2>1. WithDots(f[n], starts) \in Seq(Nat)
      BY <1>12, WireFacts
    <2>2. ToDotted(f[n]) = Front(WithDots(f[n], starts))
      BY <1>12, ToDottedIs
    <2> DEFINE D == WithDots(f[n], starts)
    <2> HIDE DEF D
    <2>3. Tail(g[n]) = Front(D)
      BY <1>12, <1>13, <2>1, DotMoves DEF D
    <2>4. QED BY <2>2, <2>3 DEF D
  <1>16. QED
    BY <1>11, <1>14, <1>15

\* Every name that is asked for survives its conversions (server.c 136-148,
\* utils.c 185-195 and 238-253).
THEOREM NamesSurvive == MessageSpec => []RoundTrip
  <1> DEFINE Asked == asked \in NamesUpTo(MaxLabels)
  <1>1. MessageInit => Asked
    BY DEF MessageInit
  <1>2. Asked /\ [MessageNext]_messageVars => Asked'
    BY DEF MessageNext, AddAddress, AddAlias, messageVars
  <1>3. Asked => RoundTrip
    <2> SUFFICES ASSUME Asked PROVE RoundTrip
      OBVIOUS
    <2>1. PICK n \in 0 .. MaxLabels : asked \in [1 .. n -> Labels]
      BY CountsAssumption DEF NamesUpTo, BoundedSeq, SeqOf
    <2>2. asked # <<>>
      BY DEF NamesUpTo
    <2>3. n \in Nat /\ n >= 1
      <3>1. n = 0 => asked = <<>>
        BY <2>1
      <3>2. QED
        BY <2>1, <2>2, <3>1
    <2>4. asked = [k \in 1 .. n |-> asked[k]] /\ \A k \in 1 .. n : IsLabel(asked[k])
      BY <2>1, LabelsAssumption
    <2>5. /\ IsName(Wire(asked))
          /\ ToDotted(Wire(asked)) = Dotted(asked)
      BY <2>3, <2>4, WireOf
    <2> DEFINE W == Wire(asked)
               first == ChangetoDnsNameFormat(ToDotted(W))
               second == ChangetoDnsNameFormat(first.host)
    <2>6. /\ CString(first.dns) = W /\ CString(second.dns) = W
          /\ Len(second.host) = Len(W) + 1
      <3> HIDE DEF W
      <3>1. QED BY <2>5, NameConversions DEF W
    <2> HIDE DEF W
    <2>7. QED
      BY <2>5, <2>6 DEF RoundTrip, W
  <1>4. QED
    BY <1>1, <1>2, <1>3, PTL DEF MessageSpec
-----------------------------------------------------------------------------
(***************************************************************************)
(* The answers.  Known says of every offset at which a name is known that  *)
(* its bytes are there: labels, then a 0 or a pointer to a name that ends  *)
(* before this one starts.  Pointers lead down, so the loop of             *)
(* uncompress_name ends, after no more turns than the message has bytes.   *)
(***************************************************************************)
\* A label behind its length byte.
Coded(l) == <<Len(l)>> \o l

\* Its bytes are neither 0 nor the start of a pointer.
LEMMA CodedIs ==
    ASSUME NEW l \in Labels
    PROVE  Coded(l) \in Seq(1 .. 191) /\ Coded(l) \in Seq(Nat)
  <1> DEFINE a == <<Len(l)>>
  <1>1. l \in Seq((1 .. 191) \ {Dot}) /\ Len(l) \in 1 .. 63
    BY LabelsAssumption DEF IsLabel
  <1>2. (1 .. 191) \ {Dot} \subseteq 1 .. 191 /\ 1 .. 191 \subseteq Nat
    OBVIOUS
  <1>3. l \in Seq(1 .. 191)
    BY <1>1, <1>2, SeqMonotonic
  <1>4. a \in Seq(1 .. 191)
    <2>1. Len(l) \in 1 .. 191
      BY <1>1
    <2>2. QED BY <2>1
  <1> HIDE DEF a
  <1>5. a \o l \in Seq(1 .. 191)
    BY <1>3, <1>4, ConcatProperties
  <1>6. a \o l \in Seq(Nat)
    BY <1>2, <1>5, SeqMonotonic
  <1>7. QED
    BY <1>5, <1>6 DEF Coded, a

\* The wire form of labels, label after label.
WireRun(F, labels) ==
    /\ F \in [0 .. Len(labels) -> Seq(1 .. 191)]
    /\ F[0] = <<>>
    /\ \A k \in 1 .. Len(labels) : F[k] = F[k - 1] \o Coded(labels[k])
    /\ Wire(labels) = F[Len(labels)]

\* There is such a run.
LEMMA WireRuns ==
    ASSUME NEW labels \in Seq(Labels)
    PROVE  \E F : WireRun(F, labels)
  <1> DEFINE n == Len(labels)
             ws == [k \in 1 .. n |-> <<Len(labels[k])>> \o labels[k]]
  <1>1. n \in Nat /\ DOMAIN labels = 1 .. n /\ \A k \in 1 .. n : labels[k] \in Labels
    BY LenProperties, ElementOfSeq
  <1>2. Wire(labels) = FlattenSeq(ws)
    BY <1>1 DEF Wire
  <1>3. \A k \in 1 .. n : ws[k] = Coded(labels[k])
    BY DEF Coded
  <1>4. DOMAIN ws = 1 .. n
    OBVIOUS
  <1>5. Len(ws) = n
    BY <1>1, <1>4
  <1> HIDE DEF ws
  <1>6. CASE n = 0
    <2> DEFINE F == [k \in 0 .. n |-> <<>>]
    <2>1. Len(ws) = 0
      BY <1>5, <1>6
    <2>2. ws = <<>>
      BY <1>4, <1>6 DEF ws
    <2>3. FlattenSeq(ws) = <<>>
      BY <2>1, <2>2 DEF FlattenSeq
    <2>4. F \in [0 .. n -> Seq(1 .. 191)] /\ F[0] = <<>> /\ F[n] = <<>>
      BY <1>6
    <2>5. \A k \in 1 .. n : F[k] = F[k - 1] \o Coded(labels[k])
      BY <1>6
    <2> HIDE DEF F
    <2>6. WireRun(F, labels)
      BY <1>2, <2>3, <2>4, <2>5 DEF WireRun
    <2>7. QED BY <2>6
  <1>7. CASE n # 0
    <2>1. Len(ws) \in Nat \ {0}
      BY <1>1, <1>5, <1>7
    <2>2. PICK f : Glued(f, ws) /\ FlattenSeq(ws) = f[n]
      BY <2>1, <1>5, FlattenIs
    <2> DEFINE F == [k \in 0 .. n |-> IF k = 0 THEN <<>> ELSE f[k]]
    <2>3. ASSUME NEW k \in 1 .. n PROVE F[k] = F[k - 1] \o Coded(labels[k])
      <3>1. f[k] = IF k = 1 THEN ws[k] ELSE f[k - 1] \o ws[k]
        BY <2>2, <1>5 DEF Glued
      <3>2. ws[k] = Coded(labels[k]) /\ Coded(labels[k]) \in Seq(Nat)
        BY <1>1, <1>3, CodedIs
      <3>3. F[k] = f[k] /\ k - 1 \in 0 .. n
        BY <1>1
      <3>4. CASE k = 1
        <4>1. F[k - 1] = <<>>
          BY <3>3, <3>4
        <4>2. <<>> \o Coded(labels[k]) = Coded(labels[k])
          BY <3>2, ConcatEmptySeq
        <4>3. QED BY <3>1, <3>2, <3>3, <3>4, <4>1, <4>2
      <3>5. CASE k # 1
        <4>1. F[k - 1] = f[k - 1]
          BY <3>3, <3>5
        <4>2. QED BY <3>1, <3>2, <3>3, <3>5, <4>1
      <3>6. QED BY <3>4, <3>5
    <2>4. F[0] = <<>> /\ F[n] = f[n]
      BY <1>1, <1>7
    <2>5. DOMAIN F = 0 .. n /\ F = [k \in 0 .. n |-> F[k]]
      OBVIOUS
    <2> HIDE DEF F
    <2> DEFINE Bad == {k \in 0 .. n : F[k] \notin Seq(1 .. 191)}
    <2>6. Bad = {}
      <3>1. SUFFICES ASSUME Bad # {} PROVE FALSE
        OBVIOUS
      <3>2. Bad \subseteq Nat
        OBVIOUS
      <3>3. PICK k \in Bad : \A j \in Bad : k <= j
        BY <3>1, <3>2, Least
      <3>4. k \in 0 .. n /\ F[k] \notin Seq(1 .. 191)
        BY <3>3
      <3>5. k # 0
        <4>1. <<>> \in Seq(1 .. 191)
          OBVIOUS
        <4>2. QED BY <2>4, <3>4, <4>1
      <3>6. k \in 1 .. n /\ k - 1 \in 0 .. n /\ k - 1 \notin Bad
        BY <3>3, <3>4, <3>5
      <3>7. F[k - 1] \in Seq(1 .. 191) /\ Coded(labels[k]) \in Seq(1 .. 191)
        BY <1>1, <3>6, CodedIs
      <3>8. F[k] = F[k - 1] \o Coded(labels[k])
        BY <2>3, <3>6
      <3>9. QED BY <3>4, <3>7, <3>8, ConcatProperties
    <2>7. F \in [0 .. n -> Seq(1 .. 191)]
      BY <2>5, <2>6
    <2>8. WireRun(F, labels)
      BY <1>2, <2>2, <2>3, <2>4, <2>7 DEF WireRun
    <2>9. QED BY <2>8
  <1>8. QED
    BY <1>6, <1>7

\* The bytes of a wire form.
LEMMA WireBytes ==
    ASSUME NEW labels \in Seq(Labels)
    PROVE  /\ Wire(labels) \in Seq(1 .. 191)
           /\ Wire(labels) \in Seq(Nat)
           /\ Len(Wire(labels)) \in Nat
  <1>1. PICK F : WireRun(F, labels)
    BY WireRuns
  <1>2. Len(labels) \in 0 .. Len(labels)
    OBVIOUS
  <1>3. Wire(labels) \in Seq(1 .. 191)
    BY <1>1, <1>2 DEF WireRun
  <1>4. 1 .. 191 \subseteq Nat
    OBVIOUS
  <1>5. QED
    BY <1>3, <1>4, SeqMonotonic, LenProperties, Zenon

\* Nothing is written for no labels.
LEMMA WireEmpty == Wire(<<>>) = <<>>
  <1>1. <<>> \in Seq(Labels) /\ Len(<<>>) = 0
    OBVIOUS
  <1>2. PICK F : WireRun(F, <<>>)
    BY <1>1, WireRuns
  <1>3. QED
    BY <1>1, <1>2 DEF WireRun

\* The wire form of two names one after the other.
LEMMA WireConcat ==
    ASSUME NEW a \in Seq(Labels), NEW b \in Seq(Labels)
    PROVE  /\ a \o b \in Seq(Labels)
           /\ Wire(a \o b) = Wire(a) \o Wire(b)
  <1> DEFINE c == a \o b
             n == Len(a)
             m == Len(b)
  <1>1. /\ c \in Seq(Labels) /\ Len(c) = n + m /\ n \in Nat /\ m \in Nat
        /\ \A k \in 1 .. n + m : c[k] = IF k <= n THEN a[k] ELSE b[k - n]
    BY ConcatProperties, LenProperties
  <1> HIDE DEF c
  <1>2. PICK F : WireRun(F, c)
    BY <1>1, WireRuns
  <1>3. PICK A : WireRun(A, a)
    BY WireRuns
  <1>4. PICK B : WireRun(B, b)
    BY WireRuns
  <1>5. /\ F \in [0 .. n + m -> Seq(1 .. 191)]
        /\ F[0] = <<>>
        /\ \A k \in 1 .. n + m : F[k] = F[k - 1] \o Coded(c[k])
        /\ Wire(c) = F[n + m]
    BY <1>1, <1>2 DEF WireRun
  <1> DEFINE Same == {k \in 0 .. n : F[k] # A[k]}
             After(k) == F[n + k] = A[n] \o B[k]
             Rest == {k \in 0 .. m : ~After(k)}
  <1>6. Same = {}
    <2>1. SUFFICES ASSUME Same # {} PROVE FALSE
      OBVIOUS
    <2>2. Same \subseteq Nat
      OBVIOUS
    <2>3. PICK k \in Same : \A j \in Same : k <= j
      BY <2>1, <2>2, Least
    <2>4. k \in 0 .. n /\ F[k] # A[k]
      BY <2>3
    <2>5. k # 0
      BY <1>3, <1>5, <2>4 DEF WireRun
    <2>6. k \in 1 .. n /\ k - 1 \in 0 .. n /\ k - 1 \notin Same
      BY <2>3, <2>4, <2>5
    <2>7. F[k - 1] = A[k - 1]
      BY <2>6
    <2>8. k \in 1 .. n + m /\ k <= n
      BY <1>1, <2>6
    <2>9. c[k] = a[k] /\ F[k] = F[k - 1] \o Coded(c[k])
      BY <1>1, <1>5, <2>8
    <2>10. A[k] = A[k - 1] \o Coded(a[k])
      BY <1>3, <2>6 DEF WireRun
    <2>11. QED BY <2>4, <2>7, <2>9, <2>10
  <1>7. F[n] = A[n] /\ A[n] \in Seq(1 .. 191)
    <2>1. n \in 0 .. n
      BY <1>1
    <2>2. QED BY <1>3, <1>6, <2>1 DEF WireRun
  <1>8. Rest = {}
    <2>1. SUFFICES ASSUME Rest # {} PROVE FALSE
      OBVIOUS
    <2> HIDE DEF After
    <2>2. Rest \subseteq Nat
      OBVIOUS
    <2>3. PICK k \in Rest : \A j \in Rest : k <= j
      BY <2>1, <2>2, Least
    <2>4. k \in 0 .. m /\ ~After(k)
      BY <2>3
    <2>5. k # 0
      <3>1. B[0] = <<>> /\ n + 0 = n
        BY <1>1, <1>4 DEF WireRun
      <3>2. A[n] \o <<>> = A[n]
        BY <1>7, ConcatEmptySeq
      <3>3. QED BY <1>7, <2>4, <3>1, <3>2 DEF After
    <2>6. k \in 1 .. m /\ k - 1 \in 0 .. m /\ k - 1 \notin Rest
      BY <2>3, <2>4, <2>5
    <2>7. F[n + (k - 1)] = A[n] \o B[k - 1]
      BY <2>6 DEF After
    <2>8. /\ n + k \in 1 .. n + m /\ ~(n + k <= n)
          /\ (n + k) - n = k /\ (n + k) - 1 = n + (k - 1)
      BY <1>1, <2>6
    <2>9. c[n + k] = b[k] /\ F[n + k] = F[n + (k - 1)] \o Coded(c[n + k])
      BY <1>1, <1>5, <2>8
    <2>10. B[k] = B[k - 1] \o Coded(b[k]) /\ B[k - 1] \in Seq(1 .. 191)
      BY <1>4, <2>6 DEF WireRun
    <2>11. Coded(b[k]) \in Seq(1 .. 191)
      BY <2>6, CodedIs, ElementOfSeq
    <2>12. (A[n] \o B[k - 1]) \o Coded(b[k]) = A[n] \o (B[k - 1] \o Coded(b[k]))
      <3> DEFINE x == A[n]
                 y == B[k - 1]
                 z == Coded(b[k])
      <3> HIDE DEF x, y, z
      <3>1. x \in Seq(1 .. 191) /\ y \in Seq(1 .. 191) /\ z \in Seq(1 .. 191)
        BY <1>7, <2>10, <2>11 DEF x, y, z
      <3>2. (x \o y) \o z = x \o (y \o z)
        BY <3>1, ConcatAssociative
      <3>3. QED BY <3>2 DEF x, y, z
    <2>13. QED BY <2>4, <2>7, <2>9, <2>10, <2>12 DEF After
  <1>9. F[n + m] = A[n] \o B[m]
    <2>1. m \in 0 .. m
      BY <1>1
    <2>2. QED BY <1>8, <2>1 DEF After
  <1>10. Wire(a) = A[n] /\ Wire(b) = B[m]
    BY <1>3, <1>4 DEF WireRun
  <1>11. QED
    BY <1>1, <1>5, <1>9, <1>10 DEF c

\* The bytes s are in the message m from offset r on.
Holds(m, r, s) == /\ r + Len(s) <= Len(m)
                  /\ \A i \in 1 .. Len(s) : m[r + i] = s[i]

\* They stay there when the message is continued.
LEMMA HoldsLonger ==
    ASSUME NEW m \in Seq(Nat), NEW x \in Seq(Nat), NEW r \in Nat, NEW s \in Seq(Nat),
           Holds(m, r, s)
    PROVE  Holds(m \o x, r, s)
  <1> DEFINE c == m \o x
  <1>1. /\ c \in Seq(Nat) /\ Len(c) = Len(m) + Len(x)
        /\ Len(m) \in Nat /\ Len(x) \in Nat /\ Len(s) \in Nat
        /\ \A i \in 1 .. Len(m) + Len(x) : c[i] = IF i <= Len(m) THEN m[i] ELSE x[i - Len(m)]
    BY ConcatProperties, LenProperties
  <1> HIDE DEF c
  <1>2. r + Len(s) <= Len(m) /\ Len(m) \in Nat /\ Len(x) \in Nat /\ Len(s) \in Nat
    BY <1>1 DEF Holds
  <1>3. ASSUME NEW i \in 1 .. Len(s) PROVE c[r + i] = s[i]
    <2>1. r + i \in 1 .. Len(m) + Len(x) /\ r + i <= Len(m)
      BY <1>2
    <2>2. c[r + i] = m[r + i]
      BY <1>1, <2>1
    <2>3. QED BY <2>2 DEF Holds
  <1>4. QED
    BY <1>1, <1>2, <1>3 DEF Holds, c

\* What the message is continued with.
LEMMA HoldsEnd ==
    ASSUME NEW m \in Seq(Nat), NEW s \in Seq(Nat)
    PROVE  Holds(m \o s, Len(m), s)
  <1> DEFINE c == m \o s
  <1>1. /\ c \in Seq(Nat) /\ Len(c) = Len(m) + Len(s)
        /\ Len(m) \in Nat /\ Len(s) \in Nat
        /\ \A i \in 1 .. Len(m) + Len(s) : c[i] = IF i <= Len(m) THEN m[i] ELSE s[i - Len(m)]
    BY ConcatProperties, LenProperties
  <1> HIDE DEF c
  <1>2. ASSUME NEW i \in 1 .. Len(s) PROVE c[Len(m) + i] = s[i]
    <2>1. /\ Len(m) + i \in 1 .. Len(m) + Len(s) /\ ~(Len(m) + i <= Len(m))
          /\ (Len(m) + i) - Len(m) = i
      BY <1>1
    <2>2. QED BY <1>1, <2>1
  <1>3. QED
    BY <1>1, <1>2 DEF Holds, c

\* Two pieces one after the other.
LEMMA HoldsParts ==
    ASSUME NEW m \in Seq(Nat), NEW r \in Nat, NEW s \in Seq(Nat), NEW t \in Seq(Nat)
    PROVE  Holds(m, r, s \o t) <=> Holds(m, r, s) /\ Holds(m, r + Len(s), t)
  <1> DEFINE c == s \o t
             S == Len(s)
             T == Len(t)
  <1>1. /\ Len(c) = S + T /\ S \in Nat /\ T \in Nat /\ Len(m) \in Nat
        /\ \A i \in 1 .. S + T : c[i] = IF i <= S THEN s[i] ELSE t[i - S]
    BY ConcatProperties, LenProperties
  <1> HIDE DEF c, S, T
  <1>2. ASSUME Holds(m, r, c) PROVE Holds(m, r, s) /\ Holds(m, r + S, t)
    <2>1. r + (S + T) <= Len(m) /\ \A i \in 1 .. S + T : m[r + i] = c[i]
      BY <1>1, <1>2 DEF Holds
    <2>2. ASSUME NEW i \in 1 .. S PROVE m[r + i] = s[i]
      <3>1. i \in 1 .. S + T /\ i <= S
        BY <1>1
      <3>2. QED BY <1>1, <2>1, <3>1
    <2>3. ASSUME NEW i \in 1 .. T PROVE m[(r + S) + i] = t[i]
      <3>1. S + i \in 1 .. S + T /\ ~(S + i <= S) /\ (S + i) - S = i /\ (r + S) + i = r + (S + i)
        BY <1>1
      <3>2. QED BY <1>1, <2>1, <3>1
    <2>4. r + S <= Len(m) /\ (r + S) + T <= Len(m)
      BY <1>1, <2>1
    <2>5. QED BY <2>2, <2>3, <2>4 DEF Holds, S, T
  <1>3. ASSUME Holds(m, r, s), Holds(m, r + S, t) PROVE Holds(m, r, c)
    <2>1. (r + S) + T <= Len(m)
      BY <1>3 DEF Holds, T
    <2>2. ASSUME NEW i \in 1 .. S + T PROVE m[r + i] = c[i]
      <3>1. CASE i <= S
        <4>1. i \in 1 .. S
          BY <1>1, <3>1
        <4>2. m[r + i] = s[i]
          BY <1>3, <4>1 DEF Holds, S
        <4>3. QED BY <1>1, <3>1, <4>2
      <3>2. CASE ~(i <= S)
        <4>1. i - S \in 1 .. T /\ (r + S) + (i - S) = r + i
          BY <1>1, <3>2
        <4>2. m[(r + S) + (i - S)] = t[i - S]
          BY <1>3, <4>1 DEF Holds, T
        <4>3. QED BY <1>1, <3>2, <4>1, <4>2
      <3>3. QED BY <3>1, <3>2
    <2>3. r + (S + T) <= Len(m)
      BY <1>1, <2>1
    <2>4. QED BY <1>1, <2>2, <2>3 DEF Holds
  <1>4. QED
    BY <1>2, <1>3 DEF c, S

\* The k-th label of a name and those behind it.
LEMMA Suffix ==
    ASSUME NEW own \in Seq(Labels), NEW rest \in Seq(Labels), NEW k \in 1 .. Len(own)
    PROVE  LET before == SubSeq(own, 1, k - 1)
               behind == SubSeq(own, k, Len(own))
               all    == own \o rest
           IN  /\ before \in Seq(Labels) /\ behind \in Seq(Labels) /\ behind # <<>>
               /\ own = before \o behind
               /\ SubSeq(all, 1, k - 1) = before
               /\ SubSeq(all, k, Len(all)) = behind \o rest
  <1> DEFINE before == SubSeq(own, 1, k - 1)
             behind == SubSeq(own, k, Len(own))
             all    == own \o rest
             n == Len(own)
             m == Len(rest)
  <1>1. /\ n \in Nat /\ m \in Nat /\ k \in Nat /\ 1 <= k /\ k <= n
        /\ \A i \in 1 .. n : own[i] \in Labels
    BY LenProperties, ElementOfSeq
  <1>2. /\ all \in Seq(Labels) /\ Len(all) = n + m
        /\ \A i \in 1 .. n + m : all[i] = IF i <= n THEN own[i] ELSE rest[i - n]
    BY ConcatProperties
  <1>3. before \in Seq(Labels)
    <2>1. 1 \in Int /\ k - 1 \in Int /\ \A i \in 1 .. k - 1 : own[i] \in Labels
      BY <1>1
    <2>2. QED BY <2>1, SubSeqProperties
  <1>4. /\ behind \in Seq(Labels) /\ Len(behind) = n - k + 1
        /\ \A i \in 1 .. n - k + 1 : behind[i] = own[k + i - 1]
    <2>1. k \in Int /\ n \in Int /\ k <= n /\ \A i \in k .. n : own[i] \in Labels
      BY <1>1
    <2>2. QED BY <2>1, SubSeqProperties
  <1>5. behind # <<>>
    <2>1. Len(behind) # 0
      BY <1>1, <1>4
    <2>2. QED BY <2>1, EmptySeq
  <1>6. own = before \o behind
    <2>1. /\ 1 \in 1 .. n + 1 /\ k - 1 \in 1 - 1 .. n /\ n \in k - 1 .. n /\ (k - 1) + 1 = k
      BY <1>1
    <2>2. SubSeq(own, 1, k - 1) \o SubSeq(own, (k - 1) + 1, n) = SubSeq(own, 1, n)
      BY <2>1, ConcatAdjacentSubSeq
    <2>3. SubSeq(own, 1, n) = own
      BY SubSeqFull
    <2>4. QED BY <2>1, <2>2, <2>3
  <1>7. SubSeq(all, 1, k - 1) = before
    <2>1. CASE k = 1
      <3>1. k - 1 \in Int /\ k - 1 < 1
        BY <2>1
      <3>2. QED BY <3>1, SubSeqEmpty
    <2>2. CASE k # 1
      <3>1. 1 \in 1 .. n /\ k - 1 \in 1 .. n
        BY <1>1, <2>2
      <3>2. QED BY <3>1, SubSeqOfConcat1
    <2>3. QED BY <2>1, <2>2
  <1>8. SubSeq(all, k, Len(all)) = behind \o rest
    <2> DEFINE e == n + m
               x == SubSeq(all, k, e)
               y == behind \o rest
    <2>0. e \in Int /\ k \in Int /\ k <= e /\ e = n + m /\ Len(all) = e
      BY <1>1, <1>2
    <2> HIDE DEF behind, all, n, m, e
    <2>1. /\ x \in Seq(Labels) /\ Len(x) = e - k + 1
          /\ \A i \in 1 .. e - k + 1 : x[i] = all[k + i - 1]
      <3>1. ASSUME NEW i \in k .. e PROVE all[i] \in Labels
        <4>1. i \in 1 .. Len(all)
          BY <1>1, <2>0
        <4>2. QED BY <4>1, <1>2, ElementOfSeq
      <3>2. /\ SubSeq(all, k, e) \in Seq(Labels)
            /\ Len(SubSeq(all, k, e)) = IF k <= e THEN e - k + 1 ELSE 0
            /\ \A i \in 1 .. e - k + 1 : SubSeq(all, k, e)[i] = all[k + i - 1]
        BY <2>0, <3>1, SubSeqProperties
      <3>3. QED BY <2>0, <3>2
    <2>2. /\ y \in Seq(Labels) /\ Len(y) = Len(behind) + m
          /\ \A i \in 1 .. Len(behind) + m :
                y[i] = IF i <= Len(behind) THEN behind[i] ELSE rest[i - Len(behind)]
      BY <1>4, ConcatProperties DEF m
    <2>3. Len(x) = Len(y)
      BY <1>1, <1>4, <2>0, <2>1, <2>2
    <2>4. ASSUME NEW i \in 1 .. Len(x) PROVE x[i] = y[i]
      <3>1. /\ i \in 1 .. e - k + 1 /\ i \in 1 .. Len(behind) + m
            /\ k + i - 1 \in 1 .. n + m /\ Len(behind) = n - k + 1
        BY <1>1, <1>4, <2>0, <2>1
      <3>2. x[i] = IF k + i - 1 <= n THEN own[k + i - 1] ELSE rest[(k + i - 1) - n]
        BY <1>2, <2>1, <3>1
      <3>3. y[i] = IF i <= Len(behind) THEN behind[i] ELSE rest[i - Len(behind)]
        BY <2>2, <3>1
      <3>4. CASE i <= Len(behind)
        <4>1. k + i - 1 <= n /\ i \in 1 .. n - k + 1
          BY <1>1, <3>1, <3>4
        <4>2. QED BY <1>4, <3>2, <3>3, <3>4, <4>1
      <3>5. CASE ~(i <= Len(behind))
        <4>1. ~(k + i - 1 <= n) /\ (k + i - 1) - n = i - Len(behind)
          BY <1>1, <3>1, <3>5
        <4>2. QED BY <3>2, <3>3, <3>5, <4>1
      <3>6. QED BY <3>4, <3>5
    <2> HIDE DEF x, y
    <2>5. x = y
      BY <2>1, <2>2, <2>3, <2>4, SeqEqual
    <2>6. QED BY <2>0, <2>5 DEF x, y
  <1>9. QED
    BY <1>3, <1>4, <1>5, <1>6, <1>7, <1>8

\* What ends a name: a 0, or a pointer to the known name at offset t.
Pointer(t) == <<192 + t \div 256, t % 256>>

\* At z the name that starts at r ends, with the labels rest behind a pointer;
\* known names start in the message and stop takes their ends.  Pointers go to
\* names that end before this one starts.
Ending(m, known, stop, r, z, rest, end) ==
    \/ rest = <<>> /\ Holds(m, z, <<0>>) /\ end = z + 1
    \/ \E t \in DOMAIN known : /\ stop[t] <= r
                               /\ rest = known[t]
                               /\ Holds(m, z, Pointer(t))
                               /\ end = z + 2

\* The name labels is written from r up to end.
NameAt(m, known, stop, r, labels, end) ==
    \E own \in Seq(Labels), rest \in Seq(Labels) :
        /\ labels = own \o rest /\ labels # <<>>
        /\ Holds(m, r, Wire(own))
        /\ Ending(m, known, stop, r, r + Len(Wire(own)), rest, end)

\* All known names are where they should be.
Known(m, known, stop) ==
    /\ m \in Seq(Nat)
    /\ DOMAIN known \subseteq Nat
    /\ stop \in [DOMAIN known -> Nat]
    /\ \A o \in DOMAIN known : /\ known[o] \in Seq(Labels)
                               /\ NameAt(m, known, stop, o, known[o], stop[o])

\* The two bytes of a pointer.
LEMMA PointerIs ==
    ASSUME NEW t \in Nat
    PROVE  /\ Pointer(t) \in Seq(Nat) /\ Len(Pointer(t)) = 2
           /\ Pointer(t)[1] >= 192 /\ Pointer(t)[1] \in Nat
           /\ Pointer(t)[1] * 256 + Pointer(t)[2] - 49152 = t
  <1>1. t \div 256 \in Nat /\ t % 256 \in 0 .. 255 /\ t = 256 * (t \div 256) + (t % 256)
    OBVIOUS
  <1>2. QED
    BY <1>1 DEF Pointer

\* A name has at least one byte.
LEMMA NameEnds ==
    ASSUME NEW m \in Seq(Nat), NEW known, NEW stop, NEW r \in Nat, NEW labels, NEW end,
           DOMAIN known \subseteq Nat, NameAt(m, known, stop, r, labels, end)
    PROVE  /\ labels \in Seq(Labels) /\ labels # <<>>
           /\ end \in Nat /\ r < end /\ end <= Len(m)
  <1>1. PICK own \in Seq(Labels), rest \in Seq(Labels) :
           /\ labels = own \o rest /\ labels # <<>>
           /\ Holds(m, r, Wire(own))
           /\ Ending(m, known, stop, r, r + Len(Wire(own)), rest, end)
    BY DEF NameAt
  <1>2. labels \in Seq(Labels)
    BY <1>1, ConcatProperties
  <1> DEFINE z == r + Len(Wire(own))
  <1>3. z \in Nat /\ r <= z /\ Len(m) \in Nat
    BY WireBytes
  <1> HIDE DEF z
  <1>4. CASE Holds(m, z, <<0>>) /\ end = z + 1
    <2>1. Len(<<0>>) = 1
      OBVIOUS
    <2>2. z + 1 <= Len(m)
      BY <1>4, <2>1 DEF Holds
    <2>3. QED BY <1>1, <1>2, <1>3, <1>4, <2>2
  <1>5. ASSUME NEW t \in DOMAIN known, Holds(m, z, Pointer(t)), end = z + 2
        PROVE  end \in Nat /\ r < end /\ end <= Len(m)
    <2>1. Len(Pointer(t)) = 2
      BY PointerIs
    <2>2. z + 2 <= Len(m)
      BY <1>5, <2>1 DEF Holds
    <2>3. QED BY <1>3, <1>5, <2>2
  <1>6. QED
    BY <1>1, <1>2, <1>4, <1>5 DEF Ending, z

\* A name stays where it is when the message goes on and more names are known.
LEMMA NameStays ==
    ASSUME NEW m \in Seq(Nat), NEW x \in Seq(Nat), NEW known, NEW stop, NEW more, NEW far,
           DOMAIN known \subseteq Nat,
           \A t \in DOMAIN known : /\ t \in DOMAIN more
                                   /\ more[t] = known[t] /\ far[t] = stop[t],
           NEW r \in Nat, NEW labels, NEW end, NameAt(m, known, stop, r, labels, end)
    PROVE  NameAt(m \o x, more, far, r, labels, end)
  <1>1. PICK own \in Seq(Labels), rest \in Seq(Labels) :
           /\ labels = own \o rest /\ labels # <<>>
           /\ Holds(m, r, Wire(own))
           /\ Ending(m, known, stop, r, r + Len(Wire(own)), rest, end)
    BY DEF NameAt
  <1> DEFINE z == r + Len(Wire(own))
  <1>2. Wire(own) \in Seq(Nat) /\ z \in Nat
    BY WireBytes
  <1>3. Holds(m \o x, r, Wire(own))
    BY <1>1, <1>2, HoldsLonger
  <1> HIDE DEF z
  <1>4. Ending(m \o x, more, far, r, z, rest, end)
    <2>1. CASE rest = <<>> /\ Holds(m, z, <<0>>) /\ end = z + 1
      <3>1. <<0>> \in Seq(Nat)
        OBVIOUS
      <3>2. Holds(m \o x, z, <<0>>)
        BY <1>2, <2>1, <3>1, HoldsLonger
      <3>3. QED BY <2>1, <3>2 DEF Ending
    <2>2. ASSUME NEW t \in DOMAIN known, stop[t] <= r, rest = known[t],
                 Holds(m, z, Pointer(t)), end = z + 2
          PROVE  Ending(m \o x, more, far, r, z, rest, end)
      <3>1. Pointer(t) \in Seq(Nat)
        BY PointerIs
      <3>2. Holds(m \o x, z, Pointer(t))
        BY <1>2, <2>2, <3>1, HoldsLonger
      <3>3. t \in DOMAIN more /\ far[t] <= r /\ rest = more[t]
        BY <2>2
      <3>4. QED BY <2>2, <3>2, <3>3 DEF Ending
    <2>3. QED
      BY <1>1, <2>1, <2>2 DEF Ending, z
  <1>5. QED
    BY <1>1, <1>3, <1>4 DEF NameAt, z

\* So do all known names.
LEMMA KnownStay ==
    ASSUME NEW m, NEW known, NEW stop, Known(m, known, stop), NEW x \in Seq(Nat)
    PROVE  Known(m \o x, known, stop)
  <1>1. m \in Seq(Nat) /\ DOMAIN known \subseteq Nat
    BY DEF Known
  <1>2. m \o x \in Seq(Nat)
    BY <1>1, ConcatProperties
  <1>3. ASSUME NEW o \in DOMAIN known
        PROVE  NameAt(m \o x, known, stop, o, known[o], stop[o])
    <2>1. o \in Nat /\ NameAt(m, known, stop, o, known[o], stop[o])
      BY <1>1 DEF Known
    <2>2. QED BY <1>1, <2>1, NameStays
  <1>4. QED
    BY <1>2, <1>3 DEF Known

\* An end of the name own \o rest that starts at offset r starts at o.
EndOfName(r, own, rest, o) ==
    \E before \in Seq(Labels), behind \in Seq(Labels) :
        /\ behind # <<>> /\ own = before \o behind
        /\ o = r + Len(Wire(before))
        /\ Starts(r, own \o rest, Len(own))[o] = behind \o rest

\* Where a new name makes names known, and which.
LEMMA StartsAre ==
    ASSUME NEW r \in Nat, NEW own \in Seq(Labels), NEW rest \in Seq(Labels),
           NEW o \in DOMAIN Starts(r, own \o rest, Len(own))
    PROVE  EndOfName(r, own, rest, o)
  <1> DEFINE all == own \o rest
             S == Starts(r, all, Len(own))
             At(n) == o = r + Len(Wire(SubSeq(all, 1, n - 1)))
             k == CHOOSE n \in 1 .. Len(own) : At(n)
  <1>1. DOMAIN S = {r + Len(Wire(SubSeq(all, 1, n - 1))) : n \in 1 .. Len(own)}
    BY DEF Starts
  <1>2. \E n \in 1 .. Len(own) : At(n)
    BY <1>1
  <1>3. S[o] = SubSeq(all, k, Len(all))
    BY DEF Starts
  <1> HIDE DEF S
  <1>4. k \in 1 .. Len(own) /\ At(k)
    <2> HIDE DEF At
    <2>1. QED BY <1>2
  <1> HIDE DEF k
  <1> DEFINE before == SubSeq(own, 1, k - 1)
             behind == SubSeq(own, k, Len(own))
  <1>5. /\ before \in Seq(Labels) /\ behind \in Seq(Labels) /\ behind # <<>>
        /\ own = before \o behind
        /\ SubSeq(all, 1, k - 1) = before
        /\ SubSeq(all, k, Len(all)) = behind \o rest
    BY <1>4, Suffix
  <1> HIDE DEF all, before, behind
  <1>6. o = r + Len(Wire(before)) /\ S[o] = behind \o rest
    BY <1>3, <1>4, <1>5
  <1>7. QED
    BY <1>5, <1>6 DEF S, all, EndOfName

\* new is m with a name behind it, and more are the names known then.
Grown(m, known, stop, new, more, labels) ==
    \E far : /\ Known(new, more, far)
             /\ NameAt(new, more, far, Len(m), labels, Len(new))
             /\ \A t \in DOMAIN known : /\ t \in DOMAIN more
                                        /\ more[t] = known[t] /\ far[t] = stop[t]

\* bytes are the labels own, and then the end of the name or a pointer to a
\* known name, rest.
Spells(bytes, own, rest, known) ==
    \/ rest = <<>> /\ bytes = Wire(own) \o <<0>>
    \/ \E t \in DOMAIN known : rest = known[t] /\ bytes = Wire(own) \o Pointer(t)

\* A name is written behind the message: it and its ends become known.
LEMMA NameAdded ==
    ASSUME NEW m, NEW known, NEW stop, Known(m, known, stop),
           NEW own \in Seq(Labels), NEW rest \in Seq(Labels), own \o rest # <<>>,
           NEW bytes, Spells(bytes, own, rest, known)
    PROVE  /\ bytes \in Seq(Nat)
           /\ Grown(m, known, stop, m \o bytes,
                    Extend(known, Starts(Len(m), own \o rest, Len(own))), own \o rest)
  <1> DEFINE r == Len(m)
             w == Wire(own)
             all == own \o rest
             new == m \o bytes
             add == Starts(r, all, Len(own))
             more == Extend(known, add)
             far == [o \in DOMAIN more |-> IF o \in DOMAIN known THEN stop[o] ELSE Len(new)]
  <1>1. /\ m \in Seq(Nat) /\ DOMAIN known \subseteq Nat /\ r \in Nat
        /\ stop \in [DOMAIN known -> Nat]
        /\ \A o \in DOMAIN known : /\ known[o] \in Seq(Labels)
                                   /\ NameAt(m, known, stop, o, known[o], stop[o])
    BY LenProperties DEF Known
  <1>2. w \in Seq(Nat) /\ Len(w) \in Nat
    BY WireBytes
  <1>3. /\ DOMAIN more = DOMAIN known \cup DOMAIN add
        /\ \A o \in DOMAIN more : more[o] = IF o \in DOMAIN known THEN known[o] ELSE add[o]
    BY DEF Extend
  <1>4. \A t \in DOMAIN known : t \in DOMAIN more /\ more[t] = known[t] /\ far[t] = stop[t]
    BY <1>3
  <1>5. \A t \in DOMAIN known : t \in Nat /\ far[t] \in Nat /\ far[t] <= r
    <2>1. ASSUME NEW t \in DOMAIN known PROVE t \in Nat /\ stop[t] \in Nat /\ stop[t] <= r
      <3>1. t \in Nat /\ NameAt(m, known, stop, t, known[t], stop[t])
        BY <1>1
      <3>2. QED BY <1>1, <3>1, NameEnds
    <2>2. QED BY <1>4, <2>1
  <1>6. \E term \in Seq(Nat) :
           /\ bytes = w \o term
           /\ \/ rest = <<>> /\ term = <<0>> /\ Len(term) = 1
              \/ \E t \in DOMAIN known : rest = known[t] /\ term = Pointer(t) /\ Len(term) = 2
    <2>1. CASE rest = <<>> /\ bytes = Wire(own) \o <<0>>
      <3>1. <<0>> \in Seq(Nat) /\ Len(<<0>>) = 1
        OBVIOUS
      <3>2. QED BY <2>1, <3>1
    <2>2. ASSUME NEW t \in DOMAIN known, rest = known[t], bytes = Wire(own) \o Pointer(t)
          PROVE  \E term \in Seq(Nat) :
                   /\ bytes = w \o term
                   /\ \E u \in DOMAIN known : rest = known[u] /\ term = Pointer(u) /\ Len(term) = 2
      <3>0. t \in Nat
        BY <1>1
      <3>1. Pointer(t) \in Seq(Nat) /\ Len(Pointer(t)) = 2
        BY <3>0, PointerIs
      <3>2. QED BY <2>2, <3>1
    <2> HIDE DEF w
    <2>3. QED BY <2>1, <2>2 DEF Spells
  <1>7. PICK term \in Seq(Nat) :
           /\ bytes = w \o term
           /\ \/ rest = <<>> /\ term = <<0>> /\ Len(term) = 1
              \/ \E t \in DOMAIN known : rest = known[t] /\ term = Pointer(t) /\ Len(term) = 2
    BY <1>6
  <1>8. bytes \in Seq(Nat) /\ Len(bytes) = Len(w) + Len(term)
    BY <1>2, <1>7, ConcatProperties
  <1>9. new \in Seq(Nat) /\ Len(new) = (r + Len(w)) + Len(term)
    <2>1. new \in Seq(Nat) /\ Len(new) = r + Len(bytes)
      BY <1>1, <1>8, ConcatProperties
    <2>2. Len(term) \in Nat
      BY LenProperties
    <2>3. QED BY <1>1, <1>2, <1>8, <2>1, <2>2
  <1>10. Holds(new, r, w) /\ Holds(new, r + Len(w), term)
    <2>1. Holds(new, r, bytes)
      BY <1>1, <1>8, HoldsEnd
    <2> HIDE DEF new, r, w
    <2>2. Holds(new, r, w \o term)
      BY <1>7, <2>1
    <2>3. QED BY <1>1, <1>2, <1>9, <2>2, HoldsParts
  <1> DEFINE z == r + Len(w)
  <1> HIDE DEF new, add, more, far, r, w, z
  <1>11. ASSUME NEW q \in Nat, q >= r PROVE Ending(new, more, far, q, z, rest, Len(new))
    <2>1. CASE rest = <<>> /\ term = <<0>> /\ Len(term) = 1
      BY <1>9, <1>10, <2>1 DEF Ending, z
    <2>2. ASSUME NEW t \in DOMAIN known, rest = known[t], term = Pointer(t), Len(term) = 2
          PROVE  Ending(new, more, far, q, z, rest, Len(new))
      <3>1. t \in DOMAIN more /\ far[t] <= q /\ rest = more[t]
        BY <1>1, <1>4, <1>5, <1>11, <2>2
      <3>2. Len(new) = z + 2 /\ Holds(new, z, Pointer(t))
        BY <1>9, <1>10, <2>2 DEF z
      <3>3. QED BY <3>1, <3>2 DEF Ending
    <2>3. QED BY <1>7, <2>1, <2>2
  <1>12. NameAt(new, more, far, r, all, Len(new))
    <2>1. Ending(new, more, far, r, z, rest, Len(new))
      BY <1>1, <1>11
    <2>2. all # <<>>
      OBVIOUS
    <2>3. Ending(new, more, far, r, r + Len(Wire(own)), rest, Len(new)) /\ Holds(new, r, Wire(own))
      BY <1>10, <2>1 DEF z, w
    <2>4. QED BY <2>2, <2>3 DEF NameAt
  <1>13. ASSUME NEW o \in DOMAIN add
         PROVE  /\ o \in Nat /\ add[o] \in Seq(Labels)
                /\ NameAt(new, more, far, o, add[o], Len(new))
    <2>1. PICK before \in Seq(Labels), behind \in Seq(Labels) :
              /\ behind # <<>> /\ own = before \o behind
              /\ o = r + Len(Wire(before))
              /\ add[o] = behind \o rest
      <3>1. r \in Nat
        BY <1>1
      <3>2. add = Starts(r, own \o rest, Len(own))
        BY DEF add, all
      <3>3. o \in DOMAIN Starts(r, own \o rest, Len(own))
        BY <3>2
      <3> HIDE DEF r, add
      <3>4. EndOfName(r, own, rest, o)
        BY <3>1, <3>3, StartsAre, Zenon
      <3>5. QED BY <3>2, <3>4, Zenon DEF EndOfName
    <2> DEFINE p == Wire(before)
               q == Wire(behind)
    <2>2. p \in Seq(Nat) /\ q \in Seq(Nat) /\ Len(p) \in Nat /\ Len(q) \in Nat
      BY WireBytes
    <2>3. w = p \o q
      BY <2>1, WireConcat DEF w
    <2> HIDE DEF p, q
    <2>4. Len(w) = Len(p) + Len(q)
      BY <2>2, <2>3, ConcatProperties
    <2>5. o = r + Len(p) /\ o \in Nat /\ o >= r /\ z = o + Len(q)
      <3>1. o = r + Len(p)
        BY <2>1 DEF p
      <3>2. QED BY <1>1, <2>2, <2>4, <3>1 DEF z
    <2>6. Holds(new, o, q)
      <3>1. Holds(new, r, p \o q)
        BY <1>10, <2>3
      <3>2. Holds(new, r + Len(p), q)
        BY <1>1, <1>9, <2>2, <3>1, HoldsParts
      <3>3. QED BY <2>5, <3>2
    <2>7. Ending(new, more, far, o, z, rest, Len(new))
      BY <1>11, <2>5
    <2>8. behind \o rest \in Seq(Labels) /\ behind \o rest # <<>>
      <3>1. behind \o rest \in Seq(Labels)
        BY ConcatProperties
      <3>2. behind \o rest = <<>> => behind = <<>>
        BY ConcatEqualIffEmpty
      <3>3. QED BY <2>1, <3>1, <3>2
    <2>9. NameAt(new, more, far, o, behind \o rest, Len(new))
      <3>1. Holds(new, o, Wire(behind))
        BY <2>6 DEF q
      <3>2. Ending(new, more, far, o, o + Len(Wire(behind)), rest, Len(new))
        BY <2>5, <2>7 DEF q
      <3>3. QED BY <2>8, <3>1, <3>2 DEF NameAt
    <2>10. QED BY <2>1, <2>5, <2>8, <2>9
  <1>14. ASSUME NEW o \in DOMAIN known
         PROVE  NameAt(new, more, far, o, known[o], stop[o])
    <2>1. o \in Nat /\ NameAt(m, known, stop, o, known[o], stop[o])
      BY <1>1
    <2>2. NameAt(m \o bytes, more, far, o, known[o], stop[o])
      BY <1>1, <1>4, <1>8, <2>1, NameStays
    <2>3. QED BY <2>2 DEF new
  <1>15. Known(new, more, far)
    <2>1. DOMAIN more \subseteq Nat
      BY <1>1, <1>3, <1>13
    <2>2. DOMAIN far = DOMAIN more /\ far = [o \in DOMAIN more |-> far[o]]
      BY DEF far
    <2>3. \A o \in DOMAIN more : far[o] = IF o \in DOMAIN known THEN stop[o] ELSE Len(new)
      BY DEF far
    <2>4. Len(new) \in Nat
      BY <1>9, LenProperties
    <2>5. ASSUME NEW o \in DOMAIN more
          PROVE  /\ far[o] \in Nat /\ more[o] \in Seq(Labels)
                 /\ NameAt(new, more, far, o, more[o], far[o])
      <3>1. CASE o \in DOMAIN known
        BY <1>1, <1>4, <1>5, <1>14, <3>1
      <3>2. CASE o \notin DOMAIN known
        <4>1. o \in DOMAIN add /\ more[o] = add[o] /\ far[o] = Len(new)
          BY <1>3, <2>3, <3>2
        <4>2. QED BY <1>13, <2>4, <4>1
      <3>3. QED BY <3>1, <3>2
    <2>6. far \in [DOMAIN more -> Nat]
      BY <2>2, <2>5
    <2>7. QED BY <1>9, <2>1, <2>5, <2>6 DEF Known
  <1>16. QED
    BY <1>4, <1>8, <1>12, <1>15 DEF Grown, new, more, add, r

\* The states of the loop of uncompress_name, turn after turn.
Turns(T, reader, m) ==
    T = [n \in 0 .. Len(m) |->
            IF n = 0 THEN [reader |-> reader, name |-> <<>>, jumped |-> FALSE, count |-> 1]
            ELSE Turn(T[n - 1], m)]

\* There are such states.
LEMMA TurnsExist ==
    ASSUME NEW reader, NEW m, Len(m) \in Nat
    PROVE  \E T : Turns(T, reader, m)
  <1> DEFINE N == Len(m)
             first == [reader |-> reader, name |-> <<>>, jumped |-> FALSE, count |-> 1]
             Next1(s) == Turn(s, m)
             Def(f, i) == IF i = 0 THEN first ELSE Next1(f[i - 1])
             UpTo(k) == \E f : /\ f = [i \in 0 .. N |-> f[i]]
                               /\ \A i \in 0 .. N : i <= k => f[i] = Def(f, i)
             Good == {k \in 0 .. N : UpTo(k)}
  <1>0. N \in Nat
    OBVIOUS
  <1> HIDE DEF N, first, Next1
  <1>1. UpTo(0)
    <2> DEFINE f == [i \in 0 .. N |-> first]
    <2>1. f = [i \in 0 .. N |-> f[i]]
      OBVIOUS
    <2>2. \A i \in 0 .. N : i <= 0 => f[i] = Def(f, i)
      BY <1>0
    <2> HIDE DEF f, Def
    <2>3. QED BY <2>1, <2>2
  <1>2. ASSUME NEW k \in 0 .. N - 1, UpTo(k)
        PROVE  UpTo(k + 1)
    <2>1. PICK f : /\ f = [i \in 0 .. N |-> f[i]]
                   /\ \A i \in 0 .. N : i <= k => f[i] = Def(f, i)
      BY <1>2
    <2> DEFINE e == [i \in 0 .. N |-> IF i = k + 1 THEN Def(f, i) ELSE f[i]]
    <2>2. \A i \in 0 .. N : e[i] = IF i = k + 1 THEN Def(f, i) ELSE f[i]
      OBVIOUS
    <2>3. e = [i \in 0 .. N |-> e[i]]
      OBVIOUS
    <2>4. \A i \in 0 .. N : i <= k => f[i] = Def(f, i)
      BY <2>1
    <2> HIDE DEF e
    <2>5. ASSUME NEW i \in 0 .. N, i <= k + 1 PROVE e[i] = Def(e, i)
      <3>1. e[i] = Def(f, i)
        <4>1. i = k + 1 \/ i <= k
          BY <1>0, <2>5
        <4>2. i <= k => i # k + 1
          BY <1>0
        <4> HIDE DEF Def
        <4>3. QED
          BY <2>2, <2>4, <4>1, <4>2
      <3>2. i # 0 => e[i - 1] = f[i - 1]
        <4>1. i # 0 => i - 1 \in 0 .. N /\ i - 1 # k + 1
          BY <1>0, <2>5
        <4>2. QED
          BY <2>2, <4>1
      <3>3. QED
        BY <3>1, <3>2
    <2> HIDE DEF Def
    <2>6. QED
      BY <2>3, <2>5
  <1>3. UpTo(N)
    <2> HIDE DEF UpTo
    <2>1. Good # {} /\ Good \subseteq 0 .. N
      BY <1>0, <1>1
    <2>2. PICK k \in Good : \A j \in Good : j <= k
      BY <1>0, <2>1, Greatest
    <2>3. k = N
      <3> SUFFICES ASSUME k # N PROVE FALSE
        OBVIOUS
      <3>1. k \in 0 .. N - 1 /\ UpTo(k) /\ k \in Nat
        BY <1>0, <2>2
      <3>2. UpTo(k + 1) /\ k + 1 \in 0 .. N
        BY <1>0, <1>2, <3>1
      <3>3. k + 1 \in Good
        BY <3>2
      <3>4. k + 1 <= k
        BY <2>2, <3>3
      <3>5. QED BY <3>1, <3>4
    <2>4. QED BY <2>2, <2>3
  <1>4. PICK f : /\ f = [i \in 0 .. N |-> f[i]]
                 /\ \A i \in 0 .. N : i <= N => f[i] = Def(f, i)
    BY <1>3
  <1>5. f = [i \in 0 .. N |-> Def(f, i)]
    <2> HIDE DEF Def
    <2>1. \A i \in 0 .. N : f[i] = Def(f, i)
      BY <1>0, <1>4
    <2>2. QED BY <1>4, <2>1
  <1>6. Turns(f, reader, m)
    BY <1>5 DEF Turns, N, first, Next1
  <1>7. QED
    BY <1>6

\* What Collected returns is the last of them.
LEMMA CollectedIs ==
    ASSUME NEW reader, NEW m, Len(m) \in Nat
    PROVE  \E T : Turns(T, reader, m) /\ Collected(reader, m) = T[Len(m)]
  <1> DEFINE turns == CHOOSE f : f = [n \in 0 .. Len(m) |->
                 IF n = 0 THEN [reader |-> reader, name |-> <<>>, jumped |-> FALSE, count |-> 1]
                 ELSE Turn(f[n - 1], m)]
  <1>1. \E T : Turns(T, reader, m)
    BY TurnsExist
  <1>2. Turns(turns, reader, m)
    BY <1>1, Zenon DEF Turns
  <1>3. Collected(reader, m) = turns[Len(m)]
    BY DEF Collected
  <1> HIDE DEF turns
  <1>4. QED
    BY <1>2, <1>3

\* A state of the loop.
Reading(r, name, j, c) == [reader |-> r, name |-> name, jumped |-> j, count |-> c]

\* The two bytes at r are a pointer to t.
PointsTo(m, r, t) == /\ m[r + 1] \in Nat /\ m[r + 1] >= 192
                     /\ m[r + 1] * 256 + m[r + 2] - 49152 = t

\* The three kinds of turns.
LEMMA TurnZero ==
    ASSUME NEW m, NEW r, NEW name, NEW j, NEW c, m[r + 1] = 0
    PROVE  Turn(Reading(r, name, j, c), m) = Reading(r, name, j, c)
  BY DEF Turn, Reading

LEMMA TurnPointer ==
    ASSUME NEW m, NEW r, NEW name, NEW j, NEW c, NEW t, PointsTo(m, r, t)
    PROVE  \E on \in BOOLEAN : on /\ Turn(Reading(r, name, j, c), m) = Reading(t, name, on, c)
  <1> DEFINE s == Reading(r, name, j, c)
             b == m[r + 1]
             to == b * 256 + m[r + 2] - 49152
  <1>1. s.reader = r /\ s.name = name /\ s.jumped = j /\ s.count = c
    BY DEF Reading
  <1>2. b # 0 /\ b >= 192 /\ to = t
    BY DEF PointsTo
  <1>3. Turn(s, m) = [s EXCEPT !.reader = to, !.jumped = TRUE]
    BY <1>1, <1>2 DEF Turn
  <1> HIDE DEF to
  <1>4. PICK on \in BOOLEAN : on
    OBVIOUS
  <1>5. Turn(s, m) = Reading(to, name, on, c)
    BY <1>3, <1>4 DEF Reading
  <1>6. QED
    BY <1>2, <1>4, <1>5, Zenon

LEMMA TurnByte ==
    ASSUME NEW m, NEW r, NEW name, NEW j \in BOOLEAN, NEW c, m[r + 1] \in 1 .. 191
    PROVE  Turn(Reading(r, name, j, c), m)
              = Reading(r + 1, Append(name, m[r + 1]), j, IF j THEN c ELSE c + 1)
  <1> DEFINE s == Reading(r, name, j, c)
             b == m[r + 1]
  <1>1. s.reader = r /\ s.name = name /\ s.jumped = j /\ s.count = c
    BY DEF Reading
  <1>2. b # 0 /\ ~(b >= 192)
    OBVIOUS
  <1>3. Turn(s, m) = [s EXCEPT !.reader = @ + 1, !.name = Append(@, b),
                               !.count = IF s.jumped THEN @ ELSE @ + 1]
    BY <1>1, <1>2 DEF Turn
  <1>4. QED
    BY <1>1, <1>3 DEF Reading

\* A turn follows a turn.
LEMMA NextTurn ==
    ASSUME NEW T, NEW reader, NEW m \in Seq(Nat), Turns(T, reader, m),
           NEW n \in Nat, n + 1 <= Len(m)
    PROVE  T[n + 1] = Turn(T[n], m)
  <1>1. Len(m) \in Nat /\ n + 1 \in 0 .. Len(m) /\ n + 1 # 0 /\ (n + 1) - 1 = n
    BY LenProperties
  <1> DEFINE Def(i) == IF i = 0 THEN [reader |-> reader, name |-> <<>>,
                                      jumped |-> FALSE, count |-> 1]
                       ELSE Turn(T[i - 1], m)
  <1>2. T = [i \in 0 .. Len(m) |-> Def(i)]
    BY DEF Turns
  <1>3. T[n + 1] = Def(n + 1)
    <2> HIDE DEF Def
    <2>1. QED BY <1>1, <1>2
  <1>4. QED
    BY <1>1, <1>3

\* A 0 is where the loop stays.
LEMMA LastTurn ==
    ASSUME NEW T, NEW reader, NEW m \in Seq(Nat), Turns(T, reader, m),
           NEW p \in 0 .. Len(m), NEW q, NEW name, NEW j, NEW c,
           T[p] = Reading(q, name, j, c), m[q + 1] = 0
    PROVE  T[Len(m)] = Reading(q, name, j, c)
  <1> DEFINE N == Len(m)
             s == Reading(q, name, j, c)
             Bad == {i \in 0 .. N : i >= p /\ T[i] # s}
  <1>1. N \in Nat /\ p \in Nat /\ p <= N
    BY LenProperties
  <1>2. Turn(s, m) = s
    BY TurnZero
  <1> HIDE DEF s
  <1>3. T[p] = s
    BY DEF s
  <1>4. Bad = {}
    <2>1. SUFFICES ASSUME Bad # {} PROVE FALSE
      OBVIOUS
    <2>2. Bad \subseteq Nat
      OBVIOUS
    <2>3. PICK i \in Bad : \A k \in Bad : i <= k
      BY <2>1, <2>2, Least
    <2>4. i \in 0 .. N /\ i >= p /\ T[i] # s
      BY <2>3
    <2>5. i - 1 \in 0 .. N /\ i - 1 >= p /\ i - 1 \notin Bad /\ i - 1 \in Nat
          /\ (i - 1) + 1 = i /\ i <= N
      BY <1>1, <1>3, <2>3, <2>4
    <2>6. T[i - 1] = s
      BY <2>5
    <2>7. T[(i - 1) + 1] = Turn(T[i - 1], m)
      BY <2>5, NextTurn
    <2>8. QED BY <1>2, <2>4, <2>5, <2>6, <2>7
  <1>5. N \in 0 .. N /\ N >= p
    BY <1>1
  <1>6. T[N] = s
    BY <1>4, <1>5
  <1>7. QED
    BY <1>6 DEF s

\* Bytes that are neither 0 nor a pointer are copied and, before the first
\* pointer, counted.
LEMMA CopiesBytes ==
    ASSUME NEW T, NEW reader, NEW m \in Seq(Nat), Turns(T, reader, m),
           NEW n \in Nat, NEW r \in Nat, NEW name \in Seq(Nat), NEW j \in BOOLEAN, NEW c \in Nat,
           T[n] = Reading(r, name, j, c),
           NEW s \in Seq(1 .. 191), Holds(m, r, s), n + Len(s) <= Len(m)
    PROVE  T[n + Len(s)] = Reading(r + Len(s), name \o s, j, IF j THEN c ELSE c + Len(s))
  <1> DEFINE S == Len(s)
             At(i) == Reading(r + i, name \o SubSeq(s, 1, i), j, IF j THEN c ELSE c + i)
             Bad == {i \in 0 .. S : T[n + i] # At(i)}
  <1>1. S \in Nat /\ Len(m) \in Nat /\ n + S <= Len(m)
    BY LenProperties
  <1>2. s \in Seq(Nat)
    <2>1. 1 .. 191 \subseteq Nat
      OBVIOUS
    <2>2. QED BY <2>1, SeqMonotonic
  <1>3. At(0) = Reading(r, name, j, c)
    <2>1. SubSeq(s, 1, 0) = <<>>
      BY SubSeqEmpty
    <2>2. name \o <<>> = name
      BY ConcatEmptySeq
    <2>3. r + 0 = r /\ c + 0 = c
      OBVIOUS
    <2>4. (IF j THEN c ELSE c + 0) = c
      BY <2>3
    <2>5. QED BY <2>1, <2>2, <2>3, <2>4
  <1>4. ASSUME NEW i \in 0 .. S - 1, T[n + i] = At(i)
        PROVE  T[n + (i + 1)] = At(i + 1)
    <2> DEFINE part == SubSeq(s, 1, i)
               b == m[(r + i) + 1]
               d == IF j THEN c ELSE c + i
    <2>1. /\ i \in Nat /\ i + 1 \in 1 .. S /\ n + i \in Nat /\ (n + i) + 1 <= Len(m)
          /\ (n + i) + 1 = n + (i + 1) /\ (r + i) + 1 = r + (i + 1) /\ (i + 1) - 1 = i
      BY <1>1
    <2>2. b = s[i + 1] /\ s[i + 1] \in 1 .. 191
      <3>1. m[r + (i + 1)] = s[i + 1]
        BY <2>1 DEF Holds
      <3>2. s[i + 1] \in 1 .. 191
        BY <2>1, ElementOfSeq
      <3>3. QED BY <2>1, <3>1, <3>2
    <2>3. T[(n + i) + 1] = Turn(T[n + i], m)
      BY <2>1, NextTurn
    <2> HIDE DEF b
    <2>4. Turn(Reading(r + i, name \o part, j, d), m)
            = Reading((r + i) + 1, Append(name \o part, b), j, IF j THEN d ELSE d + 1)
      <3> DEFINE x == r + i
                 y == name \o part
      <3> HIDE DEF x, y, d
      <3>1. m[x + 1] \in 1 .. 191 /\ b = m[x + 1]
        BY <2>2 DEF b, x
      <3>2. Turn(Reading(x, y, j, d), m)
              = Reading(x + 1, Append(y, m[x + 1]), j, IF j THEN d ELSE d + 1)
        BY <3>1, TurnByte
      <3>3. QED BY <3>1, <3>2 DEF x, y
    <2>5. part \in Seq(Nat)
      <3>1. \A k \in 1 .. i : s[k] \in Nat
        <4>1. ASSUME NEW k \in 1 .. i PROVE s[k] \in Nat
          <5>1. k \in 1 .. Len(s)
            BY <1>1, <2>1
          <5>2. QED BY <1>2, <5>1, ElementOfSeq
        <4>2. QED BY <4>1
      <3>2. QED BY <2>1, <3>1, SubSeqProperties
    <2>6. SubSeq(s, 1, i + 1) = part \o <<b>>
      <3>1. 1 \in 1 .. S /\ i + 1 \in 1 .. S
        BY <1>1, <2>1
      <3>2. SubSeq(s, 1, i + 1) = SubSeq(s, 1, (i + 1) - 1) \o <<s[i + 1]>>
        BY <3>1, SubSeqRecursiveSecond
      <3>3. QED BY <2>1, <2>2, <3>2
    <2>7. Append(name \o part, b) = name \o (part \o <<b>>)
      <3> HIDE DEF part
      <3>0. b \in Nat
        <4>1. b \in 1 .. 191
          BY <2>2, Zenon
        <4>2. QED BY <4>1
      <3>1. b \in Nat /\ name \o part \in Seq(Nat)
        BY <2>5, <3>0, ConcatProperties
      <3>2. Append(name \o part, b) = (name \o part) \o <<b>>
        BY <3>1, AppendIsConcat
      <3>3. <<b>> \in Seq(Nat)
        BY <3>1
      <3>4. name \o (part \o <<b>>) = (name \o part) \o <<b>>
        BY <2>5, <3>3, Assoc
      <3>5. QED BY <3>2, <3>4
    <2>8. (IF j THEN d ELSE d + 1) = (IF j THEN c ELSE c + (i + 1))
      BY <2>1
    <2>9. QED
      BY <1>4, <2>1, <2>3, <2>4, <2>6, <2>7, <2>8
  <1>5. Bad = {}
    <2>1. SUFFICES ASSUME Bad # {} PROVE FALSE
      OBVIOUS
    <2> HIDE DEF At
    <2>2. Bad \subseteq Nat
      OBVIOUS
    <2>3. PICK i \in Bad : \A k \in Bad : i <= k
      BY <2>1, <2>2, Least
    <2>4. i \in 0 .. S /\ T[n + i] # At(i)
      BY <2>3
    <2>5. i # 0
      BY <1>3, <2>4
    <2>6. /\ i - 1 \in 0 .. S - 1 /\ i - 1 \in 0 .. S /\ i - 1 \notin Bad
          /\ (i - 1) + 1 = i
      BY <1>1, <2>3, <2>4, <2>5
    <2>7. T[n + (i - 1)] = At(i - 1)
      BY <2>6
    <2>8. T[n + ((i - 1) + 1)] = At((i - 1) + 1)
      BY <1>4, <2>6, <2>7
    <2>9. QED BY <2>4, <2>6, <2>8
  <1>6. S \in 0 .. S
    BY <1>1
  <1>7. T[n + S] = At(S)
    BY <1>5, <1>6
  <1>8. SubSeq(s, 1, S) = s
    BY SubSeqFull
  <1>9. QED
    BY <1>7, <1>8

\* The loop has stopped: from name, j and c at offset r, labels were collected
\* and, if no pointer was met before, the bytes up to end are counted (the second
\* byte of a pointer after the loop).
Stopped(T, m, r, name, j, c, labels, end) ==
    \E p \in 0 .. Len(m), q \in Nat, k \in BOOLEAN, d \in Nat :
        /\ m[q + 1] = 0
        /\ T[p] = Reading(q, name \o Wire(labels), k, d)
        /\ j => k /\ d = c
        /\ ~j => (IF k THEN d + 1 ELSE d) = c + (end - r) - 1

\* From offset r the loop collects labels and stops, if it has turns left for
\* the bytes before end.
Reads(T, m, r, labels, end) ==
    \A n \in Nat, name \in Seq(Nat), j \in BOOLEAN, c \in Nat :
        n + end <= Len(m) /\ T[n] = Reading(r, name, j, c) =>
            Stopped(T, m, r, name, j, c, labels, end)

\* A name is read if the names it may point to are.
LEMMA ReadsName ==
    ASSUME NEW T, NEW reader, NEW m, Turns(T, reader, m), NEW known, NEW stop,
           Known(m, known, stop), NEW r \in Nat, NEW labels, NEW end,
           NameAt(m, known, stop, r, labels, end),
           \A t \in DOMAIN known : stop[t] <= r => Reads(T, m, t, known[t], stop[t])
    PROVE  Reads(T, m, r, labels, end)
  <1>1. /\ m \in Seq(Nat) /\ DOMAIN known \subseteq Nat
        /\ stop \in [DOMAIN known -> Nat] /\ Len(m) \in Nat
        /\ \A o \in DOMAIN known : known[o] \in Seq(Labels)
    BY LenProperties DEF Known
  <1>2. end \in Nat /\ r < end /\ end <= Len(m)
    BY <1>1, NameEnds
  <1>3. PICK own \in Seq(Labels), rest \in Seq(Labels) :
           /\ labels = own \o rest /\ labels # <<>>
           /\ Holds(m, r, Wire(own))
           /\ Ending(m, known, stop, r, r + Len(Wire(own)), rest, end)
    BY DEF NameAt
  <1> DEFINE w == Wire(own)
             z == r + Len(w)
  <1>4. w \in Seq(1 .. 191) /\ w \in Seq(Nat) /\ Len(w) \in Nat /\ z \in Nat
    BY WireBytes
  <1>5. Wire(labels) = w \o Wire(rest) /\ Wire(rest) \in Seq(Nat)
    BY <1>3, WireConcat, WireBytes
  <1>6. Holds(m, r, w) /\ Ending(m, known, stop, r, z, rest, end)
    BY <1>3
  <1> HIDE DEF w
  <1> SUFFICES ASSUME NEW n \in Nat, NEW name \in Seq(Nat), NEW j \in BOOLEAN, NEW c \in Nat,
                      n + end <= Len(m), T[n] = Reading(r, name, j, c)
               PROVE  Stopped(T, m, r, name, j, c, labels, end)
    BY Zenon DEF Reads
  <1> DEFINE L == Len(w)
             e == IF j THEN c ELSE c + L
             far == n + L
             x == name \o w
  <1>7. L \in Nat /\ z = r + L
    BY <1>4
  <1> HIDE DEF L, z, x
  <1>8. end = z + 1 \/ end = z + 2
    BY <1>6 DEF Ending
  <1>9. far + 1 <= Len(m) /\ far \in 0 .. Len(m) /\ e \in Nat /\ far \in Nat
    BY <1>1, <1>2, <1>7, <1>8
  <1>10. T[far] = Reading(z, x, j, e)
    <2>1. n + Len(w) <= Len(m)
      BY <1>1, <1>7, <1>9 DEF L
    <2>2. T[n + Len(w)] = Reading(r + Len(w), name \o w, j, IF j THEN c ELSE c + Len(w))
      BY <1>1, <1>4, <1>6, <2>1, CopiesBytes
    <2>3. QED BY <2>2 DEF L, z, x
  <1>11. x \in Seq(Nat)
    BY <1>4, ConcatProperties DEF x
  <1>12. CASE rest = <<>> /\ Holds(m, z, <<0>>) /\ end = z + 1
    <2>1. m[z + 1] = 0
      <3>1. 1 \in 1 .. Len(<<0>>) /\ <<0>>[1] = 0
        OBVIOUS
      <3>2. QED BY <1>12, <3>1 DEF Holds
    <2>2. name \o Wire(labels) = x
      <3>1. w \o <<>> = w
        BY <1>4, ConcatEmptySeq
      <3>2. QED BY <1>5, <1>12, <3>1, WireEmpty DEF x
    <2>3. ~j => (IF j THEN e + 1 ELSE e) = c + (end - r) - 1
      BY <1>7, <1>12
    <2>4. ~j => e = c + (end - r) - 1
      BY <2>3
    <2>5. CASE j
      <3>1. T[far] = Reading(z, name \o Wire(labels), TRUE, c)
        BY <1>10, <2>2, <2>5
      <3>2. QED BY <1>4, <1>9, <2>1, <2>5, <3>1 DEF Stopped
    <2>6. CASE ~j
      <3>1. T[far] = Reading(z, name \o Wire(labels), FALSE, e)
        BY <1>10, <2>2, <2>6
      <3> HIDE DEF e, far
      <3>2. QED BY <1>4, <1>9, <2>1, <2>4, <2>6, <3>1 DEF Stopped
    <2>7. QED BY <2>5, <2>6
  <1>13. ASSUME NEW t \in DOMAIN known, stop[t] <= r, rest = known[t],
                Holds(m, z, Pointer(t)), end = z + 2
         PROVE  Stopped(T, m, r, name, j, c, labels, end)
    <2>0. t \in Nat /\ stop[t] \in Nat
      BY <1>1
    <2>1. PointsTo(m, z, t)
      <3>1. /\ Len(Pointer(t)) = 2 /\ Pointer(t)[1] >= 192 /\ Pointer(t)[1] \in Nat
            /\ Pointer(t)[1] * 256 + Pointer(t)[2] - 49152 = t
        BY <2>0, PointerIs
      <3>2. 1 \in 1 .. Len(Pointer(t)) /\ 2 \in 1 .. Len(Pointer(t))
        BY <3>1
      <3>3. m[z + 1] = Pointer(t)[1] /\ m[z + 2] = Pointer(t)[2]
        BY <1>13, <3>2 DEF Holds
      <3>4. QED BY <3>1, <3>3 DEF PointsTo
    <2>2. (far + 1) + stop[t] <= Len(m) /\ far + 1 \in Nat
      BY <1>1, <1>2, <1>7, <1>13, <2>0
    <2>3. ~j => e + 1 = c + (end - r) - 1
      BY <1>7, <1>13
    <2>4. j => e = c
      OBVIOUS
    <2> HIDE DEF e, far
    <2>5. T[far + 1] = Turn(T[far], m)
      BY <1>1, <1>9, NextTurn
    <2>6. PICK on \in BOOLEAN : on /\ Turn(Reading(z, x, j, e), m) = Reading(t, x, on, e)
      BY <2>1, TurnPointer
    <2>7. T[far + 1] = Reading(t, x, on, e)
      BY <1>10, <2>5, <2>6
    <2>8. Stopped(T, m, t, x, on, e, known[t], stop[t])
      <3>1. Reads(T, m, t, known[t], stop[t])
        BY <1>13
      <3>2. QED BY <1>9, <1>11, <2>2, <2>7, <3>1, Zenon DEF Reads
    <2>9. PICK p \in 0 .. Len(m), q \in Nat, k \in BOOLEAN, d \in Nat :
             /\ m[q + 1] = 0
             /\ T[p] = Reading(q, x \o Wire(known[t]), k, d)
             /\ k /\ d = e
      BY <2>6, <2>8, Zenon DEF Stopped
    <2>10. x \o Wire(known[t]) = name \o Wire(labels)
      <3> DEFINE y == Wire(rest)
      <3>1. y \in Seq(Nat)
        BY <1>5
      <3> HIDE DEF y
      <3>2. name \o (w \o y) = (name \o w) \o y
        BY <1>4, <3>1, Assoc
      <3>3. QED BY <1>5, <1>13, <3>2 DEF x, y
    <2>11. T[p] = Reading(q, name \o Wire(labels), k, d)
      BY <2>9, <2>10
    <2>12. j => d = c
      BY <2>4, <2>9
    <2>13. ~j => (IF k THEN d + 1 ELSE d) = c + (end - r) - 1
      BY <2>3, <2>9
    <2>14. j => k /\ d = c
      BY <2>9, <2>12
    <2>15. QED BY <2>9, <2>11, <2>13, <2>14, Zenon DEF Stopped
  <1>14. QED
    BY <1>6, <1>12, <1>13 DEF Ending

\* So every known name is read: pointers only lead down.
LEMMA ReadsKnown ==
    ASSUME NEW T, NEW reader, NEW m, Turns(T, reader, m), NEW known, NEW stop,
           Known(m, known, stop)
    PROVE  \A t \in DOMAIN known : Reads(T, m, t, known[t], stop[t])
  <1> DEFINE Bad == {t \in DOMAIN known : ~Reads(T, m, t, known[t], stop[t])}
  <1>1. /\ m \in Seq(Nat) /\ DOMAIN known \subseteq Nat
        /\ stop \in [DOMAIN known -> Nat]
        /\ \A o \in DOMAIN known : NameAt(m, known, stop, o, known[o], stop[o])
    BY DEF Known
  <1>2. Bad = {}
    <2>1. SUFFICES ASSUME Bad # {} PROVE FALSE
      OBVIOUS
    <2>2. Bad \subseteq Nat
      BY <1>1
    <2>3. PICK o \in Bad : \A t \in Bad : o <= t
      BY <2>1, <2>2, Least
    <2>4. o \in DOMAIN known /\ o \in Nat /\ ~Reads(T, m, o, known[o], stop[o])
      BY <1>1, <2>3
    <2>5. ASSUME NEW t \in DOMAIN known, stop[t] <= o
          PROVE  Reads(T, m, t, known[t], stop[t])
      <3>1. t \in Nat /\ stop[t] \in Nat /\ NameAt(m, known, stop, t, known[t], stop[t])
        BY <1>1
      <3>2. t < stop[t]
        BY <1>1, <3>1, NameEnds
      <3>3. ~(o <= t)
        BY <2>4, <2>5, <3>1, <3>2
      <3>4. t \notin Bad
        BY <2>3, <3>3
      <3>5. QED BY <3>4
    <2>6. NameAt(m, known, stop, o, known[o], stop[o])
      BY <1>1, <2>4
    <2>7. Reads(T, m, o, known[o], stop[o])
      BY <2>4, <2>5, <2>6, ReadsName
    <2>8. QED BY <2>4, <2>7
  <1>3. QED
    BY <1>2

\* uncompress_name returns the name at r and the bytes it takes there.
LEMMA Uncompresses ==
    ASSUME NEW m, NEW known, NEW stop, Known(m, known, stop), NEW r \in Nat,
           NEW labels, NEW end, NameAt(m, known, stop, r, labels, end)
    PROVE  uncompress_name(r, m) = [name |-> Dotted(labels), count |-> end - r]
  <1>1. m \in Seq(Nat) /\ Len(m) \in Nat /\ DOMAIN known \subseteq Nat
    BY LenProperties DEF Known
  <1>2. PICK T : Turns(T, r, m) /\ Collected(r, m) = T[Len(m)]
    BY <1>1, CollectedIs
  <1>3. Reads(T, m, r, labels, end)
    BY <1>2, ReadsKnown, ReadsName
  <1>4. labels \in Seq(Labels) /\ labels # <<>> /\ end \in Nat /\ r < end /\ end <= Len(m)
    BY <1>1, NameEnds
  <1>5. T[0] = Reading(r, <<>>, FALSE, 1)
    <2>1. 0 \in 0 .. Len(m)
      BY <1>1
    <2>2. QED BY <1>2, <2>1 DEF Turns, Reading
  <1>6. PICK p \in 0 .. Len(m), q \in Nat, k \in BOOLEAN, d \in Nat :
           /\ m[q + 1] = 0
           /\ T[p] = Reading(q, <<>> \o Wire(labels), k, d)
           /\ (IF k THEN d + 1 ELSE d) = 1 + (end - r) - 1
    <2>1. 0 + end <= Len(m) /\ <<>> \in Seq(Nat) /\ 0 \in Nat /\ 1 \in Nat
          /\ FALSE \in BOOLEAN
      BY <1>4
    <2>2. Stopped(T, m, r, <<>>, FALSE, 1, labels, end)
      BY <1>3, <1>5, <2>1, Zenon DEF Reads
    <2>3. QED BY <2>2, Zenon DEF Stopped
  <1>7. <<>> \o Wire(labels) = Wire(labels)
    BY <1>4, WireBytes, ConcatEmptySeq
  <1>8. Collected(r, m) = Reading(q, Wire(labels), k, d)
    <2>1. T[p] = Reading(q, Wire(labels), k, d)
      BY <1>6, <1>7
    <2>2. T[Len(m)] = Reading(q, Wire(labels), k, d)
      BY <1>1, <1>2, <1>6, <2>1, LastTurn
    <2>3. QED BY <1>2, <2>2
  <1>9. ToDotted(Wire(labels)) = Dotted(labels)
    <2> DEFINE n == Len(labels)
    <2>1. n \in Nat /\ n >= 1
      BY <1>4, EmptySeq
    <2>2. labels = [i \in 1 .. n |-> labels[i]] /\ \A i \in 1 .. n : labels[i] \in Labels
      BY <1>4, LenProperties
    <2>3. \A i \in 1 .. n : IsLabel(labels[i])
      BY <2>2, LabelsAssumption
    <2> HIDE DEF n
    <2>4. QED BY <2>1, <2>2, <2>3, WireOf
  <1>10. LET s == Collected(r, m) IN s.name = Wire(labels) /\ s.jumped = k /\ s.count = d
    BY <1>8 DEF Reading
  <1>11. (IF k THEN d + 1 ELSE d) = end - r
    BY <1>4, <1>6
  <1>12. QED
    BY <1>9, <1>10, <1>11 DEF uncompress_name

\* The record rec is written from r up to next.
RecordAt(m, known, stop, r, rec, next) ==
    \E owner, mid :
        /\ NameAt(m, known, stop, r, owner, mid)
        /\ \/ \E addr \in Addresses :
                 /\ rec = [name |-> Dotted(owner), type |-> T_A, rdata |-> addr]
                 /\ Holds(m, mid, RData(T_A, Len(addr)))
                 /\ Holds(m, mid + RDataLen, addr)
                 /\ next = mid + RDataLen + Len(addr)
           \/ \E alias \in Seq(Labels), len \in Nat :
                 /\ rec = [name |-> Dotted(owner), type |-> T_CNAME, rdata |-> Dotted(alias)]
                 /\ Holds(m, mid, RData(T_CNAME, len))
                 /\ NameAt(m, known, stop, mid + RDataLen, alias, next)

\* The fixed part of a record.
LEMMA RDataIs ==
    ASSUME NEW type \in Nat, NEW len \in Nat
    PROVE  /\ RData(type, len) \in Seq(Nat) /\ Len(RData(type, len)) = 10
           /\ RData(type, len)[1] = 0 /\ RData(type, len)[2] = type
           /\ 256 * RData(type, len)[9] + RData(type, len)[10] = len
  <1>1. len \div 256 \in Nat /\ len % 256 \in Nat /\ 256 * (len \div 256) + (len % 256) = len
    OBVIOUS
  <1> DEFINE hi == len \div 256
             lo == len % 256
  <1> HIDE DEF hi, lo
  <1>2. hi \in Nat /\ lo \in Nat /\ 256 * hi + lo = len
    BY <1>1 DEF hi, lo
  <1>3. RData(type, len) = <<0, type, 0, 1, 0, 0, 0, 0, hi, lo>>
    BY DEF RData, hi, lo
  <1>4. QED
    BY <1>2, <1>3

\* They are ten bytes.
LEMMA RDataBytes ==
    \A type, len \in Nat : RData(type, len) \in Seq(Nat) /\ Len(RData(type, len)) = 10
  BY RDataIs

\* It is read from the message.
LEMMA RDataRead ==
    ASSUME NEW m, NEW mid \in Nat, NEW type \in Nat, NEW len \in Nat,
           Holds(m, mid, RData(type, len))
    PROVE  Short(m, mid) = type /\ Short(m, mid + RDataLen - 2) = len
  <1> DEFINE d == RData(type, len)
  <1>1. Len(d) = 10 /\ d[1] = 0 /\ d[2] = type /\ 256 * d[9] + d[10] = len
    BY RDataIs
  <1> HIDE DEF d
  <1>2. \A i \in 1 .. 10 : m[mid + i] = d[i]
    BY <1>1 DEF Holds, d
  <1>3. m[mid + 1] = d[1] /\ m[mid + 2] = d[2] /\ m[mid + 9] = d[9] /\ m[mid + 10] = d[10]
    <2>1. 1 \in 1 .. 10 /\ 2 \in 1 .. 10 /\ 9 \in 1 .. 10 /\ 10 \in 1 .. 10
      OBVIOUS
    <2>2. QED BY <1>2, <2>1
  <1>4. (mid + RDataLen - 2) + 1 = mid + 9 /\ (mid + RDataLen - 2) + 2 = mid + 10
    BY DEF RDataLen
  <1>5. Short(m, mid) = type
    BY <1>1, <1>3 DEF Short
  <1>6. Short(m, mid + RDataLen - 2) = 256 * m[mid + 9] + m[mid + 10]
    BY <1>4 DEF Short
  <1>7. QED
    BY <1>1, <1>3, <1>5, <1>6

\* An address.
LEMMA AddressIs ==
    ASSUME NEW addr \in Addresses
    PROVE  addr \in Seq(Nat) /\ Len(addr) = 4
  <1>1. addr \in [1 .. 4 -> 0 .. 255]
    BY AddressesAssumption
  <1>2. addr \in Seq(0 .. 255) /\ Len(addr) = 4
    <2> DEFINE B == 0 .. 255
    <2>1. addr \in [1 .. 4 -> B] /\ 4 \in Nat
      BY <1>1
    <2> HIDE DEF B
    <2>2. addr \in Seq(B)
      <3>1. [1 .. 4 -> B] \in {[1 .. n -> B] : n \in Nat}
        BY <2>1
      <3>2. QED BY <2>1, <3>1, SeqDef
    <2>5. DOMAIN addr = 1 .. 4
      BY <2>1
    <2>3. Len(addr) = 4
      BY <2>2, <2>5, LenProperties
    <2>4. QED BY <2>2, <2>3 DEF B
  <1>3. 0 .. 255 \subseteq Nat
    OBVIOUS
  <1>4. QED
    BY <1>2, <1>3, SeqMonotonic

\* The bytes that are held are a part of the message.
LEMMA HeldIs ==
    ASSUME NEW m \in Seq(Nat), NEW r \in Nat, NEW s \in Seq(Nat), Holds(m, r, s)
    PROVE  SubSeq(m, r + 1, r + Len(s)) = s
  <1> DEFINE lo == r + 1
             hi == r + Len(s)
             x == SubSeq(m, lo, hi)
  <1>1. Len(s) \in Nat /\ Len(m) \in Nat /\ lo \in Int /\ hi \in Int /\ hi - lo + 1 = Len(s)
        /\ 1 <= lo /\ hi <= Len(m)
    BY LenProperties DEF Holds
  <1>2. \A i \in 1 .. Len(s) : m[r + i] = s[i] /\ lo + i - 1 = r + i
    BY <1>1 DEF Holds
  <1> HIDE DEF lo, hi
  <1>3. ASSUME NEW i \in lo .. hi PROVE m[i] \in Nat
    <2>1. i \in 1 .. Len(m)
      BY <1>1
    <2>2. QED BY <2>1, ElementOfSeq
  <1>4. /\ SubSeq(m, lo, hi) \in Seq(Nat)
        /\ Len(SubSeq(m, lo, hi)) = IF lo <= hi THEN hi - lo + 1 ELSE 0
        /\ \A i \in 1 .. hi - lo + 1 : SubSeq(m, lo, hi)[i] = m[lo + i - 1]
    BY <1>1, <1>3, SubSeqProperties
  <1>5. x \in Seq(Nat) /\ Len(x) = Len(s)
    BY <1>1, <1>4
  <1>6. ASSUME NEW i \in 1 .. Len(x) PROVE x[i] = s[i]
    <2>1. i \in 1 .. hi - lo + 1 /\ i \in 1 .. Len(s)
      BY <1>1, <1>5
    <2>2. x[i] = m[lo + i - 1]
      BY <1>4, <2>1
    <2>3. QED BY <1>2, <2>1, <2>2
  <1> HIDE DEF x
  <1>7. x = s
    BY <1>5, <1>6, SeqEqual
  <1>8. QED
    BY <1>7 DEF x, lo, hi

\* The parser returns a record and where the next one is.
LEMMA ReadsRecord ==
    ASSUME NEW m, NEW known, NEW stop, Known(m, known, stop), NEW r \in Nat, NEW rec,
           NEW next, RecordAt(m, known, stop, r, rec, next)
    PROVE  AnswerAt(r, m) = [rec |-> rec, next |-> next] /\ next \in Nat
  <1>1. m \in Seq(Nat) /\ DOMAIN known \subseteq Nat
    BY DEF Known
  <1>2. PICK owner, mid :
        /\ NameAt(m, known, stop, r, owner, mid)
        /\ \/ \E addr \in Addresses :
                 /\ rec = [name |-> Dotted(owner), type |-> T_A, rdata |-> addr]
                 /\ Holds(m, mid, RData(T_A, Len(addr)))
                 /\ Holds(m, mid + RDataLen, addr)
                 /\ next = mid + RDataLen + Len(addr)
           \/ \E alias \in Seq(Labels), len \in Nat :
                 /\ rec = [name |-> Dotted(owner), type |-> T_CNAME, rdata |-> Dotted(alias)]
                 /\ Holds(m, mid, RData(T_CNAME, len))
                 /\ NameAt(m, known, stop, mid + RDataLen, alias, next)
    BY DEF RecordAt
  <1>3. mid \in Nat
    BY <1>1, <1>2, NameEnds
  <1> DEFINE name == Dotted(owner)
             u == uncompress_name(r, m)
             data == mid + RDataLen
             c == uncompress_name(data, m)
             type == Short(m, mid)
             len == Short(m, mid + RDataLen - 2)
  <1>4. u = [name |-> name, count |-> mid - r]
    BY <1>2, Uncompresses
  <1>5. r + u.count = mid /\ u.name = name
    BY <1>3, <1>4
  <1>6. data \in Nat
    BY <1>3 DEF RDataLen
  <1> HIDE DEF u, name
  <1>7. AnswerAt(r, m) =
          IF type = T_A
          THEN [rec  |-> [name |-> name, type |-> type,
                          rdata |-> SubSeq(m, data + 1, data + len)],
                next |-> data + len]
          ELSE [rec  |-> [name |-> name, type |-> type, rdata |-> c.name],
                next |-> data + c.count]
    <2>1. AnswerAt(r, m) =
            LET res == r + u.count
            IN IF Short(m, res) = T_A
               THEN [rec  |-> [name |-> u.name, type |-> Short(m, res),
                               rdata |-> SubSeq(m, res + RDataLen + 1,
                                   res + RDataLen + Short(m, res + RDataLen - 2))],
                     next |-> res + RDataLen + Short(m, res + RDataLen - 2)]
               ELSE [rec  |-> [name |-> u.name, type |-> Short(m, res),
                               rdata |-> uncompress_name(res + RDataLen, m).name],
                     next |-> res + RDataLen + uncompress_name(res + RDataLen, m).count]
      BY DEF AnswerAt, u
    <2>2. QED BY <1>5, <2>1
  <1> HIDE DEF type, len, c
  <1>8. ASSUME NEW addr \in Addresses,
               rec = [name |-> name, type |-> T_A, rdata |-> addr],
               Holds(m, mid, RData(T_A, Len(addr))),
               Holds(m, mid + RDataLen, addr),
               next = mid + RDataLen + Len(addr)
        PROVE  AnswerAt(r, m) = [rec |-> rec, next |-> next] /\ next \in Nat
    <2>1. addr \in Seq(Nat) /\ Len(addr) = 4
      BY AddressIs
    <2>2. T_A \in Nat
      BY DEF T_A
    <2>3. type = T_A /\ len = Len(addr)
      BY <1>3, <1>8, <2>1, <2>2, RDataRead DEF type, len
    <2>4. SubSeq(m, data + 1, data + len) = addr
      BY <1>1, <1>6, <1>8, <2>1, <2>3, HeldIs
    <2>5. data + len = next /\ next \in Nat
      BY <1>6, <1>8, <2>1, <2>3
    <2> HIDE DEF data
    <2>6. QED BY <1>7, <1>8, <2>3, <2>4, <2>5
  <1>9. ASSUME NEW alias \in Seq(Labels), NEW l \in Nat,
               rec = [name |-> name, type |-> T_CNAME, rdata |-> Dotted(alias)],
               Holds(m, mid, RData(T_CNAME, l)),
               NameAt(m, known, stop, mid + RDataLen, alias, next)
        PROVE  AnswerAt(r, m) = [rec |-> rec, next |-> next] /\ next \in Nat
    <2>1. T_CNAME \in Nat /\ T_CNAME # T_A
      BY DEF T_CNAME, T_A
    <2>2. type = T_CNAME
      BY <1>3, <1>9, <2>1, RDataRead DEF type
    <2>3. next \in Nat
      BY <1>1, <1>6, <1>9, NameEnds
    <2>4. c = [name |-> Dotted(alias), count |-> next - data]
      BY <1>6, <1>9, Uncompresses DEF c
    <2>5. c.name = Dotted(alias) /\ data + c.count = next
      BY <1>6, <2>3, <2>4
    <2> HIDE DEF data
    <2>6. QED BY <1>7, <1>9, <2>1, <2>2, <2>3, <2>5
  <1>10. QED
    BY <1>2, <1>8, <1>9 DEF name

\* A record stays when the message goes on and more names are known.
LEMMA RecordStays ==
    ASSUME NEW m \in Seq(Nat), NEW x \in Seq(Nat), NEW known, NEW stop, NEW more, NEW far,
           DOMAIN known \subseteq Nat,
           \A t \in DOMAIN known : /\ t \in DOMAIN more
                                   /\ more[t] = known[t] /\ far[t] = stop[t],
           NEW r \in Nat, NEW rec, NEW next, RecordAt(m, known, stop, r, rec, next)
    PROVE  RecordAt(m \o x, more, far, r, rec, next)
  <1>1. PICK owner, mid :
        /\ NameAt(m, known, stop, r, owner, mid)
        /\ \/ \E addr \in Addresses :
                 /\ rec = [name |-> Dotted(owner), type |-> T_A, rdata |-> addr]
                 /\ Holds(m, mid, RData(T_A, Len(addr)))
                 /\ Holds(m, mid + RDataLen, addr)
                 /\ next = mid + RDataLen + Len(addr)
           \/ \E alias \in Seq(Labels), len \in Nat :
                 /\ rec = [name |-> Dotted(owner), type |-> T_CNAME, rdata |-> Dotted(alias)]
                 /\ Holds(m, mid, RData(T_CNAME, len))
                 /\ NameAt(m, known, stop, mid + RDataLen, alias, next)
    BY DEF RecordAt
  <1>2. mid \in Nat /\ mid + RDataLen \in Nat
    <2>1. mid \in Nat
      BY <1>1, NameEnds
    <2>2. QED BY <2>1 DEF RDataLen
  <1>3. NameAt(m \o x, more, far, r, owner, mid)
    BY <1>1, NameStays
  <1>4. \A type \in Nat, len \in Nat :
           Holds(m, mid, RData(type, len)) => Holds(m \o x, mid, RData(type, len))
    <2>1. ASSUME NEW type \in Nat, NEW len \in Nat, Holds(m, mid, RData(type, len))
          PROVE  Holds(m \o x, mid, RData(type, len))
      <3>1. RData(type, len) \in Seq(Nat)
        BY RDataIs
      <3>2. QED BY <1>2, <2>1, <3>1, HoldsLonger
    <2>2. QED BY <2>1
  <1>5. T_A \in Nat /\ T_CNAME \in Nat
    BY DEF T_A, T_CNAME
  <1>6. ASSUME NEW addr \in Addresses,
               rec = [name |-> Dotted(owner), type |-> T_A, rdata |-> addr],
               Holds(m, mid, RData(T_A, Len(addr))),
               Holds(m, mid + RDataLen, addr),
               next = mid + RDataLen + Len(addr)
        PROVE  RecordAt(m \o x, more, far, r, rec, next)
    <2>1. addr \in Seq(Nat) /\ Len(addr) \in Nat
      BY AddressIs
    <2>2. Holds(m \o x, mid, RData(T_A, Len(addr)))
      BY <1>4, <1>5, <1>6, <2>1
    <2>3. Holds(m \o x, mid + RDataLen, addr)
      BY <1>2, <1>6, <2>1, HoldsLonger
    <2>4. QED BY <1>3, <1>6, <2>2, <2>3 DEF RecordAt
  <1>7. ASSUME NEW alias \in Seq(Labels), NEW len \in Nat,
               rec = [name |-> Dotted(owner), type |-> T_CNAME, rdata |-> Dotted(alias)],
               Holds(m, mid, RData(T_CNAME, len)),
               NameAt(m, known, stop, mid + RDataLen, alias, next)
        PROVE  RecordAt(m \o x, more, far, r, rec, next)
    <2>1. Holds(m \o x, mid, RData(T_CNAME, len))
      BY <1>4, <1>5, <1>7
    <2>2. NameAt(m \o x, more, far, mid + RDataLen, alias, next)
      BY <1>2, <1>7, NameStays
    <2>3. QED BY <1>3, <1>7, <2>1, <2>2 DEF RecordAt
  <1>8. QED
    BY <1>1, <1>6, <1>7

\* The turns of the loop over the answers.
Parses(f, m, qname, N) ==
    f = [n \in 0 .. N |->
            IF n = 0 THEN [reader |-> HeaderLen + Len(qname) + 1 + QuestionLen, answers |-> <<>>]
            ELSE [reader  |-> AnswerAt(f[n - 1].reader, m).next,
                  answers |-> Append(f[n - 1].answers, AnswerAt(f[n - 1].reader, m).rec)]]

\* The records w are in the message from offset first up to its end.
Wrote(m, known, stop, first, w) ==
    \E pos \in [0 .. Len(w) -> Nat] :
        /\ pos[0] = first /\ pos[Len(w)] = Len(m)
        /\ \A k \in 1 .. Len(w) : RecordAt(m, known, stop, pos[k - 1], w[k], pos[k])

\* They are what the parser returns.
LEMMA ReadsAll ==
    ASSUME NEW m, NEW known, NEW stop, Known(m, known, stop), NEW S, NEW w \in Seq(S),
           NEW qname, Wrote(m, known, stop, HeaderLen + Len(qname) + 1 + QuestionLen, w)
    PROVE  ParseAnswers(m, qname, Len(w)) = w
  <1> DEFINE N == Len(w)
             first == HeaderLen + Len(qname) + 1 + QuestionLen
             start == [reader |-> first, answers |-> <<>>]
             Step(q) == [reader  |-> AnswerAt(q.reader, m).next,
                         answers |-> Append(q.answers, AnswerAt(q.reader, m).rec)]
             Def(f, n) == IF n = 0 THEN start ELSE Step(f[n - 1])
             read == CHOOSE f : f = [n \in 0 .. N |->
                        IF n = 0 THEN [reader |-> HeaderLen + Len(qname) + 1 + QuestionLen,
                                       answers |-> <<>>]
                        ELSE LET q == f[n - 1]
                                 a == AnswerAt(q.reader, m)
                             IN  [reader |-> a.next, answers |-> Append(q.answers, a.rec)]]
  <1>1. N \in Nat
    BY LenProperties
  <1>2. PICK pos \in [0 .. N -> Nat] :
           /\ pos[0] = first
           /\ \A k \in 1 .. N : RecordAt(m, known, stop, pos[k - 1], w[k], pos[k])
    BY DEF Wrote
  <1> DEFINE At(n) == [reader |-> pos[n], answers |-> SubSeq(w, 1, n)]
             g == [n \in 0 .. N |-> At(n)]
  <1>3. At(0) = start
    <2>1. SubSeq(w, 1, 0) = <<>>
      BY SubSeqEmpty
    <2>2. QED BY <1>2, <2>1
  <1>4. ASSUME NEW n \in 1 .. N PROVE Step(At(n - 1)) = At(n)
    <2> DEFINE part == SubSeq(w, 1, n - 1)
    <2>1. n - 1 \in 0 .. N /\ pos[n - 1] \in Nat /\ n \in Nat
      BY <1>1
    <2>2. RecordAt(m, known, stop, pos[n - 1], w[n], pos[n])
      BY <1>2
    <2>3. AnswerAt(pos[n - 1], m) = [rec |-> w[n], next |-> pos[n]]
      BY <2>1, <2>2, ReadsRecord
    <2>4. Append(part, w[n]) = SubSeq(w, 1, n)
      <3>1. 1 \in 1 .. Len(w) /\ n \in 1 .. Len(w)
        BY <1>1
      <3>2. SubSeq(w, 1, n) = SubSeq(w, 1, n - 1) \o <<w[n]>>
        BY <3>1, SubSeqRecursiveSecond
      <3>3. w[n] \in S
        BY <3>1, ElementOfSeq
      <3>4. part \in Seq(S)
        <4>1. \A i \in 1 .. n - 1 : w[i] \in S
          <5>1. ASSUME NEW i \in 1 .. n - 1 PROVE w[i] \in S
            <6>1. i \in 1 .. Len(w)
              BY <1>1, <2>1
            <6>2. QED BY <6>1, ElementOfSeq
          <5>2. QED BY <5>1
        <4>2. 1 \in Int /\ n - 1 \in Int
          BY <2>1
        <4>3. QED BY <4>1, <4>2, SubSeqProperties
      <3> HIDE DEF part
      <3>5. Append(part, w[n]) = part \o <<w[n]>>
        BY <3>3, <3>4, AppendIsConcat
      <3>6. QED BY <3>2, <3>5 DEF part
    <2> HIDE DEF part
    <2>5. At(n - 1).reader = pos[n - 1] /\ At(n - 1).answers = part
      BY DEF part
    <2> HIDE DEF At
    <2>6. Step(At(n - 1)) = [reader |-> pos[n], answers |-> SubSeq(w, 1, n)]
      <3>1. AnswerAt(pos[n - 1], m).next = pos[n] /\ AnswerAt(pos[n - 1], m).rec = w[n]
        BY <2>3
      <3>2. Step(At(n - 1)) = [reader  |-> AnswerAt(pos[n - 1], m).next,
                               answers |-> Append(part, AnswerAt(pos[n - 1], m).rec)]
        BY <2>5
      <3>3. QED BY <2>4, <3>1, <3>2
    <2>7. QED BY <2>6 DEF At
  <1> HIDE DEF Step, At, start
  <1>5. g = [n \in 0 .. N |-> Def(g, n)]
    <2>1. \A n \in 0 .. N : At(n) = Def(g, n)
      <3>1. ASSUME NEW n \in 0 .. N PROVE At(n) = Def(g, n)
        <4>1. CASE n = 0
          BY <1>3, <4>1
        <4>2. CASE n # 0
          <5>1. n \in 1 .. N /\ n - 1 \in 0 .. N
            BY <1>1, <4>2
          <5>2. g[n - 1] = At(n - 1)
            BY <5>1
          <5>3. QED BY <1>4, <4>2, <5>1, <5>2
        <4>3. QED BY <4>1, <4>2
      <3>2. QED BY <3>1
    <2> HIDE DEF Def
    <2>2. QED BY <2>1
  <1>6. \E f : f = [n \in 0 .. N |-> Def(f, n)]
    <2> HIDE DEF g, Def
    <2>1. QED BY <1>5
  <1>7. \E f : Parses(f, m, qname, N)
    BY <1>6 DEF Parses, Step, start
  <1>8. Parses(read, m, qname, N)
    BY <1>7, Zenon DEF Parses
  <1>9. ParseAnswers(m, qname, N) = read[N].answers
    BY DEF ParseAnswers
  <1> HIDE DEF read, N
  <1>10. read = [n \in 0 .. N |-> Def(read, n)]
    BY <1>8 DEF Parses, Step, start
  <1>11. \A n \in 0 .. N : read[n] = Def(read, n)
    <2> HIDE DEF Def
    <2>1. QED BY <1>10
  <1> DEFINE Bad == {n \in 0 .. N : read[n] # At(n)}
  <1>12. Bad = {}
    <2>1. SUFFICES ASSUME Bad # {} PROVE FALSE
      OBVIOUS
    <2>2. Bad \subseteq Nat
      OBVIOUS
    <2>3. PICK n \in Bad : \A k \in Bad : n <= k
      BY <2>1, <2>2, Least
    <2>4. n \in 0 .. N /\ read[n] # At(n)
      BY <2>3
    <2>5. n # 0
      BY <1>3, <1>11, <2>4
    <2>6. n \in 1 .. N /\ n - 1 \in 0 .. N /\ n - 1 \notin Bad
      BY <1>1, <2>3, <2>4, <2>5
    <2>7. read[n - 1] = At(n - 1)
      BY <2>6
    <2>8. QED BY <1>4, <1>11, <2>4, <2>5, <2>6, <2>7
  <1>13. read[N] = At(N)
    <2>1. N \in 0 .. N
      BY <1>1
    <2>2. QED BY <1>12, <2>1
  <1>14. At(N).answers = w
    <2>1. SubSeq(w, 1, N) = w
      BY SubSeqFull DEF N
    <2>2. QED BY <2>1 DEF At
  <1>15. QED
    BY <1>9, <1>13, <1>14 DEF N

\* A record is written behind the others.
LEMMA RecordAdded ==
    ASSUME NEW m \in Seq(Nat), NEW x \in Seq(Nat), NEW known, NEW stop, NEW more, NEW far,
           DOMAIN known \subseteq Nat,
           \A t \in DOMAIN known : /\ t \in DOMAIN more
                                   /\ more[t] = known[t] /\ far[t] = stop[t],
           NEW first, NEW S, NEW w \in Seq(S), Wrote(m, known, stop, first, w),
           NEW rec, RecordAt(m \o x, more, far, Len(m), rec, Len(m \o x))
    PROVE  /\ Wrote(m \o x, more, far, first, Append(w, rec))
           /\ Append(w, rec) \in Seq(S \cup {rec})
  <1> DEFINE n == Len(w)
             v == Append(w, rec)
             R == S \cup {rec}
             new == m \o x
  <1>1. n \in Nat
    BY LenProperties
  <1>2. /\ v \in Seq(R) /\ Len(v) = n + 1
        /\ \A i \in 1 .. n : v[i] = w[i]
        /\ v[n + 1] = rec
    <2>1. S \subseteq R /\ rec \in R
      OBVIOUS
    <2> HIDE DEF R
    <2>2. w \in Seq(R)
      BY <2>1, SeqMonotonic
    <2>3. QED BY <2>1, <2>2, AppendProperties
  <1>3. new \in Seq(Nat) /\ Len(new) \in Nat
    BY ConcatProperties, LenProperties
  <1>4. PICK pos \in [0 .. n -> Nat] :
           /\ pos[0] = first /\ pos[n] = Len(m)
           /\ \A k \in 1 .. n : RecordAt(m, known, stop, pos[k - 1], w[k], pos[k])
    BY DEF Wrote
  <1>5. RecordAt(new, more, far, Len(m), rec, Len(new))
    OBVIOUS
  <1>6. \A k \in 1 .. n : RecordAt(new, more, far, pos[k - 1], w[k], pos[k])
    <2>1. ASSUME NEW k \in 1 .. n PROVE RecordAt(new, more, far, pos[k - 1], w[k], pos[k])
      <3>0. k - 1 \in 0 .. n
        BY <1>1
      <3>1. pos[k - 1] \in Nat
        BY <1>4, <3>0
      <3>2. RecordAt(m, known, stop, pos[k - 1], w[k], pos[k])
        BY <1>4
      <3>3. QED BY <3>1, <3>2, RecordStays
    <2>2. QED BY <2>1
  <1> DEFINE q == [k \in 0 .. n + 1 |-> IF k = n + 1 THEN Len(new) ELSE pos[k]]
  <1> HIDE DEF n, v, new
  <1>7. q \in [0 .. n + 1 -> Nat]
    <2>1. ASSUME NEW k \in 0 .. n + 1 PROVE (IF k = n + 1 THEN Len(new) ELSE pos[k]) \in Nat
      <3>1. CASE k = n + 1
        BY <1>3, <3>1
      <3>2. CASE k # n + 1
        <4>1. k \in 0 .. n
          BY <1>1, <3>2
        <4>2. QED BY <3>2, <4>1
      <3>3. QED BY <3>1, <3>2
    <2>2. QED BY <2>1
  <1>8. q[0] = first /\ q[n + 1] = Len(new) /\ q[n] = Len(m)
    BY <1>1, <1>4
  <1>9. \A k \in 0 .. n : q[k] = pos[k]
    BY <1>1
  <1> HIDE DEF q
  <1>10. ASSUME NEW k \in 1 .. n + 1 PROVE RecordAt(new, more, far, q[k - 1], v[k], q[k])
    <2>1. CASE k = n + 1
      <3>1. k - 1 = n
        BY <1>1, <2>1
      <3>2. QED BY <1>2, <1>5, <1>8, <2>1, <3>1
    <2>2. CASE k # n + 1
      <3>1. k \in 1 .. n /\ k \in 0 .. n /\ k - 1 \in 0 .. n
        BY <1>1, <2>2
      <3>2. QED BY <1>2, <1>6, <1>9, <3>1
    <2>3. QED BY <2>1, <2>2
  <1>11. Wrote(new, more, far, first, v)
    BY <1>2, <1>7, <1>8, <1>10 DEF Wrote
  <1>12. QED
    BY <1>2, <1>11 DEF v, new

\* Bounded sequences of labels are sequences.
LEMMA BoundedIs ==
    ASSUME NEW n \in Nat, NEW s \in BoundedSeq(Labels, n)
    PROVE  s \in Seq(Labels)
  <1>1. PICK k \in 0 .. n : s \in [1 .. k -> Labels]
    BY DEF BoundedSeq, SeqOf
  <1>2. k \in Nat
    BY <1>1
  <1>3. [1 .. k -> Labels] \in {[1 .. i -> Labels] : i \in Nat}
    BY <1>2
  <1>4. QED
    BY <1>1, <1>3, SeqDef

\* What a form of a name is.
LEMMA FormIs ==
    ASSUME NEW m, NEW known, NEW stop, Known(m, known, stop), NEW form \in Forms(known)
    PROVE  \E own \in Seq(Labels), rest \in Seq(Labels) :
              /\ own \o rest # <<>>
              /\ form.labels = own \o rest /\ form.own = Len(own)
              /\ Spells(form.bytes, own, rest, known)
  <1>0. MaxOwn \in Nat
    BY CountsAssumption
  <1>1. m \in Seq(Nat) /\ DOMAIN known \subseteq Nat
        /\ \A o \in DOMAIN known : /\ known[o] \in Seq(Labels)
                                   /\ NameAt(m, known, stop, o, known[o], stop[o])
    BY DEF Known
  <1>2. CASE form \in {[bytes |-> Wire(own) \o <<0>>, labels |-> own, own |-> Len(own)] :
                          own \in {n \in NamesUpTo(MaxOwn) : Fits(n)}}
    <2>1. PICK own \in NamesUpTo(MaxOwn) :
             form = [bytes |-> Wire(own) \o <<0>>, labels |-> own, own |-> Len(own)]
      BY <1>2
    <2>2. own \in BoundedSeq(Labels, MaxOwn) /\ own # <<>>
      BY DEF NamesUpTo
    <2>3. own \in Seq(Labels)
      BY <1>0, <2>2, BoundedIs
    <2>4. own \o <<>> = own /\ <<>> \in Seq(Labels)
      BY <2>3, ConcatEmptySeq
    <2>5. form.labels = own \o <<>> /\ form.own = Len(own) /\ form.bytes = Wire(own) \o <<0>>
      BY <2>1, <2>4
    <2>6. QED BY <2>2, <2>3, <2>4, <2>5 DEF Spells
  <1>3. CASE \E own \in BoundedSeq(Labels, MaxOwn) :
               form \in {[bytes |-> Wire(own) \o <<192 + o \div 256, o % 256>>,
                          labels |-> own \o known[o], own |-> Len(own)] :
                         o \in {p \in DOMAIN known : p < 2^14 /\ Fits(own \o known[p])}}
    <2>0. PICK own \in BoundedSeq(Labels, MaxOwn) :
             form \in {[bytes |-> Wire(own) \o <<192 + o \div 256, o % 256>>,
                        labels |-> own \o known[o], own |-> Len(own)] :
                       o \in {p \in DOMAIN known : p < 2^14 /\ Fits(own \o known[p])}}
      BY <1>3, Zenon
    <2>1. PICK t \in DOMAIN known :
             form = [bytes |-> Wire(own) \o <<192 + t \div 256, t % 256>>,
                     labels |-> own \o known[t], own |-> Len(own)]
      BY <2>0, ZenonT(40)
    <2>2. own \in Seq(Labels)
      BY <1>0, BoundedIs
    <2>3. known[t] \in Seq(Labels) /\ known[t] # <<>>
      BY <1>1, NameEnds
    <2>4. own \o known[t] # <<>>
      BY <2>2, <2>3, ConcatEqualIffEmpty
    <2>5. /\ form.labels = own \o known[t] /\ form.own = Len(own)
          /\ form.bytes = Wire(own) \o Pointer(t)
      BY <2>1 DEF Pointer
    <2>6. QED BY <2>2, <2>3, <2>4, <2>5 DEF Spells
  <1>4. QED
    BY <1>2, <1>3 DEF Forms

\* A form of a name is written behind the message.
LEMMA FormAdded ==
    ASSUME NEW m, NEW known, NEW stop, Known(m, known, stop), NEW form \in Forms(known),
           NEW at, at = Len(m)
    PROVE  /\ form.bytes \in Seq(Nat) /\ form.labels \in Seq(Labels)
           /\ Grown(m, known, stop, m \o form.bytes,
                    Extend(known, Starts(at, form.labels, form.own)), form.labels)
  <1>1. PICK own \in Seq(Labels), rest \in Seq(Labels) :
              /\ own \o rest # <<>>
              /\ form.labels = own \o rest /\ form.own = Len(own)
              /\ Spells(form.bytes, own, rest, known)
    BY FormIs
  <1> DEFINE bytes == form.bytes
  <1> HIDE DEF bytes
  <1>2. own \o rest # <<>> /\ Spells(bytes, own, rest, known)
    BY <1>1 DEF bytes
  <1>3. /\ bytes \in Seq(Nat)
        /\ Grown(m, known, stop, m \o bytes,
                 Extend(known, Starts(Len(m), own \o rest, Len(own))), own \o rest)
    BY <1>2, NameAdded
  <1>4. own \o rest \in Seq(Labels)
    BY ConcatProperties
  <1>5. QED
    BY <1>1, <1>3, <1>4 DEF bytes

\* The message m holds the known names and, from first on, the records w.
Consistent(m, known, first, w) ==
    \E stop, S : /\ Known(m, known, stop)
                 /\ w \in Seq(S)
                 /\ Wrote(m, known, stop, first, w)

\* An address record is written.
LEMMA AddressAdded ==
    ASSUME NEW m, NEW known, NEW first, NEW w, Consistent(m, known, first, w),
           NEW owner \in Forms(known), NEW addr \in Addresses
    PROVE  Consistent(((m \o owner.bytes) \o RData(T_A, Len(addr))) \o addr,
                      Extend(known, Starts(Len(m), owner.labels, owner.own)), first,
                      Append(w, [name |-> Dotted(owner.labels), type |-> T_A, rdata |-> addr]))
  <1>1. PICK stop, S : /\ Known(m, known, stop)
                       /\ w \in Seq(S)
                       /\ Wrote(m, known, stop, first, w)
    BY DEF Consistent
  <1> DEFINE b == owner.bytes
             l == owner.labels
             d == RData(T_A, Len(addr))
             more == Extend(known, Starts(Len(m), l, owner.own))
             m1 == m \o b
             m2 == m1 \o d
             m3 == m2 \o addr
             rec == [name |-> Dotted(l), type |-> T_A, rdata |-> addr]
  <1>2. b \in Seq(Nat) /\ l \in Seq(Labels) /\ Grown(m, known, stop, m1, more, l)
    BY <1>1, FormAdded
  <1>3. m \in Seq(Nat) /\ Len(m) \in Nat /\ DOMAIN known \subseteq Nat
    BY <1>1, LenProperties DEF Known
  <1>4. addr \in Seq(Nat) /\ Len(addr) = 4
    BY AddressIs
  <1>5. d \in Seq(Nat) /\ Len(d) = 10
    <2>1. T_A \in Nat /\ Len(addr) \in Nat
      BY <1>4 DEF T_A
    <2>2. RData(T_A, Len(addr)) \in Seq(Nat) /\ Len(RData(T_A, Len(addr))) = 10
      BY <2>1, RDataBytes
    <2>3. QED BY <2>2, Zenon
  <1> HIDE DEF b, l, d, more
  <1>6. PICK far : /\ Known(m1, more, far)
                   /\ NameAt(m1, more, far, Len(m), l, Len(m1))
                   /\ \A t \in DOMAIN known : /\ t \in DOMAIN more
                                              /\ more[t] = known[t] /\ far[t] = stop[t]
    BY <1>2 DEF Grown
  <1>7. m1 \in Seq(Nat) /\ DOMAIN more \subseteq Nat /\ Len(m1) \in Nat
    BY <1>6, LenProperties DEF Known
  <1>8. m2 \in Seq(Nat) /\ Len(m2) = Len(m1) + 10
    <2> HIDE DEF m1
    <2>1. m2 \in Seq(Nat) /\ Len(m2) = Len(m1) + Len(d)
      BY <1>5, <1>7, ConcatProperties
    <2>2. QED BY <1>5, <1>7, <2>1
  <1>9. m3 \in Seq(Nat) /\ Len(m3) = (Len(m1) + 10) + Len(addr)
    <2> HIDE DEF m2
    <2>1. m3 \in Seq(Nat) /\ Len(m3) = Len(m2) + Len(addr)
      BY <1>4, <1>8, ConcatProperties
    <2>2. QED BY <1>8, <2>1
  <1>10. m3 = m \o (b \o (d \o addr)) /\ b \o (d \o addr) \in Seq(Nat)
    <2>1. d \o addr \in Seq(Nat)
      BY <1>4, <1>5, ConcatProperties
    <2>2. b \o (d \o addr) \in Seq(Nat)
      BY <1>2, <2>1, ConcatProperties
    <2>3. m1 \o (d \o addr) = m3
      BY <1>4, <1>5, <1>7, Assoc
    <2>4. m \o (b \o (d \o addr)) = m1 \o (d \o addr)
      BY <1>2, <1>3, <2>1, Assoc
    <2>5. QED BY <2>2, <2>3, <2>4
  <1> HIDE DEF m1
  <1>11. Known(m2, more, far) /\ NameAt(m2, more, far, Len(m), l, Len(m1))
    BY <1>3, <1>5, <1>6, <1>7, KnownStay, NameStays
  <1>12. Holds(m2, Len(m1), d)
    BY <1>5, <1>7, HoldsEnd
  <1> HIDE DEF m2
  <1>13. Known(m3, more, far) /\ NameAt(m3, more, far, Len(m), l, Len(m1))
    BY <1>3, <1>4, <1>7, <1>8, <1>11, KnownStay, NameStays
  <1>14. Holds(m3, Len(m1), d) /\ Holds(m3, Len(m1) + 10, addr)
    <2>1. Holds(m3, Len(m1), d)
      BY <1>4, <1>5, <1>7, <1>8, <1>12, HoldsLonger
    <2>2. Holds(m3, Len(m2), addr)
      BY <1>4, <1>8, HoldsEnd
    <2>3. QED BY <1>8, <2>1, <2>2
  <1> HIDE DEF m3
  <1>15. RecordAt(m3, more, far, Len(m), rec, Len(m3))
    <2>1. /\ Holds(m3, Len(m1), RData(T_A, Len(addr)))
          /\ Holds(m3, Len(m1) + RDataLen, addr)
          /\ Len(m3) = Len(m1) + RDataLen + Len(addr)
      BY <1>9, <1>14 DEF d, RDataLen
    <2>2. QED BY <1>13, <2>1, Zenon DEF RecordAt
  <1> HIDE DEF rec
  <1>16. /\ Wrote(m3, more, far, first, Append(w, rec))
         /\ Append(w, rec) \in Seq(S \cup {rec})
    <2> DEFINE x == b \o (d \o addr)
    <2>1. m3 = m \o x /\ x \in Seq(Nat)
      BY <1>10
    <2> HIDE DEF x
    <2>2. RecordAt(m \o x, more, far, Len(m), rec, Len(m \o x))
      BY <1>15, <2>1
    <2>3. /\ Wrote(m \o x, more, far, first, Append(w, rec))
          /\ Append(w, rec) \in Seq(S \cup {rec})
      BY <1>1, <1>3, <1>6, <2>1, <2>2, RecordAdded
    <2>4. QED BY <2>1, <2>3
  <1>17. Consistent(m3, more, first, Append(w, rec))
    BY <1>13, <1>16 DEF Consistent
  <1>18. QED
    BY <1>17 DEF m3, m2, m1, more, rec, b, l, d

\* An alias record is written.
LEMMA AliasAdded ==
    ASSUME NEW m, NEW known, NEW first, NEW w, Consistent(m, known, first, w),
           NEW owner \in Forms(known), NEW more,
           more = Extend(known, Starts(Len(m), owner.labels, owner.own)),
           NEW alias \in Forms(more), NEW data, data = Len(m) + Len(owner.bytes) + RDataLen
    PROVE  Consistent(((m \o owner.bytes) \o RData(T_CNAME, Len(alias.bytes))) \o alias.bytes,
                      Extend(more, Starts(data, alias.labels, alias.own)), first,
                      Append(w, [name |-> Dotted(owner.labels), type |-> T_CNAME,
                                 rdata |-> Dotted(alias.labels)]))
  <1>1. PICK stop, S : /\ Known(m, known, stop)
                       /\ w \in Seq(S)
                       /\ Wrote(m, known, stop, first, w)
    BY DEF Consistent
  <1> DEFINE b == owner.bytes
             l == owner.labels
             a == alias.bytes
             k == alias.labels
             d == RData(T_CNAME, Len(a))
             most == Extend(more, Starts(data, k, alias.own))
             m1 == m \o b
             m2 == m1 \o d
             m3 == m2 \o a
             rec == [name |-> Dotted(l), type |-> T_CNAME, rdata |-> Dotted(k)]
  <1>2. b \in Seq(Nat) /\ l \in Seq(Labels) /\ Grown(m, known, stop, m1, more, l)
    BY <1>1, FormAdded
  <1>3. m \in Seq(Nat) /\ Len(m) \in Nat /\ DOMAIN known \subseteq Nat
    BY <1>1, LenProperties DEF Known
  <1> HIDE DEF b, l, most
  <1>4. PICK far : /\ Known(m1, more, far)
                   /\ NameAt(m1, more, far, Len(m), l, Len(m1))
                   /\ \A t \in DOMAIN known : /\ t \in DOMAIN more
                                              /\ more[t] = known[t] /\ far[t] = stop[t]
    BY <1>2 DEF Grown
  <1>5. /\ m1 \in Seq(Nat) /\ DOMAIN more \subseteq Nat /\ Len(m1) \in Nat
        /\ Len(m1) = Len(m) + Len(b)
    <2>1. m1 \in Seq(Nat) /\ DOMAIN more \subseteq Nat
      BY <1>4 DEF Known
    <2>2. QED BY <1>2, <1>3, <2>1, ConcatProperties, LenProperties
  <1>6. a \in Seq(Nat)
    BY <1>4, FormAdded
  <1>7. d \in Seq(Nat) /\ Len(d) = 10 /\ Len(a) \in Nat
    <2>1. T_CNAME \in Nat /\ Len(a) \in Nat
      BY <1>6, LenProperties DEF T_CNAME
    <2>2. RData(T_CNAME, Len(a)) \in Seq(Nat) /\ Len(RData(T_CNAME, Len(a))) = 10
      BY <2>1, RDataBytes
    <2>3. QED BY <2>1, <2>2, Zenon
  <1> HIDE DEF m1, d
  <1>8. m2 \in Seq(Nat) /\ Len(m2) = Len(m1) + 10
    <2> HIDE DEF m1
    <2>1. m2 \in Seq(Nat) /\ Len(m2) = Len(m1) + Len(d)
      BY <1>5, <1>7, ConcatProperties
    <2>2. QED BY <1>5, <1>7, <2>1
  <1>9. Known(m2, more, far) /\ NameAt(m2, more, far, Len(m), l, Len(m1))
    BY <1>3, <1>4, <1>5, <1>7, KnownStay, NameStays
  <1>10. Holds(m2, Len(m1), d)
    BY <1>5, <1>7, HoldsEnd
  <1>11. data = Len(m2)
    BY <1>5, <1>8 DEF RDataLen, b
  <1> HIDE DEF m2
  <1>12. k \in Seq(Labels) /\ Grown(m2, more, far, m3, most, k)
    BY <1>9, <1>11, FormAdded DEF most
  <1> HIDE DEF a, k
  <1>13. PICK end : /\ Known(m3, most, end)
                    /\ NameAt(m3, most, end, Len(m2), k, Len(m3))
                    /\ \A t \in DOMAIN more : /\ t \in DOMAIN most
                                              /\ most[t] = more[t] /\ end[t] = far[t]
    BY <1>12 DEF Grown
  <1>14. \A t \in DOMAIN known : t \in DOMAIN most /\ most[t] = known[t] /\ end[t] = stop[t]
    BY <1>4, <1>13
  <1>15. NameAt(m3, most, end, Len(m), l, Len(m1))
    BY <1>3, <1>5, <1>6, <1>8, <1>9, <1>13, NameStays
  <1>16. Holds(m3, Len(m1), d)
    BY <1>5, <1>6, <1>7, <1>8, <1>10, HoldsLonger
  <1>17. m3 = m \o (b \o (d \o a)) /\ b \o (d \o a) \in Seq(Nat)
    <2>1. d \o a \in Seq(Nat)
      BY <1>6, <1>7, ConcatProperties
    <2>2. b \o (d \o a) \in Seq(Nat)
      BY <1>2, <2>1, ConcatProperties
    <2>3. m1 \o (d \o a) = m3
      BY <1>5, <1>6, <1>7, Assoc DEF m2
    <2>4. m \o (b \o (d \o a)) = m1 \o (d \o a)
      BY <1>2, <1>3, <2>1, Assoc DEF m1
    <2>5. QED BY <2>2, <2>3, <2>4
  <1> HIDE DEF m3
  <1>18. RecordAt(m3, most, end, Len(m), rec, Len(m3))
    <2>1. /\ Holds(m3, Len(m1), RData(T_CNAME, Len(a)))
          /\ NameAt(m3, most, end, Len(m1) + RDataLen, k, Len(m3))
      BY <1>8, <1>13, <1>16 DEF d, RDataLen
    <2>2. QED BY <1>7, <1>12, <1>15, <2>1, Zenon DEF RecordAt
  <1> HIDE DEF rec
  <1>19. /\ Wrote(m3, most, end, first, Append(w, rec))
         /\ Append(w, rec) \in Seq(S \cup {rec})
    <2> DEFINE x == b \o (d \o a)
    <2>1. m3 = m \o x /\ x \in Seq(Nat)
      BY <1>17
    <2> HIDE DEF x
    <2>2. RecordAt(m \o x, most, end, Len(m), rec, Len(m \o x))
      BY <1>18, <2>1
    <2>3. /\ Wrote(m \o x, most, end, first, Append(w, rec))
          /\ Append(w, rec) \in Seq(S \cup {rec})
      BY <1>1, <1>3, <1>14, <2>1, <2>2, RecordAdded
    <2>4. QED BY <2>1, <2>3
  <1>20. Consistent(m3, most, first, Append(w, rec))
    BY <1>13, <1>19 DEF Consistent
  <1>21. QED
    BY <1>20 DEF m3, m2, m1, most, rec, a, b, k, l, d

\* The question is written.
LEMMA QuestionAdded ==
    ASSUME NEW name \in Seq(Labels), name # <<>>
    PROVE  Consistent(([k \in 1 .. HeaderLen |-> 0] \o Wire(name)) \o <<0, 0, T_A, 0, 1>>,
                      Starts(HeaderLen, name, Len(name)),
                      HeaderLen + Len(Wire(name)) + 1 + QuestionLen, <<>>)
  <1> DEFINE h == [k \in 1 .. 12 |-> 0]
             W == Wire(name)
             none == [o \in {} |-> 0]
             g == Starts(12, name, Len(name))
             b == W \o <<0>>
             q == <<0, 1, 0, 1>>
             m1 == h \o b
             m2 == m1 \o q
  <1>1. h \in Seq(Nat) /\ Len(h) = 12
    OBVIOUS
  <1>2. W \in Seq(Nat) /\ Len(W) \in Nat
    BY WireBytes
  <1>3. q \in Seq(Nat) /\ Len(q) = 4 /\ <<0>> \in Seq(Nat) /\ Len(<<0>>) = 1
        /\ <<0>> \o q = <<0, 0, 1, 0, 1>>
    <2> DEFINE z == <<0>>
               x == z \o q
               y == <<0, 0, 1, 0, 1>>
    <2>1. /\ z \in Seq(Nat) /\ q \in Seq(Nat) /\ y \in Seq(Nat)
          /\ Len(z) = 1 /\ Len(q) = 4 /\ Len(y) = 5
          /\ z[1] = 0 /\ q[1] = 0 /\ q[2] = 1 /\ q[3] = 0 /\ q[4] = 1
          /\ y[1] = 0 /\ y[2] = 0 /\ y[3] = 1 /\ y[4] = 0 /\ y[5] = 1
      OBVIOUS
    <2> HIDE DEF z, q, y
    <2>2. /\ x \in Seq(Nat) /\ Len(x) = Len(z) + Len(q)
          /\ \A i \in 1 .. Len(z) + Len(q) :
                x[i] = IF i <= Len(z) THEN z[i] ELSE q[i - Len(z)]
      BY <2>1, ConcatProperties
    <2> HIDE DEF x
    <2>3. Len(x) = 5 /\ \A i \in 1 .. 5 : x[i] = IF i <= 1 THEN z[i] ELSE q[i - 1]
      BY <2>1, <2>2
    <2>4. \A i \in 1 .. 5 : i = 1 \/ i - 1 = 1 \/ i - 1 = 2 \/ i - 1 = 3 \/ i - 1 = 4
      OBVIOUS
    <2>5. ASSUME NEW i \in 1 .. Len(x) PROVE x[i] = y[i]
      BY <2>1, <2>3, <2>4
    <2>6. x = y
      BY <2>1, <2>2, <2>3, <2>5, SeqEqual
    <2>7. QED BY <2>1, <2>6 DEF x, y, z
  <1> HIDE DEF h, W, q, g
  <1>4. b \in Seq(Nat) /\ Len(b) = Len(W) + 1
    BY <1>2, <1>3, ConcatProperties
  <1> HIDE DEF b
  <1>5. m1 \in Seq(Nat) /\ Len(m1) = 12 + (Len(W) + 1)
    <2>1. m1 \in Seq(Nat) /\ Len(m1) = Len(h) + Len(b)
      BY <1>1, <1>4, ConcatProperties
    <2>2. QED BY <1>1, <1>4, <2>1
  <1> HIDE DEF m1
  <1>6. m2 \in Seq(Nat) /\ Len(m2) = (12 + (Len(W) + 1)) + 4
    <2>1. m2 \in Seq(Nat) /\ Len(m2) = Len(m1) + Len(q)
      BY <1>3, <1>5, ConcatProperties
    <2>2. QED BY <1>3, <1>5, <2>1
  <1>7. (h \o W) \o (<<0>> \o q) = m2
    <2> DEFINE z == <<0>>
    <2>1. z \in Seq(Nat)
      BY <1>3
    <2> HIDE DEF z
    <2>2. z \o q \in Seq(Nat)
      BY <1>3, <2>1, ConcatProperties
    <2>3. h \o (W \o (z \o q)) = (h \o W) \o (z \o q)
      BY <1>1, <1>2, <2>2, Assoc
    <2>4. W \o (z \o q) = (W \o z) \o q
      BY <1>2, <1>3, <2>1, Assoc
    <2>5. h \o (b \o q) = (h \o b) \o q
      BY <1>1, <1>3, <1>4, Assoc
    <2>6. b = W \o z
      BY DEF b, z
    <2>7. QED BY <2>3, <2>4, <2>5, <2>6 DEF m1, z
  <1>8. Known(h, none, none)
    <2>1. DOMAIN none = {} /\ none \in [DOMAIN none -> Nat]
      OBVIOUS
    <2> HIDE DEF none
    <2>2. QED BY <1>1, <2>1 DEF Known
  <1>9. Grown(h, none, none, m1, g, name)
    <2>1. name \o <<>> = name /\ <<>> \in Seq(Labels)
      BY ConcatEmptySeq
    <2>2. Extend(none, g) = g
      <3>1. g = [o \in DOMAIN g |-> g[o]]
        BY DEF g, Starts
      <3>2. DOMAIN none = {}
        OBVIOUS
      <3> HIDE DEF none
      <3>3. Extend(none, g) = [o \in DOMAIN g |-> g[o]]
        BY <3>2 DEF Extend
      <3>4. QED BY <3>1, <3>3
    <2> DEFINE rest == <<>>
    <2>3. name \o rest = name /\ rest \in Seq(Labels) /\ rest = <<>>
      BY <2>1
    <2> HIDE DEF rest, none
    <2>4. name \o rest # <<>> /\ Spells(b, name, rest, none)
      BY <2>3 DEF b, W, Spells
    <2>5. Grown(h, none, none, h \o b,
                Extend(none, Starts(Len(h), name \o rest, Len(name))), name \o rest)
      BY <1>8, <2>3, <2>4, NameAdded
    <2>6. Starts(Len(h), name \o rest, Len(name)) = g
      BY <1>1, <2>3 DEF g
    <2>7. QED BY <2>2, <2>3, <2>5, <2>6 DEF m1
  <1>10. PICK far : Known(m1, g, far)
    BY <1>9 DEF Grown
  <1>11. Known(m2, g, far)
    BY <1>3, <1>10, KnownStay
  <1> HIDE DEF m2
  <1>12. Wrote(m2, g, far, Len(m2), <<>>) /\ <<>> \in Seq({})
    <2> DEFINE pos == [k \in 0 .. 0 |-> Len(m2)]
    <2>1. Len(<<>>) = 0 /\ <<>> \in Seq({})
      OBVIOUS
    <2>2. pos \in [0 .. 0 -> Nat] /\ pos[0] = Len(m2) /\ 1 .. 0 = {}
      BY <1>2, <1>6
    <2> HIDE DEF pos
    <2>3. QED BY <2>1, <2>2 DEF Wrote
  <1>13. Consistent(m2, g, Len(m2), <<>>)
    BY <1>11, <1>12 DEF Consistent
  <1>14. /\ HeaderLen = 12 /\ T_A = 1
         /\ HeaderLen + Len(W) + 1 + QuestionLen = Len(m2)
    BY <1>2, <1>6 DEF HeaderLen, T_A, QuestionLen
  <1>15. ([k \in 1 .. HeaderLen |-> 0] \o Wire(name)) \o <<0, 0, T_A, 0, 1>> = m2
    BY <1>3, <1>7, <1>14 DEF h, W
  <1>16. Starts(HeaderLen, name, Len(name)) = g
    BY <1>14 DEF g
  <1>17. QED
    BY <1>13, <1>14, <1>15, <1>16 DEF W

\* The parser returns every answer as it was written, whatever compression its
\* names use and however often pointers lead on to pointers (utils.c 284-320 and
\* 355-406).
THEOREM AnswersRead == MessageSpec => []ReadsAnswers
  <1> DEFINE First == HeaderLen + Len(Wire(asked)) + 1 + QuestionLen
             Inv == asked \in Seq(Labels) /\ Consistent(message, names, First, written)
  <1>1. MessageInit => Inv
    <2> SUFFICES ASSUME MessageInit PROVE Inv
      OBVIOUS
    <2>1. PICK name \in NamesUpTo(MaxLabels) :
            /\ asked = name
            /\ message = [k \in 1 .. HeaderLen |-> 0] \o Wire(name) \o <<0, 0, T_A, 0, 1>>
            /\ names = Starts(HeaderLen, name, Len(name))
            /\ written = <<>>
      BY DEF MessageInit
    <2>2. name \in Seq(Labels) /\ name # <<>>
      <3>1. name \in BoundedSeq(Labels, MaxLabels) /\ name # <<>>
        BY DEF NamesUpTo
      <3>2. MaxLabels \in Nat
        BY CountsAssumption
      <3>3. QED BY <3>1, <3>2, BoundedIs
    <2>3. QED
      BY <2>1, <2>2, QuestionAdded
  <1>2. Inv /\ [MessageNext]_messageVars => Inv'
    <2> SUFFICES ASSUME Inv, [MessageNext]_messageVars PROVE Inv'
      OBVIOUS
    <2>1. CASE AddAddress
      <3>1. PICK owner \in Forms(names), addr \in Addresses :
              /\ message' = message \o owner.bytes \o RData(T_A, Len(addr)) \o addr
              /\ names' = Extend(names, Starts(Len(message), owner.labels, owner.own))
              /\ written' = Append(written, [name |-> Dotted(owner.labels), type |-> T_A,
                                             rdata |-> addr])
        BY <2>1 DEF AddAddress
      <3>2. asked' = asked
        BY <2>1 DEF AddAddress
      <3> HIDE DEF First
      <3>3. Consistent(message', names', First, written')
        BY <3>1, AddressAdded
      <3>4. First' = First
        BY <3>2 DEF First
      <3>5. QED BY <3>2, <3>3, <3>4
    <2>2. CASE AddAlias
      <3>1. PICK owner \in Forms(names) :
              LET data  == Len(message) + Len(owner.bytes) + RDataLen
                  known == Extend(names, Starts(Len(message), owner.labels, owner.own))
              IN  \E alias \in Forms(known) :
                     /\ message' = message \o owner.bytes
                                         \o RData(T_CNAME, Len(alias.bytes)) \o alias.bytes
                     /\ names' = Extend(known, Starts(data, alias.labels, alias.own))
                     /\ written' = Append(written, [name |-> Dotted(owner.labels),
                                                    type |-> T_CNAME,
                                                    rdata |-> Dotted(alias.labels)])
        BY <2>2 DEF AddAlias
      <3> DEFINE data  == Len(message) + Len(owner.bytes) + RDataLen
                 more == Extend(names, Starts(Len(message), owner.labels, owner.own))
      <3>2. PICK alias \in Forms(more) :
                     /\ message' = message \o owner.bytes
                                         \o RData(T_CNAME, Len(alias.bytes)) \o alias.bytes
                     /\ names' = Extend(more, Starts(data, alias.labels, alias.own))
                     /\ written' = Append(written, [name |-> Dotted(owner.labels),
                                                    type |-> T_CNAME,
                                                    rdata |-> Dotted(alias.labels)])
        BY <3>1
      <3>3. asked' = asked
        BY <2>2 DEF AddAlias
      <3> HIDE DEF First
      <3>4. Consistent(message', names', First, written')
        BY <3>2, AliasAdded
      <3>5. First' = First
        BY <3>3 DEF First
      <3>6. QED BY <3>3, <3>4, <3>5
    <2>3. CASE UNCHANGED messageVars
      BY <2>3 DEF messageVars
    <2>4. QED
      BY <2>1, <2>2, <2>3 DEF MessageNext
  <1>3. Inv => ReadsAnswers
    <2> SUFFICES ASSUME Inv PROVE ReadsAnswers
      OBVIOUS
    <2>1. PICK stop, S : /\ Known(message, names, stop)
                         /\ written \in Seq(S)
                         /\ Wrote(message, names, stop, First, written)
      BY DEF Consistent
    <2>2. QED
      BY <2>1, ReadsAll DEF ReadsAnswers
  <1>4. QED
    BY <1>1, <1>2, <1>3, PTL DEF MessageSpec
-----------------------------------------------------------------------------
(***************************************************************************)
(* The server.  A client's query is known by its position in the code: in  *)
(* inq, in the buffer, on the way to and from the upstream server.         *)
(***************************************************************************)
Queries == {Query(q) : q \in Questions}
QueriesForA == {m \in Queries : m.qtype = T_A}
Messages == [tid : {q.tid : q \in Questions}, qr : {0, 1}, q_count : {0, 1},
             ans_count : {0, 1}, add_count : {0, 1},
             qname : {q.qname : q \in Questions},
             qtype : {q.qtype : q \in Questions} \cup {0, T_A}, records : {0, 1}]
Packets == [port : Ports, msg : Messages]

\* A query with its name dotted, as on_recv leaves it.
WithDottedName(m) == [m EXCEPT !.qname = DottedName[@]]

\* m asks, or answers, what the query q asks.
Asks(m, q) == m.tid = q.tid /\ m.qname = q.qname

\* What is queued or under way is a query or an answer.
WellFormed == /\ inq \in Seq([from : Clients, msg : Queries])
              /\ upstream \subseteq Packets
              /\ answers \subseteq Packets
              /\ \A a \in answers : a.msg.qr = 1

\* What on_recv has open and allocated, by where it is.
Held == /\ gdnssocket = "open" => pc \in {"options", "send", "await"}
        /\ port # NoOne => pc = "await"
        /\ buffers = IF pc = "dispatch" THEN 0 ELSE 1
        /\ headers = IF pc = "options" THEN broken + 1 ELSE broken

\* The buffer holds the query being served, dotted and then converted back.
InHand ==
    /\ pc = "verify" => query \in Queries \cup {NoMessage} /\ buffer = query
    /\ pc \in {"forward", "options", "send", "await"} => query \in QueriesForA
    /\ pc \in {"forward", "options"} => buffer = WithDottedName(query)
    /\ pc \in {"send", "await"} => buffer = Forwarded(WithDottedName(query))

\* On a port that has not been given twice only the query being served and its
\* answers are under way.
OwnPort == ~reused /\ pc = "await" =>
              \A m \in upstream \cup answers : m.port = port => Asks(m.msg, query)

\* What is about to be sent to the client, if it is short enough to be sent.
InReply == pc = "reply" /\ nBytes <= MaxDatagram =>
              /\ buffer.qr = 1
              /\ ~reused => Asks(buffer, query)

IInv == /\ TypeOK
        /\ WellFormed
        /\ Held
        /\ InHand
        /\ OwnPort
        /\ InReply
        /\ AnswersOwnQuery
        /\ SendsOnlyAnswers

\* Queries are messages.
LEMMA QueriesAreMessages ==
    \A m \in Queries : m \in Messages /\ m.qr = 0
  BY DEF Queries, Messages, Query

\* The length of a message is that of a datagram, so that the index of the byte
\* which on_recv overwrites does not wrap.
LEMMA Sizes ==
    ASSUME NEW m \in Messages
    PROVE  /\ Size(m) \in Nat
           /\ Size(m) <= MaxDatagram
           /\ Size(m) \in 0 .. 2^IntBits - 1
           /\ Terminate(m, Size(m)) = m
  <1>1. PICK q \in Questions : m.qname = q.qname
    BY DEF Messages
  <1>2. Len(m.qname) \in Nat /\ Len(m.qname) + 2 <= 256
    <2>1. IsName(q.qname) /\ Len(q.qname) + 2 <= 256
      BY QuestionsAssumption
    <2>2. q.qname \in Seq(Nat \ {0})
      BY <2>1 DEF IsName
    <2>3. Len(q.qname) \in Nat
      BY <2>2, LenProperties
    <2>4. QED
      BY <1>1, <2>1, <2>3
  <1>3. m.records \in {0, 1}
    BY DEF Messages
  <1> DEFINE n == Size(m)
             w == 2^IntBits
  <1>4. n \in Nat /\ n <= MaxDatagram
    <2>1. n = 12 + Len(m.qname) + 1 + 4 + 16 * m.records
      BY DEF Size, HeaderLen, QuestionLen
    <2>2. QED
      BY <1>2, <1>3, <2>1 DEF MaxDatagram
  <1>5. w \in Int /\ w - 1 > MaxDatagram
    BY WidthAssumption
  <1> HIDE DEF n, w
  <1>6. n \in 0 .. w - 1 /\ (n + 1) % w # 0
    <2>1. n + 1 \in Nat /\ n + 1 < w /\ w \in Nat \ {0} /\ n + 1 # 0
      BY <1>4, <1>5 DEF MaxDatagram
    <2>2. (n + 1) % w = n + 1
      BY <2>1
    <2>3. QED
      BY <1>4, <1>5, <2>1, <2>2
  <1>7. Terminate(m, n) = m
    BY <1>6 DEF Terminate, w
  <1>8. QED
    BY <1>4, <1>6, <1>7 DEF n, w

\* What a failed recvfrom returns is no datagram's length.
LEMMA MinusOne ==
    /\ (-1) % 2^IntBits \in 0 .. 2^IntBits - 1
    /\ (-1) % 2^IntBits > MaxDatagram
  <1> DEFINE w == 2^IntBits
  <1>1. w \in Int /\ w - 1 > MaxDatagram
    BY WidthAssumption
  <1> HIDE DEF w
  <1>2. (-1) % w = w - 1 /\ w - 1 \in 0 .. w - 1
    BY <1>1 DEF MaxDatagram
  <1>3. QED
    BY <1>1, <1>2 DEF w

\* The request asks what the client asked; its counts are those that the first
\* PointerSize bytes of the header hold.
LEMMA Requests ==
    ASSUME NEW m \in QueriesForA
    PROVE  LET f == Forwarded(WithDottedName(m))
           IN  /\ f \in Messages
               /\ Asks(f, m)
               /\ f.qtype = T_A
               /\ f.q_count = IF 6 <= PointerSize THEN 1 ELSE 0
               /\ f.ans_count = 0
               /\ f.add_count = IF 12 <= PointerSize THEN 1 ELSE 0
               /\ f.records = 0
  <1>1. PICK q \in Questions : m = Query(q)
    BY DEF QueriesForA, Queries
  <1> DEFINE h == ToDotted(q.qname)
             d == WithDottedName(m)
             f == Forwarded(d)
             second == ChangetoDnsNameFormat(ChangetoDnsNameFormat(h).host)
  <1>2. CString(second.dns) = q.qname /\ Len(second.host) = Len(q.qname) + 1
    BY QuestionsAssumption, NameConversions
  <1>3. DottedName[q.qname] = h
    BY DEF DottedName
  <1>4. Converted[h] = second
    <2> HIDE DEF h
    <2>1. h \in {ToDotted(p.qname) : p \in Questions}
      BY DEF h
    <2>2. QED
      BY <2>1 DEF Converted
  <1> HIDE DEF second, h
  <1>5. d = [tid |-> q.tid, qr |-> 0, q_count |-> 1, ans_count |-> 0, add_count |-> 1,
             qname |-> h, qtype |-> q.qtype, records |-> 1]
    BY <1>1, <1>3 DEF WithDottedName, Query
  <1>6. f = [tid |-> q.tid, qr |-> 0,
             q_count |-> IF 6 <= PointerSize THEN 1 ELSE 0,
             ans_count |-> 0,
             add_count |-> IF 12 <= PointerSize THEN 1 ELSE 0,
             qname |-> q.qname, qtype |-> T_A, records |-> 0]
    <2> HIDE DEF d
    <2>1. Converted[d.qname] = second
      BY <1>4, <1>5
    <2>2. QED
      BY <1>2, <1>5, <2>1 DEF Forwarded
  <1> HIDE DEF f, d
  <1>7. f \in Messages
    BY <1>6 DEF Messages
  <1>8. Asks(f, m)
    BY <1>1, <1>6 DEF Asks, Query
  <1>9. QED
    BY <1>6, <1>7, <1>8 DEF f, d

\* Nothing is queued, open or sent in the initial state.
LEMMA ServerStarts ==
    Init => IInv
  <1> SUFFICES ASSUME Init PROVE IInv
    OBVIOUS
  <1>1. TypeOK
    <2>1. 2^IntBits \in Int /\ 0 \in 0 .. 2^IntBits - 1
      BY WidthAssumption DEF MaxDatagram
    <2>2. MaxSends \in Nat /\ QueueLen \in Nat
      BY BoundsAssumption
    <2>3. inq = <<>> /\ Len(inq) <= QueueLen /\ DOMAIN inq = {}
      BY <2>2 DEF Init
    <2>4. sends \in 0 .. MaxSends
      BY <2>2 DEF Init
    <2>5. so_error \in BOOLEAN
      BY Zenon DEF Init
    <2>6. {buffers, headers, broken} \subseteq Nat
      BY DEF Init
    <2>7. QED
      BY <2>1, <2>3, <2>4, <2>5, <2>6 DEF Init, TypeOK
  <1>2. WellFormed /\ Held /\ InHand /\ OwnPort /\ InReply
    BY DEF Init, WellFormed, Held, InHand, OwnPort, InReply
  <1>3. AnswersOwnQuery /\ SendsOnlyAnswers
    BY DEF Init, NoReply, AnswersOwnQuery, SendsOnlyAnswers
  <1>4. QED
    BY <1>1, <1>2, <1>3 DEF IInv

\* The datagram at the head of the queue.
LEMMA HeadOfQueue ==
    ASSUME IInv, inq # <<>>
    PROVE  /\ Head(inq).from \in Clients
           /\ Head(inq).msg \in Queries
           /\ Tail(inq) \in Seq([from : Clients, msg : Queries])
           /\ Len(Tail(inq)) <= QueueLen
           /\ \A k \in DOMAIN Tail(inq) : Tail(inq)[k].from \in Clients
           /\ Size(Head(inq).msg) \in 0 .. 2^IntBits - 1
  <1> DEFINE D == [from : Clients, msg : Queries]
  <1>1. inq \in Seq(D) /\ Len(inq) <= QueueLen /\ QueueLen \in Nat
    BY BoundsAssumption DEF IInv, WellFormed, TypeOK
  <1>2. /\ Head(inq) \in D /\ Tail(inq) \in Seq(D)
        /\ Len(Tail(inq)) = Len(inq) - 1 /\ Len(inq) \in Nat
    <2> HIDE DEF D
    <2>1. QED
      BY <1>1, HeadTailProperties, LenProperties
  <1>3. Head(inq).from \in Clients /\ Head(inq).msg \in Queries
    BY <1>2
  <1>4. ASSUME NEW k \in DOMAIN Tail(inq) PROVE Tail(inq)[k].from \in Clients
    <2>1. Tail(inq)[k] \in D
      <3> HIDE DEF D
      <3>1. QED BY <1>2, LenProperties, ElementOfSeq
    <2>2. QED
      BY <2>1
  <1>5. Size(Head(inq).msg) \in 0 .. 2^IntBits - 1
    BY <1>3, QueriesAreMessages, Sizes
  <1>6. QED
    BY <1>1, <1>2, <1>3, <1>4, <1>5

\* on_recv has received a datagram.
LEMMA ReceiveStep ==
    ASSUME IInv, Receive
    PROVE  IInv'
  <1>1. /\ Head(inq).from \in Clients /\ Head(inq).msg \in Queries
        /\ inq' \in Seq([from : Clients, msg : Queries]) /\ Len(inq') <= QueueLen
        /\ \A k \in DOMAIN inq' : inq'[k].from \in Clients
        /\ nBytes' \in 0 .. 2^IntBits - 1
    BY HeadOfQueue DEF Receive, TakeUp
  <1>2. query' = Head(inq).msg /\ buffer' = Head(inq).msg
    BY <1>1, QueriesAreMessages, Sizes DEF Receive, TakeUp
  <1> USE DEF Receive, TakeUp, network
  <1>3. TypeOK'
    BY <1>1 DEF IInv, TypeOK
  <1>4. WellFormed'
    BY <1>1 DEF IInv, WellFormed
  <1>5. Held' /\ InHand' /\ OwnPort' /\ InReply'
    BY <1>1, <1>2 DEF IInv, Held, InHand, OwnPort, InReply
  <1>6. AnswersOwnQuery' /\ SendsOnlyAnswers'
    BY DEF IInv, AnswersOwnQuery, SendsOnlyAnswers
  <1>7. QED
    BY <1>3, <1>4, <1>5, <1>6 DEF IInv

\* recvfrom has failed, and on_recv goes on with an empty buffer.
LEMMA RecvFailsStep ==
    ASSUME IInv, RecvFails
    PROVE  IInv'
  <1>1. nBytes' \in 0 .. 2^IntBits - 1
    BY MinusOne DEF RecvFails, TakeUp
  <1>2. query' = NoMessage /\ buffer' = NoMessage
    <2>1. [NoMessage EXCEPT !.tid[1] = 0] = NoMessage
      BY DEF NoMessage
    <2>2. QED
      BY <2>1 DEF RecvFails, TakeUp, Terminate
  <1> USE DEF RecvFails, TakeUp, network
  <1>3. TypeOK'
    <2>1. so_error' \in BOOLEAN
      BY Zenon
    <2>2. QED
      BY <1>1, <2>1 DEF IInv, TypeOK
  <1>4. WellFormed'
    BY DEF IInv, WellFormed
  <1>5. Held' /\ OwnPort' /\ InReply'
    BY DEF IInv, Held, OwnPort, InReply
  <1>6. InHand'
    BY <1>2 DEF InHand
  <1>7. AnswersOwnQuery' /\ SendsOnlyAnswers'
    BY DEF IInv, AnswersOwnQuery, SendsOnlyAnswers
  <1>8. QED
    BY <1>3, <1>4, <1>5, <1>6, <1>7 DEF IInv

\* on_recv gives up before the query is sent, and has released what it held.
LEMMA GivesUp ==
    ASSUME IInv, pc # "dispatch", pc # "await", Return,
           gdnssocket' = "closed",
           headers' = headers, broken' \in Nat, headers = broken',
           UNCHANGED <<sends, inq, so_error, client, query, buffer, nBytes,
                       port, reused, upstream, answers, reply>>
    PROVE  IInv'
  <1>1. pc' = "dispatch" /\ buffers' = 0 /\ port = NoOne
    BY DEF IInv, Held, Return
  <1>2. TypeOK'
    BY <1>1 DEF IInv, TypeOK
  <1>3. WellFormed'
    BY DEF IInv, WellFormed
  <1>4. Held' /\ InHand' /\ OwnPort' /\ InReply'
    BY <1>1 DEF Held, InHand, OwnPort, InReply
  <1>5. AnswersOwnQuery' /\ SendsOnlyAnswers'
    BY DEF IInv, AnswersOwnQuery, SendsOnlyAnswers
  <1>6. QED
    BY <1>2, <1>3, <1>4, <1>5 DEF IInv

\* A datagram is ignored, or the query is given up before it is sent.
LEMMA FailureStep ==
    ASSUME IInv, Ignore \/ OptionFails \/ SendFails
    PROVE  IInv'
  <1> USE DEF request, network
  <1>1. broken \in Nat /\ headers \in Nat
    BY DEF IInv, TypeOK
  <1>2. CASE Ignore
    <2>1. gdnssocket = "closed" /\ headers = broken
      BY <1>2 DEF IInv, TypeOK, Held, Ignore
    <2>2. QED
      BY <1>1, <1>2, <2>1, GivesUp DEF Ignore
  <1>3. CASE OptionFails
    <2>1. headers = broken + 1
      BY <1>3 DEF IInv, Held, OptionFails
    <2>2. QED
      BY <1>1, <1>3, <2>1, GivesUp DEF OptionFails
  <1>4. CASE SendFails
    <2>1. headers = broken
      BY <1>4 DEF IInv, Held, SendFails
    <2>2. QED
      BY <1>1, <1>4, <2>1, GivesUp DEF SendFails
  <1>5. QED
    BY <1>2, <1>3, <1>4

\* A query for an address is taken up: an empty buffer is none.
LEMMA AcceptStep ==
    ASSUME IInv, Accept
    PROVE  IInv'
  <1>1. query \in QueriesForA /\ buffer = query
    <2>1. query \in Queries \cup {NoMessage} /\ buffer = query /\ query.qtype = T_A
      BY DEF IInv, InHand, Accept, verify_dns_buffer
    <2>2. NoMessage.qtype # T_A
      BY DEF NoMessage, T_A
    <2>3. QED
      BY <2>1, <2>2 DEF QueriesForA
  <1>2. buffer' = WithDottedName(query)
    BY <1>1 DEF Accept, WithDottedName
  <1> USE DEF Accept, owned, network
  <1>3. TypeOK'
    BY DEF IInv, TypeOK
  <1>4. WellFormed'
    BY DEF IInv, WellFormed
  <1>5. Held' /\ OwnPort' /\ InReply'
    BY DEF IInv, Held, OwnPort, InReply
  <1>6. InHand'
    BY <1>1, <1>2 DEF InHand, WithDottedName, DottedName
  <1>7. AnswersOwnQuery' /\ SendsOnlyAnswers'
    BY DEF IInv, AnswersOwnQuery, SendsOnlyAnswers
  <1>8. QED
    BY <1>3, <1>4, <1>5, <1>6, <1>7 DEF IInv

\* The header is copied and the socket is open, or could not be opened.
LEMMA OpenSocketStep ==
    ASSUME IInv, OpenSocket
    PROVE  IInv'
  <1> USE DEF OpenSocket, request, network
  <1>1. TypeOK'
    BY DEF IInv, TypeOK
  <1>2. WellFormed'
    BY DEF IInv, WellFormed
  <1>3. Held' /\ OwnPort' /\ InReply'
    BY DEF IInv, Held, OwnPort, InReply
  <1>4. InHand'
    BY DEF IInv, InHand, WithDottedName, DottedName
  <1>5. AnswersOwnQuery' /\ SendsOnlyAnswers'
    BY DEF IInv, AnswersOwnQuery, SendsOnlyAnswers
  <1>6. QED
    BY <1>1, <1>2, <1>3, <1>4, <1>5 DEF IInv

\* The request is built and the header freed.
LEMMA BuildRequestStep ==
    ASSUME IInv, BuildRequest
    PROVE  IInv'
  <1>1. query \in QueriesForA /\ buffer' = Forwarded(WithDottedName(query))
    BY DEF IInv, InHand, BuildRequest
  <1>2. headers = broken + 1 /\ broken \in Nat
    BY DEF IInv, TypeOK, Held, BuildRequest
  <1>3. InHand'
    <2>1. pc' = "send" /\ query' = query
      BY DEF BuildRequest
    <2>2. QED
      BY <1>1, <2>1 DEF InHand, WithDottedName, Forwarded, DottedName, Converted
  <1> USE DEF BuildRequest, network
  <1>4. TypeOK'
    BY <1>2 DEF IInv, TypeOK
  <1>5. WellFormed'
    BY DEF IInv, WellFormed
  <1>6. Held' /\ OwnPort' /\ InReply'
    BY <1>2 DEF IInv, Held, OwnPort, InReply
  <1>7. AnswersOwnQuery' /\ SendsOnlyAnswers'
    BY DEF IInv, AnswersOwnQuery, SendsOnlyAnswers
  <1>8. QED
    BY <1>4, <1>5, <1>6, <1>3, <1>7 DEF IInv

\* The query goes upstream on a port of its own, unless one is given again.
LEMMA SendRequestStep ==
    ASSUME IInv, SendRequest
    PROVE  IInv'
  <1> USE DEF request, owned
  <1>1. /\ query \in QueriesForA
        /\ buffer = Forwarded(WithDottedName(query))
    BY DEF IInv, InHand, SendRequest
  <1>2. PICK p \in PortChoices :
            /\ port' = p
            /\ reused' = (reused \/ p \notin FreePorts)
            /\ upstream' = upstream \cup {[port |-> p, msg |-> buffer]}
    BY DEF SendRequest
  <1>3. p \in Ports /\ p # NoOne
    BY NoOneAssumption DEF PortChoices, FreePorts
  <1>4. buffer \in Messages /\ Asks(buffer, query)
    BY <1>1, Requests
  <1>5. /\ [port |-> p, msg |-> buffer] \in Packets
        /\ [port |-> p, msg |-> buffer].port = p /\ [port |-> p, msg |-> buffer].msg = buffer
    BY <1>3, <1>4 DEF Packets
  <1>6. TypeOK'
    BY <1>2, <1>3 DEF IInv, TypeOK, SendRequest
  <1>7. WellFormed'
    BY <1>2, <1>5 DEF IInv, WellFormed, SendRequest
  <1>8. Held'
    BY <1>2, <1>3 DEF IInv, Held, SendRequest
  <1>9. InHand'
    <2>1. pc' = "await" /\ query' = query /\ buffer' = buffer
      BY DEF SendRequest
    <2>2. QED
      BY <1>1, <2>1 DEF InHand, WithDottedName, Forwarded, DottedName, Converted
  <1>10. OwnPort'
    <2> SUFFICES ASSUME ~reused', NEW m \in upstream' \cup answers', m.port = p
                 PROVE  Asks(m.msg, query)
      BY <1>2 DEF OwnPort, SendRequest, Asks
    <2>1. p \in FreePorts
      BY <1>2
    <2>2. m \notin upstream \cup answers
      BY <2>1 DEF FreePorts
    <2>3. m = [port |-> p, msg |-> buffer]
      BY <1>2, <2>2 DEF SendRequest
    <2>4. QED
      BY <1>4, <1>5, <2>3
  <1>11. InReply' /\ AnswersOwnQuery' /\ SendsOnlyAnswers'
    <2>1. ~reused' => ~reused
      BY <1>2
    <2>2. QED
      BY <2>1 DEF IInv, InReply, AnswersOwnQuery, SendsOnlyAnswers, SendRequest
  <1>12. QED
    BY <1>6, <1>7, <1>8, <1>9, <1>10, <1>11 DEF IInv

\* What follows recvfrom closes the socket, and frees the buffer if it returns.
LEMMA ReceivedHeld ==
    ASSUME IInv, pc = "await", NEW m, NEW n, Received(m, n)
    PROVE  /\ Held'
           /\ buffers' \in Nat
           /\ pc' \in {"reply", "dispatch"} /\ gdnssocket' = "closed" /\ port' = NoOne
           /\ UNCHANGED <<sends, inq, so_error, client, query, headers, broken, upstream,
                          reused, reply>>
  <1>1. buffers = 1 /\ headers = broken
    BY DEF IInv, Held
  <1>2. \/ pc' = "reply" /\ buffers' = 1
        \/ pc' = "dispatch" /\ buffers' = 0
    BY <1>1 DEF Received, Return
  <1>3. /\ gdnssocket' = "closed" /\ port' = NoOne
        /\ UNCHANGED <<sends, inq, so_error, client, query, headers, broken, upstream,
                       reused, reply>>
    BY DEF Received
  <1>4. QED
    BY <1>1, <1>2, <1>3 DEF Held

\* An answer arrives on the port that is open.
LEMMA AnsweredStep ==
    ASSUME IInv, Answered
    PROVE  IInv'
  <1>1. PICK a \in answers : /\ a.port = port
                             /\ answers' = answers \ {a}
                             /\ Received(a.msg, Size(a.msg))
    BY DEF Answered
  <1>2. a.msg \in Messages /\ a.msg.qr = 1
    BY DEF IInv, WellFormed, Packets
  <1>3. /\ nBytes' = Size(a.msg) /\ nBytes' \in 0 .. 2^IntBits - 1
        /\ buffer' = a.msg /\ pc = "await"
    BY <1>1, <1>2, Sizes DEF Received, Answered
  <1>4. /\ Held' /\ buffers' \in Nat
        /\ pc' \in {"reply", "dispatch"} /\ gdnssocket' = "closed" /\ port' = NoOne
        /\ UNCHANGED <<sends, inq, so_error, client, query, headers, broken, upstream,
                       reused, reply>>
    BY <1>1, <1>3, ReceivedHeld
  <1>5. ~reused => Asks(a.msg, query)
    BY <1>1, <1>3 DEF IInv, OwnPort
  <1>6. TypeOK'
    BY <1>4, <1>1, <1>3 DEF IInv, TypeOK
  <1>7. WellFormed'
    BY <1>4, <1>1 DEF IInv, WellFormed
  <1>8. InHand' /\ OwnPort'
    BY <1>4 DEF InHand, OwnPort
  <1>9. InReply'
    BY <1>4, <1>2, <1>3, <1>5 DEF InReply, Asks
  <1>10. AnswersOwnQuery' /\ SendsOnlyAnswers'
    BY <1>4 DEF IInv, AnswersOwnQuery, SendsOnlyAnswers
  <1>11. QED
    BY <1>4, <1>6, <1>7, <1>8, <1>9, <1>10 DEF IInv

\* No answer arrives: what is in the buffer is too long to be sent.
LEMMA TimedOutStep ==
    ASSUME IInv, TimedOut
    PROVE  IInv'
  <1>0. nBytes' = (-1) % 2^IntBits /\ answers' = answers /\ pc = "await"
    BY DEF TimedOut, Received
  <1>1. /\ Held' /\ buffers' \in Nat
        /\ pc' \in {"reply", "dispatch"} /\ gdnssocket' = "closed" /\ port' = NoOne
        /\ UNCHANGED <<sends, inq, so_error, client, query, headers, broken, upstream,
                       reused, reply>>
    BY ReceivedHeld DEF TimedOut
  <1>2. nBytes' \in 0 .. 2^IntBits - 1 /\ ~(nBytes' <= MaxDatagram)
    <2>1. \A n \in Int : n > MaxDatagram => ~(n <= MaxDatagram)
      BY DEF MaxDatagram
    <2>2. 2^IntBits \in Int
      BY WidthAssumption
    <2>3. QED
      BY <1>0, <2>1, <2>2, MinusOne
  <1>3. TypeOK'
    BY <1>0, <1>1, <1>2 DEF IInv, TypeOK
  <1>4. WellFormed'
    BY <1>0, <1>1 DEF IInv, WellFormed
  <1>5. InHand' /\ OwnPort' /\ InReply'
    BY <1>1, <1>2 DEF InHand, OwnPort, InReply
  <1>6. AnswersOwnQuery' /\ SendsOnlyAnswers'
    BY <1>1 DEF IInv, AnswersOwnQuery, SendsOnlyAnswers
  <1>7. QED
    BY <1>1, <1>3, <1>4, <1>5, <1>6 DEF IInv

\* The buffer goes to the client, or is too long.
LEMMA ReplyStep ==
    ASSUME IInv, Reply
    PROVE  IInv'
  <1> USE DEF request, network
  <1>0. buffers' = 0 /\ pc' = "dispatch"
    BY DEF IInv, Held, Reply, Return
  <1>1. TypeOK'
    BY <1>0 DEF IInv, TypeOK, Reply
  <1>2. WellFormed'
    BY DEF IInv, WellFormed, Reply
  <1>3. Held' /\ InHand' /\ OwnPort' /\ InReply'
    BY <1>0 DEF IInv, Held, InHand, OwnPort, InReply, Reply
  <1>4. AnswersOwnQuery' /\ SendsOnlyAnswers'
    <2>1. CASE nBytes > MaxDatagram
      BY <2>1 DEF IInv, AnswersOwnQuery, SendsOnlyAnswers, Reply
    <2>2. CASE ~(nBytes > MaxDatagram)
      <3>1. nBytes <= MaxDatagram
        <4>1. 2^IntBits \in Int
          BY WidthAssumption
        <4>2. nBytes \in Int
          BY <4>1 DEF IInv, TypeOK
        <4>3. QED
          BY <2>2, <4>2 DEF MaxDatagram
      <3>2. buffer.qr = 1 /\ (~reused => Asks(buffer, query))
        BY <3>1 DEF IInv, InReply, Reply
      <3>3. reply' = [to |-> client, query |-> query, msg |-> buffer] /\ reused' = reused
        BY <2>2 DEF Reply
      <3>4. QED
        BY <3>2, <3>3 DEF AnswersOwnQuery, SendsOnlyAnswers, Asks
    <2>3. QED
      BY <2>1, <2>2
  <1>5. QED
    BY <1>1, <1>2, <1>3, <1>4 DEF IInv

\* A client sends a query.
LEMMA SendStep ==
    ASSUME IInv, NEW c \in Clients, Send(c)
    PROVE  IInv'
  <1> USE DEF request, owned, network
  <1> DEFINE D == [from : Clients, msg : Queries]
  <1>1. PICK q \in Questions :
            inq' = IF Len(inq) < QueueLen
                   THEN Append(inq, [from |-> c, msg |-> Query(q)]) ELSE inq
    BY DEF Send
  <1>2. /\ inq \in Seq(D) /\ [from |-> c, msg |-> Query(q)] \in D
        /\ QueueLen \in Nat /\ MaxSends \in Nat /\ Len(inq) <= QueueLen
    BY BoundsAssumption DEF IInv, WellFormed, TypeOK, Queries
  <1>3. inq' \in Seq(D) /\ Len(inq') <= QueueLen
    <2> DEFINE d == [from |-> c, msg |-> Query(q)]
    <2> HIDE DEF D, d
    <2>1. Append(inq, d) \in Seq(D) /\ Len(Append(inq, d)) = Len(inq) + 1 /\ Len(inq) \in Nat
      BY <1>2, AppendProperties, LenProperties DEF d
    <2>2. QED
      BY <1>1, <1>2, <2>1 DEF d
  <1>4. \A k \in DOMAIN inq' : inq'[k].from \in Clients
    <2>1. \A k \in DOMAIN inq' : inq'[k] \in D
      <3> HIDE DEF D
      <3>1. QED BY <1>3, LenProperties, ElementOfSeq
    <2>2. QED
      BY <2>1
  <1>5. sends' \in 0 .. MaxSends
    BY <1>2 DEF IInv, TypeOK, Send
  <1>6. TypeOK'
    BY <1>3, <1>4, <1>5 DEF IInv, TypeOK, Send
  <1>7. WellFormed'
    BY <1>3 DEF IInv, WellFormed, Send
  <1>8. Held' /\ InHand' /\ OwnPort' /\ InReply'
    BY DEF IInv, Held, InHand, OwnPort, InReply, Send
  <1>9. AnswersOwnQuery' /\ SendsOnlyAnswers'
    BY DEF IInv, AnswersOwnQuery, SendsOnlyAnswers, Send
  <1>10. QED
    BY <1>6, <1>7, <1>8, <1>9 DEF IInv

\* The kernel has an error to report.
LEMMA SocketErrorStep ==
    ASSUME IInv, SocketError
    PROVE  IInv'
  <1> USE DEF SocketError, request, owned, network
  <1>1. sends' \in 0 .. MaxSends
    BY BoundsAssumption DEF IInv, TypeOK
  <1>2. TypeOK'
    BY <1>1 DEF IInv, TypeOK
  <1>3. WellFormed'
    BY DEF IInv, WellFormed
  <1>4. Held' /\ InHand' /\ OwnPort' /\ InReply'
    BY DEF IInv, Held, InHand, OwnPort, InReply
  <1>5. AnswersOwnQuery' /\ SendsOnlyAnswers'
    BY DEF IInv, AnswersOwnQuery, SendsOnlyAnswers
  <1>6. QED
    BY <1>2, <1>3, <1>4, <1>5 DEF IInv

\* The upstream server answers on the port it was asked from.
LEMMA UpstreamAnswersStep ==
    ASSUME IInv, UpstreamAnswers
    PROVE  IInv'
  <1> USE DEF request, owned
  <1>1. PICK u \in upstream :
            answers' = answers \cup
               {[port |-> u.port,
                 msg |-> [u.msg EXCEPT !.qr = 1, !.ans_count = 1, !.records = 1]]}
    BY DEF UpstreamAnswers
  <1> DEFINE m == [u.msg EXCEPT !.qr = 1, !.ans_count = 1, !.records = 1]
             a == [port |-> u.port, msg |-> m]
  <1>2. u.msg \in Messages /\ u.port \in Ports
    BY DEF IInv, WellFormed, Packets
  <1>3. m \in Messages /\ m.qr = 1 /\ m.tid = u.msg.tid /\ m.qname = u.msg.qname
    BY <1>2 DEF Messages
  <1> HIDE DEF m
  <1>4. a \in Packets /\ a.port = u.port /\ a.msg = m
    BY <1>2, <1>3 DEF Packets
  <1>5. answers' = answers \cup {a}
    BY <1>1 DEF m
  <1> HIDE DEF a
  <1>6. TypeOK'
    BY <1>2, <1>4, <1>5 DEF IInv, TypeOK, UpstreamAnswers
  <1>7. WellFormed'
    BY <1>3, <1>4, <1>5 DEF IInv, WellFormed, UpstreamAnswers
  <1>8. OwnPort'
    BY <1>3, <1>4, <1>5 DEF IInv, OwnPort, Asks, UpstreamAnswers
  <1>9. Held' /\ InHand' /\ InReply'
    BY DEF IInv, Held, InHand, InReply, UpstreamAnswers
  <1>10. AnswersOwnQuery' /\ SendsOnlyAnswers'
    BY DEF IInv, AnswersOwnQuery, SendsOnlyAnswers, UpstreamAnswers
  <1>11. QED
    BY <1>6, <1>7, <1>8, <1>9, <1>10 DEF IInv

\* A message is lost.
LEMMA LoseStep ==
    ASSUME IInv, Lose
    PROVE  IInv'
  <1>1. /\ upstream' \subseteq upstream /\ answers' \subseteq answers
        /\ UNCHANGED <<sends, inq, so_error, pc, client, query, buffer, nBytes,
                       buffers, headers, gdnssocket, broken, port, reused, reply>>
    BY DEF Lose, request, owned
  <1>2. TypeOK'
    BY <1>1 DEF IInv, TypeOK
  <1>3. WellFormed' /\ OwnPort'
    BY <1>1 DEF IInv, WellFormed, OwnPort
  <1>4. Held' /\ InHand' /\ InReply'
    BY <1>1 DEF IInv, Held, InHand, InReply
  <1>5. AnswersOwnQuery' /\ SendsOnlyAnswers'
    BY <1>1 DEF IInv, AnswersOwnQuery, SendsOnlyAnswers
  <1>6. QED
    BY <1>2, <1>3, <1>4, <1>5 DEF IInv

\* Every reachable state satisfies the inductive invariant.
THEOREM Invariance ==
    Spec => []IInv
  <1>1. IInv /\ [Next]_vars => IInv'
    <2> SUFFICES ASSUME IInv, [Next]_vars PROVE IInv'
      OBVIOUS
    <2>1. CASE ServerNext
      BY <2>1, ReceiveStep, RecvFailsStep, AcceptStep, OpenSocketStep, FailureStep,
         BuildRequestStep, SendRequestStep, AnsweredStep, TimedOutStep, ReplyStep
      DEF ServerNext
    <2>2. CASE \E c \in Clients : Send(c)
      BY <2>2, SendStep
    <2>3. CASE SocketError \/ UpstreamAnswers \/ Lose
      BY <2>3, SocketErrorStep, UpstreamAnswersStep, LoseStep
    <2>4. CASE UNCHANGED vars
      BY <2>4 DEF vars, request, owned, network, IInv, TypeOK, WellFormed, Held, InHand, OwnPort, InReply,
                  AnswersOwnQuery, SendsOnlyAnswers
    <2>5. QED
      BY <2>1, <2>2, <2>3, <2>4 DEF Next
  <1>2. QED
    BY <1>1, ServerStarts, PTL DEF Spec

\* The variables keep their types: a length in nBytes, even of a failed
\* recvfrom, is one that an unsigned int holds.
THEOREM TypeCorrect ==
    Spec => []TypeOK
  BY Invariance, PTL DEF IInv

\* A client is sent the answer to its own query, as long as no port has been
\* given again while an answer to it was due (server.c 157-183, utils.c 202-280).
THEOREM OwnAnswers ==
    Spec => []AnswersOwnQuery
  BY Invariance, PTL DEF IInv

\* A timeout never sends a client its own query (utils.c 261-280, server.c 180).
THEOREM OnlyAnswers ==
    Spec => []SendsOnlyAnswers
  BY Invariance, PTL DEF IInv

\* Whatever fails on the way, the socket is closed and the buffer freed when
\* on_recv returns, for any clients, questions and ports; only a header whose
\* socket could not be set up is left behind (server.c 107-186, utils.c 198-280).
THEOREM SocketsReleased ==
    Spec => []Released
  <1>1. IInv => Released
    BY DEF IInv, TypeOK, Held, Released
  <1>2. QED
    BY <1>1, Invariance, PTL

\* Where a pointer has 8 bytes (any number from 6 to 11 would do), the upstream
\* server is asked what the client asked, with counts that agree with the
\* message (utils.c 234-255).
THEOREM QuestionsForwarded ==
    ASSUME PointerSize \in 6 .. 11
    PROVE  Spec => []ForwardsQuestion
  <1>1. IInv => ForwardsQuestion
    <2> SUFFICES ASSUME IInv, pc = "await"
                 PROVE  /\ Asks(buffer, query)
                        /\ buffer.qtype = query.qtype
                        /\ buffer.q_count = 1
                        /\ buffer.ans_count + buffer.add_count = buffer.records
      BY DEF ForwardsQuestion, Asks
    <2>1. query \in QueriesForA /\ buffer = Forwarded(WithDottedName(query))
      BY DEF IInv, InHand
    <2>2. query.qtype = T_A
      BY <2>1 DEF QueriesForA
    <2>3. 6 <= PointerSize /\ ~(12 <= PointerSize)
      OBVIOUS
    <2>4. QED
      BY <2>1, <2>2, <2>3, Requests
  <1>2. QED
    BY <1>1, Invariance, PTL
=============================================================================
