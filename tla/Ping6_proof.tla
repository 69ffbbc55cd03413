---------------------------- MODULE Ping6_proof ----------------------------
(***************************************************************************)
(* Proofs about Ping6, for every number of tries, every timeout and every  *)
(* bound on the ages.                                                      *)
(*                                                                         *)
(* GivesUpLate and NeverTooLong speak of the last step only.  The          *)
(* strengthening says how old each request is at any time: while the       *)
(* program is in its k-th wait, request l has had k - l whole timeouts and *)
(* what the current recvfrom has waited; and an earlier request is never   *)
(* younger than a later one.                                               *)
(*                                                                         *)
(* The second part is about the checksum of the three pings, for packets   *)
(* of any length that the 32-bit sum allows and every number of values a   *)
(* byte can have.  Sums are folds, which are recursive functions: that     *)
(* they exist, and what holds along them, is shown with the least place at *)
(* which it would fail.  The receiver of an ICMPv6 packet sums other bytes *)
(* than the sender did: that a sum of joined packets is the sum of the     *)
(* parts, and that padding adds nothing, shows that it gets zero.          *)
(*                                                                         *)
(* The third part is about addTwoNumbers, for every base: with the values  *)
(* of the digits from each place on, the sum is right from the last place  *)
(* down, since no carry is above 1.                                        *)
(***************************************************************************)
EXTENDS Ping6, Sequential, SequenceTheorems, FiniteSetTheorems,
        WellFoundedInduction, TLAPS

\* The requests sent are the tries counted, and the one under way.
Counted == /\ pc \in SettingUp => sent = 0 /\ trycount = 0
           /\ pc = "send" => sent = trycount /\ trycount < trylim
           /\ pc = "recv" => sent = trycount + 1 /\ trycount < trylim
           /\ pc = "gave_up" => sent = trylim

\* How long each request has had at least.
Aged == /\ pc = "send" => \A k \in Tries : k <= sent => age[k] >= timeout * (sent - k + 1)
        /\ pc = "recv" => \A k \in Tries : k <= sent => age[k] >= timeout * (sent - k) + waited

\* Requests are sent one after the other.
Ordered == \A k, l \in Tries : k <= l /\ l <= sent => age[l] <= age[k]

IInv == /\ TypeOK
        /\ Counted
        /\ Aged
        /\ Ordered
        /\ GivesUpLate
        /\ NeverTooLong

-----------------------------------------------------------------------------
\* Multiplication is monotonic and distributes over the next number.
LEMMA Times ==
    ASSUME NEW t \in Nat, NEW a \in Nat, NEW b \in Nat, a <= b
    PROVE  /\ t * a \in Nat
           /\ t * a <= t * b
           /\ t * (a + 1) = t * a + t
<1>1. t * b = t * a + t * (b - a)
  OBVIOUS
<1>2. t * a \in Nat /\ t * (b - a) \in Nat
  <2>1. b - a \in Nat
    OBVIOUS
  <2>2. QED
    BY <2>1
<1>3. t * (a + 1) = t * a + t
  OBVIOUS
<1>4. QED
  BY <1>1, <1>2, <1>3

\* The program starts in the strengthened invariant.
LEMMA InitIInv == Init => IInv
<1> SUFFICES ASSUME Init
             PROVE  IInv
  OBVIOUS
<1>0. trylim \in Nat \ {0} /\ timeout \in Nat \ {0} /\ MaxAge \in Nat
  BY LimitsAssumption, AgeAssumption
<1>1. TypeOK
  <2>1. foreign \in BOOLEAN
    BY DEF Init
  <2>2. age \in [Tries -> 0 .. MaxAge]
    BY <1>0 DEF Init
  <2>3. QED
    BY <1>0, <2>1, <2>2 DEF Init, TypeOK, SettingUp
<1>2. Counted
  BY <1>0 DEF Init, Counted, SettingUp
<1>3. \A k \in Tries : ~(k <= sent)
  BY <1>0 DEF Init, Tries
<1>4. Aged /\ Ordered
  BY <1>3 DEF Init, Aged, Ordered
<1>5. GivesUpLate /\ NeverTooLong
  BY DEF Init, GivesUpLate, NeverTooLong
<1>6. QED
  BY <1>1, <1>2, <1>4, <1>5 DEF IInv

\* A second passes: every request ages alike, and an age that stops at MaxAge
\* is old enough.
LEMMA TickIInv == IInv /\ Tick => IInv'
<1> SUFFICES ASSUME IInv, Tick
             PROVE  IInv'
  OBVIOUS
<1>0. trylim \in Nat \ {0} /\ timeout \in Nat \ {0} /\ MaxAge \in Nat
  BY LimitsAssumption, AgeAssumption
<1> USE <1>0
<1>1. TypeOK'
  BY DEF IInv, TypeOK, Tick, Tries, Ended
<1>2. Counted'
  BY DEF IInv, Counted, Tick, SettingUp
<1>3. Aged'
  <2>0. pc' = "recv" /\ sent' = sent /\ waited' = waited + 1 /\ Tries' = Tries
    BY DEF Tick, Tries
  <2> SUFFICES ASSUME NEW k \in Tries, k <= sent
               PROVE  age'[k] >= timeout * (sent - k) + (waited + 1)
    BY <2>0 DEF Aged
  <2>1. age[k] >= timeout * (sent - k) + waited
    BY DEF IInv, Aged, Tick
  <2>2. sent \in Nat /\ sent <= trylim /\ waited \in Nat /\ waited < timeout /\ age[k] \in 0 .. MaxAge
    BY DEF IInv, TypeOK, Tick
  <2>3. k \in Nat /\ k >= 1
    BY DEF Tries
  <2>4. timeout * (sent - k) + waited + 1 <= MaxAge
    <3>1. sent - k \in Nat /\ sent - k + 1 \in Nat /\ sent - k + 1 <= trylim
      BY <2>2, <2>3
    <3> DEFINE a == sent - k
    <3> HIDE DEF a
    <3>2. /\ timeout * a \in Nat
          /\ timeout * (a + 1) = timeout * a + timeout
      BY <3>1, Times DEF a
    <3>3. timeout * (a + 1) <= timeout * trylim
      BY <3>1, Times DEF a
    <3>4. timeout * trylim <= MaxAge
      BY AgeAssumption
    <3>5. timeout * trylim \in Nat
      OBVIOUS
    <3>6. timeout * a + waited + 1 <= MaxAge
      BY <3>2, <3>3, <3>4, <3>5, <2>2
    <3>7. QED
      BY <3>6 DEF a
  <2>5. age'[k] = IF age[k] < MaxAge THEN age[k] + 1 ELSE age[k]
    BY DEF Tick, IInv, TypeOK
  <2>6. timeout * (sent - k) \in Nat
    <3>1. sent - k \in Nat
      BY <2>2, <2>3
    <3>2. QED
      BY <3>1
  <2>7. QED
    BY <2>1, <2>2, <2>4, <2>5, <2>6
<1>4. Ordered'
  BY DEF IInv, TypeOK, Ordered, Tick, Tries
<1>5. GivesUpLate' /\ NeverTooLong'
  BY DEF GivesUpLate, NeverTooLong, Tick
<1>6. QED
  BY <1>1, <1>2, <1>3, <1>4, <1>5 DEF IInv

\* A timeout: the wait that ends was a whole one.
LEMMA NoReplyIInv == IInv /\ NoReply => IInv'
<1> SUFFICES ASSUME IInv, NoReply
             PROVE  IInv'
  OBVIOUS
<1>0. trylim \in Nat \ {0} /\ timeout \in Nat \ {0} /\ MaxAge \in Nat
  BY LimitsAssumption, AgeAssumption
<1> USE <1>0
<1>1. TypeOK'
  BY DEF IInv, TypeOK, Counted, NoReply, SettingUp, Ended
<1>2. Counted'
  BY DEF IInv, TypeOK, Counted, NoReply, SettingUp
<1>3. ASSUME NEW k \in Tries, k <= sent
      PROVE  age[k] >= timeout * (sent - k + 1)
  <2>1. age[k] >= timeout * (sent - k) + timeout
    BY <1>3 DEF IInv, Aged, NoReply
  <2>2. sent - k \in Nat
    BY <1>3 DEF IInv, TypeOK, Tries
  <2> DEFINE a == sent - k
  <2>3. timeout * (a + 1) = timeout * a + timeout
    <3> HIDE DEF a
    <3>1. a \in Nat
      BY <2>2 DEF a
    <3>2. QED
      BY <3>1, Times
  <2>4. QED
    BY <2>1, <2>3
<1>4. Aged'
  BY <1>3 DEF NoReply, Aged
<1>5. Ordered'
  BY DEF IInv, Ordered, NoReply
<1>6. GivesUpLate' /\ NeverTooLong'
  <2>1. CASE trycount + 1 = trylim
    <3>1. sent = trylim
      BY <2>1 DEF IInv, Counted, NoReply, SettingUp
    <3>2. \A k \in Tries : k <= sent
      BY <3>1 DEF Tries
    <3>3. \A k \in Tries : age[k] >= timeout * (trylim - k + 1)
      BY <1>3, <3>1, <3>2
    <3>4. QED
      BY <2>1, <3>1, <3>3 DEF NoReply, GivesUpLate, NeverTooLong
  <2>2. CASE trycount + 1 # trylim
    BY <2>2 DEF NoReply, GivesUpLate, NeverTooLong
  <2>3. QED
    BY <2>1, <2>2
<1>7. QED
  BY <1>1, <1>2, <1>4, <1>5, <1>6 DEF IInv

\* A request is sent: it is the youngest, and it has had no time yet.
LEMMA SendIInv == IInv /\ Send => IInv'
<1> SUFFICES ASSUME IInv, Send
             PROVE  IInv'
  OBVIOUS
<1>0. trylim \in Nat \ {0} /\ timeout \in Nat \ {0} /\ MaxAge \in Nat
  BY LimitsAssumption, AgeAssumption
<1> USE <1>0
<1>1. sent + 1 \in Tries
  BY DEF IInv, TypeOK, Counted, Send, Tries
<1>2. TypeOK'
  BY <1>1 DEF IInv, TypeOK, Send, Tries, Ended
<1>3. Counted'
  BY DEF IInv, Counted, Send, SettingUp
<1>4. Aged'
  <2>0. pc' = "recv" /\ sent' = sent + 1 /\ waited' = 0 /\ Tries' = Tries
    BY DEF Send, Tries
  <2> SUFFICES ASSUME NEW k \in Tries, k <= sent'
               PROVE  age'[k] >= timeout * (sent' - k) + waited'
    BY <2>0 DEF Aged
  <2>1. k \in Nat /\ sent \in Nat
    BY DEF Tries, IInv, TypeOK
  <2>2. CASE k = sent + 1
    <3>1. age'[k] = 0
      BY <2>2 DEF Send, IInv, TypeOK
    <3>2. timeout * (sent' - k) = 0
      <4>1. sent' - k = 0
        BY <2>0, <2>1, <2>2
      <4>2. QED
        BY <4>1
    <3>3. QED
      BY <2>0, <3>1, <3>2
  <2>3. CASE k # sent + 1
    <3>1. age'[k] = age[k] /\ k <= sent
      BY <2>0, <2>1, <2>3 DEF Send, IInv, TypeOK
    <3>2. age[k] >= timeout * (sent - k + 1)
      BY <3>1 DEF IInv, Aged, Send
    <3>3. sent - k + 1 = sent' - k /\ sent - k + 1 \in Nat
      BY <2>0, <2>1, <3>1
    <3>4. timeout * (sent - k + 1) = timeout * (sent' - k) + 0
      BY <3>3
    <3>5. QED
      BY <2>0, <3>1, <3>2, <3>4
  <2>4. QED
    BY <2>2, <2>3
<1>5. Ordered'
  BY <1>1 DEF IInv, TypeOK, Ordered, Send, Tries
<1>6. GivesUpLate' /\ NeverTooLong'
  BY DEF GivesUpLate, NeverTooLong, Send
<1>7. QED
  BY <1>2, <1>3, <1>4, <1>5, <1>6 DEF IInv

\* Every step preserves the strengthened invariant.
LEMMA StepIInv == IInv /\ [Next]_vars => IInv'
<1> SUFFICES ASSUME IInv, [Next]_vars
             PROVE  IInv'
  OBVIOUS
<1>0. trylim \in Nat \ {0} /\ timeout \in Nat \ {0} /\ MaxAge \in Nat
  BY LimitsAssumption, AgeAssumption
<1>1. CASE Send
  BY <1>1, SendIInv
<1>2. CASE Fail
  BY <1>2 DEF IInv, TypeOK, Counted, Aged, Ordered, GivesUpLate, NeverTooLong, Fail, SettingUp, Ended
<1>3. ASSUME NEW k \in Tries, Reply(k)
      PROVE  IInv'
  <2>1. sent \in Tries /\ age[sent] <= age[k]
    BY <1>0, <1>3 DEF IInv, TypeOK, Counted, Ordered, Reply, Tries
  <2>2. TypeOK' /\ Counted' /\ Aged' /\ Ordered'
    BY <1>3, <2>1 DEF IInv, TypeOK, Counted, Aged, Ordered, Reply, SettingUp, Ended
  <2>3. GivesUpLate' /\ NeverTooLong'
    BY <1>3, <2>1 DEF GivesUpLate, NeverTooLong, Reply
  <2>4. QED
    BY <2>2, <2>3 DEF IInv
<1>4. CASE ForeignReply
  <2>1. sent \in Tries
    BY <1>0, <1>4 DEF IInv, TypeOK, Counted, ForeignReply, Tries
  <2>2. TypeOK' /\ Counted' /\ Aged' /\ Ordered'
    BY <1>4, <2>1 DEF IInv, TypeOK, Counted, Aged, Ordered, ForeignReply, SettingUp, Ended
  <2>3. GivesUpLate' /\ NeverTooLong'
    BY <1>4 DEF GivesUpLate, NeverTooLong, ForeignReply
  <2>4. QED
    BY <2>2, <2>3 DEF IInv
<1>5. CASE Again
  <2>1. TypeOK' /\ Counted' /\ Ordered'
    BY <1>0, <1>5 DEF IInv, TypeOK, Counted, Ordered, Again, SettingUp
  <2>2. Aged'
    <3> SUFFICES ASSUME NEW k \in Tries, k <= sent
                 PROVE  age[k] >= timeout * (sent - k) + 0
      BY <1>5 DEF Aged, Again
    <3>1. age[k] >= timeout * (sent - k) + waited
      BY <1>5 DEF IInv, Aged, Again
    <3>2. waited \in Nat /\ age[k] \in Nat
      BY DEF IInv, TypeOK
    <3>3. timeout * (sent - k) \in Nat
      <4>1. sent - k \in Nat
        BY DEF IInv, TypeOK, Tries
      <4>2. QED
        BY <1>0, <4>1
    <3>4. QED
      BY <3>1, <3>2, <3>3
  <2>3. GivesUpLate' /\ NeverTooLong'
    BY <1>5 DEF GivesUpLate, NeverTooLong, Again
  <2>4. QED
    BY <2>1, <2>2, <2>3 DEF IInv
<1>6. CASE NoReply
  BY <1>6, NoReplyIInv
<1>7. CASE Tick
  BY <1>7, TickIInv
<1>8. CASE Over \/ UNCHANGED vars
  BY <1>8 DEF IInv, TypeOK, Counted, Aged, Ordered, GivesUpLate, NeverTooLong, Over, vars
<1>9. CASE SetUp
  <2>1. /\ pc \in SettingUp
        /\ pc' \in SettingUp \cup {"send"}
        /\ trycount' = 0
        /\ sent = 0
        /\ UNCHANGED <<sent, age, waited, dt, took, foreign>>
    BY <1>9 DEF SetUp, Allocate, FindInterface, Resolve, BuildFrame, SettingUp, IInv, Counted
  <2>2. \A k \in Tries : ~(k <= sent)
    BY <1>0, <2>1 DEF Tries
  <2>3. TypeOK'
    BY <1>0, <2>1 DEF IInv, TypeOK
  <2>4. Counted'
    BY <1>0, <2>1 DEF SettingUp, Counted
  <2>5. Aged' /\ Ordered'
    BY <2>1, <2>2 DEF IInv, SettingUp, Aged, Ordered
  <2>6. GivesUpLate' /\ NeverTooLong'
    BY <2>1 DEF SettingUp, GivesUpLate, NeverTooLong
  <2>7. QED
    BY <2>3, <2>4, <2>5, <2>6 DEF IInv
<1>10. QED
  BY <1>1, <1>2, <1>3, <1>4, <1>5, <1>6, <1>7, <1>8, <1>9 DEF Next

-----------------------------------------------------------------------------
\* The strengthened invariant holds of every behaviour of the program.
LEMMA Inductive == Spec => []IInv
BY InitIInv, StepIInv, PTL DEF Spec

\* Every variable keeps its range, for any trylim and timeout: in particular
\* trycount never passes trylim, so the test for equality with it (line 358)
\* cannot be jumped over.
THEOREM TypeCorrect == Spec => []TypeOK
<1>1. IInv => TypeOK
  BY DEF IInv
<1>2. QED
  BY <1>1, Inductive, PTL

\* The program gives up only after trylim requests, each of which has had at
\* least its whole timeout (lines 271-273, 318-321, 358-361).
THEOREM GivesUpAfterAllTries == Spec => []GivesUpLate
<1>1. IInv => GivesUpLate
  BY DEF IInv
<1>2. QED
  BY <1>1, Inductive, PTL

\* The reported time is never longer than the reply took (lines 293 and 335).
THEOREM TimeIsNotOverstated == Spec => []NeverTooLong
<1>1. IInv => NeverTooLong
  BY DEF IInv
<1>2. QED
  BY <1>1, Inductive, PTL
-----------------------------------------------------------------------------
\* What a word is, for every number of byte values.
LEMMA WordIs == Word \in Nat /\ Word >= 4 /\ Word - 1 \in Nat \ {0}
  <1>1. Byte \in Nat /\ Byte >= 2
    BY ByteAssumption
  <1>2. Byte * Byte >= 2 * 2
    BY <1>1
  <1>3. QED
    BY <1>1, <1>2 DEF Word

\* Two ways to divide by m leave the same.
LEMMA SameRemainder ==
    ASSUME NEW m \in Nat \ {0}, NEW q \in Nat, NEW u \in Nat,
           NEW r \in 0 .. m - 1, NEW v \in 0 .. m - 1, q * m + r = u * m + v
    PROVE  q = u /\ r = v
  <1>1. CASE q < u
    <2>1. q + 1 <= u
      BY <1>1
    <2>2. (q + 1) * m <= u * m
      BY <2>1
    <2>3. QED BY <2>2
  <1>2. CASE u < q
    <2>1. u + 1 <= q
      BY <1>2
    <2>2. (u + 1) * m <= q * m
      BY <2>1
    <2>3. QED BY <2>2
  <1>3. QED
    BY <1>1, <1>2

\* What division leaves.
LEMMA Division ==
    ASSUME NEW a \in Nat, NEW m \in Nat \ {0}
    PROVE  a = (a \div m) * m + (a % m) /\ a % m \in 0 .. m - 1 /\ a \div m \in Nat
  OBVIOUS

\* Quotient and remainder are unique.
LEMMA Quotient ==
    ASSUME NEW a \in Nat, NEW q \in Nat, NEW r \in 0 .. Word - 1, a = q * Word + r
    PROVE  a \div Word = q /\ a % Word = r
  <1>1. Word \in Nat \ {0}
    BY WordIs
  <1>2. a = (a \div Word) * Word + (a % Word) /\ a % Word \in 0 .. Word - 1 /\ a \div Word \in Nat
    BY <1>1
  <1>3. QED
    BY <1>1, <1>2, SameRemainder

\* The parts of a sum that is below Word * Word.
LEMMA Parts ==
    ASSUME NEW a \in Nat, a < Word * Word
    PROVE  /\ a \div Word \in 0 .. Word - 1
           /\ a % Word \in 0 .. Word - 1
           /\ a = (a \div Word) * Word + (a % Word)
  <1>1. Word \in Nat \ {0}
    BY WordIs
  <1>2. a = (a \div Word) * Word + (a % Word) /\ a % Word \in 0 .. Word - 1 /\ a \div Word \in Nat
    BY <1>1
  <1>3. a \div Word < Word
    <2>1. SUFFICES ASSUME a \div Word >= Word PROVE FALSE
      BY <1>1, <1>2
    <2>2. (a \div Word) * Word >= Word * Word
      BY <2>1, <1>1, <1>2
    <2>3. QED BY <2>2, <1>1, <1>2
  <1>4. QED
    BY <1>1, <1>2, <1>3

\* A sum with its carries added end-around, once.
Norm(a) == OnesPlus(a \div Word, a % Word)

\* It fits a word.
LEMMA NormIs ==
    ASSUME NEW a \in Nat, a < Word * Word
    PROVE  Norm(a) \in 0 .. Word - 1
  <1>1. a \div Word \in 0 .. Word - 1 /\ a % Word \in 0 .. Word - 1
    BY Parts
  <1>2. QED
    BY <1>1, WordIs DEF Norm, OnesPlus

\* Below Word there is nothing to fold.
LEMMA Small ==
    ASSUME NEW a \in 0 .. Word - 1
    PROVE  a \div Word = 0 /\ a % Word = a
  <1>1. a \in Nat /\ a = 0 * Word + a
    BY WordIs
  <1>2. QED
    BY <1>1, Quotient

\* Between Word and 2 * Word the carry is one.
LEMMA Carry ==
    ASSUME NEW a \in Nat, a >= Word, a < 2 * Word
    PROVE  a \div Word = 1 /\ a % Word = a - Word
  <1>1. a = 1 * Word + (a - Word) /\ a - Word \in 0 .. Word - 1
    BY WordIs
  <1>2. QED
    BY <1>1, Quotient

\* Two folds are enough: myping.c and myping_synchronous.c.
LEMMA TwoFolds ==
    ASSUME NEW a \in Nat, a < Word * Word
    PROVE  FoldTwice(a) % Word = Norm(a)
  <1> DEFINE q == a \div Word
             r == a % Word
             once == q + r
  <1>1. q \in 0 .. Word - 1 /\ r \in 0 .. Word - 1
    BY Parts
  <1>2. FoldTwice(a) = once + (once \div Word)
    BY DEF FoldTwice
  <1>3. Norm(a) = IF once < Word THEN once ELSE once - Word + 1
    BY <1>1, WordIs DEF Norm, OnesPlus
  <1> HIDE DEF q, r
  <1>4. CASE once < Word
    <2>1. once \in 0 .. Word - 1
      BY <1>1, <1>4, WordIs
    <2>2. once \div Word = 0 /\ once % Word = once
      BY <2>1, Small
    <2>3. QED
      BY <2>1, <2>2, <1>2, <1>3, <1>4
  <1>5. CASE once >= Word
    <2>1. once \in Nat /\ once < 2 * Word
      BY <1>1, <1>5, WordIs
    <2>2. once \div Word = 1
      BY <2>1, <1>5, Carry
    <2>3. FoldTwice(a) = once + 1 /\ once + 1 \in Nat /\ once + 1 >= Word /\ once + 1 < 2 * Word
      BY <1>1, <1>2, <1>5, <2>2, WordIs
    <2>4. (once + 1) % Word = (once + 1) - Word
      BY <2>3, Carry
    <2>5. QED
      BY <2>1, <2>3, <2>4, <1>3, <1>5, WordIs
  <1>6. QED
    BY <1>1, <1>4, <1>5, WordIs

\* A word more, before or after the carries are added.
LEMMA NormAdds ==
    ASSUME NEW a \in Nat, NEW w \in 0 .. Word - 1, a + w < Word * Word
    PROVE  Norm(a + w) = OnesPlus(Norm(a), w)
  <1> DEFINE q == a \div Word
             r == a % Word
  <1>0. a < Word * Word /\ a + w \in Nat
    BY WordIs
  <1>1. q \in 0 .. Word - 1 /\ r \in 0 .. Word - 1 /\ a = q * Word + r
    BY <1>0, Parts
  <1>2. Norm(a) = IF q + r < Word THEN q + r ELSE q + r - Word + 1
    BY DEF Norm, OnesPlus
  <1> HIDE DEF q, r
  <1>3. CASE r + w < Word
    <2>1. a + w = q * Word + (r + w) /\ r + w \in 0 .. Word - 1 /\ q \in Nat
      BY <1>1, <1>3, WordIs
    <2>2. (a + w) \div Word = q /\ (a + w) % Word = r + w
      BY <1>0, <2>1, Quotient
    <2>3. QED
      BY <1>1, <1>2, <1>3, <2>2, WordIs DEF Norm, OnesPlus
  <1>4. CASE r + w >= Word
    <2>1. (r + w) - Word \in 0 .. Word - 1 /\ q + 1 \in Nat
      BY <1>1, <1>4, WordIs
    <2>2. a + w = (q + 1) * Word + ((r + w) - Word)
      BY <1>1, WordIs
    <2>3. (a + w) \div Word = q + 1 /\ (a + w) % Word = (r + w) - Word
      BY <1>0, <2>1, <2>2, Quotient
    <2>4. QED
      BY <1>1, <1>2, <1>4, <2>3, WordIs DEF Norm, OnesPlus
  <1>5. QED
    BY <1>1, <1>3, <1>4, WordIs

\* The loop of ping6_ll.c ends: what it leaves is 0 for 0 and else the remainder
\* of the division by Word - 1, counted from 1.
Left(a) == IF a = 0 THEN 0 ELSE 1 + ((a - 1) % (Word - 1))

\* One turn of the loop leaves that as it is.
LEMMA LeftFolds ==
    ASSUME NEW a \in Nat
    PROVE  Left(a) = IF a \div Word = 0 THEN a ELSE Left((a % Word) + (a \div Word))
  <1> DEFINE q == a \div Word
             r == a % Word
             m == Word - 1
  <1>1. q \in Nat /\ r \in 0 .. Word - 1 /\ a = q * Word + r
    BY WordIs
  <1>2. m \in Nat /\ m >= 3 /\ Word = m + 1
    BY WordIs
  <1> HIDE DEF q, r, m
  <1>3. CASE q = 0
    <2>1. a = r
      BY <1>1, <1>2, <1>3
    <2>2. a # 0 => a - 1 \in 0 .. m - 1
      BY <1>1, <1>2, <2>1
    <2>3. a # 0 => (a - 1) % m = a - 1
      BY <1>2, <2>2
    <2>4. Left(a) = a
      BY <2>3 DEF Left, m
    <2>5. QED
      BY <2>4, <1>3 DEF q
  <1>4. CASE q # 0
    <2>1. r + q \in Nat \ {0} /\ a \in Nat \ {0}
      <3>1. q >= 1 /\ Word >= 1 /\ r >= 0
        BY <1>1, <1>2, <1>4
      <3>2. q * Word >= 1
        BY <3>1, <1>1, <1>2
      <3>3. QED BY <1>1, <1>2, <3>1, <3>2
    <2>2. a - 1 = q * m + ((r + q) - 1)
      BY <1>1, <1>2
    <2> DEFINE b == (r + q) - 1
               d == b \div m
               e == b % m
    <2>3. b \in Nat
      BY <2>1
    <2>4. b = d * m + e /\ d \in Nat /\ e \in 0 .. m - 1
      <3>1. m \in Nat \ {0}
        BY <1>2
      <3> HIDE DEF b
      <3>2. QED BY <2>3, <3>1, Division
    <2> HIDE DEF d, e, b
    <2>5. a - 1 = (q + d) * m + e
      BY <2>2, <2>4, <1>1, <1>2 DEF b
    <2>6. (a - 1) % m = e
      <3>1. a - 1 \in Nat /\ q + d \in Nat
        BY <2>1, <2>4, <1>1
      <3>2. /\ a - 1 = ((a - 1) \div m) * m + ((a - 1) % m)
            /\ (a - 1) % m \in 0 .. m - 1 /\ (a - 1) \div m \in Nat
        BY <3>1, <1>2
      <3>3. QED
        BY <2>4, <2>5, <3>1, <3>2, <1>2, SameRemainder
    <2>7. Left(a) = 1 + e /\ Left(r + q) = 1 + e
      BY <2>1, <2>6 DEF Left, m, b, e
    <2>8. QED
      BY <2>7, <1>4 DEF q, r
  <1>5. QED
    BY <1>3, <1>4

\* The loop of folds gives the same: ping6_ll.c.
LEMMA AllFolds ==
    ASSUME NEW a \in Nat, a < Word * Word
    PROVE  FoldAll[a] = Norm(a)
  <1> DEFINE Def(f) == [sum \in Nat |-> IF sum \div Word = 0 THEN sum
                                        ELSE f[(sum % Word) + (sum \div Word)]]
             w == [sum \in Nat |-> Left(sum)]
  <1>1. w = Def(w)
    <2>1. ASSUME NEW sum \in Nat
          PROVE  w[sum] = IF sum \div Word = 0 THEN sum ELSE w[(sum % Word) + (sum \div Word)]
      <3>1. (sum % Word) + (sum \div Word) \in Nat
        BY WordIs
      <3>2. QED BY <3>1, LeftFolds
    <2>2. QED BY <2>1
  <1>2. FoldAll = CHOOSE f : f = Def(f)
    BY DEF FoldAll
  <1>3. FoldAll = Def(FoldAll)
    <2> HIDE DEF w, Def
    <2>1. QED BY <1>1, <1>2
  <1>4. \A sum \in Nat : FoldAll[sum] = IF sum \div Word = 0 THEN sum
                                        ELSE FoldAll[(sum % Word) + (sum \div Word)]
    BY <1>3
  <1> HIDE DEF Def
  <1> DEFINE q == a \div Word
             r == a % Word
  <1>5. q \in 0 .. Word - 1 /\ r \in 0 .. Word - 1 /\ a = q * Word + r
    BY Parts
  <1>6. Norm(a) = IF q + r < Word THEN q + r ELSE q + r - Word + 1
    BY <1>5, WordIs DEF Norm, OnesPlus
  <1>7. FoldAll[a] = IF q = 0 THEN a ELSE FoldAll[r + q]
    BY <1>4
  <1>8. r + q \in Nat /\ r + q < 2 * Word
    BY <1>5, WordIs
  <1> HIDE DEF q, r
  <1>9. \A x \in 0 .. Word - 1 : FoldAll[x] = x
    BY <1>4, Small, WordIs
  <1>10. CASE q = 0
    BY <1>5, <1>6, <1>7, <1>10, WordIs
  <1>11. CASE q # 0 /\ q + r < Word
    BY <1>5, <1>6, <1>7, <1>8, <1>9, <1>11, WordIs
  <1>12. CASE q # 0 /\ q + r >= Word
    <2>1. (r + q) \div Word = 1 /\ (r + q) % Word = (r + q) - Word
      BY <1>8, <1>12, Carry, <1>5, WordIs
    <2>2. FoldAll[r + q] = FoldAll[((r + q) - Word) + 1]
      BY <2>1, <1>4, <1>8
    <2>3. ((r + q) - Word) + 1 \in 0 .. Word - 1
      BY <1>5, <1>12, WordIs
    <2>4. QED
      BY <2>2, <2>3, <1>5, <1>6, <1>7, <1>9, <1>12, WordIs
  <1>13. QED
    BY <1>5, <1>10, <1>11, <1>12, WordIs

\* A set of numbers has a least member.
LEMMA Least ==
    ASSUME NEW T, T \subseteq Nat, T # {}
    PROVE  \E x \in T : \A y \in T : x <= y
  <1> DEFINE R == {ss \in Nat \X Nat : ss[1] < ss[2]}
  <1>0. OpToRel(<, Nat) = R
    BY DEF OpToRel
  <1>1. IsWellFoundedOn(R, Nat)
    BY <1>0, NatLessThanWellFounded
  <1>2. PICK x \in T : \A y \in T : ~(<<y, x>> \in R)
    BY <1>1, WFMin
  <1>3. ASSUME NEW y \in T PROVE x <= y
    <2>1. <<y, x>> \in Nat \X Nat /\ <<y, x>>[1] = y /\ <<y, x>>[2] = x
      OBVIOUS
    <2>2. ~(<<y, x>>[1] < <<y, x>>[2])
      BY <2>1, <1>2
    <2>3. QED BY <2>1, <2>2
  <1>4. QED
    BY <1>3

\* The largest member of a set of numbers.
LEMMA LargestIs ==
    ASSUME NEW S, S \subseteq Int, NEW m \in S, \A y \in S : y <= m
    PROVE  Max(S) = m
  <1>1. \A y \in S : m >= y
    OBVIOUS
  <1>2. \A x \in S : (\A y \in S : x >= y) => x = m
    <2>1. ASSUME NEW x \in S, \A y \in S : x >= y PROVE x = m
      <3>1. x >= m /\ m >= x /\ x \in Int /\ m \in Int
        BY <2>1, <1>1
      <3>2. QED BY <3>1
    <2>2. QED BY <2>1
  <1>3. QED
    BY <1>1, <1>2 DEF Max

\* A set of positions that is not empty has a largest one.
LEMMA LargestOf ==
    ASSUME NEW n \in Nat, NEW s \in SUBSET (1 .. n), s # {}
    PROVE  Max(s) \in s
  <1> DEFINE B == {d \in 0 .. n : n - d \in s}
  <1>1. PICK x : x \in s
    OBVIOUS
  <1>2. n - x \in B /\ B \subseteq Nat
    BY <1>1
  <1>3. PICK d \in B : \A e \in B : d <= e
    BY <1>2, Least
  <1>4. n - d \in s /\ d \in Int
    BY <1>3
  <1>5. ASSUME NEW y \in s PROVE y <= n - d
    <2>1. n - y \in B /\ y \in Int
      OBVIOUS
    <2>2. QED BY <2>1, <1>3, <1>4
  <1>6. s \subseteq Int
    OBVIOUS
  <1>7. Max(s) = n - d
    BY <1>4, <1>5, <1>6, LargestIs, Zenon
  <1>8. QED
    BY <1>4, <1>7

\* A left fold of the words w with the function g, as a function of the words
\* that have been folded.
Folding(f, n, w, g) ==
    /\ f \in [SUBSET (1 .. n) -> Nat]
    /\ \A s \in SUBSET (1 .. n) :
          f[s] = IF s = {} THEN 0 ELSE g[<<f[s \ {Max(s)}], w[Max(s)]>>]

\* There is such a function.
LEMMA FoldExists ==
    ASSUME NEW n \in Nat, NEW w \in [1 .. n -> Nat], NEW g \in [Nat \X Nat -> Nat]
    PROVE  \E f : Folding(f, n, w, g)
  <1> DEFINE Def(f, s) == IF s = {} THEN 0 ELSE g[<<f[s \ {Max(s)}], w[Max(s)]>>]
             UpTo(m) == \E f \in [SUBSET (1 .. n) -> Nat] :
                           \A s \in SUBSET (1 .. m) : f[s] = Def(f, s)
  <1>1. UpTo(0)
    <2> DEFINE f == [s \in SUBSET (1 .. n) |-> 0]
    <2>1. \A s \in SUBSET (1 .. 0) : s = {}
      OBVIOUS
    <2>2. f \in [SUBSET (1 .. n) -> Nat] /\ \A s \in SUBSET (1 .. 0) : f[s] = Def(f, s)
      BY <2>1
    <2> HIDE DEF f, Def
    <2>3. QED BY <2>2
  <1>2. ASSUME NEW m \in 1 .. n, UpTo(m - 1) PROVE UpTo(m)
    <2>1. PICK f \in [SUBSET (1 .. n) -> Nat] : \A s \in SUBSET (1 .. m - 1) : f[s] = Def(f, s)
      BY <1>2
    <2> DEFINE e == [s \in SUBSET (1 .. n) |->
                        IF m \in s THEN g[<<f[s \ {m}], w[m]>>] ELSE f[s]]
    <2>2. e \in [SUBSET (1 .. n) -> Nat]
      <3>1. ASSUME NEW s \in SUBSET (1 .. n)
            PROVE  (IF m \in s THEN g[<<f[s \ {m}], w[m]>>] ELSE f[s]) \in Nat
        <4>1. s \ {m} \in SUBSET (1 .. n)
          OBVIOUS
        <4>2. f[s \ {m}] \in Nat /\ f[s] \in Nat /\ w[m] \in Nat
          BY <4>1, <2>1
        <4>3. QED BY <4>2
      <3>2. QED BY <3>1
    <2>3. ASSUME NEW s \in SUBSET (1 .. m) PROVE e[s] = Def(e, s)
      <3>1. s \in SUBSET (1 .. n) /\ s \ {m} \in SUBSET (1 .. m - 1) /\ s \ {m} \in SUBSET (1 .. n)
        OBVIOUS
      <3>2. CASE m \in s
        <4>0. s \subseteq Int /\ \A y \in s : y <= m
          OBVIOUS
        <4>1. Max(s) = m
          BY <3>2, <4>0, LargestIs, Zenon
        <4>2. e[s] = g[<<f[s \ {m}], w[m]>>] /\ e[s \ {m}] = f[s \ {m}]
          BY <3>1, <3>2
        <4>3. QED BY <3>2, <4>1, <4>2
      <3>3. CASE m \notin s
        <4>0. s \ {m} = s
          BY <3>3
        <4>1. s \in SUBSET (1 .. m - 1) /\ s \ {Max(s)} \in SUBSET (1 .. n) /\ m \notin s \ {Max(s)}
          BY <3>3, <3>1, <4>0
        <4>2. e[s] = f[s] /\ e[s \ {Max(s)}] = f[s \ {Max(s)}]
          BY <3>1, <3>3, <4>1
        <4>3. f[s] = Def(f, s)
          BY <2>1, <4>1
        <4>4. QED BY <4>2, <4>3
      <3>4. QED BY <3>2, <3>3
    <2> HIDE DEF e, Def
    <2>4. QED BY <2>2, <2>3
  <1>3. UpTo(n)
    <2> HIDE DEF UpTo
    <2> DEFINE B == {m \in 0 .. n : ~UpTo(m)}
    <2>1. SUFFICES ASSUME ~UpTo(n) PROVE FALSE
      OBVIOUS
    <2>2. B # {} /\ B \subseteq Nat
      BY <2>1
    <2>3. PICK m \in B : \A k \in B : m <= k
      BY <2>2, Least
    <2>4. m \in 0 .. n /\ ~UpTo(m)
      BY <2>3
    <2>5. m # 0
      BY <2>4, <1>1
    <2>6. m \in 1 .. n /\ m - 1 \in 0 .. n /\ m - 1 \notin B
      BY <2>3, <2>4, <2>5
    <2>7. UpTo(m - 1)
      BY <2>6
    <2>8. QED
      BY <2>4, <2>6, <2>7, <1>2
  <1>4. QED
    BY <1>3 DEF Folding

\* The running values of a fold.
Running(T, n, w, g) == /\ T \in [0 .. n -> Nat]
                       /\ T[0] = 0
                       /\ \A k \in 1 .. n : T[k] = g[<<T[k - 1], w[k]>>]

\* A function that folds the words it can goes through such values.
LEMMA FoldRuns ==
    ASSUME NEW n \in Nat, NEW w \in [1 .. n -> Nat], NEW g \in [Nat \X Nat -> Nat],
           NEW f, f[{}] = 0,
           \A s \in SUBSET (1 .. n) :
              s # {} /\ f[s \ {Max(s)}] \in Nat => f[s] = g[<<f[s \ {Max(s)}], w[Max(s)]>>]
    PROVE  Running([k \in 0 .. n |-> f[1 .. k]], n, w, g)
  <1>1. f[1 .. 0] = 0
    <2>1. 1 .. 0 = {}
      OBVIOUS
    <2>2. QED BY <2>1
  <1>2. ASSUME NEW k \in 1 .. n, f[1 .. k - 1] \in Nat
        PROVE  f[1 .. k] = g[<<f[1 .. k - 1], w[k]>>] /\ f[1 .. k] \in Nat
    <2>1. k \in Int /\ 1 <= k /\ k <= n
      OBVIOUS
    <2>2. k \in 1 .. k /\ 1 .. k \in SUBSET (1 .. n) /\ 1 .. k # {}
      <3>1. k \in 1 .. k /\ 1 .. k \in SUBSET (1 .. n)
        BY <2>1
      <3>2. QED BY <3>1, Zenon
    <2>3. (1 .. k) \ {k} = 1 .. k - 1
      BY <2>1
    <2>4. 1 .. k \subseteq Int /\ \A y \in 1 .. k : y <= k
      BY <2>1
    <2>5. Max(1 .. k) = k
      BY <2>2, <2>4, LargestIs, Zenon
    <2>6. f[(1 .. k) \ {Max(1 .. k)}] = f[1 .. k - 1]
      BY <2>3, <2>5, Zenon
    <2>7. f[1 .. k] = g[<<f[1 .. k - 1], w[k]>>]
      <3>1. f[1 .. k] = g[<<f[(1 .. k) \ {Max(1 .. k)}], w[Max(1 .. k)]>>]
        BY <2>2, <2>6, <1>2
      <3>2. QED BY <3>1, <2>5, <2>6, Zenon
    <2>8. w[k] \in Nat /\ <<f[1 .. k - 1], w[k]>> \in Nat \X Nat
      BY <1>2
    <2>9. QED BY <2>7, <2>8
  <1>3. \A k \in 0 .. n : f[1 .. k] \in Nat
    <2> DEFINE B == {k \in 0 .. n : f[1 .. k] \notin Nat}
    <2>1. SUFFICES ASSUME B # {} PROVE FALSE
      OBVIOUS
    <2>2. B \subseteq Nat
      OBVIOUS
    <2>3. PICK k \in B : \A y \in B : k <= y
      BY <2>1, <2>2, Least
    <2>4. k \in 0 .. n /\ f[1 .. k] \notin Nat
      BY <2>3
    <2>5. k # 0
      BY <2>4, <1>1
    <2>6. k \in 1 .. n /\ k - 1 \in 0 .. n /\ k - 1 \notin B
      BY <2>3, <2>4, <2>5
    <2>7. f[1 .. k - 1] \in Nat
      BY <2>6
    <2>8. QED
      BY <2>4, <2>6, <2>7, <1>2
  <1> DEFINE T == [k \in 0 .. n |-> f[1 .. k]]
  <1>4. T \in [0 .. n -> Nat] /\ T[0] = 0
    BY <1>1, <1>3
  <1>5. ASSUME NEW k \in 1 .. n PROVE T[k] = g[<<T[k - 1], w[k]>>]
    <2>1. k \in 0 .. n /\ k - 1 \in 0 .. n
      OBVIOUS
    <2>2. T[k] = f[1 .. k] /\ T[k - 1] = f[1 .. k - 1] /\ f[1 .. k - 1] \in Nat
      BY <2>1, <1>3
    <2>3. QED
      BY <2>2, <1>2
  <1> HIDE DEF T
  <1>6. Running(T, n, w, g)
    BY <1>4, <1>5 DEF Running
  <1>7. QED
    BY <1>6 DEF T

\* The sum of the words, one word after the other.
LEMMA SumRuns ==
    ASSUME NEW n \in Nat, NEW w \in [1 .. n -> Nat]
    PROVE  \E T : /\ T \in [0 .. n -> Nat]
                  /\ T[0] = 0
                  /\ \A k \in 1 .. n : T[k] = T[k - 1] + w[k]
                  /\ FoldLeft(+, 0, w) = T[n]
  <1> DEFINE g == [p \in Nat \X Nat |-> p[1] + p[2]]
             D == 1 .. n
             Folds(h) == h = [s \in SUBSET D |->
                                IF s = {} THEN 0 ELSE h[s \ {Max(s)}] + w[Max(s)]]
             H == CHOOSE h : Folds(h)
  <1>1. FoldLeft(+, 0, w) = H[D]
    <2>1. DOMAIN w = D
      OBVIOUS
    <2>2. QED BY <2>1 DEF FoldLeft, MapThenFoldSet
  <1>2. g \in [Nat \X Nat -> Nat] /\ \A x, y \in Nat : g[<<x, y>>] = x + y
    OBVIOUS
  <1>3. Folds(H)
    <2>1. PICK f : Folding(f, n, w, g)
      BY <1>2, FoldExists
    <2>2. ASSUME NEW s \in SUBSET D
          PROVE  f[s] = IF s = {} THEN 0 ELSE f[s \ {Max(s)}] + w[Max(s)]
      <3>1. CASE s = {}
        BY <3>1, <2>1 DEF Folding
      <3>2. CASE s # {}
        <4>1. f[s] = g[<<f[s \ {Max(s)}], w[Max(s)]>>]
          BY <3>2, <2>1 DEF Folding
        <4>2. Max(s) \in s
          BY <3>2, LargestOf
        <4>3. f[s \ {Max(s)}] \in Nat /\ w[Max(s)] \in Nat
          <5>1. s \ {Max(s)} \in SUBSET D /\ Max(s) \in 1 .. n
            BY <4>2
          <5>2. QED BY <5>1, <2>1 DEF Folding
        <4>4. QED BY <3>2, <4>1, <4>3
      <3>3. QED BY <3>1, <3>2
    <2>3. f = [s \in SUBSET D |-> f[s]]
      BY <2>1 DEF Folding
    <2>4. Folds(f)
      BY <2>2, <2>3
    <2> HIDE DEF Folds
    <2>5. QED BY <2>4
  <1>4. H[{}] = 0
    BY <1>3
  <1>5. ASSUME NEW s \in SUBSET D, s # {}, H[s \ {Max(s)}] \in Nat
        PROVE  H[s] = g[<<H[s \ {Max(s)}], w[Max(s)]>>]
    <2>1. H[s] = H[s \ {Max(s)}] + w[Max(s)]
      BY <1>3, <1>5
    <2>2. Max(s) \in 1 .. n
      BY <1>5, LargestOf
    <2>3. w[Max(s)] \in Nat
      BY <2>2
    <2> HIDE DEF H, g
    <2>4. QED BY <2>1, <2>3, <1>2, <1>5
  <1> DEFINE T == [k \in 0 .. n |-> H[1 .. k]]
  <1> HIDE DEF H, g
  <1>6. Running(T, n, w, g)
    <2>1. \A s \in SUBSET (1 .. n) :
             s # {} /\ H[s \ {Max(s)}] \in Nat => H[s] = g[<<H[s \ {Max(s)}], w[Max(s)]>>]
      BY <1>5
    <2>2. g \in [Nat \X Nat -> Nat]
      BY <1>2
    <2>3. QED BY <2>1, <2>2, <1>4, FoldRuns
  <1>7. T[n] = H[D]
    OBVIOUS
  <1> HIDE DEF T
  <1>8. ASSUME NEW k \in 1 .. n PROVE T[k] = T[k - 1] + w[k]
    <2>1. T[k] = g[<<T[k - 1], w[k]>>] /\ k - 1 \in 0 .. n /\ w[k] \in Nat
      BY <1>6 DEF Running
    <2>2. T[k - 1] \in Nat
      BY <2>1, <1>6 DEF Running
    <2>3. QED BY <2>1, <2>2, <1>2
  <1>9. QED
    BY <1>1, <1>6, <1>7, <1>8 DEF Running

\* The same for the sum with end-around carry.
LEMMA OnesRuns ==
    ASSUME NEW n \in Nat, NEW w \in [1 .. n -> Nat]
    PROVE  \E T : /\ T \in [0 .. n -> Nat]
                  /\ T[0] = 0
                  /\ \A k \in 1 .. n : T[k] = OnesPlus(T[k - 1], w[k])
                  /\ FoldLeft(OnesPlus, 0, w) = T[n]
  <1> DEFINE g == [p \in Nat \X Nat |-> OnesPlus(p[1], p[2])]
             D == 1 .. n
             Folds(h) == h = [s \in SUBSET D |->
                                IF s = {} THEN 0 ELSE OnesPlus(h[s \ {Max(s)}], w[Max(s)])]
             H == CHOOSE h : Folds(h)
  <1>1. FoldLeft(OnesPlus, 0, w) = H[D]
    <2>1. DOMAIN w = D
      OBVIOUS
    <2>2. QED BY <2>1 DEF FoldLeft, MapThenFoldSet
  <1>2. g \in [Nat \X Nat -> Nat] /\ \A x, y \in Nat : g[<<x, y>>] = OnesPlus(x, y)
    <2>1. \A x, y \in Nat : OnesPlus(x, y) \in Nat
      BY WordIs DEF OnesPlus
    <2>2. \A p \in Nat \X Nat : p[1] \in Nat /\ p[2] \in Nat
      OBVIOUS
    <2>3. QED BY <2>1, <2>2
  <1>3. Folds(H)
    <2>1. PICK f : Folding(f, n, w, g)
      BY <1>2, FoldExists
    <2>2. ASSUME NEW s \in SUBSET D
          PROVE  f[s] = IF s = {} THEN 0 ELSE OnesPlus(f[s \ {Max(s)}], w[Max(s)])
      <3>1. CASE s = {}
        BY <3>1, <2>1 DEF Folding
      <3>2. CASE s # {}
        <4>1. f[s] = g[<<f[s \ {Max(s)}], w[Max(s)]>>]
          BY <3>2, <2>1 DEF Folding
        <4>2. Max(s) \in s
          BY <3>2, LargestOf
        <4>3. f[s \ {Max(s)}] \in Nat /\ w[Max(s)] \in Nat
          <5>1. s \ {Max(s)} \in SUBSET D /\ Max(s) \in 1 .. n
            BY <4>2
          <5>2. QED BY <5>1, <2>1 DEF Folding
        <4>4. QED BY <3>2, <4>1, <4>3
      <3>3. QED BY <3>1, <3>2
    <2>3. f = [s \in SUBSET D |-> f[s]]
      BY <2>1 DEF Folding
    <2>4. Folds(f)
      BY <2>2, <2>3
    <2> HIDE DEF Folds
    <2>5. QED BY <2>4
  <1>4. H[{}] = 0
    BY <1>3
  <1>5. ASSUME NEW s \in SUBSET D, s # {}, H[s \ {Max(s)}] \in Nat
        PROVE  H[s] = g[<<H[s \ {Max(s)}], w[Max(s)]>>]
    <2>1. H[s] = OnesPlus(H[s \ {Max(s)}], w[Max(s)])
      BY <1>3, <1>5
    <2>2. Max(s) \in 1 .. n
      BY <1>5, LargestOf
    <2>3. w[Max(s)] \in Nat
      BY <2>2
    <2> HIDE DEF H, g
    <2>4. QED BY <2>1, <2>3, <1>2, <1>5
  <1> DEFINE T == [k \in 0 .. n |-> H[1 .. k]]
  <1> HIDE DEF H, g
  <1>6. Running(T, n, w, g)
    <2>1. \A s \in SUBSET (1 .. n) :
             s # {} /\ H[s \ {Max(s)}] \in Nat => H[s] = g[<<H[s \ {Max(s)}], w[Max(s)]>>]
      BY <1>5
    <2>2. g \in [Nat \X Nat -> Nat]
      BY <1>2
    <2>3. QED BY <2>1, <2>2, <1>4, FoldRuns
  <1>7. T[n] = H[D]
    OBVIOUS
  <1> HIDE DEF T
  <1>8. ASSUME NEW k \in 1 .. n PROVE T[k] = OnesPlus(T[k - 1], w[k])
    <2>1. T[k] = g[<<T[k - 1], w[k]>>] /\ k - 1 \in 0 .. n /\ w[k] \in Nat
      BY <1>6 DEF Running
    <2>2. T[k - 1] \in Nat
      BY <2>1, <1>6 DEF Running
    <2>3. QED BY <2>1, <2>2, <1>2
  <1>9. QED
    BY <1>1, <1>6, <1>7, <1>8 DEF Running

\* The sum of at most Word words does not leave its two words, and with its
\* carry folded in it is the sum with end-around carry.
LEMMA SumsAgree ==
    ASSUME NEW n \in Nat, n <= Word, NEW w \in [1 .. n -> 0 .. Word - 1]
    PROVE  /\ FoldLeft(+, 0, w) \in Nat
           /\ FoldLeft(+, 0, w) < Word * Word
           /\ FoldLeft(OnesPlus, 0, w) = Norm(FoldLeft(+, 0, w))
  <1>1. w \in [1 .. n -> Nat] /\ Word \in Nat
    BY WordIs
  <1>2. PICK T : /\ T \in [0 .. n -> Nat]
                 /\ T[0] = 0
                 /\ \A k \in 1 .. n : T[k] = T[k - 1] + w[k]
                 /\ FoldLeft(+, 0, w) = T[n]
    BY <1>1, SumRuns
  <1>3. PICK O : /\ O \in [0 .. n -> Nat]
                 /\ O[0] = 0
                 /\ \A k \in 1 .. n : O[k] = OnesPlus(O[k - 1], w[k])
                 /\ FoldLeft(OnesPlus, 0, w) = O[n]
    BY <1>1, OnesRuns
  <1> DEFINE Good(k) == T[k] <= k * (Word - 1) /\ O[k] = Norm(T[k])
             B == {k \in 0 .. n : ~Good(k)}
  <1>4. ASSUME NEW k \in 0 .. n, T[k] <= k * (Word - 1) PROVE T[k] < Word * Word
    <2>0. T[k] \in Nat
      BY <1>2
    <2>1. k \in Nat /\ k <= Word /\ Word - 1 \in Nat /\ T[k] \in Nat
      <3>1. k \in Nat /\ k <= Word
        BY <1>1
      <3>2. QED BY <3>1, <2>0, WordIs
    <2>2. k * (Word - 1) <= Word * (Word - 1)
      BY <2>1, <1>1
    <2>3. Word * (Word - 1) < Word * Word
      BY <1>1, WordIs
    <2>4. k * (Word - 1) \in Int /\ Word * (Word - 1) \in Int /\ Word * Word \in Int
      BY <1>1, <2>1
    <2>5. QED
      BY <2>1, <2>2, <2>3, <2>4, <1>4
  <1>5. Good(0)
    <2>1. 0 \div Word = 0 /\ 0 % Word = 0
      BY Small, WordIs
    <2>2. Norm(0) = 0
      BY <2>1, WordIs DEF Norm, OnesPlus
    <2>3. 0 * (Word - 1) = 0
      BY WordIs
    <2>4. T[0] <= 0 * (Word - 1) /\ O[0] = Norm(T[0])
      <3>1. T[0] = 0 /\ O[0] = 0
        BY <1>2, <1>3
      <3>2. QED BY <3>1, <2>2, <2>3
    <2>5. QED BY <2>4
  <1>6. ASSUME NEW k \in 1 .. n, Good(k - 1) PROVE Good(k)
    <2>1. k \in 0 .. n /\ k - 1 \in 0 .. n /\ k \in Nat /\ w[k] \in 0 .. Word - 1
      OBVIOUS
    <2>2. T[k] = T[k - 1] + w[k] /\ T[k - 1] \in Nat /\ T[k] \in Nat
      BY <2>1, <1>2
    <2>3. k * (Word - 1) = (k - 1) * (Word - 1) + (Word - 1)
      BY <2>1, <1>1
    <2>4. (k - 1) * (Word - 1) \in Int
      BY <2>1, <1>1
    <2>5. T[k] <= k * (Word - 1)
      BY <2>1, <2>2, <2>3, <2>4, <1>6, <1>1
    <2>6. T[k - 1] + w[k] < Word * Word
      BY <2>1, <2>2, <2>5, <1>4
    <2>7. Norm(T[k - 1] + w[k]) = OnesPlus(Norm(T[k - 1]), w[k])
      BY <2>1, <2>2, <2>6, NormAdds
    <2>8. O[k] = OnesPlus(O[k - 1], w[k])
      BY <1>3
    <2>9. QED BY <2>2, <2>5, <2>7, <2>8, <1>6
  <1>7. Good(n)
    <2> HIDE DEF Good
    <2>1. SUFFICES ASSUME ~Good(n) PROVE FALSE
      OBVIOUS
    <2>2. B # {} /\ B \subseteq Nat
      BY <2>1
    <2>3. PICK k \in B : \A y \in B : k <= y
      BY <2>2, Least
    <2>4. k \in 0 .. n /\ ~Good(k)
      BY <2>3
    <2>5. k # 0
      BY <2>4, <1>5
    <2>6. k \in 1 .. n /\ k - 1 \in 0 .. n /\ k - 1 \notin B
      BY <2>3, <2>4, <2>5
    <2>7. Good(k - 1)
      BY <2>6
    <2>8. QED
      BY <2>4, <2>6, <2>7, <1>6
  <1>8. T[n] \in Nat /\ T[n] < Word * Word /\ O[n] = Norm(T[n])
    <2>1. n \in 0 .. n
      OBVIOUS
    <2>2. QED BY <2>1, <1>2, <1>4, <1>7
  <1>9. QED
    BY <1>2, <1>3, <1>8, Zenon

\* The words of a buffer.
LEMMA WordsAre ==
    ASSUME NEW b \in Seq(0 .. Byte - 1), Len(b) <= 2 * Word
    PROVE  \E n \in Nat : n <= Word /\ Words(b) \in [1 .. n -> 0 .. Word - 1]
  <1> DEFINE n == (Len(b) + 1) \div 2
  <1>1. Len(b) \in Nat /\ Word \in Nat /\ Byte \in Nat /\ Byte >= 2
    BY WordIs, ByteAssumption
  <1>2. n \in Nat /\ n <= Word /\ 2 * n <= Len(b) + 1
    BY <1>1
  <1>3. ASSUME NEW k \in 1 .. n PROVE WordAt(b, k) \in 0 .. Word - 1
    <2>1. k \in Nat /\ 2 * k - 1 \in 1 .. Len(b)
      BY <1>1, <1>2
    <2>2. b[2 * k - 1] \in 0 .. Byte - 1
      BY <2>1, ElementOfSeq
    <2>3. CASE 2 * k > Len(b)
      <3>1. Byte - 1 <= Word - 1
        BY <1>1 DEF Word
      <3>2. QED BY <2>2, <2>3, <3>1, <1>1 DEF WordAt
    <2>4. CASE ~(2 * k > Len(b))
      <3>1. 2 * k \in 1 .. Len(b)
        BY <2>1, <2>4, <1>1
      <3>2. PICK y \in 0 .. Byte - 1 : y = b[2 * k]
        <4>1. b[2 * k] \in 0 .. Byte - 1
          BY <3>1, ElementOfSeq
        <4>2. QED BY <4>1
      <3>3. Byte * y \in Nat /\ Byte * y <= Byte * (Byte - 1)
        BY <1>1
      <3>4. Byte * (Byte - 1) = Word - Byte
        BY <1>1 DEF Word
      <3>5. WordAt(b, k) = b[2 * k - 1] + Byte * y
        BY <2>4, <3>2 DEF WordAt
      <3>6. PICK x \in 0 .. Byte - 1 : x = b[2 * k - 1]
        BY <2>2
      <3>7. x + Byte * y \in 0 .. Word - 1
        <4>1. Word \in Int /\ Byte * (Byte - 1) \in Int
          BY <1>1
        <4>2. PICK u \in Nat : u = Byte * y
          BY <3>3
        <4>3. u <= Word - Byte
          BY <4>2, <3>3, <3>4
        <4>4. x + u \in 0 .. Word - 1
          BY <4>1, <4>3, <1>1
        <4>5. QED BY <4>2, <4>4
      <3>8. QED BY <3>5, <3>6, <3>7
    <2>5. QED BY <2>3, <2>4
  <1>4. QED
    BY <1>2, <1>3 DEF Words

\* A packet of up to 2 * Word bytes: the 32-bit sum of its words does not
\* overflow, and the checksums of the three programs are the complement of its
\* one's complement sum (myping.c lines 74-87, myping_synchronous.c lines 69-82,
\* ping6_ll.c lines 386-421).
THEOREM OnesComplementSum ==
    ASSUME NEW b \in Seq(0 .. Byte - 1), Len(b) <= 2 * Word
    PROVE  Total(b) < Word * Word /\ IsOnesComplement(b)
  <1>1. PICK n \in Nat : n <= Word /\ Words(b) \in [1 .. n -> 0 .. Word - 1]
    BY WordsAre
  <1>2. Total(b) \in Nat /\ Total(b) < Word * Word /\ OnesSum(b) = Norm(Total(b))
    BY <1>1, SumsAgree DEF Total, OnesSum
  <1>3. FoldTwice(Total(b)) % Word = Norm(Total(b)) /\ FoldAll[Total(b)] = Norm(Total(b))
    BY <1>2, TwoFolds, AllFolds
  <1>4. Norm(Total(b)) % Word = Norm(Total(b))
    BY <1>2, NormIs, Small
  <1>5. QED
    BY <1>2, <1>3, <1>4 DEF IsOnesComplement, checksum, checksum6, Complement

\* The sum of some words.
Added(w) == FoldLeft(+, 0, w)

\* Numbers that differ in place j only, by c.
Raised(n, w, v, j, c) == /\ n \in Nat /\ w \in [1 .. n -> Nat] /\ v \in [1 .. n -> Nat]
                         /\ j \in 1 .. n /\ c \in Nat /\ v[j] = w[j] + c
                         /\ \A k \in 1 .. n : k # j => v[k] = w[k]

\* A word that is c larger makes the sum c larger.
LEMMA OneWordMore ==
    ASSUME NEW n, NEW w, NEW v, NEW j, NEW c, Raised(n, w, v, j, c)
    PROVE  Added(v) = Added(w) + c
  <1> USE DEF Raised
  <1>1. PICK T : /\ T \in [0 .. n -> Nat]
                 /\ T[0] = 0
                 /\ \A k \in 1 .. n : T[k] = T[k - 1] + w[k]
                 /\ FoldLeft(+, 0, w) = T[n]
    BY SumRuns
  <1>2. PICK U : /\ U \in [0 .. n -> Nat]
                 /\ U[0] = 0
                 /\ \A k \in 1 .. n : U[k] = U[k - 1] + v[k]
                 /\ FoldLeft(+, 0, v) = U[n]
    BY SumRuns
  <1> DEFINE Good(k) == U[k] = T[k] + (IF k < j THEN 0 ELSE c)
             B == {k \in 0 .. n : ~Good(k)}
  <1>3. Good(0)
    <2>1. T[0] = 0 /\ U[0] = 0
      BY <1>1, <1>2, Zenon
    <2>2. 0 < j
      OBVIOUS
    <2>3. QED BY <2>1, <2>2
  <1>4. ASSUME NEW k \in 1 .. n, Good(k - 1) PROVE Good(k)
    <2>1. k \in 0 .. n /\ k - 1 \in 0 .. n /\ k \in Int /\ j \in Int
      OBVIOUS
    <2>2. T[k] = T[k - 1] + w[k] /\ U[k] = U[k - 1] + v[k]
      BY <1>1, <1>2
    <2>3. T[k - 1] \in Nat /\ U[k - 1] \in Nat /\ w[k] \in Nat /\ v[k] \in Nat
      BY <2>1, <1>1, <1>2
    <2>4. CASE k < j
      <3>1. v[k] = w[k] /\ k - 1 < j
        BY <2>1, <2>4
      <3>2. U[k - 1] = T[k - 1] + 0
        BY <3>1, <1>4
      <3>3. U[k] = T[k] + 0
        BY <3>1, <3>2, <2>2, <2>3
      <3>4. QED BY <3>3, <2>4
    <2>5. CASE k = j
      BY <2>1, <2>2, <2>3, <2>5, <1>4
    <2>6. CASE k > j
      <3>1. v[k] = w[k] /\ ~(k - 1 < j)
        BY <2>1, <2>6
      <3>2. U[k - 1] = T[k - 1] + c
        BY <3>1, <1>4
      <3>3. U[k] = T[k] + c
        BY <3>1, <3>2, <2>2, <2>3
      <3>4. QED BY <3>3, <2>1, <2>6
    <2>7. QED
      BY <2>1, <2>4, <2>5, <2>6
  <1>5. Good(n)
    <2> HIDE DEF Good
    <2>1. SUFFICES ASSUME ~Good(n) PROVE FALSE
      OBVIOUS
    <2>2. B # {} /\ B \subseteq Nat
      BY <2>1
    <2>3. PICK k \in B : \A y \in B : k <= y
      BY <2>2, Least
    <2>4. k \in 0 .. n /\ ~Good(k)
      BY <2>3
    <2>5. k # 0
      BY <2>4, <1>3
    <2>6. k \in 1 .. n /\ k - 1 \in 0 .. n /\ k - 1 \notin B
      BY <2>3, <2>4, <2>5
    <2>7. Good(k - 1)
      BY <2>6
    <2>8. QED
      BY <2>4, <2>6, <2>7, <1>4
  <1>6. U[n] = T[n] + c
    BY <1>5
  <1>7. Added(w) = T[n] /\ Added(v) = U[n]
    BY <1>1, <1>2, Zenon DEF Added
  <1>8. QED
    BY <1>6, <1>7

\* The packet with its checksum in place.
LEMMA SumInPlace ==
    ASSUME NEW b \in Seq(0 .. Byte - 1), NEW k \in Nat \ {0}, 2 * k <= Len(b),
           b[2 * k - 1] = 0, b[2 * k] = 0, NEW c \in 0 .. Word - 1
    PROVE  /\ WithSum(b, k, c) \in Seq(0 .. Byte - 1)
           /\ Len(WithSum(b, k, c)) = Len(b)
           /\ WordAt(b, k) = 0
           /\ WordAt(WithSum(b, k, c), k) = c
           /\ \A i \in 1 .. (Len(b) + 1) \div 2 :
                 i # k => WordAt(WithSum(b, k, c), i) = WordAt(b, i)
  <1> DEFINE p == WithSum(b, k, c)
             r == c % Byte
             q == c \div Byte
  <1>1. Len(b) \in Nat /\ k \in Nat /\ Word \in Nat /\ Byte \in Nat \ {0}
    BY WordIs, ByteAssumption
  <1>2. c \in Nat /\ c = q * Byte + r /\ r \in 0 .. Byte - 1 /\ q \in Nat
    <2>1. c \in Nat
      BY <1>1
    <2>2. QED BY <2>1, <1>1, Division, Zenon
  <1>3. q \in 0 .. Byte - 1
    <2>1. SUFFICES ASSUME q >= Byte PROVE FALSE
      BY <1>1, <1>2
    <2> HIDE DEF q, r
    <2>2. q * Byte >= Byte * Byte
      BY <2>1, <1>1, <1>2
    <2>3. c >= Word
      BY <2>2, <1>1, <1>2 DEF Word
    <2>4. QED BY <2>3, <1>1
  <1> HIDE DEF r, q
  <1>4. p = [b EXCEPT ![2 * k - 1] = r, ![2 * k] = q]
    BY DEF WithSum, Stored, r, q
  <1>5. p \in [1 .. Len(b) -> 0 .. Byte - 1]
    <2>1. b \in [1 .. Len(b) -> 0 .. Byte - 1]
      BY LenProperties
    <2>2. QED BY <2>1, <1>2, <1>3, <1>4
  <1>6. /\ p[2 * k - 1] = r
        /\ p[2 * k] = q
        /\ \A i \in 1 .. Len(b) : i # 2 * k - 1 /\ i # 2 * k => p[i] = b[i]
    <2>1. b \in [1 .. Len(b) -> 0 .. Byte - 1]
      BY LenProperties
    <2>2. 2 * k - 1 \in 1 .. Len(b) /\ 2 * k \in 1 .. Len(b) /\ 2 * k - 1 # 2 * k
      BY <1>1
    <2>3. QED BY <2>1, <2>2, <1>4
  <1> HIDE DEF p
  <1>7. p \in Seq(0 .. Byte - 1) /\ Len(p) = Len(b)
    BY <1>1, <1>5
  <1>8. WordAt(b, k) = 0
    BY <1>1 DEF WordAt
  <1>9. WordAt(p, k) = c
    <2>1. WordAt(p, k) = r + Byte * q
      BY <1>1, <1>6, <1>7 DEF WordAt
    <2>2. QED BY <2>1, <1>1, <1>2
  <1>10. ASSUME NEW i \in 1 .. (Len(b) + 1) \div 2, i # k
         PROVE  WordAt(p, i) = WordAt(b, i)
    <2>1. i \in Nat /\ 2 * i - 1 \in 1 .. Len(b) /\ 2 * i - 1 # 2 * k - 1 /\ 2 * i - 1 # 2 * k
      BY <1>1, <1>10
    <2>2. p[2 * i - 1] = b[2 * i - 1]
      BY <2>1, <1>6
    <2>3. CASE 2 * i > Len(b)
      BY <2>2, <2>3, <1>7 DEF WordAt
    <2>4. CASE ~(2 * i > Len(b))
      <3>1. 2 * i \in 1 .. Len(b) /\ 2 * i # 2 * k - 1 /\ 2 * i # 2 * k
        BY <2>1, <2>4, <1>1, <1>10
      <3>2. p[2 * i] = b[2 * i]
        BY <3>1, <1>6
      <3>3. QED BY <2>2, <2>4, <3>2, <1>7 DEF WordAt
    <2>5. QED BY <2>3, <2>4
  <1>11. QED
    BY <1>7, <1>8, <1>9, <1>10 DEF p

\* Whoever sums a packet with the checksum in its field gets zero, whichever
\* word the field is, if the sender had zeros there when it summed (myping.c
\* lines 74-87 and 233-240, myping_synchronous.c lines 69-82).
THEOREM ReceiverSumsToZero ==
    ASSUME NEW b \in Seq(0 .. Byte - 1), Len(b) <= 2 * Word,
           NEW k \in Nat \ {0}, 2 * k <= Len(b), b[2 * k - 1] = 0, b[2 * k] = 0
    PROVE  ReceiverGetsZero(b, k)
  <1> DEFINE c == checksum(b)
             p == WithSum(b, k, c)
             n == (Len(b) + 1) \div 2
  <1>1. PICK m \in Nat : m <= Word /\ Words(b) \in [1 .. m -> 0 .. Word - 1]
    BY WordsAre
  <1>2. Total(b) \in Nat /\ Total(b) < Word * Word
    BY <1>1, SumsAgree DEF Total
  <1>3. c = Word - 1 - Norm(Total(b)) /\ Norm(Total(b)) \in 0 .. Word - 1
    BY <1>2, TwoFolds, NormIs DEF checksum, Complement
  <1>4. c \in 0 .. Word - 1 /\ Word \in Nat
    BY <1>3, WordIs
  <1> HIDE DEF c
  <1>5. /\ p \in Seq(0 .. Byte - 1)
        /\ Len(p) = Len(b)
        /\ WordAt(b, k) = 0
        /\ WordAt(p, k) = c
        /\ \A i \in 1 .. n : i # k => WordAt(p, i) = WordAt(b, i)
    BY <1>4, SumInPlace
  <1> HIDE DEF p
  <1>6. n \in Nat /\ k \in 1 .. n
    OBVIOUS
  <1>7. PICK l \in Nat : l <= Word /\ Words(p) \in [1 .. l -> 0 .. Word - 1]
    BY <1>5, WordsAre
  <1>8. Total(p) \in Nat /\ Total(p) < Word * Word
    BY <1>7, SumsAgree DEF Total
  <1>9. Total(p) = Total(b) + c
    <2> DEFINE w == Words(b)
               v == Words(p)
    <2>1. DOMAIN w = 1 .. n /\ DOMAIN v = 1 .. n
      BY <1>5 DEF Words
    <2>2. w \in [1 .. n -> Nat] /\ v \in [1 .. n -> Nat]
      <3>1. w \in [1 .. m -> 0 .. Word - 1] /\ v \in [1 .. l -> 0 .. Word - 1]
        BY <1>1, <1>7
      <3>2. 0 .. Word - 1 \subseteq Nat
        BY <1>4
      <3> HIDE DEF w, v, n
      <3>3. QED BY <3>1, <3>2, <2>1
    <2>3. \A i \in 1 .. n : w[i] = WordAt(b, i) /\ v[i] = WordAt(p, i)
      BY <1>5 DEF Words
    <2>4. v[k] = w[k] + c /\ \A i \in 1 .. n : i # k => v[i] = w[i]
      BY <2>3, <1>4, <1>5, <1>6
    <2> HIDE DEF w, v, n
    <2>5. Added(v) = Added(w) + c
      <3>1. c \in Nat
        BY <1>4
      <3>2. Raised(n, w, v, k, c)
        BY <3>1, <2>2, <2>4, <1>6 DEF Raised
      <3>3. QED BY <3>2, OneWordMore
    <2>6. QED BY <2>5 DEF Added, Total, w, v
  <1>10. Norm(Total(p)) = OnesPlus(Norm(Total(b)), c)
    BY <1>2, <1>4, <1>8, <1>9, NormAdds
  <1>11. Norm(Total(p)) = Word - 1
    BY <1>3, <1>4, <1>10 DEF OnesPlus
  <1>12. FoldTwice(Total(p)) % Word = Word - 1
    BY <1>8, <1>11, TwoFolds
  <1>13. checksum(p) = 0
    BY <1>12, <1>4 DEF checksum, Complement
  <1>14. QED
    BY <1>13 DEF ReceiverGetsZero, p, c

-----------------------------------------------------------------------------
\* The n numbers u and the m numbers v are the n + m numbers w.
Joined(n, m, u, v, w) ==
    /\ u \in [1 .. n -> Nat] /\ v \in [1 .. m -> Nat] /\ w \in [1 .. n + m -> Nat]
    /\ \A k \in 1 .. n : w[k] = u[k]
    /\ \A k \in 1 .. m : w[n + k] = v[k]

\* A buffer of an even length, and another one behind it: its words.
LEMMA WordsJoined ==
    ASSUME NEW a \in Seq(Nat), NEW b \in Seq(Nat), NEW n \in Nat, Len(a) = 2 * n,
           NEW m \in Nat, m = (Len(b) + 1) \div 2
    PROVE  Joined(n, m, Words(a), Words(b), Words(a \o b))
  <1> DEFINE c == a \o b
  <1>1. /\ c \in Seq(Nat) /\ Len(c) = Len(a) + Len(b) /\ Len(b) \in Nat
        /\ \A i \in 1 .. Len(a) : c[i] = a[i]
        /\ \A i \in 1 .. Len(b) : c[Len(a) + i] = b[i]
    <2>1. Len(a) \in Nat /\ Len(b) \in Nat
      BY LenProperties
    <2>2. c \in Seq(Nat) /\ Len(c) = Len(a) + Len(b)
      BY ConcatProperties
    <2>3. ASSUME NEW i \in 1 .. Len(a) PROVE c[i] = a[i]
      BY <2>1, <2>2, ConcatProperties
    <2>4. ASSUME NEW i \in 1 .. Len(b) PROVE c[Len(a) + i] = b[i]
      <3>1. Len(a) + i \in 1 .. Len(a) + Len(b) /\ ~(Len(a) + i <= Len(a))
            /\ (Len(a) + i) - Len(a) = i
        BY <2>1
      <3>2. QED BY <3>1, ConcatProperties
    <2>5. QED BY <2>1, <2>2, <2>3, <2>4
  <1>2. Byte \in Nat
    BY ByteAssumption
  <1>3. /\ (Len(a) + 1) \div 2 = n /\ (Len(c) + 1) \div 2 = n + m
        /\ 2 * m <= Len(b) + 1 /\ Len(b) <= 2 * m
    <2>1. ASSUME NEW p \in Nat
          PROVE  /\ (2 * n + 1) \div 2 = n /\ ((2 * n + p) + 1) \div 2 = n + ((p + 1) \div 2)
                 /\ 2 * ((p + 1) \div 2) <= p + 1 /\ p <= 2 * ((p + 1) \div 2)
      OBVIOUS
    <2>2. Len(b) \in Nat /\ Len(c) = 2 * n + Len(b)
      BY <1>1
    <2> HIDE DEF c
    <2>3. QED BY <2>1, <2>2
  <1>4. ASSUME NEW s \in Seq(Nat), NEW k \in Nat \ {0}, 2 * k <= Len(s) + 1
        PROVE  WordAt(s, k) \in Nat
    <2>1. Len(s) \in Nat /\ 2 * k - 1 \in 1 .. Len(s) /\ (~(2 * k > Len(s)) => 2 * k \in 1 .. Len(s))
      BY <1>4, LenProperties
    <2>2. s[2 * k - 1] \in Nat
      BY <2>1, ElementOfSeq
    <2>3. CASE 2 * k > Len(s)
      BY <2>2, <2>3 DEF WordAt
    <2>4. CASE ~(2 * k > Len(s))
      <3>1. s[2 * k] \in Nat
        BY <2>1, <2>4, ElementOfSeq
      <3>2. Byte * s[2 * k] \in Nat
        <4>1. \A x, y \in Nat : x * y \in Nat
          OBVIOUS
        <4>2. QED BY <3>1, <4>1, <1>2
      <3>3. QED BY <2>2, <2>4, <3>2 DEF WordAt
    <2>5. QED BY <2>3, <2>4
  <1> HIDE DEF c
  <1>5. Words(a) \in [1 .. n -> Nat]
    <2>1. \A k \in 1 .. n : WordAt(a, k) \in Nat
      BY <1>4
    <2>2. QED BY <2>1, <1>3 DEF Words
  <1>6. Words(b) \in [1 .. m -> Nat]
    <2>1. \A k \in 1 .. m : WordAt(b, k) \in Nat
      BY <1>3, <1>4
    <2>2. QED BY <2>1 DEF Words
  <1>7. Words(c) \in [1 .. n + m -> Nat]
    <2>1. ASSUME NEW k \in 1 .. n + m PROVE WordAt(c, k) \in Nat
      <3>1. k \in Nat \ {0} /\ 2 * k <= Len(c) + 1
        <4>1. Len(c) = 2 * n + Len(b) /\ Len(b) \in Nat /\ 2 * m <= Len(b) + 1 /\ k <= n + m
          BY <1>1, <1>3
        <4>2. QED BY <4>1
      <3>2. QED BY <1>1, <1>4, <3>1
    <2>2. QED BY <2>1, <1>3 DEF Words
  <1>8. ASSUME NEW k \in 1 .. n PROVE Words(c)[k] = Words(a)[k]
    <2>1. /\ 2 * k - 1 \in 1 .. Len(a) /\ 2 * k \in 1 .. Len(a)
          /\ ~(2 * k > Len(c)) /\ ~(2 * k > Len(a)) /\ k \in 1 .. n + m
      BY <1>1
    <2>2. c[2 * k - 1] = a[2 * k - 1] /\ c[2 * k] = a[2 * k]
      BY <2>1, <1>1
    <2>3. WordAt(c, k) = WordAt(a, k)
      BY <2>1, <2>2 DEF WordAt
    <2>4. QED BY <2>1, <2>3, <1>3 DEF Words
  <1>9. ASSUME NEW k \in 1 .. m PROVE Words(c)[n + k] = Words(b)[k]
    <2>1. /\ 2 * k - 1 \in 1 .. Len(b) /\ n + k \in 1 .. n + m
          /\ 2 * (n + k) - 1 = Len(a) + (2 * k - 1) /\ 2 * (n + k) = Len(a) + 2 * k
          /\ (2 * (n + k) > Len(c) <=> 2 * k > Len(b))
      <3>1. /\ Len(c) = 2 * n + Len(b) /\ Len(b) \in Nat /\ 2 * m <= Len(b) + 1
            /\ k \in Nat /\ 1 <= k /\ k <= m
        BY <1>1, <1>3
      <3>2. QED BY <3>1
    <2>2. c[2 * (n + k) - 1] = b[2 * k - 1]
      BY <2>1, <1>1
    <2>3. CASE 2 * k > Len(b)
      BY <2>1, <2>2, <2>3, <1>3 DEF WordAt, Words
    <2>4. CASE ~(2 * k > Len(b))
      <3>1. 2 * k \in 1 .. Len(b)
        BY <2>4, <1>1
      <3>2. c[2 * (n + k)] = b[2 * k]
        BY <2>1, <3>1, <1>1
      <3>3. WordAt(c, n + k) = WordAt(b, k)
        BY <2>1, <2>2, <2>4, <3>2 DEF WordAt
      <3>4. QED BY <2>1, <3>3, <1>3 DEF Words
    <2>5. QED BY <2>3, <2>4
  <1>10. QED
    BY <1>5, <1>6, <1>7, <1>8, <1>9 DEF c, Joined

\* Then the sums add up.
LEMMA TotalJoined ==
    ASSUME NEW a \in Seq(Nat), NEW b \in Seq(Nat), NEW n \in Nat, Len(a) = 2 * n
    PROVE  Total(a) \in Nat /\ Total(b) \in Nat /\ Total(a \o b) = Total(a) + Total(b)
  <1> DEFINE m == (Len(b) + 1) \div 2
             u == Words(a)
             v == Words(b)
             w == Words(a \o b)
  <1>0. m \in Nat
    BY LenProperties
  <1>1. /\ u \in [1 .. n -> Nat] /\ v \in [1 .. m -> Nat] /\ w \in [1 .. n + m -> Nat]
        /\ \A k \in 1 .. n : w[k] = u[k]
        /\ \A k \in 1 .. m : w[n + k] = v[k]
    <2>1. Joined(n, m, u, v, w)
      BY <1>0, WordsJoined
    <2>2. QED BY <2>1 DEF Joined
  <1> HIDE DEF m, u, v, w
  <1>2. PICK U : /\ U \in [0 .. n -> Nat]
                 /\ U[0] = 0
                 /\ \A k \in 1 .. n : U[k] = U[k - 1] + u[k]
                 /\ FoldLeft(+, 0, u) = U[n]
    BY <1>1, SumRuns
  <1>3. PICK V : /\ V \in [0 .. m -> Nat]
                 /\ V[0] = 0
                 /\ \A k \in 1 .. m : V[k] = V[k - 1] + v[k]
                 /\ FoldLeft(+, 0, v) = V[m]
    BY <1>0, <1>1, SumRuns
  <1>4. PICK W : /\ W \in [0 .. n + m -> Nat]
                 /\ W[0] = 0
                 /\ \A k \in 1 .. n + m : W[k] = W[k - 1] + w[k]
                 /\ FoldLeft(+, 0, w) = W[n + m]
    <2>1. n + m \in Nat
      BY <1>0
    <2>2. QED BY <2>1, <1>1, SumRuns
  <1>5. /\ U \in [0 .. n -> Nat] /\ U[0] = 0 /\ \A k \in 1 .. n : U[k] = U[k - 1] + u[k]
        /\ V \in [0 .. m -> Nat] /\ V[0] = 0 /\ \A k \in 1 .. m : V[k] = V[k - 1] + v[k]
        /\ W \in [0 .. n + m -> Nat] /\ W[0] = 0
        /\ \A k \in 1 .. n + m : W[k] = W[k - 1] + w[k]
    BY <1>2, <1>3, <1>4, Zenon
  <1> DEFINE Good(k) == W[k] = IF k <= n THEN U[k] ELSE U[n] + V[k - n]
             B == {k \in 0 .. n + m : ~Good(k)}
  <1>6. Good(0)
    BY <1>5
  <1>7. ASSUME NEW k \in 1 .. n + m, Good(k - 1) PROVE Good(k)
    <2>1. W[k] = W[k - 1] + w[k] /\ k \in Int /\ n \in Int /\ m \in Int
      BY <1>0, <1>5
    <2>2. CASE k <= n
      <3>1. k \in 1 .. n /\ k - 1 <= n
        BY <2>1, <2>2
      <3>2. w[k] = u[k] /\ U[k] = U[k - 1] + u[k]
        BY <3>1, <1>1, <1>5
      <3>3. QED BY <2>1, <2>2, <3>1, <3>2, <1>7
    <2>3. CASE k > n
      <3>1. k - n \in 1 .. m /\ n + (k - n) = k /\ (k - n) - 1 = (k - 1) - n
        BY <2>1, <2>3
      <3>2. w[k] = v[k - n] /\ V[k - n] = V[(k - 1) - n] + v[k - n]
        <4>1. w[n + (k - n)] = v[k - n] /\ V[k - n] = V[(k - n) - 1] + v[k - n]
          BY <3>1, <1>1, <1>5
        <4>2. QED BY <3>1, <4>1
      <3>3. W[k - 1] = U[n] + V[(k - 1) - n]
        <4>1. CASE k - 1 = n
          <5>1. W[k - 1] = U[n] /\ V[(k - 1) - n] = 0 /\ U[n] \in Nat
            BY <2>1, <4>1, <1>5, <1>7
          <5>2. QED BY <5>1
        <4>2. CASE k - 1 > n
          BY <2>1, <4>2, <1>7
        <4>3. QED BY <2>1, <2>3, <4>1, <4>2
      <3>4. U[n] \in Nat /\ V[(k - 1) - n] \in Nat /\ v[k - n] \in Nat
        <4>1. n \in 0 .. n /\ (k - 1) - n \in 0 .. m
          BY <2>1, <2>3, <3>1
        <4>2. QED BY <3>1, <4>1, <1>1, <1>5
      <3>5. W[k] = U[n] + V[k - n]
        BY <2>1, <3>2, <3>3, <3>4
      <3>6. QED BY <2>1, <2>3, <3>5
    <2>4. QED BY <2>1, <2>2, <2>3
  <1>8. Good(n + m)
    <2> HIDE DEF Good
    <2>0. n + m \in Nat
      BY <1>0
    <2>1. SUFFICES ASSUME ~Good(n + m) PROVE FALSE
      OBVIOUS
    <2>2. B # {} /\ B \subseteq Nat
      BY <2>0, <2>1
    <2>3. PICK k \in B : \A y \in B : k <= y
      BY <2>2, Least
    <2>4. k \in 0 .. n + m /\ ~Good(k)
      BY <2>3
    <2>5. k # 0
      BY <2>4, <1>6
    <2>6. k \in 1 .. n + m /\ k - 1 \in 0 .. n + m /\ k - 1 \notin B
      BY <2>0, <2>3, <2>4, <2>5
    <2>7. Good(k - 1)
      BY <2>6
    <2>8. QED
      BY <2>4, <2>6, <2>7, <1>7
  <1>9. W[n + m] = U[n] + V[m] /\ U[n] \in Nat /\ V[m] \in Nat
    <2>1. U[n] \in Nat /\ V[m] \in Nat /\ V[0] = 0 /\ (n + m) - n = m
      BY <1>0, <1>5
    <2>2. CASE m = 0
      <3>1. n + m <= n /\ n + m = n
        BY <2>2
      <3>2. QED BY <2>1, <2>2, <3>1, <1>8
    <2>3. CASE m # 0
      <3>1. ~(n + m <= n)
        BY <2>3, <1>0
      <3>2. QED BY <2>1, <3>1, <1>8
    <2>4. QED BY <2>2, <2>3
  <1>10. QED
    BY <1>2, <1>3, <1>4, <1>9, Zenon DEF Total, u, v, w

\* Two bytes are one word.
LEMMA TwoBytes ==
    ASSUME NEW x \in Nat, NEW y \in Nat
    PROVE  /\ <<x, y>> \in Seq(Nat) /\ Len(<<x, y>>) = 2 * 1
           /\ Total(<<x, y>>) = x + Byte * y
  <1> DEFINE b == <<x, y>>
             w == Words(b)
  <1>1. b \in Seq(Nat) /\ Len(b) = 2 /\ b[1] = x /\ b[2] = y
    OBVIOUS
  <1>2. Byte \in Nat
    BY ByteAssumption
  <1> HIDE DEF b
  <1>3. (Len(b) + 1) \div 2 = 1 /\ 2 * 1 - 1 = 1 /\ 2 * 1 = 2 /\ ~(2 * 1 > Len(b))
    BY <1>1
  <1>4. WordAt(b, 1) = x + Byte * y
    BY <1>1, <1>3 DEF WordAt
  <1>5. w = [k \in 1 .. 1 |-> WordAt(b, k)]
    BY <1>3 DEF Words
  <1>6. x + Byte * y \in Nat /\ 1 \in Nat /\ 1 \in 1 .. 1 /\ 1 - 1 = 0
    BY <1>2
  <1>7. w \in [1 .. 1 -> Nat] /\ w[1] = x + Byte * y
    <2>1. \A k \in 1 .. 1 : k = 1
      OBVIOUS
    <2>2. QED BY <2>1, <1>4, <1>5, <1>6
  <1> HIDE DEF w
  <1>8. PICK T : /\ T \in [0 .. 1 -> Nat]
                 /\ T[0] = 0
                 /\ \A k \in 1 .. 1 : T[k] = T[k - 1] + w[k]
                 /\ FoldLeft(+, 0, w) = T[1]
    BY <1>6, <1>7, SumRuns
  <1>9. T[1] = T[0] + w[1] /\ T[0] = 0
    BY <1>6, <1>8
  <1>10. T[1] = x + Byte * y
    BY <1>6, <1>7, <1>9
  <1>11. Total(b) = x + Byte * y
    BY <1>8, <1>10, Zenon DEF Total, w
  <1>12. QED
    BY <1>1, <1>3, <1>11 DEF b

\* A zero behind an odd buffer leaves the words as they are.
LEMMA PaddingAddsNothing ==
    ASSUME NEW b \in Seq(Nat)
    PROVE  b \o Padding(b) \in Seq(Nat) /\ Total(b \o Padding(b)) = Total(b)
  <1>1. Len(b) \in Nat /\ Byte \in Nat
    BY LenProperties, ByteAssumption
  <1>2. CASE Len(b) % 2 # 1
    <2>1. Padding(b) = <<>>
      BY <1>2 DEF Padding
    <2>2. b \o <<>> = b
      BY ConcatEmptySeq
    <2>3. QED BY <2>1, <2>2
  <1>3. CASE Len(b) % 2 = 1
    <2> DEFINE z == <<0>>
               c == b \o z
               n == (Len(b) + 1) \div 2
    <2>1. z \in Seq(Nat) /\ Len(z) = 1 /\ z[1] = 0
      OBVIOUS
    <2>2. Padding(b) = z
      BY <1>3 DEF Padding
    <2> HIDE DEF z
    <2>3. /\ c \in Seq(Nat) /\ Len(c) = Len(b) + 1
          /\ \A i \in 1 .. Len(b) : c[i] = b[i]
          /\ c[Len(b) + 1] = 0
      <3>1. c \in Seq(Nat) /\ Len(c) = Len(b) + 1
        <4>1. c \in Seq(Nat) /\ Len(c) = Len(b) + Len(z)
          BY <2>1, ConcatProperties
        <4>2. QED BY <4>1, <2>1
      <3>2. ASSUME NEW i \in 1 .. Len(b) PROVE c[i] = b[i]
        BY <2>1, <1>1, ConcatProperties
      <3>3. c[Len(b) + 1] = 0
        <4>1. /\ Len(b) + 1 \in 1 .. Len(b) + Len(z) /\ ~(Len(b) + 1 <= Len(b))
              /\ (Len(b) + 1) - Len(b) = 1
          BY <1>1, <2>1
        <4>2. c[Len(b) + 1] = z[(Len(b) + 1) - Len(b)]
          BY <4>1, <2>1, ConcatProperties
        <4>3. QED BY <4>1, <4>2, <2>1
      <3>4. QED BY <3>1, <3>2, <3>3
    <2> HIDE DEF c
    <2>4. n \in Nat /\ 2 * n = Len(b) + 1 /\ (Len(c) + 1) \div 2 = n
      <3>1. ASSUME NEW p \in Nat, p % 2 = 1
            PROVE  /\ (p + 1) \div 2 \in Nat /\ 2 * ((p + 1) \div 2) = p + 1
                   /\ ((p + 1) + 1) \div 2 = (p + 1) \div 2
        BY <3>1
      <3>2. QED BY <3>1, <1>1, <1>3, <2>3
    <2> HIDE DEF n
    <2>5. ASSUME NEW k \in 1 .. n PROVE WordAt(c, k) = WordAt(b, k)
      <3>1. 2 * k - 1 \in 1 .. Len(b) /\ ~(2 * k > Len(c)) /\ k \in Nat
        BY <2>3, <2>4, <1>1
      <3>2. c[2 * k - 1] = b[2 * k - 1] /\ b[2 * k - 1] \in Nat
        BY <3>1, <2>3, ElementOfSeq
      <3>3. CASE k = n
        <4>1. 2 * k > Len(b) /\ 2 * k = Len(b) + 1
          BY <3>3, <2>4, <1>1
        <4>2. c[2 * k] = 0 /\ Byte * 0 = 0
          BY <4>1, <2>3, <1>1
        <4>3. QED BY <3>1, <3>2, <4>1, <4>2 DEF WordAt
      <3>4. CASE k # n
        <4>1. 2 * k \in 1 .. Len(b) /\ ~(2 * k > Len(b))
          BY <3>1, <3>4, <2>4, <1>1
        <4>2. c[2 * k] = b[2 * k]
          BY <4>1, <2>3
        <4>3. QED BY <3>1, <3>2, <4>1, <4>2 DEF WordAt
      <3>5. QED BY <3>3, <3>4
    <2>6. Words(c) = Words(b)
      <3>1. (Len(b) + 1) \div 2 = n
        BY DEF n
      <3>2. QED BY <3>1, <2>4, <2>5 DEF Words
    <2>7. QED BY <2>2, <2>3, <2>6 DEF Total, c
  <1>4. QED
    BY <1>2, <1>3

\* A number below Word as two bytes.
LEMMA StoredIs ==
    ASSUME NEW c \in 0 .. Word - 1
    PROVE  /\ c % Byte \in 0 .. Byte - 1 /\ c \div Byte \in 0 .. Byte - 1
           /\ (c % Byte) + Byte * (c \div Byte) = c
  <1> DEFINE r == c % Byte
             q == c \div Byte
  <1>1. Word \in Nat /\ Byte \in Nat \ {0} /\ c \in Nat
    BY WordIs, ByteAssumption
  <1>2. c = q * Byte + r /\ r \in 0 .. Byte - 1 /\ q \in Nat
    BY <1>1, Division, Zenon
  <1>3. q \in 0 .. Byte - 1
    <2>1. SUFFICES ASSUME q >= Byte PROVE FALSE
      BY <1>1, <1>2
    <2> HIDE DEF q, r
    <2>2. q * Byte >= Byte * Byte
      BY <2>1, <1>1, <1>2
    <2>3. c >= Word
      BY <2>2, <1>1, <1>2 DEF Word
    <2>4. QED BY <2>3, <1>1
  <1> HIDE DEF r, q
  <1>4. r + Byte * q = c
    BY <1>1, <1>2
  <1>5. QED
    BY <1>2, <1>3, <1>4 DEF r, q

\* A sequence of bytes is one of numbers, and a concatenation one of bytes.
LEMMA BytesJoined ==
    ASSUME NEW a \in Seq(0 .. Byte - 1), NEW b \in Seq(0 .. Byte - 1)
    PROVE  /\ a \o b \in Seq(0 .. Byte - 1) /\ Len(a \o b) = Len(a) + Len(b)
           /\ a \in Seq(Nat) /\ b \in Seq(Nat) /\ a \o b \in Seq(Nat)
           /\ Len(a) \in Nat /\ Len(b) \in Nat
  <1>1. 0 .. Byte - 1 \subseteq Nat
    BY ByteAssumption
  <1>2. a \in Seq(Nat) /\ b \in Seq(Nat) /\ Len(a) \in Nat /\ Len(b) \in Nat
    <2>1. ASSUME NEW s \in Seq(0 .. Byte - 1) PROVE s \in Seq(Nat) /\ Len(s) \in Nat
      <3>1. Len(s) \in Nat /\ s \in [1 .. Len(s) -> 0 .. Byte - 1]
        BY LenProperties
      <3>2. s \in [1 .. Len(s) -> Nat]
        BY <1>1, <3>1
      <3>3. QED BY <3>1, <3>2
    <2>2. QED BY <2>1
  <1>3. a \o b \in Seq(0 .. Byte - 1) /\ Len(a \o b) = Len(a) + Len(b)
    BY ConcatProperties
  <1>4. a \o b \in Seq(Nat)
    BY <1>2, ConcatProperties
  <1>5. QED
    BY <1>2, <1>3, <1>4

\* Parentheses do not matter.
LEMMA BytesAssociate ==
    \A r, s, t \in Seq(0 .. Byte - 1) : (r \o s) \o t = r \o (s \o t)
  BY ConcatAssociative

\* The pseudo-header is eight bytes longer than the addresses.
LEMMA PseudoHeaderIs ==
    ASSUME NEW src \in Seq(0 .. Byte - 1), NEW dst \in Seq(0 .. Byte - 1),
           NEW nxt \in 0 .. Byte - 1, NEW len \in 0 .. Word - 1
    PROVE  /\ PseudoHeader(src, dst, nxt, len) \in Seq(0 .. Byte - 1)
           /\ Len(PseudoHeader(src, dst, nxt, len)) = (Len(src) + Len(dst)) + 8
  <1> DEFINE hi == len \div Byte
             lo == len % Byte
             end == <<0, 0, hi, lo, 0, 0, 0, nxt>>
             addrs == src \o dst
  <1>1. hi \in 0 .. Byte - 1 /\ lo \in 0 .. Byte - 1 /\ 0 \in 0 .. Byte - 1
    <2>1. 0 \in 0 .. Byte - 1
      BY ByteAssumption
    <2>2. hi \in 0 .. Byte - 1 /\ lo \in 0 .. Byte - 1
      BY StoredIs, Zenon
    <2>3. QED BY <2>1, <2>2
  <1> HIDE DEF hi, lo
  <1>2. end \in Seq(0 .. Byte - 1) /\ Len(end) = 8
    BY <1>1
  <1> HIDE DEF end
  <1>3. addrs \in Seq(0 .. Byte - 1) /\ Len(addrs) = Len(src) + Len(dst)
    BY BytesJoined
  <1> HIDE DEF addrs
  <1>4. addrs \o end \in Seq(0 .. Byte - 1) /\ Len(addrs \o end) = (Len(src) + Len(dst)) + 8
    BY <1>2, <1>3, BytesJoined
  <1>5. PseudoHeader(src, dst, nxt, len) = addrs \o end
    BY DEF PseudoHeader, addrs, end, hi, lo
  <1>6. QED
    BY <1>4, <1>5

\* The sum of a packet that is not too long, with end-around carry.
LEMMA OnesSumIs ==
    ASSUME NEW b \in Seq(0 .. Byte - 1), Len(b) <= 2 * Word
    PROVE  /\ Total(b) \in Nat /\ Total(b) < Word * Word
           /\ OnesSum(b) = Norm(Total(b)) /\ Norm(Total(b)) \in 0 .. Word - 1
  <1>1. PICK n \in Nat : n <= Word /\ Words(b) \in [1 .. n -> 0 .. Word - 1]
    BY WordsAre
  <1>2. Total(b) \in Nat /\ Total(b) < Word * Word /\ OnesSum(b) = Norm(Total(b))
    BY <1>1, SumsAgree DEF Total, OnesSum
  <1>3. QED
    BY <1>2, NormIs

\* Whoever sums an ICMPv6 packet with its pseudo-header gets all ones, although
\* the checksum is in the middle of the header and was computed with zeros
\* behind the header and a byte of padding (ping6_ll.c lines 386-498).
THEOREM Receiver6SumsToZero ==
    ASSUME NEW src \in Seq(0 .. Byte - 1), NEW dst \in Seq(0 .. Byte - 1),
           NEW i \in Nat, Len(src) = 2 * i, NEW j \in Nat, Len(dst) = 2 * j,
           NEW nxt \in 0 .. Byte - 1, NEW hdr \in Seq(0 .. Byte - 1), Len(hdr) = 6,
           NEW payload \in Seq(0 .. Byte - 1), ICMP_HDRLEN + Len(payload) < Word,
           2 * (i + j) + 17 + Len(payload) <= 2 * Word
    PROVE  ReceiverGetsZero6(src, dst, nxt, hdr, payload)
  <1> DEFINE len == ICMP_HDRLEN + Len(payload)
             P == PseudoHeader(src, dst, nxt, len)
             h1 == SubSeq(hdr, 1, 2)
             h2 == SubSeq(hdr, 3, 6)
             zeros == <<0, 0>>
             pad == Padding(payload)
             s1 == P \o hdr
             s2 == s1 \o zeros
             S == (s2 \o payload) \o pad
             sum == checksum6(S)
             st == Stored(sum)
             r1 == P \o h1
             r2 == r1 \o st
             r3 == r2 \o h2
             R == r3 \o payload
  <1>0. Word \in Nat /\ Byte \in Nat /\ Byte >= 2 /\ Len(payload) \in Nat
    BY WordIs, ByteAssumption, LenProperties
  <1>1. P \in Seq(0 .. Byte - 1) /\ Len(P) = 2 * (i + j + 4)
    <2>1. len \in 0 .. Word - 1
      BY <1>0 DEF ICMP_HDRLEN
    <2> HIDE DEF len
    <2>2. P \in Seq(0 .. Byte - 1) /\ Len(P) = (Len(src) + Len(dst)) + 8
      BY <2>1, PseudoHeaderIs
    <2>3. QED BY <2>2
  <1> HIDE DEF P, len
  <1>2. /\ h1 \in Seq(0 .. Byte - 1) /\ Len(h1) = 2
        /\ h2 \in Seq(0 .. Byte - 1) /\ Len(h2) = 4 /\ hdr = h1 \o h2
    <2>1. h1 \in Seq(0 .. Byte - 1) /\ Len(h1) = 2 /\ h2 \in Seq(0 .. Byte - 1) /\ Len(h2) = 4
      <3>1. \A k \in 1 .. 6 : hdr[k] \in 0 .. Byte - 1
        BY ElementOfSeq
      <3>2. /\ h1 = [k \in 1 .. 2 |-> hdr[k]] /\ h2 = [k \in 1 .. 4 |-> hdr[k + 2]]
        OBVIOUS
      <3>3. QED BY <3>1, <3>2
    <2>2. hdr = h1 \o h2
      OBVIOUS
    <2>3. QED BY <2>1, <2>2
  <1> HIDE DEF h1, h2
  <1>3. pad \in Seq(0 .. Byte - 1) /\ Len(pad) \in Nat /\ Len(pad) <= 1
    <2>1. <<0>> \in Seq(0 .. Byte - 1) /\ Len(<<0>>) = 1
      <3>1. 0 \in 0 .. Byte - 1
        BY <1>0
      <3>2. QED BY <3>1
    <2>2. <<>> \in Seq(0 .. Byte - 1) /\ Len(<<>>) = 0
      OBVIOUS
    <2>3. pad = <<0>> \/ pad = <<>>
      BY DEF Padding
    <2> HIDE DEF pad
    <2>4. CASE pad = <<0>>
      <3>1. Len(pad) = 1 /\ pad \in Seq(0 .. Byte - 1)
        BY <2>1, <2>4, Zenon
      <3>2. QED BY <3>1
    <2>5. CASE pad = <<>>
      <3>1. Len(pad) = 0 /\ pad \in Seq(0 .. Byte - 1)
        BY <2>2, <2>5, Zenon
      <3>2. QED BY <3>1
    <2>6. QED BY <2>3, <2>4, <2>5
  <1> HIDE DEF pad
  <1>4. zeros \in Seq(0 .. Byte - 1) /\ Len(zeros) = 2 /\ Total(zeros) = 0
    <2>1. 0 \in Nat /\ 0 + Byte * 0 = 0
      BY <1>0
    <2>2. Total(zeros) = 0 + Byte * 0
      BY <2>1, TwoBytes, Zenon
    <2>3. zeros \in Seq(0 .. Byte - 1) /\ Len(zeros) = 2
      BY <1>0
    <2>4. QED BY <2>1, <2>2, <2>3
  <1> HIDE DEF zeros
  <1>5. /\ s1 \in Seq(0 .. Byte - 1) /\ Len(s1) = 2 * (i + j + 7)
        /\ Total(P) \in Nat /\ Total(hdr) \in Nat /\ Total(s1) = Total(P) + Total(hdr)
    <2>1. /\ s1 \in Seq(0 .. Byte - 1) /\ Len(s1) = Len(P) + Len(hdr)
          /\ P \in Seq(Nat) /\ hdr \in Seq(Nat)
      BY <1>1, BytesJoined
    <2>2. i + j + 4 \in Nat
      OBVIOUS
    <2>3. Total(P) \in Nat /\ Total(hdr) \in Nat /\ Total(s1) = Total(P) + Total(hdr)
      BY <1>1, <2>1, <2>2, TotalJoined
    <2>4. QED BY <1>1, <2>1, <2>3
  <1> HIDE DEF s1
  <1>6. /\ s2 \in Seq(0 .. Byte - 1) /\ Len(s2) = 2 * (i + j + 8)
        /\ Total(s2) = Total(P) + Total(hdr)
    <2>1. /\ s2 \in Seq(0 .. Byte - 1) /\ Len(s2) = Len(s1) + Len(zeros)
          /\ s1 \in Seq(Nat) /\ zeros \in Seq(Nat)
      BY <1>4, <1>5, BytesJoined
    <2>2. i + j + 7 \in Nat
      OBVIOUS
    <2>3. Total(s2) = Total(s1) + Total(zeros)
      BY <1>5, <2>1, <2>2, TotalJoined
    <2>4. QED BY <1>4, <1>5, <2>1, <2>3
  <1> HIDE DEF s2
  <1>7. /\ S \in Seq(0 .. Byte - 1) /\ Len(S) <= 2 * Word
        /\ Total(payload) \in Nat /\ Total(S) = (Total(P) + Total(hdr)) + Total(payload)
    <2> DEFINE t == payload \o pad
    <2>1. /\ t \in Seq(0 .. Byte - 1) /\ Len(t) = Len(payload) + Len(pad)
          /\ t \in Seq(Nat) /\ payload \in Seq(Nat)
      BY <1>3, BytesJoined
    <2>2. Total(t) = Total(payload)
      BY <2>1, PaddingAddsNothing DEF pad
    <2>3. S = s2 \o t
      BY <1>3, <1>6, BytesAssociate
    <2> HIDE DEF t, S
    <2>4. S \in Seq(0 .. Byte - 1) /\ Len(S) = Len(s2) + Len(t) /\ s2 \in Seq(Nat)
      BY <1>6, <2>1, <2>3, BytesJoined
    <2>5. i + j + 8 \in Nat
      OBVIOUS
    <2>6. Total(t) \in Nat /\ Total(S) = Total(s2) + Total(t)
      BY <1>6, <2>1, <2>3, <2>4, <2>5, TotalJoined
    <2>7. Len(S) <= 2 * Word
      <3>1. Len(S) = 2 * (i + j + 8) + (Len(payload) + Len(pad))
        BY <1>6, <2>1, <2>4
      <3>2. QED BY <1>0, <1>3, <3>1
    <2>8. QED BY <1>6, <2>2, <2>4, <2>6, <2>7
  <1> HIDE DEF S
  <1>8. /\ sum = Word - 1 - Norm(Total(S)) /\ Norm(Total(S)) \in 0 .. Word - 1
        /\ Total(S) \in Nat /\ sum \in 0 .. Word - 1
    <2>1. sum = Word - 1 - OnesSum(S)
      BY <1>7, OnesComplementSum DEF IsOnesComplement
    <2>2. /\ OnesSum(S) = Norm(Total(S)) /\ Norm(Total(S)) \in 0 .. Word - 1
          /\ Total(S) \in Nat
      BY <1>7, OnesSumIs
    <2> HIDE DEF sum
    <2>3. QED BY <2>1, <2>2, <1>0
  <1> HIDE DEF sum
  <1>9. st \in Seq(0 .. Byte - 1) /\ Len(st) = 2 /\ Total(st) = sum
    <2> DEFINE lo == sum % Byte
               hi == sum \div Byte
    <2>1. lo \in 0 .. Byte - 1 /\ hi \in 0 .. Byte - 1 /\ lo + Byte * hi = sum
      BY <1>8, StoredIs
    <2>2. st = <<lo, hi>>
      BY DEF Stored
    <2> HIDE DEF lo, hi, st
    <2>3. lo \in Nat /\ hi \in Nat
      BY <2>1, <1>0
    <2>4. Total(<<lo, hi>>) = lo + Byte * hi
      BY <2>3, TwoBytes
    <2>5. <<lo, hi>> \in Seq(0 .. Byte - 1) /\ Len(<<lo, hi>>) = 2
      BY <2>1
    <2>6. QED BY <2>1, <2>2, <2>4, <2>5
  <1> HIDE DEF st
  <1>10. /\ Total(h1) \in Nat /\ Total(h2) \in Nat /\ Total(hdr) = Total(h1) + Total(h2)
    <2>1. h1 \in Seq(Nat) /\ h2 \in Seq(Nat)
      BY <1>2, BytesJoined
    <2>2. Len(h1) = 2 * 1 /\ 1 \in Nat
      BY <1>2
    <2>3. Total(h1) \in Nat /\ Total(h2) \in Nat /\ Total(h1 \o h2) = Total(h1) + Total(h2)
      BY <2>1, <2>2, TotalJoined
    <2>4. QED BY <2>3, <1>2
  <1>11. /\ r1 \in Seq(0 .. Byte - 1) /\ Len(r1) = 2 * (i + j + 5)
         /\ Total(r1) = Total(P) + Total(h1)
    <2>1. /\ r1 \in Seq(0 .. Byte - 1) /\ Len(r1) = Len(P) + Len(h1)
          /\ P \in Seq(Nat) /\ h1 \in Seq(Nat)
      BY <1>1, <1>2, BytesJoined
    <2>2. i + j + 4 \in Nat
      OBVIOUS
    <2>3. Total(r1) = Total(P) + Total(h1)
      BY <1>1, <2>1, <2>2, TotalJoined
    <2>4. QED BY <1>1, <1>2, <2>1, <2>3
  <1> HIDE DEF r1
  <1>12. /\ r2 \in Seq(0 .. Byte - 1) /\ Len(r2) = 2 * (i + j + 6)
         /\ Total(r2) = (Total(P) + Total(h1)) + sum
    <2>1. /\ r2 \in Seq(0 .. Byte - 1) /\ Len(r2) = Len(r1) + Len(st)
          /\ r1 \in Seq(Nat) /\ st \in Seq(Nat)
      BY <1>9, <1>11, BytesJoined
    <2>2. i + j + 5 \in Nat
      OBVIOUS
    <2>3. Total(r2) = Total(r1) + Total(st)
      BY <1>11, <2>1, <2>2, TotalJoined
    <2>4. QED BY <1>9, <1>11, <2>1, <2>3
  <1> HIDE DEF r2
  <1>13. /\ r3 \in Seq(0 .. Byte - 1) /\ Len(r3) = 2 * (i + j + 8)
         /\ Total(r3) = ((Total(P) + Total(h1)) + sum) + Total(h2)
    <2>1. /\ r3 \in Seq(0 .. Byte - 1) /\ Len(r3) = Len(r2) + Len(h2)
          /\ r2 \in Seq(Nat) /\ h2 \in Seq(Nat)
      BY <1>2, <1>12, BytesJoined
    <2>2. i + j + 6 \in Nat
      OBVIOUS
    <2>3. Total(r3) = Total(r2) + Total(h2)
      BY <1>12, <2>1, <2>2, TotalJoined
    <2>4. QED BY <1>2, <1>12, <2>1, <2>3
  <1> HIDE DEF r3
  <1>14. /\ R \in Seq(0 .. Byte - 1) /\ Len(R) <= 2 * Word
         /\ Total(R) = (((Total(P) + Total(h1)) + sum) + Total(h2)) + Total(payload)
    <2>1. /\ R \in Seq(0 .. Byte - 1) /\ Len(R) = Len(r3) + Len(payload)
          /\ r3 \in Seq(Nat) /\ payload \in Seq(Nat)
      BY <1>13, BytesJoined
    <2>2. i + j + 8 \in Nat
      OBVIOUS
    <2>3. Total(R) = Total(r3) + Total(payload)
      BY <1>13, <2>1, <2>2, TotalJoined
    <2>4. Len(R) <= 2 * Word
      BY <1>0, <1>13, <2>1
    <2>5. QED BY <1>13, <2>1, <2>3, <2>4
  <1> HIDE DEF R
  <1>15. Total(R) = Total(S) + sum
    <2>1. sum \in Nat
      BY <1>0, <1>8
    <2>2. PICK p \in Nat, x \in Nat, y \in Nat, z \in Nat :
             p = Total(P) /\ x = Total(h1) /\ y = Total(h2) /\ z = Total(payload)
      BY <1>5, <1>7, <1>10
    <2>3. Total(S) = (p + (x + y)) + z
      BY <1>7, <1>10, <2>2
    <2>4. Total(R) = (((p + x) + sum) + y) + z
      BY <1>14, <2>2
    <2>5. QED BY <2>1, <2>3, <2>4
  <1>16. Total(R) < Word * Word /\ OnesSum(R) = Norm(Total(R))
    BY <1>14, OnesSumIs
  <1>17. Norm(Total(R)) = OnesPlus(Norm(Total(S)), sum)
    BY <1>8, <1>15, <1>16, NormAdds
  <1>18. OnesPlus(Norm(Total(S)), sum) = Word - 1
    <2>1. PICK x \in 0 .. Word - 1 : x = Norm(Total(S))
      BY <1>8
    <2>2. sum = Word - 1 - x
      BY <1>8, <2>1
    <2>3. x + sum = Word - 1 /\ x + sum < Word
      BY <1>0, <2>2
    <2>4. QED BY <2>1, <2>3 DEF OnesPlus
  <1>19. icmp6_checksum(src, dst, nxt, hdr, payload) = sum
    BY DEF icmp6_checksum, sum, S, s2, s1, P, len, zeros, pad
  <1>20. Received6(src, dst, nxt, hdr, payload, sum) = R
    BY DEF Received6, R, r3, r2, r1, P, len, h1, h2, st
  <1>21. QED
    BY <1>16, <1>17, <1>18, <1>19, <1>20 DEF ReceiverGetsZero6

\* The input is read byte by byte, up to its bound.
InputInv == input \in Seq(0 .. Byte - 1) /\ Len(input) <= InputLen

LEMMA InputInductive == InputSpec => []InputInv
  <1>1. InputInit => InputInv
    <2>1. <<>> \in Seq(0 .. Byte - 1) /\ Len(<<>>) = 0 /\ InputLen >= 0
      BY InputAssumption
    <2>2. QED BY <2>1 DEF InputInit, InputInv
  <1>2. InputInv /\ [InputNext]_input => InputInv'
    <2>1. ASSUME InputInv, InputNext PROVE InputInv'
      <3>1. PICK v \in 0 .. Byte - 1 : input' = Append(input, v)
        BY <2>1 DEF InputNext
      <3>2. Append(input, v) \in Seq(0 .. Byte - 1) /\ Len(Append(input, v)) = Len(input) + 1
        BY <2>1, AppendProperties DEF InputInv
      <3>3. Len(input) \in Nat /\ Len(input) < InputLen /\ InputLen \in Nat
        BY <2>1, InputAssumption, LenProperties DEF InputInv, InputNext
      <3>4. QED BY <3>1, <3>2, <3>3 DEF InputInv
    <2>2. ASSUME InputInv, UNCHANGED input PROVE InputInv'
      BY <2>2 DEF InputInv
    <2>3. QED BY <2>1, <2>2
  <1>3. QED
    BY <1>1, <1>2, PTL DEF InputSpec

\* The checksums of the three pings are right for every payload that a packet
\* can have: they are one's complement sums, and a receiver accepts them
\* (myping.c lines 74-87, myping_synchronous.c lines 69-82, ping6_ll.c lines
\* 386-498).
THEOREM ChecksumsAccepted == InputSpec => []Checksums
  <1>1. InputInv => Checksums
    <2> SUFFICES ASSUME InputInv PROVE Checksums
      OBVIOUS
    <2>1. /\ input \in Seq(0 .. Byte - 1) /\ Len(input) \in Nat
          /\ ICMP_HDRLEN + Len(input) < Word /\ 8 + Len(input) < Word
          /\ Word \in Nat /\ Byte \in Nat
      BY InputAssumption, PacketAssumption, ByteAssumption, WordIs, LenProperties DEF InputInv, ICMP_HDRLEN
    <2>2. Byte >= 4 /\ Word >= 16
      <3>1. Byte >= 4
        BY PacketAssumption
      <3>2. Byte * Byte >= 4 * 4
        BY <2>1, <3>1
      <3>3. QED BY <3>1, <3>2 DEF Word
    <2>3. {0, 1, 2} \subseteq 0 .. Byte - 1
      BY <2>1, <2>2
    <2>4. IsOnesComplement(input)
      <3>1. Len(input) <= 2 * Word
        BY <2>1
      <3>2. QED BY <2>1, <3>1, OnesComplementSum
    <2>5. ReceiverGetsZero(<<0, 0>> \o input, 1)
      <3> DEFINE z == <<0, 0>>
                 b == z \o input
      <3>1. z \in Seq(0 .. Byte - 1) /\ Len(z) = 2 /\ z[1] = 0 /\ z[2] = 0
        BY <2>3
      <3> HIDE DEF z
      <3>2. b \in Seq(0 .. Byte - 1) /\ Len(b) = Len(z) + Len(input)
        BY <2>1, <3>1, BytesJoined
      <3>3. b[1] = 0 /\ b[2] = 0
        <4>1. 1 \in 1 .. Len(z) + Len(input) /\ 2 \in 1 .. Len(z) + Len(input)
              /\ 1 <= Len(z) /\ 2 <= Len(z)
          BY <2>1, <3>1
        <4>2. b[1] = z[1] /\ b[2] = z[2]
          BY <4>1, <2>1, <3>1, ConcatProperties
        <4>3. QED BY <4>2, <3>1
      <3> HIDE DEF b
      <3>4. /\ Len(b) <= 2 * Word /\ 1 \in Nat \ {0} /\ 2 * 1 <= Len(b)
            /\ 2 * 1 - 1 = 1 /\ 2 * 1 = 2
        BY <2>1, <3>1, <3>2
      <3>5. ReceiverGetsZero(b, 1)
        BY <3>2, <3>3, <3>4, ReceiverSumsToZero
      <3>6. QED BY <3>5 DEF b, z
    <2>6. ASSUME NEW v \in 0 .. Byte - 1
          PROVE  ReceiverGetsZero6(<<v, 1>>, <<2, v>>, v, <<1, 2, v, 0, 1, v>>, input)
      <3> DEFINE src == <<v, 1>>
                 dst == <<2, v>>
                 hdr == <<1, 2, v, 0, 1, v>>
      <3>1. /\ src \in Seq(0 .. Byte - 1) /\ Len(src) = 2
            /\ dst \in Seq(0 .. Byte - 1) /\ Len(dst) = 2
            /\ hdr \in Seq(0 .. Byte - 1) /\ Len(hdr) = 6
        BY <2>3
      <3> HIDE DEF src, dst, hdr
      <3>2. /\ 1 \in Nat /\ Len(src) = 2 * 1 /\ Len(dst) = 2 * 1
            /\ 2 * (1 + 1) + 17 + Len(input) <= 2 * Word
        BY <2>1, <2>2, <3>1
      <3>3. ReceiverGetsZero6(src, dst, v, hdr, input)
        BY <2>1, <3>1, <3>2, Receiver6SumsToZero
      <3>4. QED BY <3>3 DEF src, dst, hdr
    <2>7. QED BY <2>4, <2>5, <2>6 DEF Checksums
  <1>2. QED
    BY <1>1, InputInductive, PTL

-----------------------------------------------------------------------------
\* There are running values for every start and step.
LEMMA RunExists ==
    ASSUME NEW n \in Nat, NEW w \in [1 .. n -> Nat], NEW g \in [Nat \X Nat -> Nat]
    PROVE  \E T : Running(T, n, w, g)
  <1>1. PICK f : Folding(f, n, w, g)
    BY FoldExists
  <1>2. f[{}] = 0
    BY <1>1 DEF Folding
  <1>3. \A s \in SUBSET (1 .. n) :
           s # {} /\ f[s \ {Max(s)}] \in Nat => f[s] = g[<<f[s \ {Max(s)}], w[Max(s)]>>]
    BY <1>1 DEF Folding
  <1>4. Running([k \in 0 .. n |-> f[1 .. k]], n, w, g)
    BY <1>2, <1>3, FoldRuns
  <1>5. QED
    BY <1>4

\* The values of the digits from each place on.
Values(F, n, d) == /\ F \in [1 .. n + 1 -> Nat]
                   /\ \A i \in 1 .. n : F[i] = d[i] + Base * F[i + 1]

\* What Value computes.
LEMMA ValueIs ==
    ASSUME NEW l \in Seq(Nat)
    PROVE  \E F : Values(F, Len(l), l) /\ F[Len(l) + 1] = 0 /\ Value(l) = F[1]
  <1> DEFINE n == Len(l)
             Def(f, i) == IF i > n THEN 0 ELSE l[i] + Base * f[i + 1]
             F == CHOOSE f : f = [i \in 1 .. n + 1 |-> Def(f, i)]
             w == [k \in 1 .. n |-> l[(n + 1) - k]]
             g == [p \in Nat \X Nat |-> p[2] + Base * p[1]]
  <1>1. n \in Nat /\ Base \in Nat /\ \A i \in 1 .. n : l[i] \in Nat
    BY BaseAssumption, LenProperties, ElementOfSeq
  <1>2. Value(l) = F[1]
    BY DEF Value
  <1> HIDE DEF n
  <1>3. w \in [1 .. n -> Nat]
    <2>1. \A k \in 1 .. n : (n + 1) - k \in 1 .. n
      BY <1>1
    <2>2. QED BY <1>1, <2>1
  <1>4. g \in [Nat \X Nat -> Nat] /\ \A x, y \in Nat : g[<<x, y>>] = y + Base * x
    <2>1. \A x, y \in Nat : y + Base * x \in Nat
      BY <1>1
    <2>2. \A p \in Nat \X Nat : p[1] \in Nat /\ p[2] \in Nat
      OBVIOUS
    <2>3. QED BY <2>1, <2>2
  <1> HIDE DEF g, w
  <1>5. PICK T : Running(T, n, w, g)
    BY <1>1, <1>3, <1>4, RunExists
  <1> DEFINE f == [i \in 1 .. n + 1 |-> T[(n + 1) - i]]
  <1>6. ASSUME NEW i \in 1 .. n + 1 PROVE f[i] = Def(f, i)
    <2>1. f[i] = T[(n + 1) - i] /\ i \in Nat
      OBVIOUS
    <2>2. CASE i > n
      <3>1. (n + 1) - i = 0
        BY <2>2, <1>1
      <3>2. QED BY <2>1, <2>2, <3>1, <1>5 DEF Running
    <2>3. CASE ~(i > n)
      <3> DEFINE k == (n + 1) - i
      <3>1. /\ k \in 1 .. n /\ k - 1 \in 0 .. n /\ (n + 1) - k = i
            /\ i + 1 \in 1 .. n + 1 /\ (n + 1) - (i + 1) = k - 1
        BY <2>3, <1>1
      <3>2. f[i + 1] = T[k - 1]
        BY <3>1
      <3> HIDE DEF k
      <3>3. T[k] = g[<<T[k - 1], w[k]>>] /\ T[k - 1] \in Nat /\ w[k] \in Nat
        BY <3>1, <1>3, <1>5 DEF Running
      <3>4. w[k] = l[i]
        BY <3>1 DEF w
      <3>5. T[k] = l[i] + Base * T[k - 1]
        BY <3>3, <3>4, <1>4
      <3>6. QED BY <2>1, <2>3, <3>2, <3>5 DEF k
    <2>4. QED BY <2>2, <2>3
  <1>7. f = [i \in 1 .. n + 1 |-> Def(f, i)]
    <2> HIDE DEF Def
    <2>1. f = [i \in 1 .. n + 1 |-> f[i]]
      OBVIOUS
    <2> HIDE DEF f
    <2>2. QED BY <2>1, <1>6
  <1>8. F = [i \in 1 .. n + 1 |-> Def(F, i)]
    <2> HIDE DEF Def, f
    <2>1. \E h : h = [i \in 1 .. n + 1 |-> Def(h, i)]
      BY <1>7
    <2>2. QED BY <2>1, Zenon
  <1> HIDE DEF F
  <1>9. \A i \in 1 .. n + 1 : F[i] = Def(F, i)
    <2> HIDE DEF Def
    <2>1. QED BY <1>8
  <1>10. F[n + 1] = 0 /\ \A i \in 1 .. n : F[i] = l[i] + Base * F[i + 1]
    <2>1. n + 1 \in 1 .. n + 1 /\ n + 1 > n
      BY <1>1
    <2>2. \A i \in 1 .. n : i \in 1 .. n + 1 /\ ~(i > n)
      BY <1>1
    <2>3. QED BY <2>1, <2>2, <1>9
  <1>11. \A i \in 1 .. n + 1 : F[i] \in Nat
    <2> DEFINE B == {d \in 0 .. n : F[(n + 1) - d] \notin Nat}
    <2>1. SUFFICES ASSUME NEW i \in 1 .. n + 1, F[i] \notin Nat PROVE FALSE
      OBVIOUS
    <2>2. (n + 1) - i \in 0 .. n /\ (n + 1) - ((n + 1) - i) = i
      BY <1>1
    <2>3. B # {} /\ B \subseteq Nat
      BY <2>1, <2>2
    <2>4. PICK d \in B : \A e \in B : d <= e
      BY <2>3, Least
    <2>5. d \in 0 .. n /\ F[(n + 1) - d] \notin Nat
      BY <2>4
    <2>6. d # 0
      <3>1. (n + 1) - 0 = n + 1
        BY <1>1
      <3>2. QED BY <2>5, <3>1, <1>10
    <2>7. /\ d - 1 \in 0 .. n /\ d - 1 \notin B /\ (n + 1) - d \in 1 .. n
          /\ (n + 1) - (d - 1) = ((n + 1) - d) + 1
      <3>1. /\ d - 1 \in 0 .. n /\ (n + 1) - d \in 1 .. n /\ ~(d <= d - 1)
            /\ (n + 1) - (d - 1) = ((n + 1) - d) + 1
        BY <2>5, <2>6, <1>1
      <3>2. QED BY <2>4, <3>1
    <2>8. F[((n + 1) - d) + 1] \in Nat
      BY <2>7
    <2>9. F[(n + 1) - d] = l[(n + 1) - d] + Base * F[((n + 1) - d) + 1]
      BY <2>7, <1>10
    <2>10. l[(n + 1) - d] \in Nat /\ Base * F[((n + 1) - d) + 1] \in Nat
      BY <2>7, <2>8, <1>1
    <2>11. QED BY <2>5, <2>9, <2>10
  <1>12. F \in [1 .. n + 1 -> Nat]
    <2>1. F = [i \in 1 .. n + 1 |-> F[i]]
      <3> HIDE DEF Def
      <3>1. QED BY <1>8, <1>9
    <2>2. QED BY <2>1, <1>11
  <1>13. QED
    BY <1>2, <1>10, <1>12 DEF Values, n

\* Zeros above the number change nothing.
LEMMA ValuePadded ==
    ASSUME NEW l \in Seq(Nat), NEW m \in Nat, Len(l) <= m
    PROVE  \E G : /\ Values(G, m, [i \in 1 .. m |-> Digit(l, i)])
                 /\ G[m + 1] = 0 /\ Value(l) = G[1]
  <1> DEFINE n == Len(l)
             d == [i \in 1 .. m |-> Digit(l, i)]
  <1>1. PICK F : Values(F, n, l) /\ F[n + 1] = 0 /\ Value(l) = F[1]
    BY ValueIs
  <1>2. n \in Nat /\ n <= m /\ Base \in Nat
    BY BaseAssumption, LenProperties
  <1>3. \A i \in 1 .. m : d[i] = IF i <= n THEN l[i] ELSE 0
    BY DEF Digit
  <1> HIDE DEF n, d
  <1> DEFINE G == [i \in 1 .. m + 1 |-> IF i <= n + 1 THEN F[i] ELSE 0]
  <1>4. G \in [1 .. m + 1 -> Nat]
    <2>1. ASSUME NEW i \in 1 .. m + 1, i <= n + 1 PROVE F[i] \in Nat
      <3>1. i \in 1 .. n + 1
        BY <2>1, <1>2
      <3>2. QED BY <3>1, <1>1 DEF Values
    <2>2. QED BY <2>1
  <1>5. G[m + 1] = 0 /\ G[1] = F[1]
    <2>1. m + 1 \in 1 .. m + 1 /\ 1 \in 1 .. m + 1 /\ 1 <= n + 1
      BY <1>2
    <2>2. m + 1 <= n + 1 => m + 1 = n + 1
      BY <1>2
    <2>3. QED BY <2>1, <2>2, <1>1
  <1>6. ASSUME NEW i \in 1 .. m PROVE G[i] = d[i] + Base * G[i + 1]
    <2>1. i \in 1 .. m + 1 /\ i + 1 \in 1 .. m + 1 /\ i \in Nat
      BY <1>2
    <2>2. CASE i <= n
      <3>1. i \in 1 .. n /\ i <= n + 1 /\ i + 1 <= n + 1
        BY <2>1, <2>2, <1>2
      <3>2. F[i] = l[i] + Base * F[i + 1]
        BY <3>1, <1>1 DEF Values
      <3>3. QED BY <2>1, <2>2, <3>1, <3>2, <1>3
    <2>3. CASE i = n + 1
      <3>1. ~(i <= n) /\ i <= n + 1 /\ ~(i + 1 <= n + 1)
        BY <2>3, <1>2
      <3>2. G[i] = 0 /\ G[i + 1] = 0 /\ d[i] = 0
        BY <2>1, <2>3, <3>1, <1>1, <1>3
      <3>3. Base * 0 = 0
        BY <1>2
      <3>4. QED BY <3>2, <3>3
    <2>4. CASE i > n + 1
      <3>1. ~(i <= n) /\ ~(i <= n + 1) /\ ~(i + 1 <= n + 1)
        BY <2>1, <2>4, <1>2
      <3>2. G[i] = 0 /\ G[i + 1] = 0 /\ d[i] = 0
        BY <2>1, <3>1, <1>3
      <3>3. Base * 0 = 0
        BY <1>2
      <3>4. QED BY <3>2, <3>3
    <2>5. QED
      BY <2>1, <2>2, <2>3, <2>4, <1>2
  <1> HIDE DEF G
  <1>7. Values(G, m, d) /\ G[m + 1] = 0 /\ Value(l) = G[1]
    BY <1>1, <1>4, <1>5, <1>6 DEF Values
  <1>8. QED
    BY <1>7 DEF d

\* The loop runs as long as the longer number.
LEMMA TurnsIs ==
    ASSUME NEW l1 \in Seq(Nat), NEW l2 \in Seq(Nat)
    PROVE  Turns(l1, l2) \in Nat /\ Len(l1) <= Turns(l1, l2) /\ Len(l2) <= Turns(l1, l2)
  <1> DEFINE S == {Len(l1), Len(l2)}
  <1>1. Len(l1) \in Nat /\ Len(l2) \in Nat /\ S \subseteq Int
    BY LenProperties
  <1>2. CASE Len(l1) <= Len(l2)
    <2>1. Len(l2) \in S /\ \A y \in S : y <= Len(l2)
      BY <1>1, <1>2
    <2>2. Max(S) = Len(l2)
      BY <1>1, <2>1, LargestIs, Zenon
    <2>3. QED BY <1>1, <1>2, <2>2 DEF Turns
  <1>3. CASE Len(l2) <= Len(l1)
    <2>1. Len(l1) \in S /\ \A y \in S : y <= Len(l1)
      BY <1>1, <1>3
    <2>2. Max(S) = Len(l1)
      BY <1>1, <2>1, LargestIs, Zenon
    <2>3. QED BY <1>1, <1>3, <2>2 DEF Turns
  <1>4. QED
    BY <1>1, <1>2, <1>3

\* One turn: the carry stays 0 or 1.
LEMMA OneTurn ==
    ASSUME NEW c \in 0 .. 1, NEW x \in 0 .. Base - 1, NEW y \in 0 .. Base - 1
    PROVE  /\ (c + x + y) \div Base \in 0 .. 1
           /\ (c + x + y) % Base \in 0 .. Base - 1
           /\ ((c + x + y) % Base) + Base * ((c + x + y) \div Base) = c + x + y
  <1> DEFINE s == c + x + y
             q == s \div Base
             r == s % Base
  <1>1. Base \in Nat \ {0} /\ Base >= 2 /\ s \in Nat /\ s < 2 * Base
    BY BaseAssumption
  <1> HIDE DEF s
  <1>2. s = q * Base + r /\ r \in 0 .. Base - 1 /\ q \in Nat
    BY <1>1, Division, Zenon
  <1> HIDE DEF q, r
  <1>3. q < 2
    <2>1. SUFFICES ASSUME q >= 2 PROVE FALSE
      BY <1>2
    <2>2. q * Base >= 2 * Base
      BY <2>1, <1>1, <1>2
    <2>3. QED BY <2>2, <1>1, <1>2
  <1>4. q \in 0 .. 1 /\ r + Base * q = s
    BY <1>1, <1>2, <1>3
  <1>5. QED
    BY <1>2, <1>4 DEF q, r, s

\* A list of digits, and the zeros above it.
LEMMA DigitIs ==
    ASSUME NEW l \in Seq(0 .. Base - 1), NEW i \in Nat \ {0}
    PROVE  Digit(l, i) \in 0 .. Base - 1
  <1>1. 0 \in 0 .. Base - 1
    BY BaseAssumption
  <1>2. ASSUME i <= Len(l) PROVE l[i] \in 0 .. Base - 1
    <2>1. i \in 1 .. Len(l)
      BY <1>2, LenProperties
    <2>2. QED BY <2>1, ElementOfSeq
  <1>3. QED
    BY <1>1, <1>2 DEF Digit

\* The carries of the loop, turn by turn: each is 0 or 1.
LEMMA CarriesAre ==
    ASSUME NEW l1 \in Seq(0 .. Base - 1), NEW l2 \in Seq(0 .. Base - 1),
           Turns(l1, l2) \in Nat
    PROVE  /\ Carries(l1, l2)[0] = 0
           /\ \A i \in 0 .. Turns(l1, l2) : Carries(l1, l2)[i] \in 0 .. 1
           /\ \A i \in 1 .. Turns(l1, l2) :
                 Carries(l1, l2)[i] =
                     (Carries(l1, l2)[i - 1] + Digit(l1, i) + Digit(l2, i)) \div Base
  <1> DEFINE n == Turns(l1, l2)
             x(i) == Digit(l1, i)
             y(i) == Digit(l2, i)
             Def(f, i) == IF i = 0 THEN 0 ELSE (f[i - 1] + x(i) + y(i)) \div Base
             C == CHOOSE f : f = [i \in 0 .. n |-> Def(f, i)]
             w == [i \in 1 .. n |-> x(i) + y(i)]
             g == [p \in Nat \X Nat |-> (p[1] + p[2]) \div Base]
  <1>1. n \in Nat /\ Base \in Nat \ {0}
    BY BaseAssumption
  <1>2. Carries(l1, l2) = C
    BY DEF Carries
  <1> HIDE DEF n
  <1>3. \A i \in 1 .. n : x(i) \in 0 .. Base - 1 /\ y(i) \in 0 .. Base - 1
    <2>1. \A i \in 1 .. n : i \in Nat \ {0}
      BY <1>1
    <2>2. QED BY <2>1, DigitIs
  <1> HIDE DEF x, y
  <1>4. w \in [1 .. n -> Nat]
    <2>1. \A i \in 1 .. n : x(i) + y(i) \in Nat
      BY <1>1, <1>3
    <2>2. QED BY <2>1
  <1>5. g \in [Nat \X Nat -> Nat] /\ \A a, b \in Nat : g[<<a, b>>] = (a + b) \div Base
    <2>1. \A a, b \in Nat : (a + b) \div Base \in Nat
      <3>1. ASSUME NEW a \in Nat, NEW b \in Nat PROVE (a + b) \div Base \in Nat
        <4>1. a + b \in Nat
          OBVIOUS
        <4>2. QED BY <4>1, <1>1, Division
      <3>2. QED BY <3>1
    <2>2. \A p \in Nat \X Nat : p[1] \in Nat /\ p[2] \in Nat
      OBVIOUS
    <2>3. QED BY <2>1, <2>2
  <1> HIDE DEF g, w
  <1>6. PICK f : Running(f, n, w, g)
    BY <1>1, <1>4, <1>5, RunExists
  <1>7. ASSUME NEW i \in 0 .. n PROVE f[i] = Def(f, i)
    <2>1. CASE i = 0
      BY <2>1, <1>6 DEF Running
    <2>2. CASE i # 0
      <3>1. i \in 1 .. n /\ i - 1 \in 0 .. n
        BY <2>2, <1>1
      <3>2. f[i] = g[<<f[i - 1], w[i]>>] /\ f[i - 1] \in Nat /\ w[i] \in Nat
        BY <3>1, <1>4, <1>6 DEF Running
      <3>3. w[i] = x(i) + y(i)
        BY <3>1 DEF w
      <3>4. f[i] = (f[i - 1] + w[i]) \div Base
        BY <3>2, <1>5
      <3>5. f[i - 1] + w[i] = f[i - 1] + x(i) + y(i)
        BY <3>1, <3>2, <3>3, <1>3
      <3>6. QED BY <2>2, <3>4, <3>5
    <2>3. QED BY <2>1, <2>2
  <1>8. f = [i \in 0 .. n |-> Def(f, i)]
    <2> HIDE DEF Def
    <2>1. f = [i \in 0 .. n |-> f[i]]
      BY <1>6 DEF Running
    <2>2. QED BY <2>1, <1>7
  <1>9. C = [i \in 0 .. n |-> Def(C, i)]
    <2> HIDE DEF Def
    <2>1. \E h : h = [i \in 0 .. n |-> Def(h, i)]
      BY <1>8
    <2>2. QED BY <2>1, Zenon
  <1> HIDE DEF C
  <1>10. \A i \in 0 .. n : C[i] = Def(C, i)
    <2> HIDE DEF Def
    <2>1. QED BY <1>9
  <1>11. C[0] = 0 /\ \A i \in 1 .. n : C[i] = (C[i - 1] + x(i) + y(i)) \div Base
    <2>1. 0 \in 0 .. n /\ \A i \in 1 .. n : i \in 0 .. n /\ i # 0
      BY <1>1
    <2>2. QED BY <2>1, <1>10
  <1>12. \A i \in 0 .. n : C[i] \in 0 .. 1
    <2> DEFINE B == {i \in 0 .. n : C[i] \notin 0 .. 1}
    <2>1. SUFFICES ASSUME B # {} PROVE FALSE
      OBVIOUS
    <2>2. B \subseteq Nat
      OBVIOUS
    <2>3. PICK d \in B : \A e \in B : d <= e
      BY <2>1, <2>2, Least
    <2>4. d \in 0 .. n /\ C[d] \notin 0 .. 1
      BY <2>3
    <2>5. d # 0
      BY <2>4, <1>11
    <2>6. d \in 1 .. n /\ d - 1 \in 0 .. n /\ ~(d <= d - 1)
      BY <2>4, <2>5, <1>1
    <2>7. C[d - 1] \in 0 .. 1
      BY <2>3, <2>6
    <2>8. (C[d - 1] + x(d) + y(d)) \div Base \in 0 .. 1
      BY <2>6, <2>7, <1>3, OneTurn
    <2>9. QED BY <2>4, <2>6, <2>8, <1>11
  <1>13. QED
    BY <1>2, <1>11, <1>12 DEF n, x, y

\* Digits d3 and carries c that come from adding d1 and d2 place by place.
Adding(n, d1, d2, d3, c) ==
    /\ \A i \in 0 .. n : c[i] \in 0 .. 1
    /\ \A i \in 1 .. n : /\ d1[i] \in Nat /\ d2[i] \in Nat /\ d3[i] \in Nat
                         /\ d3[i] + Base * c[i] = c[i - 1] + d1[i] + d2[i]

\* The digits from each place on, when the sums of two numbers carry from place
\* to place: they stand for the two numbers and the carry.
LEMMA CarriesAdd ==
    ASSUME NEW n \in Nat, NEW d1, NEW d2, NEW d3, NEW F, NEW G1, NEW G2,
           Values(F, n, d3), Values(G1, n, d1), Values(G2, n, d2),
           NEW c, Adding(n, d1, d2, d3, c),
           G1[n + 1] = 0, G2[n + 1] = 0, F[n + 1] = c[n]
    PROVE  F[1] = c[0] + G1[1] + G2[1]
  <1> DEFINE Good(i) == F[i] = c[i - 1] + G1[i] + G2[i]
             B == {d \in 0 .. n : ~Good((n + 1) - d)}
  <1>1. Base \in Nat
    BY BaseAssumption
  <1>2. \A i \in 0 .. n : c[i] \in 0 .. 1
    BY DEF Adding
  <1>3. \A i \in 1 .. n : /\ d1[i] \in Nat /\ d2[i] \in Nat /\ d3[i] \in Nat
                          /\ d3[i] + Base * c[i] = c[i - 1] + d1[i] + d2[i]
    BY DEF Adding
  <1>4. \A i \in 1 .. n + 1 : F[i] \in Nat /\ G1[i] \in Nat /\ G2[i] \in Nat
    BY DEF Values
  <1>5. \A i \in 1 .. n : /\ F[i] = d3[i] + Base * F[i + 1]
                          /\ G1[i] = d1[i] + Base * G1[i + 1]
                          /\ G2[i] = d2[i] + Base * G2[i + 1]
    BY DEF Values
  <1>6. Good(n + 1)
    <2>1. (n + 1) - 1 = n /\ c[n] \in 0 .. 1
      BY <1>2
    <2>2. QED BY <2>1
  <1>7. ASSUME NEW i \in 1 .. n, Good(i + 1) PROVE Good(i)
    <2> DEFINE a == G1[i + 1]
               b == G2[i + 1]
               k == c[i]
    <2>1. i + 1 \in 1 .. n + 1 /\ i \in 0 .. n /\ i - 1 \in 0 .. n /\ (i + 1) - 1 = i
      OBVIOUS
    <2>2. a \in Nat /\ b \in Nat /\ k \in Nat /\ c[i - 1] \in Nat
      BY <2>1, <1>4, <1>2
    <2>3. F[i + 1] = k + a + b
      BY <2>1, <1>7
    <2>4. F[i] = d3[i] + Base * (k + a + b)
      BY <2>3, <1>5
    <2>5. G1[i] = d1[i] + Base * a /\ G2[i] = d2[i] + Base * b
      BY <1>5
    <2>6. /\ d1[i] \in Nat /\ d2[i] \in Nat /\ d3[i] \in Nat
          /\ d3[i] + Base * k = c[i - 1] + d1[i] + d2[i]
      BY <1>3
    <2> HIDE DEF a, b, k
    <2>7. /\ Base * (k + a + b) = Base * k + Base * a + Base * b
          /\ Base * k \in Nat /\ Base * a \in Nat /\ Base * b \in Nat
      BY <2>2, <1>1
    <2>8. F[i] = c[i - 1] + (d1[i] + Base * a) + (d2[i] + Base * b)
      <3> DEFINE kk == Base * k
                 aa == Base * a
                 bb == Base * b
      <3>1. F[i] = d3[i] + (kk + aa + bb)
        BY <2>4, <2>7
      <3>2. kk \in Nat /\ aa \in Nat /\ bb \in Nat
        BY <2>7
      <3>3. d3[i] + kk = c[i - 1] + d1[i] + d2[i]
        BY <2>6
      <3> HIDE DEF kk, aa, bb
      <3>4. F[i] = c[i - 1] + (d1[i] + aa) + (d2[i] + bb)
        <4>1. d1[i] \in Nat /\ d2[i] \in Nat /\ d3[i] \in Nat /\ c[i - 1] \in Nat
          BY <2>2, <2>6
        <4>2. d3[i] + (kk + aa + bb) = (d3[i] + kk) + aa + bb
          BY <3>2, <4>1
        <4>3. (c[i - 1] + d1[i] + d2[i]) + aa + bb = c[i - 1] + (d1[i] + aa) + (d2[i] + bb)
          BY <3>2, <4>1
        <4>4. QED BY <3>1, <3>3, <4>2, <4>3
      <3>5. QED BY <3>4 DEF aa, bb
    <2>9. QED BY <2>5, <2>8
  <1> HIDE DEF Good
  <1>8. B = {}
    <2>1. SUFFICES ASSUME B # {} PROVE FALSE
      OBVIOUS
    <2>2. B \subseteq Nat
      OBVIOUS
    <2>3. PICK d \in B : \A e \in B : d <= e
      BY <2>1, <2>2, Least
    <2>4. d \in 0 .. n /\ ~Good((n + 1) - d)
      BY <2>3
    <2>5. d # 0
      <3>1. (n + 1) - 0 = n + 1
        OBVIOUS
      <3>2. QED BY <3>1, <2>4, <1>6
    <2>6. /\ d - 1 \in 0 .. n /\ (n + 1) - d \in 1 .. n /\ ~(d <= d - 1)
          /\ (n + 1) - (d - 1) = ((n + 1) - d) + 1
      BY <2>4, <2>5
    <2>7. Good(((n + 1) - d) + 1)
      BY <2>3, <2>6
    <2>8. QED BY <2>4, <2>6, <2>7, <1>7
  <1>9. n \in 0 .. n /\ (n + 1) - n = 1
    OBVIOUS
  <1>10. Good(1)
    BY <1>8, <1>9
  <1>11. QED
    <2>1. F[1] = c[1 - 1] + G1[1] + G2[1]
      BY <1>10 DEF Good
    <2>2. 1 - 1 = 0
      OBVIOUS
    <2>3. QED BY <2>1, <2>2

\* addTwoNumbers gives the sum of the two numbers, in digits and with none to
\* spare, whatever the two lengths and the base (addList.c lines 44-65).
THEOREM SumOfNumbers ==
    ASSUME NEW l1 \in Seq(0 .. Base - 1), NEW l2 \in Seq(0 .. Base - 1)
    PROVE  IsSum(addTwoNumbers(l1, l2), l1, l2)
  <1> DEFINE n == Turns(l1, l2)
             c == Carries(l1, l2)
             d1 == [i \in 1 .. n |-> Digit(l1, i)]
             d2 == [i \in 1 .. n |-> Digit(l2, i)]
             l3 == [i \in 1 .. n |-> (c[i - 1] + Digit(l1, i) + Digit(l2, i)) % Base]
             r == addTwoNumbers(l1, l2)
  <1>1. Base \in Nat /\ Base >= 2 /\ 0 .. Base - 1 \subseteq Nat
    BY BaseAssumption
  <1>2. l1 \in Seq(Nat) /\ l2 \in Seq(Nat)
    BY <1>1
  <1>3. n \in Nat /\ Len(l1) <= n /\ Len(l2) <= n
    BY <1>2, TurnsIs
  <1>4. /\ c[0] = 0
        /\ \A i \in 0 .. n : c[i] \in 0 .. 1
        /\ \A i \in 1 .. n : c[i] = (c[i - 1] + Digit(l1, i) + Digit(l2, i)) \div Base
    BY <1>3, CarriesAre
  <1>5. r = IF c[n] # 0 THEN Append(l3, c[n]) ELSE l3
    BY DEF addTwoNumbers, addNode
  <1>6. PICK G1 : Values(G1, n, d1) /\ G1[n + 1] = 0 /\ Value(l1) = G1[1]
    BY <1>2, <1>3, ValuePadded
  <1>7. PICK G2 : Values(G2, n, d2) /\ G2[n + 1] = 0 /\ Value(l2) = G2[1]
    BY <1>2, <1>3, ValuePadded
  <1> HIDE DEF n, c, r
  <1>8. ASSUME NEW i \in 1 .. n
        PROVE  /\ d1[i] \in Nat /\ d2[i] \in Nat /\ l3[i] \in 0 .. Base - 1
               /\ l3[i] + Base * c[i] = c[i - 1] + d1[i] + d2[i]
    <2> DEFINE x == Digit(l1, i)
               y == Digit(l2, i)
               k == c[i - 1]
    <2>1. i \in Nat \ {0} /\ i - 1 \in 0 .. n
      BY <1>3
    <2>2. x \in 0 .. Base - 1 /\ y \in 0 .. Base - 1 /\ k \in 0 .. 1
      BY <2>1, <1>4, DigitIs
    <2>3. d1[i] = x /\ d2[i] = y /\ l3[i] = (k + x + y) % Base
      OBVIOUS
    <2>4. c[i] = (k + x + y) \div Base
      BY <1>4
    <2> HIDE DEF x, y, k, d1, d2, l3
    <2>5. /\ (k + x + y) % Base \in 0 .. Base - 1
          /\ ((k + x + y) % Base) + Base * ((k + x + y) \div Base) = k + x + y
      BY <2>2, OneTurn
    <2>6. l3[i] \in 0 .. Base - 1 /\ l3[i] + Base * c[i] = k + x + y
      BY <2>3, <2>4, <2>5
    <2>7. d1[i] \in Nat /\ d2[i] \in Nat
      BY <2>2, <2>3, <1>1
    <2>8. QED BY <2>3, <2>6, <2>7 DEF k
  <1>9. l3 \in Seq(0 .. Base - 1) /\ Len(l3) = n
    <2>1. l3 = [i \in 1 .. n |-> l3[i]]
      OBVIOUS
    <2> HIDE DEF l3
    <2>2. l3 \in [1 .. n -> 0 .. Base - 1]
      BY <2>1, <1>8
    <2>3. l3 \in Seq(0 .. Base - 1)
      BY <2>2, <1>3, SeqDef
    <2>4. Len(l3) = n
      BY <2>2, <2>3, <1>3
    <2>5. QED BY <2>3, <2>4
  <1> HIDE DEF l3, d1, d2
  <1>10. ASSUME NEW F, Values(F, n, l3), F[n + 1] = c[n]
         PROVE  F[1] = Value(l1) + Value(l2)
    <2>1. F[1] = c[0] + G1[1] + G2[1]
      <3>1. Adding(n, d1, d2, l3, c)
        BY <1>1, <1>4, <1>8 DEF Adding
      <3>2. QED BY <3>1, <1>3, <1>6, <1>7, <1>10, CarriesAdd
    <2>2. G1[1] \in Nat /\ G2[1] \in Nat
      <3>1. 1 \in 1 .. n + 1
        BY <1>3
      <3>2. QED BY <3>1, <1>6, <1>7 DEF Values
    <2>3. QED BY <2>1, <2>2, <1>4, <1>6, <1>7
  <1>11. c[n] \in 0 .. 1
    BY <1>3, <1>4
  <1>12. CASE c[n] = 0
    <2>1. r = l3
      BY <1>5, <1>12
    <2>2. l3 \in Seq(Nat)
      BY <1>1, <1>9
    <2>3. PICK F : Values(F, n, l3) /\ F[n + 1] = 0 /\ Value(l3) = F[1]
      BY <2>2, <1>9, ValueIs
    <2>4. Value(r) = Value(l1) + Value(l2)
      BY <2>1, <2>3, <1>10, <1>12
    <2>5. Len(r) = n /\ \A i \in DOMAIN r : r[i] \in 0 .. Base - 1
      BY <2>1, <1>9, LenProperties, ElementOfSeq
    <2>6. QED BY <2>4, <2>5 DEF IsSum, n, r
  <1>13. CASE c[n] = 1
    <2> DEFINE l == Append(l3, 1)
    <2>1. r = l
      BY <1>5, <1>13
    <2>2. /\ l \in Seq(0 .. Base - 1) /\ Len(l) = n + 1 /\ l[n + 1] = 1
          /\ \A i \in 1 .. n : l[i] = l3[i]
      <3>1. 1 \in 0 .. Base - 1
        BY <1>1
      <3>2. QED BY <3>1, <1>9, AppendProperties
    <2> HIDE DEF l
    <2>3. l \in Seq(Nat)
      BY <2>2, <1>1
    <2>4. PICK H : Values(H, n + 1, l) /\ H[(n + 1) + 1] = 0 /\ Value(l) = H[1]
      BY <2>2, <2>3, ValueIs
    <2> DEFINE F == [i \in 1 .. n + 1 |-> H[i]]
    <2>5. n + 1 \in 1 .. n + 1 /\ 1 \in 1 .. n + 1
      BY <1>3
    <2>6. H[n + 1] = 1
      <3>1. H[n + 1] = l[n + 1] + Base * H[(n + 1) + 1]
        BY <2>4, <2>5 DEF Values
      <3>2. Base * 0 = 0
        BY <1>1
      <3>3. QED BY <3>1, <3>2, <2>2, <2>4
    <2>7. Values(F, n, l3)
      <3>1. \A i \in 1 .. n + 1 : i \in 1 .. (n + 1) + 1
        BY <1>3
      <3>2. \A i \in 1 .. n + 1 : H[i] \in Nat
        BY <3>1, <2>4 DEF Values
      <3>3. ASSUME NEW i \in 1 .. n PROVE F[i] = l3[i] + Base * F[i + 1]
        <4>1. i \in 1 .. n + 1 /\ i + 1 \in 1 .. n + 1
          BY <1>3
        <4>2. H[i] = l[i] + Base * H[i + 1]
          BY <4>1, <2>4 DEF Values
        <4>3. QED BY <4>1, <4>2, <2>2
      <3>4. QED BY <3>2, <3>3 DEF Values
    <2>8. F[n + 1] = c[n] /\ F[1] = H[1]
      BY <2>5, <2>6, <1>13
    <2> HIDE DEF F
    <2>9. Value(r) = Value(l1) + Value(l2)
      BY <2>1, <2>4, <2>7, <2>8, <1>10
    <2>10. Len(r) = n + 1 /\ Last(r) # 0
      BY <2>1, <2>2 DEF Last
    <2>11. \A i \in DOMAIN r : r[i] \in 0 .. Base - 1
      BY <2>1, <2>2, LenProperties, ElementOfSeq
    <2>12. QED BY <2>9, <2>10, <2>11 DEF IsSum, n, r
  <1>14. QED
    BY <1>11, <1>12, <1>13

\* Whatever is typed in, the numbers before and after any place of it add up
\* (addList.c lines 44-65).
THEOREM SumsAddUp == InputSpec => []AddsUp
  <1>1. InputInv => AddsUp
    <2>1. SUFFICES ASSUME InputInv, \A i \in DOMAIN input : input[i] < Base,
                          NEW k \in 0 .. Len(input)
                   PROVE  IsSum(addTwoNumbers(SubSeq(input, 1, k),
                                              SubSeq(input, k + 1, Len(input))),
                                SubSeq(input, 1, k), SubSeq(input, k + 1, Len(input)))
      BY DEF AddsUp
    <2>2. input \in Seq(0 .. Byte - 1) /\ Len(input) \in Nat
      BY <2>1, LenProperties DEF InputInv
    <2>3. \A i \in 1 .. Len(input) : input[i] \in 0 .. Base - 1
      <3>1. ASSUME NEW i \in 1 .. Len(input) PROVE input[i] \in 0 .. Base - 1
        <4>1. input[i] \in 0 .. Byte - 1 /\ i \in DOMAIN input
          BY <2>2, ElementOfSeq, LenProperties
        <4>2. input[i] < Base /\ input[i] \in Nat
          BY <4>1, <2>1
        <4>3. QED BY <4>2, BaseAssumption
      <3>2. QED BY <3>1
    <2>4. /\ SubSeq(input, 1, k) \in Seq(0 .. Base - 1)
          /\ SubSeq(input, k + 1, Len(input)) \in Seq(0 .. Base - 1)
      <3>1. input \in Seq(0 .. Base - 1)
        <4>1. input = [i \in 1 .. Len(input) |-> input[i]]
          BY <2>2, LenProperties
        <4>2. input \in [1 .. Len(input) -> 0 .. Base - 1]
          BY <4>1, <2>3
        <4>3. PICK m \in Nat : input \in [1 .. m -> 0 .. Base - 1]
          BY <4>2, <2>2
        <4>4. QED BY <4>3, SeqDef
      <3>2. /\ \A i \in 1 .. k : i \in 1 .. Len(input)
            /\ \A i \in k + 1 .. Len(input) : i \in 1 .. Len(input)
        BY <2>2
      <3>3. QED BY <3>1, <3>2, <2>2, <2>3, SubSeqProperties
    <2>5. QED BY <2>4, SumOfNumbers
  <1>2. QED
    BY <1>1, InputInductive, PTL
=============================================================================
