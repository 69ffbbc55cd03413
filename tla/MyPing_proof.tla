---------------------------- MODULE MyPing_proof ----------------------------
(***************************************************************************)
(* Proofs about MyPing, for every number of attempts, every timeout and    *)
(* every bound on latency and stray packets.                               *)
(*                                                                         *)
(* NoReplyMissed rests on an account of turns: while the child is in its   *)
(* loop, the packets at its socket and the replies that can still come are *)
(* not more than the turns it has left.  A turn that times out spends one  *)
(* turn and must therefore have spent one reply, too.  That reply is the   *)
(* one to the request of the second after the turn began: the turn lasts   *)
(* Timeout seconds, more than the latency of that reply.                   *)
(***************************************************************************)
EXTENDS MyPing, FiniteSetTheorems, SequenceTheorems, TLAPS

\* The parent's clock: request s is attempted at second s - 1.
ParentTime ==
    /\ parent \in {"fork", "send"} => j < PING_ATTEMPTS /\ clock = j - 1
    /\ parent = "sleep" => j < PING_ATTEMPTS /\ wake = j /\ clock <= j
    /\ j <= clock + 1

\* The child's clock: it is in its loop for at most one timeout a turn.
ChildTime ==
    /\ parent = "fork" <=> child = "unborn"
    /\ child \in {"unborn", "socket"} => clock = 0 /\ i = 1
    /\ child = "dispatch" => i = 1 /\ due = Timeout /\ clock <= due
    /\ child = "recv" => /\ i < PING_ATTEMPTS
                         /\ due >= Timeout /\ due <= Timeout * (i + 1)
                         /\ clock <= due /\ clock >= due - Timeout

\* Nothing is received before the socket is open, and nothing is read before
\* the first event; a packet stops the clock.
Silence ==
    /\ child \in {"unborn", "failed", "socket"} => queue = <<>> /\ DOMAIN arrived = {}
    /\ child \in {"unborn", "failed", "socket", "dispatch"} => shown = {}
    /\ child = "dispatch" =>
          \A s \in DOMAIN arrived : queue # <<>> /\ clock = arrived[s]
    /\ unreachable => child = "exited"

\* Request s was sent at second s - 1 and is under way or has been answered; the
\* replies at the socket are answers to such requests.
SentInTurn == /\ \A s \in DOMAIN sentAt : /\ s \in Seqs /\ s <= j
                                          /\ parent \in {"fork", "send"} => s < j
                                          /\ sentAt[s] = s - 1
                                          /\ s \notin DOMAIN arrived
              /\ \A s \in DOMAIN arrived : /\ s \in Seqs /\ s <= j
                                           /\ parent \in {"fork", "send"} => s < j
              /\ \A k \in DOMAIN queue : queue[k].type = "reply" => queue[k].seq \in DOMAIN arrived

\* The case NoReplyMissed is about.
Undisturbed == /\ ~local /\ strays = 0
               /\ MaxLatency + 2 <= Timeout
               /\ pid < 2^PidBits

\* The replies that can still come: to requests under way that are not too old,
\* and to those not sent yet.
ToCome == {s \in Seqs : /\ clock <= s - 1 + MaxLatency
                        /\ \/ s \in DOMAIN sentAt
                           \/ s > j
                           \/ s = j /\ parent \in {"fork", "send"}}

\* The request sent in the second after the current turn began, if its reply
\* has not come.
Spent == {s \in Seqs : s = due - Timeout + 2 /\ s \notin DOMAIN arrived}

\* The account of turns.
Turns == Undisturbed =>
    /\ \A k \in DOMAIN queue : queue[k].type = "reply"
    /\ child \in {"dispatch", "recv", "exited"} /\ ~unreachable =>
          DOMAIN arrived = shown \cup {queue[k].seq : k \in DOMAIN queue}
    /\ child = "dispatch" => Len(queue) + Cardinality(ToCome) <= PING_ATTEMPTS - 1
    /\ child = "recv" =>
          /\ Len(queue) + Cardinality(ToCome \cup Spent) <= PING_ATTEMPTS - i
          /\ due - Timeout + 2 \in DOMAIN arrived => queue # <<>>
    /\ child = "exited" /\ ~unreachable => queue = <<>>

IInv == /\ TypeOK
        /\ ParentTime
        /\ ChildTime
        /\ Silence
        /\ SentInTurn
        /\ EndsInTime
        /\ UnreachableAfterSilence
        /\ Turns
-----------------------------------------------------------------------------
\* Multiplication is monotonic and distributes over the next number.
LEMMA Times ==
    ASSUME NEW t \in Nat, NEW a \in Nat, NEW b \in Nat, a <= b
    PROVE  /\ t * a \in Nat
           /\ t * a <= t * b
           /\ t * (a + 1) = t * a + t
  <1>1. t * b = t * a + t * (b - a)
    OBVIOUS
  <1>2. t * a \in Nat /\ t * (b - a) \in Nat
    <2>1. b - a \in Nat
      OBVIOUS
    <2>2. QED
      BY <2>1
  <1>3. t * (a + 1) = t * a + t
    OBVIOUS
  <1>4. QED
    BY <1>1, <1>2, <1>3

\* All the time there is, is at least one second per attempt and two timeouts.
LEMMA Long ==
    /\ Timeout * PING_ATTEMPTS \in Nat
    /\ PING_ATTEMPTS <= Timeout * PING_ATTEMPTS
    /\ Timeout * 2 <= Timeout * PING_ATTEMPTS
    /\ \A n \in Nat : n < PING_ATTEMPTS =>
          Timeout * (n + 1) \in Nat /\ Timeout * (n + 1) <= Timeout * PING_ATTEMPTS
  <1>1. Timeout \in Nat \ {0} /\ PING_ATTEMPTS \in Nat \ {0, 1}
    BY SizesAssumption
  <1>2. Timeout * PING_ATTEMPTS \in Nat /\ Timeout * 2 <= Timeout * PING_ATTEMPTS
    BY <1>1, Times
  <1>3. PING_ATTEMPTS * 1 <= PING_ATTEMPTS * Timeout
    BY <1>1, Times
  <1>4. PING_ATTEMPTS * 1 = PING_ATTEMPTS /\ PING_ATTEMPTS * Timeout = Timeout * PING_ATTEMPTS
    BY <1>1
  <1>5. ASSUME NEW n \in Nat, n < PING_ATTEMPTS
        PROVE  Timeout * (n + 1) \in Nat /\ Timeout * (n + 1) <= Timeout * PING_ATTEMPTS
    <2>1. n + 1 \in Nat /\ n + 1 <= PING_ATTEMPTS
      BY <1>1, <1>5
    <2>2. QED
      BY <1>1, <2>1, Times
  <1>6. QED
    BY <1>2, <1>3, <1>4, <1>5

\* The account can be counted: sets of requests are finite.
LEMMA RequestsFinite ==
    ASSUME NEW S \in SUBSET Seqs
    PROVE  /\ IsFiniteSet(S)
           /\ Cardinality(S) \in Nat
           /\ Cardinality(S) <= PING_ATTEMPTS - 1
  <1> DEFINE n == PING_ATTEMPTS - 1
  <1>0. n \in Nat \ {0}
    BY SizesAssumption
  <1> HIDE DEF n
  <1>1. IsFiniteSet(1 .. n) /\ Cardinality(1 .. n) = n
    BY <1>0, FS_Interval
  <1> USE DEF n
  <1>2. IsFiniteSet(S) /\ Cardinality(S) <= PING_ATTEMPTS - 1
    BY <1>1, FS_Subset DEF Seqs
  <1>3. QED
    BY <1>2, FS_CardinalityType

\* Fewer requests count less, and one less by one.
LEMMA RequestsCount ==
    ASSUME NEW S \in SUBSET Seqs, NEW T \in SUBSET S
    PROVE  /\ Cardinality(T) <= Cardinality(S)
           /\ \A s \in S : Cardinality(S \ {s}) = Cardinality(S) - 1
           /\ \A s \in S : s \notin T => Cardinality(T) <= Cardinality(S) - 1
  <1>1. IsFiniteSet(S) /\ Cardinality(S) \in Nat
    BY RequestsFinite
  <1>2. Cardinality(T) <= Cardinality(S)
    BY <1>1, FS_Subset
  <1>3. ASSUME NEW s \in S
        PROVE  Cardinality(S \ {s}) = Cardinality(S) - 1 /\ IsFiniteSet(S \ {s})
    BY <1>1, FS_RemoveElement
  <1>4. ASSUME NEW s \in S, s \notin T
        PROVE  Cardinality(T) <= Cardinality(S) - 1
    <2>1. T \in SUBSET (S \ {s})
      BY <1>4
    <2>2. Cardinality(T) <= Cardinality(S \ {s})
      BY <1>3, <2>1, FS_Subset
    <2>3. QED
      BY <1>3, <2>2
  <1>5. QED
    BY <1>2, <1>3, <1>4

\* The program starts in the strengthened invariant.
LEMMA InitIInv == Init => IInv
  <1> SUFFICES ASSUME Init PROVE IInv
    OBVIOUS
  <1> USE SizesAssumption
  <1>1. DOMAIN sentAt = {} /\ DOMAIN arrived = {} /\ queue \in Seq(Packet)
    BY DEF Init
  <1>2. TypeOK
    <2>1. strays \in 0 .. MaxStrays /\ i \in 1 .. PING_ATTEMPTS /\ j \in 1 .. PING_ATTEMPTS
      BY DEF Init
    <2>2. QED
      BY <1>1, <2>1 DEF Init, TypeOK
  <1>3. ParentTime /\ ChildTime /\ Silence /\ SentInTurn /\ UnreachableAfterSilence
    BY <1>1 DEF Init, ParentTime, ChildTime, Silence, SentInTurn, UnreachableAfterSilence
  <1>4. EndsInTime
    BY Long DEF Init, EndsInTime
  <1>5. Turns
    BY <1>1 DEF Init, Turns
  <1>6. QED
    BY <1>2, <1>3, <1>4, <1>5 DEF IInv

\* The account is kept by a step that leaves the child and what it is sent alone
\* and brings no new replies.
LEMMA TurnsKept ==
    ASSUME IInv, UNCHANGED <<pid, local, strays, arrived>>, UNCHANGED childVars,
           ~local => queue' = queue,
           ToCome' \subseteq ToCome
    PROVE  Turns'
  <1> SUFFICES ASSUME Undisturbed' PROVE Turns'
    BY DEF Turns
  <1>1. Undisturbed /\ queue' = queue
    BY DEF Undisturbed
  <1>2. Spent' = Spent
    BY DEF Spent, childVars
  <1>3. ToCome \in SUBSET Seqs /\ Spent \in SUBSET Seqs
    BY DEF ToCome, Spent
  <1>4. /\ Cardinality(ToCome') <= Cardinality(ToCome)
        /\ Cardinality(ToCome' \cup Spent) <= Cardinality(ToCome \cup Spent)
    BY <1>3, RequestsCount
  <1>5. /\ Cardinality(ToCome) \in Nat /\ Cardinality(ToCome') \in Nat
        /\ Cardinality(ToCome \cup Spent) \in Nat /\ Cardinality(ToCome' \cup Spent) \in Nat
    BY <1>3, RequestsFinite
  <1>6. Len(queue) \in Nat /\ i \in Nat
    BY SizesAssumption DEF IInv, TypeOK
  <1>7. QED
    BY <1>1, <1>2, <1>4, <1>5, <1>6, SizesAssumption DEF IInv, Turns, childVars
-----------------------------------------------------------------------------
\* fork: nothing has come yet, and nothing has been sent.
LEMMA ForkStep == ASSUME IInv, Fork PROVE IInv'
  <1> USE SizesAssumption DEF IInv, Fork, networkVars
  <1>1. TypeOK'
    BY DEF TypeOK
  <1>2. ParentTime' /\ ChildTime' /\ Silence'
    BY DEF TypeOK, ParentTime, ChildTime, Silence
  <1>3. SentInTurn' /\ EndsInTime' /\ UnreachableAfterSilence'
    BY DEF SentInTurn, EndsInTime, UnreachableAfterSilence
  <1>4. Turns'
    <2>1. queue' = <<>> /\ child' \notin {"dispatch", "recv", "exited"}
      BY DEF ChildTime, Silence
    <2>2. DOMAIN queue' = {}
      BY <2>1
    <2>3. QED
      BY <2>1, <2>2 DEF Turns
  <1>5. QED
    BY <1>1, <1>2, <1>3, <1>4

\* ping fails: no request is sent.
LEMMA PingFailsStep == ASSUME IInv, PingFails PROVE IInv'
  <1> USE SizesAssumption DEF IInv, PingFails, networkVars, childVars
  <1>1. TypeOK'
    BY DEF TypeOK
  <1>2. ParentTime' /\ ChildTime' /\ Silence'
    BY DEF TypeOK, ParentTime, ChildTime, Silence
  <1>3. SentInTurn' /\ EndsInTime' /\ UnreachableAfterSilence'
    BY DEF SentInTurn, EndsInTime, UnreachableAfterSilence
  <1>4. ToCome' \subseteq ToCome
    BY DEF ToCome
  <1>5. Turns'
    BY <1>4, TurnsKept
  <1>6. QED
    BY <1>1, <1>2, <1>3, <1>5

\* A request, sent or not, was still to come.
LEMMA SendEchoStep == ASSUME IInv, SendEcho PROVE IInv'
  <1> USE SizesAssumption DEF IInv, childVars
  <1>0. /\ parent = "send" /\ parent' = "sleep" /\ wake' = clock + 1
        /\ UNCHANGED <<pid, local, j, clock, arrived, strays>>
        /\ UNCHANGED <<child, i, due, shown, unreachable>>
    BY DEF SendEcho
  <1>1. j < PING_ATTEMPTS /\ clock = j - 1 /\ j \in Seqs /\ j \in Nat /\ clock \in Nat
    BY <1>0 DEF TypeOK, ParentTime, Seqs
  <1>2. \/ sentAt' = sentAt
        \/ /\ DOMAIN sentAt' = DOMAIN sentAt \cup {j}
           /\ \A s \in DOMAIN sentAt' : sentAt'[s] = IF s = j THEN clock ELSE sentAt[s]
    BY DEF SendEcho, Stamp
  <1>3. \/ queue' = queue
        \/ local /\ Listening /\ queue' = Append(queue, [type |-> "request", seq |-> j])
    BY DEF SendEcho, Enqueue
  <1>4. queue' \in Seq(Packet) /\ (queue # <<>> => queue' # <<>>)
    <2>1. [type |-> "request", seq |-> j] \in Packet
      BY <1>1 DEF Packet
    <2>2. queue \in Seq(Packet)
      BY DEF TypeOK
    <2>3. QED
      BY <1>3, <2>1, <2>2
  <1>5. \A s \in DOMAIN sentAt' : /\ s \in Seqs /\ s <= j
                                  /\ sentAt'[s] = s - 1
                                  /\ sentAt'[s] \in 0 .. clock
                                  /\ s \notin DOMAIN arrived
    BY <1>0, <1>1, <1>2 DEF SentInTurn, TypeOK
  <1>6. TypeOK'
    BY <1>0, <1>1, <1>4, <1>5 DEF TypeOK
  <1>7. ParentTime' /\ ChildTime' /\ EndsInTime' /\ UnreachableAfterSilence'
    BY <1>0, <1>1 DEF TypeOK, ParentTime, ChildTime, EndsInTime, UnreachableAfterSilence
  <1>8. Silence'
    BY <1>0, <1>3, <1>4 DEF Silence, Listening
  <1>9. SentInTurn'
    <2>1. \A k \in DOMAIN queue' : queue'[k].type = "reply" => queue'[k].seq \in DOMAIN arrived
      <3>1. queue \in Seq(Packet) /\ [type |-> "request", seq |-> j] \in Packet
        BY <1>1 DEF TypeOK, Packet
      <3>2. QED
        BY <1>3, <3>1 DEF SentInTurn
    <2>2. QED
      BY <1>0, <1>1, <1>5, <2>1 DEF SentInTurn
  <1>10. ToCome' \subseteq ToCome
    BY <1>0, <1>1, <1>2 DEF ToCome
  <1>11. Turns'
    BY <1>0, <1>3, <1>10, TurnsKept
  <1>12. QED
    BY <1>6, <1>7, <1>8, <1>9, <1>11

\* The end of a second of sleep: the next request, or none.
LEMMA WakeUpStep == ASSUME IInv, WakeUp PROVE IInv'
  <1> USE SizesAssumption DEF IInv, WakeUp, networkVars, childVars
  <1>1. j < PING_ATTEMPTS /\ clock = j /\ j \in Nat /\ clock \in Nat
    BY DEF TypeOK, ParentTime
  <1>2. TypeOK'
    BY <1>1 DEF TypeOK
  <1>3. ParentTime' /\ ChildTime' /\ Silence'
    BY <1>1 DEF TypeOK, ParentTime, ChildTime, Silence
  <1>4. SentInTurn'
    BY <1>1 DEF SentInTurn, Seqs
  <1>5. EndsInTime' /\ UnreachableAfterSilence'
    BY DEF EndsInTime, UnreachableAfterSilence
  <1>6. ToCome' \subseteq ToCome
    BY <1>1 DEF ToCome, Seqs
  <1>7. Turns'
    BY <1>6, TurnsKept
  <1>8. QED
    BY <1>2, <1>3, <1>4, <1>5, <1>7

\* wait(0) returns.
LEMMA WaitReturnsStep == ASSUME IInv, WaitReturns PROVE IInv'
  <1> USE SizesAssumption DEF IInv, WaitReturns, networkVars, childVars
  <1>1. TypeOK' /\ EndsInTime' /\ UnreachableAfterSilence'
    BY DEF TypeOK, EndsInTime, UnreachableAfterSilence
  <1>2. ParentTime' /\ ChildTime' /\ Silence' /\ SentInTurn'
    BY DEF TypeOK, ParentTime, ChildTime, Silence, SentInTurn
  <1>3. ToCome' \subseteq ToCome
    BY DEF ToCome
  <1>4. Turns'
    BY <1>3, TurnsKept
  <1>5. QED
    BY <1>1, <1>2, <1>4

\* A second passes: replies grow too old, and no deadline is passed.
LEMMA TickStep == ASSUME IInv, Tick PROVE IInv'
  <1> USE SizesAssumption DEF IInv, Tick, networkVars, childVars, parentVars
  <1>0. clock \in Nat /\ clock' = clock + 1 /\ j \in Nat
    BY DEF TypeOK
  <1>1. TypeOK'
    BY <1>0 DEF TypeOK
  <1>2. ParentTime'
    BY <1>0 DEF TypeOK, ParentTime, ParentBlocked
  <1>3. ChildTime'
    BY <1>0 DEF TypeOK, ChildTime, ChildBlocked, Listening
  <1>4. Silence' /\ SentInTurn'
    BY <1>0 DEF Silence, SentInTurn, ChildBlocked, Listening, TypeOK
  <1>5. EndsInTime'
    <2>1. CASE parent = "sleep" /\ clock < wake
      <3>1. clock < PING_ATTEMPTS
        BY <2>1, <1>0 DEF ParentTime
      <3>2. QED
        BY <1>0, <3>1, Long DEF EndsInTime
    <2>2. CASE parent = "wait" /\ child \notin {"exited", "failed"}
      <3>1. CASE child = "dispatch"
        BY <1>0, <2>2, <3>1, Long DEF ChildTime, ChildBlocked, EndsInTime, TypeOK
      <3>2. CASE child = "recv"
        <4>1. i \in Nat /\ i < PING_ATTEMPTS /\ clock < due /\ due \in Nat
              /\ due <= Timeout * (i + 1)
          BY <3>2 DEF TypeOK, ChildTime, ChildBlocked
        <4>2. Timeout * (i + 1) \in Nat /\ Timeout * (i + 1) <= Timeout * PING_ATTEMPTS
          BY <4>1, Long
        <4>3. Timeout * PING_ATTEMPTS \in Nat
          BY Long
        <4>4. QED
          BY <1>0, <4>1, <4>2, <4>3 DEF EndsInTime
      <3>3. QED
        BY <2>2, <3>1, <3>2 DEF ChildBlocked, Listening
    <2>3. QED
      BY <2>1, <2>2 DEF ParentBlocked
  <1>6. UnreachableAfterSilence'
    BY DEF UnreachableAfterSilence
  <1>7. ToCome' \subseteq ToCome
    BY <1>0 DEF ToCome, Seqs
  <1>8. Turns'
    BY <1>7, TurnsKept
  <1>9. QED
    BY <1>1, <1>2, <1>3, <1>4, <1>5, <1>6, <1>8
-----------------------------------------------------------------------------
\* The child's socket opens when no second has passed, or it gives up.
LEMMA OpenSocketStep == ASSUME IInv, OpenSocket PROVE IInv'
  <1> USE SizesAssumption DEF IInv, OpenSocket, networkVars, parentVars
  <1>0. clock = 0 /\ i = 1 /\ queue = <<>> /\ DOMAIN arrived = {} /\ shown = {}
    BY DEF ChildTime, Silence
  <1>1. TypeOK'
    BY <1>0 DEF TypeOK
  <1>2. ParentTime' /\ ChildTime' /\ Silence'
    BY <1>0 DEF TypeOK, ParentTime, ChildTime, Silence
  <1>3. SentInTurn' /\ EndsInTime' /\ UnreachableAfterSilence'
    BY DEF SentInTurn, EndsInTime, UnreachableAfterSilence
  <1>4. Turns'
    <2>1. ToCome' \in SUBSET Seqs
      BY DEF ToCome
    <2>2. Cardinality(ToCome') <= PING_ATTEMPTS - 1 /\ Cardinality(ToCome') \in Nat
      BY <2>1, RequestsFinite
    <2>3. DOMAIN queue' = {} /\ Len(queue') = 0 /\ queue' = <<>>
      BY <1>0
    <2>4. {queue'[k].seq : k \in DOMAIN queue'} = {}
      BY <2>3
    <2>5. child' # "recv" /\ DOMAIN arrived' = {} /\ shown' = {}
      BY <1>0
    <2>6. QED
      BY <2>2, <2>3, <2>4, <2>5 DEF Turns
  <1>5. QED
    BY <1>1, <1>2, <1>3, <1>4

\* The event times out: whatever has come, has come only now.
LEMMA TimeoutEventStep == ASSUME IInv, TimeoutEvent PROVE IInv'
  <1> USE SizesAssumption DEF IInv, TimeoutEvent, networkVars, parentVars
  <1>1. TypeOK'
    BY DEF TypeOK
  <1>2. ParentTime' /\ ChildTime' /\ Silence' /\ SentInTurn'
    BY DEF TypeOK, ParentTime, ChildTime, Silence, SentInTurn
  <1>3. EndsInTime'
    BY DEF EndsInTime
  <1>4. UnreachableAfterSilence'
    BY DEF UnreachableAfterSilence, Silence, ChildTime
  <1>5. Turns'
    BY DEF Turns, Undisturbed
  <1>6. QED
    BY <1>1, <1>2, <1>3, <1>4, <1>5

\* When a turn begins, the request of the next second is still to come.
LEMMA TurnBegins ==
    ASSUME IInv, UNCHANGED <<clock, arrived, sentAt, parent, j>>, due' = clock + Timeout
    PROVE  /\ Spent' \subseteq ToCome /\ ToCome' = ToCome
           /\ due' - Timeout + 2 \notin DOMAIN arrived
  <1>1. clock \in Nat /\ Timeout \in Nat /\ MaxLatency \in Nat /\ j \in Nat /\ j <= clock + 1
    BY SizesAssumption DEF IInv, TypeOK, ParentTime
  <1>2. due' - Timeout + 2 = clock + 2
    BY <1>1
  <1>3. Spent' \subseteq ToCome
    BY <1>1, <1>2 DEF Spent, ToCome
  <1>4. ToCome' = ToCome
    BY DEF ToCome
  <1>5. clock + 2 \notin DOMAIN arrived
    BY <1>1 DEF IInv, SentInTurn
  <1>6. QED
    BY <1>2, <1>3, <1>4, <1>5

\* The first packet wakes the child, which reads it in the first turn.
LEMMA ReadEventStep == ASSUME IInv, ReadEvent PROVE IInv'
  <1> USE SizesAssumption DEF IInv, ReadEvent, networkVars, parentVars
  <1>0. i = 1 /\ clock <= Timeout /\ clock \in Nat /\ Timeout \in Nat
    BY DEF TypeOK, ChildTime
  <1>1. TypeOK'
    BY <1>0 DEF TypeOK
  <1>2. ChildTime'
    <2>1. Timeout * (1 + 1) = Timeout + Timeout
      BY <1>0
    <2>2. QED
      BY <1>0, <2>1 DEF ChildTime
  <1>3. ParentTime' /\ Silence' /\ SentInTurn'
    BY DEF ParentTime, Silence, SentInTurn, TypeOK
  <1>4. EndsInTime' /\ UnreachableAfterSilence'
    BY DEF EndsInTime, UnreachableAfterSilence
  <1>5. Turns'
    <2>1. /\ Spent' \subseteq ToCome /\ ToCome' = ToCome
          /\ due' - Timeout + 2 \notin DOMAIN arrived
      BY TurnBegins
    <2>2. ToCome' \cup Spent' = ToCome
      BY <2>1
    <2>3. Undisturbed' => Undisturbed
      BY DEF Undisturbed
    <2>4. i' = 1 /\ child = "dispatch" /\ child' = "recv" /\ ~unreachable
      BY <1>0 DEF Silence
    <2>5. QED
      BY <2>1, <2>2, <2>3, <2>4 DEF Turns
  <1>6. QED
    BY <1>1, <1>2, <1>3, <1>4, <1>5

\* The clock of the turn that follows.
LEMMA NextTurn ==
    ASSUME IInv, child = "recv", NextAttempt, UNCHANGED <<clock, parent>>
    PROVE  ChildTime' /\ i' \in 1 .. PING_ATTEMPTS /\ due' \in Nat
  <1> USE SizesAssumption DEF IInv, NextAttempt
  <1>1. /\ i \in Nat \ {0} /\ i < PING_ATTEMPTS /\ clock \in Nat /\ due \in Nat
        /\ clock <= due /\ due <= Timeout * (i + 1) /\ Timeout \in Nat
    BY DEF TypeOK, ChildTime
  <1>2. Timeout * (i + 1 + 1) = Timeout * (i + 1) + Timeout /\ Timeout * (i + 1) \in Nat
    BY <1>1, Times
  <1>3. i' = i + 1 /\ due' = clock + Timeout
    OBVIOUS
  <1>4. due' <= Timeout * (i' + 1)
    BY <1>1, <1>2, <1>3
  <1>5. parent # "fork"
    BY DEF ChildTime
  <1>6. child' \in {"recv", "exited"} /\ (child' = "recv" => i + 1 < PING_ATTEMPTS)
    OBVIOUS
  <1>7. QED
    BY <1>1, <1>3, <1>4, <1>5, <1>6 DEF ChildTime

\* The account at the end of a turn that has spent what it costs.
LEMMA TurnEnds ==
    ASSUME IInv, child = "recv", NextAttempt, queue' \in Seq(Packet),
           UNCHANGED <<clock, parent, j, sentAt, arrived, unreachable>>,
           Len(queue') + Cardinality(ToCome) <= PING_ATTEMPTS - i - 1,
           \A k \in DOMAIN queue' : queue'[k].type = "reply",
           DOMAIN arrived = shown' \cup {queue'[k].seq : k \in DOMAIN queue'}
    PROVE  Turns'
  <1> USE SizesAssumption DEF NextAttempt
  <1>1. /\ Spent' \subseteq ToCome /\ ToCome' = ToCome
        /\ due' - Timeout + 2 \notin DOMAIN arrived
    BY TurnBegins
  <1>2. ToCome' \cup Spent' = ToCome
    BY <1>1
  <1>3. ToCome \in SUBSET Seqs
    BY DEF ToCome
  <1>4. Cardinality(ToCome) \in Nat
    BY <1>3, RequestsFinite
  <1>5. i \in Nat /\ i < PING_ATTEMPTS /\ i' = i + 1 /\ Len(queue') \in Nat
    <2>1. i \in Nat /\ i < PING_ATTEMPTS /\ i' = i + 1
      BY DEF IInv, TypeOK, ChildTime
    <2>2. Len(queue') \in Nat
      BY LenProperties
    <2>3. QED
      BY <2>1, <2>2
  <1>6. child' = "exited" => Len(queue') = 0
    BY <1>4, <1>5
  <1>7. child' = "exited" => queue' = <<>>
    BY <1>6, EmptySeq
  <1>8. child' \in {"recv", "exited"}
    OBVIOUS
  <1>9. Len(queue') + Cardinality(ToCome' \cup Spent') <= PING_ATTEMPTS - i'
    <2>1. Cardinality(ToCome' \cup Spent') = Cardinality(ToCome)
      BY <1>2
    <2>2. QED
      BY <2>1, <1>4, <1>5
  <1>10. QED
    BY <1>1, <1>7, <1>8, <1>9 DEF Turns

\* A turn that reads a packet takes it out of the account.
LEMMA ReadStep == ASSUME IInv, Read PROVE IInv'
  <1> USE SizesAssumption DEF IInv
  <1>0. /\ child = "recv" /\ queue # <<>> /\ queue' = Tail(queue) /\ NextAttempt
        /\ UNCHANGED <<pid, local, clock, sentAt, arrived, strays, unreachable>>
        /\ UNCHANGED <<parent, j, wake>>
    BY DEF Read, parentVars
  <1>1. /\ queue \in Seq(Packet) /\ queue' \in Seq(Packet) /\ Len(queue') = Len(queue) - 1
        /\ Len(queue) \in Nat \ {0} /\ Head(queue) = queue[1] /\ Head(queue) \in Packet
        /\ \A k \in 1 .. Len(queue) - 1 : queue'[k] = queue[k + 1]
    BY <1>0 DEF TypeOK
  <1>2. ChildTime' /\ i' \in 1 .. PING_ATTEMPTS /\ due' \in Nat
    BY <1>0, NextTurn
  <1>3. child' \in {"recv", "exited"}
    BY <1>0 DEF NextAttempt
  <1>4. ASSUME Undisturbed PROVE Turns'
    <2>1. /\ \A k \in DOMAIN queue : queue[k].type = "reply"
          /\ DOMAIN arrived = shown \cup {queue[k].seq : k \in DOMAIN queue}
          /\ Len(queue) + Cardinality(ToCome \cup Spent) <= PING_ATTEMPTS - i
      BY <1>0, <1>4 DEF Turns, Silence
    <2>2. EchoId = pid
      BY <1>4 DEF EchoId, Undisturbed, TypeOK
    <2>3. DOMAIN queue = 1 .. Len(queue) /\ DOMAIN queue' = 1 .. Len(queue) - 1
      BY <1>1
    <2>4. shown' = shown \cup {Head(queue).seq}
      BY <1>1, <2>1, <2>2, <2>3 DEF Read
    <2>5. ASSUME NEW k \in DOMAIN queue' PROVE queue'[k].type = "reply"
      <3>1. k + 1 \in DOMAIN queue /\ queue'[k] = queue[k + 1]
        BY <1>1, <2>3
      <3>2. QED
        BY <2>1, <3>1
    <2>6. {queue[k].seq : k \in DOMAIN queue}
             = {Head(queue).seq} \cup {queue'[k].seq : k \in DOMAIN queue'}
      <3>1. ASSUME NEW k \in DOMAIN queue
            PROVE  queue[k].seq \in {Head(queue).seq} \cup {queue'[m].seq : m \in DOMAIN queue'}
        <4>1. CASE k = 1
          BY <1>1, <4>1
        <4>2. CASE k # 1
          <5>1. k - 1 \in DOMAIN queue' /\ queue'[k - 1] = queue[k]
            BY <1>1, <2>3, <4>2
          <5>2. QED
            BY <5>1
        <4>3. QED
          BY <4>1, <4>2
      <3>2. ASSUME NEW k \in DOMAIN queue'
            PROVE  queue'[k].seq \in {queue[m].seq : m \in DOMAIN queue}
        <4>1. k + 1 \in DOMAIN queue /\ queue'[k] = queue[k + 1]
          BY <1>1, <2>3
        <4>2. QED
          BY <4>1
      <3>3. Head(queue).seq \in {queue[k].seq : k \in DOMAIN queue}
        BY <1>1, <2>3
      <3>4. QED
        BY <3>1, <3>2, <3>3
    <2>7. DOMAIN arrived = shown' \cup {queue'[k].seq : k \in DOMAIN queue'}
      BY <2>1, <2>4, <2>6
    <2>8. ToCome \cup Spent \in SUBSET Seqs /\ ToCome \in SUBSET (ToCome \cup Spent)
      BY DEF ToCome, Spent
    <2>9. Cardinality(ToCome) <= Cardinality(ToCome \cup Spent)
          /\ Cardinality(ToCome) \in Nat /\ Cardinality(ToCome \cup Spent) \in Nat
      BY <2>8, RequestsCount, RequestsFinite
    <2>10. Len(queue') + Cardinality(ToCome) <= PING_ATTEMPTS - i - 1
      BY <1>1, <2>1, <2>9 DEF TypeOK
    <2>11. QED
      BY <1>0, <1>1, <2>5, <2>7, <2>10, TurnEnds
  <1>5. TypeOK'
    <2>1. Head(queue).type = "reply" => Head(queue).seq \in Seqs
      BY <1>1 DEF SentInTurn
    <2>2. shown' \subseteq Seqs
      BY <2>1 DEF TypeOK, Read
    <2>3. QED
      BY <1>0, <1>1, <1>2, <1>3, <2>2 DEF TypeOK
  <1>6. ParentTime' /\ EndsInTime' /\ UnreachableAfterSilence'
    BY <1>0 DEF ParentTime, EndsInTime, UnreachableAfterSilence
  <1>7. Silence'
    BY <1>0, <1>3 DEF Silence
  <1>8. SentInTurn'
    BY <1>0, <1>1 DEF SentInTurn
  <1>9. Turns'
    BY <1>0, <1>4 DEF Turns, Undisturbed
  <1>10. QED
    BY <1>2, <1>5, <1>6, <1>7, <1>8, <1>9

\* A turn that times out has waited longer than the reply to the request of its
\* second second could take: that reply, or every reply, will not come any more.
LEMMA RecvTimesOutStep == ASSUME IInv, RecvTimesOut PROVE IInv'
  <1> USE SizesAssumption DEF IInv
  <1>0. /\ child = "recv" /\ queue = <<>> /\ clock >= due /\ NextAttempt
        /\ UNCHANGED <<pid, local, clock, shown, unreachable>>
        /\ UNCHANGED <<parent, j, wake>>
        /\ UNCHANGED <<sentAt, queue, arrived, strays>>
    BY DEF RecvTimesOut, parentVars, networkVars
  <1>1. ChildTime' /\ i' \in 1 .. PING_ATTEMPTS /\ due' \in Nat
    BY <1>0, NextTurn
  <1>2. child' \in {"recv", "exited"}
    BY <1>0 DEF NextAttempt
  <1>3. TypeOK'
    BY <1>0, <1>1, <1>2 DEF TypeOK
  <1>4. ParentTime' /\ EndsInTime' /\ UnreachableAfterSilence' /\ SentInTurn' /\ Silence'
    BY <1>0, <1>2 DEF ParentTime, EndsInTime, UnreachableAfterSilence, SentInTurn, Silence
  <1>5. ASSUME Undisturbed PROVE Turns'
    <2> DEFINE s == due - Timeout + 2
    <2>1. /\ \A k \in DOMAIN queue : queue[k].type = "reply"
          /\ DOMAIN arrived = shown \cup {queue[k].seq : k \in DOMAIN queue}
          /\ Len(queue) + Cardinality(ToCome \cup Spent) <= PING_ATTEMPTS - i
          /\ s \notin DOMAIN arrived
      BY <1>0, <1>5 DEF Turns, Silence
    <2>2. /\ Timeout \in Nat /\ MaxLatency \in Nat /\ MaxLatency + 2 <= Timeout
          /\ due \in Nat /\ clock \in Nat /\ due >= Timeout /\ i \in Nat
          /\ i < PING_ATTEMPTS /\ Len(queue) = 0 /\ queue \in Seq(Packet)
      BY <1>0, <1>5 DEF Undisturbed, TypeOK, ChildTime
    <2>3. ToCome \in SUBSET Seqs /\ ToCome \cup Spent \in SUBSET Seqs
          /\ ToCome \in SUBSET (ToCome \cup Spent)
      BY DEF ToCome, Spent
    <2>4. Cardinality(ToCome) \in Nat /\ Cardinality(ToCome \cup Spent) \in Nat
      BY <2>3, RequestsFinite
    <2>5. Cardinality(ToCome) <= PING_ATTEMPTS - i - 1
      <3>1. CASE s \in Seqs
        <4>1. s \notin ToCome
          BY <1>0, <2>2 DEF ToCome
        <4>2. s \in Spent
          BY <2>1, <3>1 DEF Spent
        <4>3. Cardinality(ToCome) <= Cardinality(ToCome \cup Spent) - 1
          BY <2>3, <4>1, <4>2, RequestsCount
        <4>4. QED
          BY <2>1, <2>2, <2>4, <4>3
      <3>2. CASE s \notin Seqs
        <4>1. s >= PING_ATTEMPTS
          BY <2>2, <3>2 DEF Seqs
        <4>2. ToCome = {}
          BY <1>0, <2>2, <4>1 DEF ToCome, Seqs
        <4>3. Cardinality(ToCome) = 0
          BY <4>2, FS_EmptySet
        <4>4. QED
          BY <2>2, <4>3
      <3>3. QED
        BY <3>1, <3>2
    <2>6. Len(queue') + Cardinality(ToCome) <= PING_ATTEMPTS - i - 1
      BY <1>0, <2>2, <2>4, <2>5
    <2>7. QED
      BY <1>0, <2>1, <2>2, <2>6, TurnEnds
  <1>6. Turns'
    BY <1>0, <1>5 DEF Turns, Undisturbed
  <1>7. QED
    BY <1>1, <1>3, <1>4, <1>6

\* A packet is queued behind the others.
LEMMA Queued ==
    ASSUME queue \in Seq(Packet), NEW x \in Packet, queue' = Append(queue, x)
    PROVE  /\ queue' \in Seq(Packet) /\ queue' # <<>> /\ Len(queue') = Len(queue) + 1
           /\ \A k \in DOMAIN queue' : (k \in DOMAIN queue /\ queue'[k] = queue[k]) \/ queue'[k] = x
           /\ {queue'[k].seq : k \in DOMAIN queue'}
                 = {queue[k].seq : k \in DOMAIN queue} \cup {x.seq}
  <1>1. /\ queue' \in Seq(Packet) /\ queue' # <<>> /\ Len(queue') = Len(queue) + 1
        /\ DOMAIN queue' = 1 .. Len(queue) + 1 /\ DOMAIN queue = 1 .. Len(queue)
        /\ Len(queue) \in Nat
        /\ \A k \in 1 .. Len(queue) : queue'[k] = queue[k]
        /\ queue'[Len(queue) + 1] = x
    OBVIOUS
  <1>2. \A k \in DOMAIN queue' : k \in DOMAIN queue \/ k = Len(queue) + 1
    BY <1>1
  <1>3. DOMAIN queue \subseteq DOMAIN queue' /\ Len(queue) + 1 \in DOMAIN queue'
    BY <1>1
  <1>4. \A k \in DOMAIN queue' : (k \in DOMAIN queue /\ queue'[k] = queue[k]) \/ queue'[k] = x
    BY <1>1, <1>2
  <1>5. {queue'[k].seq : k \in DOMAIN queue'}
           = {queue[k].seq : k \in DOMAIN queue} \cup {x.seq}
    <2>1. ASSUME NEW k \in DOMAIN queue'
          PROVE  queue'[k].seq \in {queue[m].seq : m \in DOMAIN queue} \cup {x.seq}
      BY <1>4
    <2>2. ASSUME NEW k \in DOMAIN queue
          PROVE  queue[k].seq \in {queue'[m].seq : m \in DOMAIN queue'}
      BY <1>1, <1>3
    <2>3. x.seq \in {queue'[m].seq : m \in DOMAIN queue'}
      BY <1>1, <1>3
    <2>4. QED
      BY <2>1, <2>2, <2>3
  <1>6. QED
    BY <1>1, <1>4, <1>5

\* A reply moves from those to come to the queue, or passes by unheard.
LEMMA ArriveStep == ASSUME IInv, NEW s \in Seqs, Arrive(s) PROVE IInv'
  <1> USE SizesAssumption DEF IInv
  <1> DEFINE x == [type |-> "reply", seq |-> s]
  <1>0. /\ s \in DOMAIN sentAt /\ clock <= sentAt[s] + MaxLatency
        /\ DOMAIN sentAt' = DOMAIN sentAt \ {s}
        /\ \A r \in DOMAIN sentAt' : sentAt'[r] = sentAt[r]
        /\ UNCHANGED <<pid, local, clock, strays>>
        /\ UNCHANGED <<parent, j, wake>>
        /\ UNCHANGED <<child, i, due, shown, unreachable>>
    BY DEF Arrive, parentVars, childVars
  <1>1. /\ s \notin DOMAIN arrived /\ sentAt[s] = s - 1 /\ s <= j
        /\ parent \in {"fork", "send"} => s < j
        /\ s \in Nat /\ j \in Nat /\ clock \in Nat
    BY <1>0 DEF SentInTurn, TypeOK, Seqs
  <1>2. queue \in Seq(Packet) /\ x \in Packet /\ x.type = "reply" /\ x.seq = s
    BY DEF TypeOK, Packet, Seqs
  <1>3. s \in ToCome /\ ToCome' = ToCome \ {s}
    BY <1>0, <1>1 DEF ToCome
  <1>4. CASE ~Listening
    <2>1. queue' = queue /\ arrived' = arrived
      BY <1>4 DEF Arrive, Enqueue
    <2>2. TypeOK' /\ ParentTime' /\ ChildTime' /\ Silence'
      BY <1>0, <2>1 DEF TypeOK, ParentTime, ChildTime, Silence
    <2>3. SentInTurn' /\ EndsInTime' /\ UnreachableAfterSilence'
      BY <1>0, <2>1 DEF SentInTurn, EndsInTime, UnreachableAfterSilence
    <2>4. Turns'
      BY <1>0, <1>3, <2>1, TurnsKept DEF childVars
    <2>5. QED
      BY <2>2, <2>3, <2>4
  <1>5. CASE Listening
    <2>1. /\ queue' = Append(queue, x)
          /\ DOMAIN arrived' = DOMAIN arrived \cup {s}
          /\ \A r \in DOMAIN arrived' : arrived'[r] = IF r = s THEN clock ELSE arrived[r]
      BY <1>5 DEF Arrive, Enqueue, Stamp
    <2>2. /\ queue' \in Seq(Packet) /\ queue' # <<>> /\ Len(queue') = Len(queue) + 1
          /\ \A k \in DOMAIN queue' :
                (k \in DOMAIN queue /\ queue'[k] = queue[k]) \/ queue'[k] = x
          /\ {queue'[k].seq : k \in DOMAIN queue'}
                = {queue[k].seq : k \in DOMAIN queue} \cup {x.seq}
      BY <1>2, <2>1, Queued
    <2>3. TypeOK'
      BY <1>0, <1>1, <2>1, <2>2 DEF TypeOK
    <2>4. ParentTime' /\ ChildTime' /\ EndsInTime'
      BY <1>0 DEF ParentTime, ChildTime, EndsInTime
    <2>5. Silence' /\ UnreachableAfterSilence'
      <3>1. child = "dispatch" => \A r \in DOMAIN arrived' : clock = arrived'[r]
        BY <2>1 DEF Silence
      <3>2. ~unreachable
        BY <1>5 DEF Silence, Listening
      <3>3. QED
        BY <1>0, <1>5, <2>2, <3>1, <3>2 DEF Silence, UnreachableAfterSilence, Listening
    <2>6. SentInTurn'
      BY <1>0, <1>1, <1>2, <2>1, <2>2 DEF SentInTurn
    <2>7. ASSUME Undisturbed PROVE Turns'
      <3>1. /\ \A k \in DOMAIN queue : queue[k].type = "reply"
            /\ DOMAIN arrived = shown \cup {queue[k].seq : k \in DOMAIN queue}
        BY <1>5, <2>7 DEF Turns, Listening, Silence
      <3>2. /\ \A k \in DOMAIN queue' : queue'[k].type = "reply"
            /\ DOMAIN arrived' = shown' \cup {queue'[k].seq : k \in DOMAIN queue'}
        BY <1>0, <1>2, <2>1, <2>2, <3>1
      <3>3. ToCome \in SUBSET Seqs /\ ToCome \cup Spent \in SUBSET Seqs
        BY DEF ToCome, Spent
      <3>4. /\ Cardinality(ToCome) \in Nat /\ Cardinality(ToCome \cup Spent) \in Nat
            /\ Len(queue) \in Nat /\ i \in Nat
        BY <1>2, <3>3, RequestsFinite DEF TypeOK
      <3>5. Cardinality(ToCome') = Cardinality(ToCome) - 1
        BY <1>3, <3>3, RequestsCount
      <3>6. ToCome' \cup Spent' = (ToCome \cup Spent) \ {s}
        BY <1>0, <1>3, <2>1 DEF Spent
      <3>7. Cardinality(ToCome' \cup Spent') = Cardinality(ToCome \cup Spent) - 1
        BY <1>3, <3>3, <3>6, RequestsCount
      <3>8. child = "dispatch" => Len(queue') + Cardinality(ToCome') <= PING_ATTEMPTS - 1
        BY <2>2, <2>7, <3>4, <3>5 DEF Turns
      <3>9. child = "recv" =>
               Len(queue') + Cardinality(ToCome' \cup Spent') <= PING_ATTEMPTS - i
        BY <2>2, <2>7, <3>4, <3>7 DEF Turns
      <3>10. child \in {"dispatch", "recv"}
        BY <1>5 DEF Listening
      <3>11. QED
        BY <1>0, <2>2, <3>2, <3>8, <3>9, <3>10 DEF Turns
    <2>8. Turns'
      BY <1>0, <2>7 DEF Turns, Undisturbed
    <2>9. QED
      BY <2>3, <2>4, <2>5, <2>6, <2>8
  <1>6. QED
    BY <1>4, <1>5

\* A stray packet is a disturbance.
LEMMA StrayStep == ASSUME IInv, Stray PROVE IInv'
  <1> USE SizesAssumption DEF IInv
  <1> DEFINE x == [type |-> "stray", seq |-> 0]
  <1>0. /\ Listening /\ strays < MaxStrays /\ strays' = strays + 1
        /\ queue' = Append(queue, x)
        /\ UNCHANGED <<pid, local, clock, sentAt, arrived>>
        /\ UNCHANGED <<parent, j, wake>>
        /\ UNCHANGED <<child, i, due, shown, unreachable>>
    BY DEF Stray, Enqueue, parentVars, childVars
  <1>1. queue \in Seq(Packet) /\ x \in Packet /\ x.type = "stray"
    BY DEF TypeOK, Packet
  <1>2. /\ queue' \in Seq(Packet) /\ queue' # <<>>
        /\ \A k \in DOMAIN queue' :
              (k \in DOMAIN queue /\ queue'[k] = queue[k]) \/ queue'[k] = x
    BY <1>0, <1>1, Queued
  <1>3. strays' \in 0 .. MaxStrays /\ strays' # 0
    BY <1>0 DEF TypeOK
  <1>4. TypeOK'
    BY <1>0, <1>2, <1>3 DEF TypeOK
  <1>5. ParentTime' /\ ChildTime' /\ EndsInTime' /\ UnreachableAfterSilence'
    BY <1>0 DEF ParentTime, ChildTime, EndsInTime, UnreachableAfterSilence
  <1>6. Silence' /\ SentInTurn'
    BY <1>0, <1>1, <1>2 DEF Silence, SentInTurn, Listening
  <1>7. Turns'
    BY <1>3 DEF Turns, Undisturbed
  <1>8. QED
    BY <1>4, <1>5, <1>6, <1>7

\* Every step of the two processes, of the network and of time preserves the
\* strengthened invariant.
LEMMA StepIInv == IInv /\ [Next]_vars => IInv'
  <1> SUFFICES ASSUME IInv, [Next]_vars
               PROVE  IInv'
    OBVIOUS
  <1>1. CASE ParentNext
    BY <1>1, ForkStep, PingFailsStep, SendEchoStep, WakeUpStep, WaitReturnsStep
    DEF ParentNext
  <1>2. CASE ChildNext
    BY <1>2, OpenSocketStep, TimeoutEventStep, ReadEventStep, ReadStep, RecvTimesOutStep
    DEF ChildNext
  <1>3. CASE UNCHANGED vars
    <2>1. ToCome' = ToCome
      BY <1>3 DEF vars, ToCome
    <2>2. Turns'
      BY <1>3, <2>1, TurnsKept DEF vars, childVars
    <2>3. QED
      BY <1>3, <2>2 DEF vars, IInv, TypeOK, ParentTime, ChildTime, Silence, SentInTurn,
                        EndsInTime, UnreachableAfterSilence
  <1>4. QED
    BY <1>1, <1>2, <1>3, ArriveStep, StrayStep, TickStep DEF Next, Over

\* The strengthened invariant holds of every behaviour of the program.
LEMMA Inductive == Spec => []IInv
  BY InitIInv, StepIInv, PTL DEF Spec
-----------------------------------------------------------------------------
\* The variables keep their types: in particular nothing but replies to its own
\* requests is shown as one (lines 118-161 and 176-243).
THEOREM TypeCorrect == Spec => []TypeOK
  BY Inductive, PTL DEF IInv

\* For every number of attempts and every timeout, the program ends within one
\* timeout per attempt, whatever arrives (lines 137-161, 182-193 and 273).
THEOREM EndsWithinTimeouts == Spec => []EndsInTime
  BY Inductive, PTL DEF IInv

\* "Destination Host Unreachable" is never printed after a reply has come in
\* time: a packet at the socket is read before time passes (lines 137-141, 193).
THEOREM UnreachableOnlyAfterSilence == Spec => []UnreachableAfterSilence
  BY Inductive, PTL DEF IInv

\* The turns of the loop suffice for all replies, for every number of attempts
\* and every latency at least two seconds below the timeout, if nothing but
\* replies comes and the process id fits the header: turns that time out are
\* paid for by replies that can no longer come (lines 122, 144-160 and 228).
THEOREM TurnsSuffice == Spec => []NoReplyMissed
  <1>1. IInv => NoReplyMissed
    <2> SUFFICES ASSUME IInv, child = "exited", ~unreachable, Undisturbed
                 PROVE  shown = DOMAIN arrived
      BY DEF NoReplyMissed, Undisturbed
    <2>1. /\ DOMAIN arrived = shown \cup {queue[k].seq : k \in DOMAIN queue}
          /\ queue = <<>>
      BY DEF IInv, Turns
    <2>2. DOMAIN queue = {}
      BY <2>1
    <2>3. QED
      BY <2>1, <2>2
  <1>2. QED
    BY Inductive, <1>1, PTL
=============================================================================
