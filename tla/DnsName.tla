------------------------------ MODULE DnsName ------------------------------
(***************************************************************************)
(* The domain name conversions and the answer parser of dns_utils/utils.c. *)
(* A C string is the sequence of its bytes before the terminating 0; a     *)
(* message is the sequence of its bytes, the byte at offset o of the       *)
(* buffer being element o + 1.                                             *)
(*                                                                         *)
(* A loop is a recursive function of the position it has reached.  Names   *)
(* have at least one label and no byte of a label is 0, '.' or above 191:  *)
(* the empty name makes the code store in front of the array.              *)
(***************************************************************************)
EXTENDS Naturals, Sequences, SequencesExt

Dot == 46            \* '.'
HeaderLen == 12      \* sizeof(struct DNS_HEADER)
QuestionLen == 4     \* sizeof(struct QUESTION)
RDataLen == 10       \* sizeof(struct R_DATA)
T_A == 1
T_CNAME == 5

\* The C string at the start of an array of bytes.
CString(bytes) ==
    LET end == SelectInSeq(bytes, LAMBDA b : b = 0)
    IN  IF end = 0 THEN bytes ELSE SubSeq(bytes, 1, end - 1)

\* A name in wire form: starts are the positions of its length bytes and the one
\* behind it, and no byte of a label is a dot.
WireForm(wire, starts) ==
    /\ wire \in Seq(0 .. 255)
    /\ starts \subseteq 1 .. Len(wire) + 1
    /\ {1, Len(wire) + 1} \subseteq starts
    /\ \A i \in starts : i <= Len(wire) =>
          /\ i + wire[i] + 1 \in starts
          /\ \A k \in i + 1 .. i + wire[i] : k \notin starts /\ wire[k] # Dot

\* A name has at least one label, and no byte of it is 0.
IsName(wire) == /\ wire # <<>>
                /\ wire \in Seq(Nat \ {0})
                /\ \E starts \in SUBSET (1 .. Len(wire) + 1) : WireForm(wire, starts)

\* Two bytes in network order, as ntohs reads them.
Short(buffer, offset) == 256 * buffer[offset + 1] + buffer[offset + 2]
-----------------------------------------------------------------------------
\* A mutant: the dot behind the last label stays.
ToDottedKeepsDot(wire) ==
    LET from[i \in Nat \ {0}] ==
            IF i > Len(wire) THEN <<>>
            ELSE SubSeq(wire, i + 1, i + wire[i]) \o <<Dot>> \o from[i + wire[i] + 1]
    IN  from[1]

\* 3www3com -> www.com: from index i on, a label moves down over its length byte
\* and a dot follows it; the dot behind the last label becomes the terminator.
\* (The loop works in place and writes only where it has already read.)
ToDotted(wire) ==
    LET from[i \in Nat \ {0}] ==
            IF i > Len(wire) THEN <<>>
            ELSE SubSeq(wire, i + 1, i + wire[i]) \o <<Dot>> \o from[i + wire[i] + 1]
    IN  Front(from[1])

\* The labels of a string that ends in a dot, each behind its length byte: lock
\* is where a label starts, i the dot behind it.
Labelled(dotted) ==
    LET from[lock \in Nat \ {0}] ==
            IF lock > Len(dotted) THEN <<>>
            ELSE LET i == SelectInSubSeq(dotted, lock, Len(dotted), LAMBDA b : b = Dot)
                 IN  <<i - lock>> \o SubSeq(dotted, lock, i - 1) \o from[i + 1]
    IN  from[1]

\* www.com -> 3www3com0.  The dot appended to host stays there.
ChangetoDnsNameFormat(host) ==
    LET dotted == host \o <<Dot>>
    IN  [host |-> dotted, dns |-> Labelled(dotted) \o <<0>>]
-----------------------------------------------------------------------------
\* A mutant: a second pointer ends the name.
TurnOnePointer(s, buffer) ==
    LET b == buffer[s.reader + 1] IN
    CASE b = 0 \/ (b >= 192 /\ s.jumped) -> s
      [] b >= 192 /\ ~s.jumped -> [s EXCEPT !.reader = b * 256 + buffer[s.reader + 2] - 49152,
                                           !.jumped = TRUE]
      [] b \in 1 .. 191 -> [s EXCEPT !.reader = @ + 1, !.name = Append(@, b),
                                    !.count = IF s.jumped THEN @ ELSE @ + 1]

\* A turn of the first loop of uncompress_name: it copies byte after byte up to
\* a 0, and a byte from 192 on sends it elsewhere in the buffer.
Turn(s, buffer) ==
    LET b == buffer[s.reader + 1] IN
    CASE b = 0    -> s
      [] b >= 192 -> [s EXCEPT !.reader = b * 256 + buffer[s.reader + 2] - 49152,
                               !.jumped = TRUE]
      [] OTHER    -> [s EXCEPT !.reader = @ + 1, !.name = Append(@, b),
                               !.count = IF s.jumped THEN @ ELSE @ + 1]

\* The loop.  If it ends it passes no byte twice.
Collected(reader, buffer) ==
    LET turns[n \in 0 .. Len(buffer)] ==
            IF n = 0 THEN [reader |-> reader, name |-> <<>>, jumped |-> FALSE, count |-> 1]
            ELSE Turn(turns[n - 1], buffer)
    IN  turns[Len(buffer)]

\* The dotted name at reader, and the bytes it takes there: its literal bytes
\* and the 0 or the two bytes of the pointer.
uncompress_name(reader, buffer) ==
    LET s == Collected(reader, buffer)
    IN  [name  |-> ToDotted(s.name),
         count |-> IF s.jumped THEN s.count + 1 ELSE s.count]

\* The answer record at reader: what is stored in answers[i], and where the
\* next record is expected.  Data of any type but A is read as a name.
AnswerAt(reader, buffer) ==
    LET owner == uncompress_name(reader, buffer)
        res   == reader + owner.count
        type  == Short(buffer, res)
        len   == Short(buffer, res + RDataLen - 2)
        data  == res + RDataLen
        cname == uncompress_name(data, buffer)
    IN  IF type = T_A
        THEN [rec  |-> [name |-> owner.name, type |-> type,
                        rdata |-> SubSeq(buffer, data + 1, data + len)],
              next |-> data + len]
        ELSE [rec  |-> [name |-> owner.name, type |-> type, rdata |-> cname.name],
              next |-> data + cname.count]

\* The loop over ans_count answers; qname is the C string behind the header.
ParseAnswers(buffer, qname, ans_count) ==
    LET read[n \in 0 .. ans_count] ==
            IF n = 0 THEN [reader  |-> HeaderLen + Len(qname) + 1 + QuestionLen,
                           answers |-> <<>>]
            ELSE LET q == read[n - 1]
                     a == AnswerAt(q.reader, buffer)
                 IN  [reader |-> a.next, answers |-> Append(q.answers, a.rec)]
    IN  read[ans_count].answers
=============================================================================
