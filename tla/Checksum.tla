------------------------------- MODULE Checksum -------------------------------
(***************************************************************************)
(* The Internet checksum as the three pings compute it, over buffers that  *)
(* are sequences of bytes.  Byte values run below Byte (256 in the code),  *)
(* 16-bit words below Byte^2; buffers are short enough for the 32-bit sum. *)
(***************************************************************************)
EXTENDS Integers, Sequences, SequencesExt

CONSTANT Byte
ASSUME ByteAssumption == Byte \in Nat \ {0, 1}

Word == Byte * Byte
ICMP_HDRLEN == 8

\* The buffer read as 16-bit words of a little-endian machine; a left-over byte
\* is a word of its own.
WordAt(b, k) == b[2 * k - 1] + (IF 2 * k > Len(b) THEN 0 ELSE Byte * b[2 * k])
Words(b) == [k \in 1 .. (Len(b) + 1) \div 2 |-> WordAt(b, k)]
Total(b) == FoldLeft(+, 0, Words(b))

\* A mutant: the carries are folded in once.
FoldOnce(sum) == (sum \div Word) + (sum % Word)

\* "sum = (sum >> 16) + (sum & 0xFFFF); sum += (sum >> 16)" of myping.c and
\* myping_synchronous.c.
FoldTwice(sum) == LET once == (sum \div Word) + (sum % Word)
                  IN  once + (once \div Word)

\* "while (sum >> 16)" of ping6_ll.c.
FoldAll[sum \in Nat] == IF sum \div Word = 0 THEN sum
                        ELSE FoldAll[(sum % Word) + (sum \div Word)]

\* The assignment of ~sum to 16 bits.
Complement(sum) == Word - 1 - (sum % Word)

checksum(b) == Complement(FoldTwice(Total(b)))
checksum6(b) == Complement(FoldAll[Total(b)])

\* What icmp6_checksum sums: the addresses, the upper-layer length, three zero
\* bytes and the next header, the ICMP header (type, code, id and sequence
\* number, and behind them zeros for the checksum), the payload, and a byte of
\* padding behind an odd payload.
PseudoHeader(src, dst, nxt, len) ==
    src \o dst \o <<0, 0, len \div Byte, len % Byte, 0, 0, 0, nxt>>
Padding(payload) == IF Len(payload) % 2 = 1 THEN <<0>> ELSE <<>>

icmp6_checksum(src, dst, nxt, hdr, payload) ==
    checksum6(   PseudoHeader(src, dst, nxt, ICMP_HDRLEN + Len(payload))
              \o hdr \o <<0, 0>> \o payload \o Padding(payload))
-----------------------------------------------------------------------------
\* Addition with end-around carry: what RFC 1071 calls the one's complement sum.
OnesPlus(x, y) == IF x + y < Word THEN x + y ELSE x + y - Word + 1
OnesSum(b) == FoldLeft(OnesPlus, 0, Words(b))

\* A 16-bit number as it is stored, and a packet with the checksum stored in
\* the field that is its k-th word.
Stored(w) == <<w % Byte, w \div Byte>>
WithSum(b, k, sum) ==
    [b EXCEPT ![2 * k - 1] = Stored(sum)[1], ![2 * k] = Stored(sum)[2]]

\* Both ways to fold the carries give the complement of the one's complement sum.
IsOnesComplement(b) == /\ checksum(b) = Word - 1 - OnesSum(b)
                       /\ checksum6(b) = Word - 1 - OnesSum(b)

\* A receiver that sums the packet, the checksum included, gets zero.
ReceiverGetsZero(b, k) == checksum(WithSum(b, k, checksum(b))) = 0

\* The same for ICMPv6: the receiver has the checksum behind type and code,
\* before the rest of the header, and its sum is that of zero.
Received6(src, dst, nxt, hdr, payload, sum) ==
    PseudoHeader(src, dst, nxt, ICMP_HDRLEN + Len(payload))
      \o SubSeq(hdr, 1, 2) \o Stored(sum) \o SubSeq(hdr, 3, 6) \o payload

ReceiverGetsZero6(src, dst, nxt, hdr, payload) ==
    LET sum == icmp6_checksum(src, dst, nxt, hdr, payload)
    IN  OnesSum(Received6(src, dst, nxt, hdr, payload, sum)) = Word - 1
=============================================================================
