------------------------------ MODULE Sequential ------------------------------
(***************************************************************************)
(* The small programs that read one input and print one result: addList.c, *)
(* the checksums of the pings, and in TextPrograms the programs on texts.  *)
(* The state is the input, read element by element.                        *)
(***************************************************************************)
EXTENDS Checksum

CONSTANTS InputLen,    \* bound on the length of the input
          Base         \* the 10 of addTwoNumbers

ASSUME InputAssumption == InputLen \in Nat
\* A packet with the input as its payload has a length that fits its field.
ASSUME PacketAssumption == Byte >= 4 /\ ICMP_HDRLEN + InputLen < Word
ASSUME BaseAssumption == Base \in Nat \ {0, 1}

VARIABLE input

InputInit == input = <<>>
InputNext == /\ Len(input) < InputLen
             /\ \E v \in 0 .. Byte - 1 : input' = Append(input, v)

InputSpec == InputInit /\ [][InputNext]_input
-----------------------------------------------------------------------------
(* addList.c: numbers as lists of digits, the lowest first.                *)
addNode(l, v) == Append(l, v)

\* What a list adds to the i-th sum: nothing once it has ended.
Digit(l, i) == IF i <= Len(l) THEN l[i] ELSE 0

\* The turns of the loop "while (l1 || l2)".
Turns(l1, l2) == Max({Len(l1), Len(l2)})

\* c after i turns.
Carries(l1, l2) ==
    LET c[i \in 0 .. Turns(l1, l2)] ==
            IF i = 0 THEN 0 ELSE (c[i - 1] + Digit(l1, i) + Digit(l2, i)) \div Base
    IN  c

\* A mutant: the last carry is dropped.
addTwoNoCarry(l1, l2) ==
    [i \in 1 .. Turns(l1, l2) |->
        (Carries(l1, l2)[i - 1] + Digit(l1, i) + Digit(l2, i)) % Base]

addTwoNumbers(l1, l2) ==
    LET c == Carries(l1, l2)
        n == Turns(l1, l2)
        l3 == [i \in 1 .. n |-> (c[i - 1] + Digit(l1, i) + Digit(l2, i)) % Base]
    IN  IF c[n] # 0 THEN addNode(l3, c[n]) ELSE l3

\* The number that the digits stand for.
Value(l) ==
    LET from[i \in 1 .. Len(l) + 1] == IF i > Len(l) THEN 0 ELSE l[i] + Base * from[i + 1]
    IN  from[1]

\* l3 is the sum of l1 and l2, in digits and with none to spare.
IsSum(l3, l1, l2) ==
    /\ Value(l3) = Value(l1) + Value(l2)
    /\ \A i \in DOMAIN l3 : l3[i] \in 0 .. Base - 1
    /\ \/ Len(l3) = Turns(l1, l2)
       \/ Len(l3) = Turns(l1, l2) + 1 /\ Last(l3) # 0
-----------------------------------------------------------------------------
\* The carry goes through the whole number and becomes a digit of its own, for
\* numbers of any two lengths; every digit stays below Base, and no digit is
\* added without need (addList.c lines 44-65).
AddsUp ==
    (\A i \in DOMAIN input : input[i] < Base) =>
        \A k \in 0 .. Len(input) :
            LET l1 == SubSeq(input, 1, k)
                l2 == SubSeq(input, k + 1, Len(input))
            IN  IsSum(addTwoNumbers(l1, l2), l1, l2)

\* The two ways to fold the carries give the one's complement sum, for even and
\* odd lengths, and a receiver that sums the packet with the checksum in place
\* gets zero (myping.c lines 74-87, myping_synchronous.c lines 69-82, ping6_ll.c
\* lines 386-498).  For ICMPv6 the receiver has the checksum in the middle of
\* the header, the sender sums it up at the end.
Checksums ==
    /\ IsOnesComplement(input)
    /\ ReceiverGetsZero(<<0, 0>> \o input, 1)
    /\ \A v \in 0 .. Byte - 1 :
          ReceiverGetsZero6(<<v, 1>>, <<2, v>>, v, <<1, 2, v, 0, 1, v>>, input)
=============================================================================
