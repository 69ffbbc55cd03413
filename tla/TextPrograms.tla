----------------------------- MODULE TextPrograms -----------------------------
(***************************************************************************)
(* The small programs on texts: reverse_string.c and last_ten_lines.c.     *)
(* Their text is the input of Sequential.                                  *)
(***************************************************************************)
EXTENDS Sequential, Bitwise, FiniteSetsExt

CONSTANT Outside       \* what is printed after a read in front of the text
-----------------------------------------------------------------------------
(* reverse_string.c: the characters are swapped by exclusive or.           *)
swap(s, i, j) == LET s1 == [s EXCEPT ![i] = s[i] ^^ s[j]]
                     s2 == [s1 EXCEPT ![j] = s1[i] ^^ s1[j]]
                 IN  [s2 EXCEPT ![i] = s2[i] ^^ s2[j]]

\* The length of the string in the buffer s, and the string.
strlen(s) == Min({i \in DOMAIN s : s[i] = 0} \cup {Len(s) + 1}) - 1
String(s) == SubSeq(s, 1, strlen(s))

\* A mutant: the middle character is swapped with itself.
SwapsToTheMiddle(len) == (len + 1) \div 2

\* The swaps of the loop.
Swaps(len) == len \div 2

reverse_string(s) ==
    LET len == strlen(s)
        Turn(t, i) == swap(t, i, len + 1 - i)
    IN  String(FoldLeft(Turn, s, [i \in 1 .. Swaps(len) |-> i]))
-----------------------------------------------------------------------------
(* last_ten_lines.c: a pointer walks back from the last end of line, where *)
(* 0 stands for the end of a line.  Nothing stops it at the first character.*)
RECURSIVE WalkBack(_, _, _)
WalkBack(text, p, n) ==
    CASE n < 0             -> SubSeq(text, p + 2, Len(text))
      [] n >= 0 /\ p < 1   -> Outside
      [] n >= 0 /\ p >= 1  -> IF text[p] = 0 THEN WalkBack(text, p - 2, n - 1)
                                             ELSE WalkBack(text, p - 1, n)

last_lines(text, n) == WalkBack(text, Max({p \in DOMAIN text : text[p] = 0}), n)
-----------------------------------------------------------------------------
\* The string is reversed whatever its length, although swap destroys a
\* character that is swapped with itself (reverse_string.c lines 7-11 and 25-27).
\* The last n lines come out, after the end of the line before them, if the
\* text has more than n lines and none is empty (last_ten_lines.c lines 21-31).
Strings ==
    /\ reverse_string(input) = Reverse(String(input))
    /\ LET ends == {p \in DOMAIN input : input[p] = 0}
           text == input # <<>> /\ Last(input) = 0 /\ \A p \in ends : p # 1 /\ p - 1 \notin ends
       IN  text => \A n \in 0 .. Cardinality(ends) - 1 :
                      \E p \in ends : /\ Cardinality({q \in ends : q > p}) = n
                                      /\ last_lines(input, n) = SubSeq(input, p, Len(input))
=============================================================================
