----------------------------- MODULE AbstractList -----------------------------
(***************************************************************************)
(* What the list functions promise: a list of numbers to which insert      *)
(* appends, from which deletenode removes every copy of a key, and which   *)
(* sort puts in order.  A call takes effect at once, when it returns.      *)
(***************************************************************************)
EXTENDS Integers, Sequences, FiniteSets

CONSTANT Data, None

VARIABLES list,    \* the numbers, in order
          call     \* the call under way: the function and its argument, or None

Calls == ({"insert", "deletenode"} \X Data) \cup {<<"sort">>}

Sorted(s) == \A i, j \in DOMAIN s : i < j => s[i] <= s[j]

Copies(s, x) == Cardinality({i \in DOMAIN s : s[i] = x})

\* The list "to" is the list "from" without the copies of x, in the same order.
Without(to, from, x) ==
    \E kept \in [DOMAIN to -> DOMAIN from] :
        /\ \A i, j \in DOMAIN to : i < j => kept[i] < kept[j]
        /\ {kept[i] : i \in DOMAIN to} = {i \in DOMAIN from : from[i] # x}
        /\ \A i \in DOMAIN to : to[i] = from[kept[i]]

\* The list "to" is what the call c makes of the list "from".
Effect(c, from, to) ==
    \/ c[1] = "insert" /\ to = Append(from, c[2])
    \/ c[1] = "deletenode" /\ Without(to, from, c[2])
    \/ c[1] = "sort" /\ Sorted(to) /\ \A x \in Data : Copies(to, x) = Copies(from, x)

ListInit == list = <<>> /\ call = None

Called == /\ call = None
          /\ call' \in Calls
          /\ list' = list

Returned == /\ call # None
            /\ Effect(call, list, list')
            /\ call' = None

ListSpec == ListInit /\ [][Called \/ Returned]_<<list, call>>

\* Every call returns.
FairListSpec == ListSpec /\ []<>(call = None)
=============================================================================
