-------------------------------- MODULE Trees --------------------------------
(***************************************************************************)
(* Binary trees: bst.c, bst_insert_search.c, bst_mirror.c and PS_4.c.      *)
(* A tree is Empty (NULL) or a node with two subtrees; a pointer to a node *)
(* of a tree is the path of field names that leads to it.  The programs    *)
(* build a tree, by insertion or node by node, and then walk it.           *)
(***************************************************************************)
EXTENDS Integers, Sequences, FiniteSets, SequencesExt, FiniteSetsExt

CONSTANTS Numbers,     \* the data in the nodes
          MaxNodes,    \* bound on the size of a tree
          QueueLen,    \* the 100 of bst_insert_search.c, the 10 of the others
          IntMin,      \* INT_MIN: below every sum
          Wild         \* what is printed after a read or a write out of bounds

Empty == <<>>
newNode(v) == [data |-> v, left |-> Empty, right |-> Empty]

RECURSIVE Size(_)
Size(t) == IF t = Empty THEN 0 ELSE 1 + Size(t.left) + Size(t.right)
-----------------------------------------------------------------------------
(* bst.c *)
RECURSIVE inorder(_), preorder(_), postorder(_)
inorder(t) == IF t = Empty THEN <<>>
              ELSE inorder(t.left) \o <<t.data>> \o inorder(t.right)
preorder(t) == IF t = Empty THEN <<>>
               ELSE <<t.data>> \o preorder(t.left) \o preorder(t.right)
postorder(t) == IF t = Empty THEN <<>>
                ELSE postorder(t.left) \o postorder(t.right) \o <<t.data>>

RECURSIVE insert(_, _)

\* A mutant: a number that is there already goes to the left.
insertTwice(t, v) == CASE t = Empty  -> newNode(v)
                       [] t.data < v -> [t EXCEPT !.right = insert(@, v)]
                       [] OTHER      -> [t EXCEPT !.left = insert(@, v)]

\* A number that is there already: its node is replaced by a new leaf, and the
\* subtrees of the old one are lost.
insert(t, v) == CASE t = Empty  -> newNode(v)
                  [] t.data < v -> [t EXCEPT !.right = insert(@, v)]
                  [] t.data > v -> [t EXCEPT !.left = insert(@, v)]
                  [] OTHER      -> newNode(v)
-----------------------------------------------------------------------------
(* bst_insert_search.c *)
RECURSIVE Insert(_, _)
Insert(t, v) == CASE t = Empty   -> newNode(v)
                  [] v <= t.data -> [t EXCEPT !.left = Insert(@, v)]
                  [] OTHER       -> [t EXCEPT !.right = Insert(@, v)]

\* A full queue drops what it is given.  Nothing is ever taken out of Q: start
\* moves on.
EnqueueOrDrop(Q, t) == IF Len(Q) < QueueLen THEN Append(Q, t) ELSE Q

Children(t) == SelectSeq(<<t.left, t.right>>, LAMBDA c : c # Empty)

RECURSIVE LevelOrderFrom(_, _, _)
LevelOrderFrom(t, Q, start) ==
    LET Q1 == FoldLeft(EnqueueOrDrop, Q, Children(t))
    IN  <<t.data>> \o (IF start > Len(Q1) THEN <<>>
                       ELSE LevelOrderFrom(Q1[start], Q1, start + 1))

level_order(t) == IF t = Empty THEN <<>> ELSE LevelOrderFrom(t, <<>>, 1)
-----------------------------------------------------------------------------
(* bst_mirror.c: the queue is an array that is full of NULL at the start,   *)
(* rear and front run over it and are compared with nothing.  Out of its   *)
(* bounds anything may happen: the line printed is Wild.                   *)
EmptyQ == [Q |-> [i \in 0 .. QueueLen - 1 |-> Empty], front |-> 0, rear |-> 0,
           line |-> <<>>]

enqueue(q, t) == IF q.rear \in DOMAIN q.Q
                 THEN [q EXCEPT !.Q[q.rear] = t, !.rear = @ + 1]
                 ELSE [q EXCEPT !.line = Wild]

RECURSIVE levelOrderTraversal(_, _)
levelOrderTraversal(t, q) ==
    IF t = Empty THEN q
    ELSE LET q1 == FoldLeft(enqueue, [q EXCEPT !.line = Append(@, t.data)], Children(t))
             next == q1.front
             q2 == [q1 EXCEPT !.front = @ + 1]
         IN  IF q1.line = Wild \/ next \notin DOMAIN q1.Q
             THEN [q2 EXCEPT !.line = Wild]
             ELSE levelOrderTraversal(q2.Q[next], q2)

RECURSIVE mirror(_)
mirror(t) == IF t = Empty THEN Empty
             ELSE [t EXCEPT !.left = mirror(t.right), !.right = mirror(t.left)]

\* A mutant: the queue is not reset between the traversals.
NoReset(q) == [q EXCEPT !.line = <<>>]

\* front = rear = 0 and the loop that clears Q.
Reset(q) == EmptyQ

\* The two lines that main prints.
MirrorMain(t) ==
    LET first == levelOrderTraversal(t, EmptyQ)
    IN  <<first.line, levelOrderTraversal(mirror(t), Reset(first)).line>>
-----------------------------------------------------------------------------
(* PS_4.c: a queue that should be circular.  rear wraps around, front does *)
(* not: "(Q->front)+1 % Q->capacity" is front + 1.                         *)
createQueue == [data |-> <<>>, front |-> -1, rear |-> -1, line |-> <<>>]

enqueue4(q, t) ==
    LET rear == (q.rear + 1) % QueueLen
    IN  [q EXCEPT !.rear = rear,
                  !.data = [i \in DOMAIN q.data \cup {rear} |->
                               IF i = rear THEN t ELSE q.data[i]],
                  !.front = IF @ = -1 THEN rear ELSE @]

IsEmptyQueue(q) == q.front = -1

dequeue4(q) == IF q.front = q.rear THEN [q EXCEPT !.front = -1, !.rear = -1]
                                   ELSE [q EXCEPT !.front = @ + (1 % QueueLen)]

RECURSIVE Levelorder4(_)
Levelorder4(q) ==
    CASE IsEmptyQueue(q) -> q.line
      [] ~IsEmptyQueue(q) /\ q.front \notin 0 .. QueueLen - 1 -> Wild
      [] OTHER -> LET t == q.data[q.front]
                      printed == [dequeue4(q) EXCEPT !.line = Append(@, t.data)]
                  IN  Levelorder4(FoldLeft(enqueue4, printed, Children(t)))

levelorder(t) == IF t = Empty THEN <<>> ELSE Levelorder4(enqueue4(createQueue, t))
-----------------------------------------------------------------------------
(* PS_4.c, the path with the greatest sum.  best is *max_sum_ref with      *)
(* *target_leaf_ref.                                                       *)
RECURSIVE getTargetLeaf(_, _, _, _)

\* A mutant: a node with one child is taken for a leaf.
TargetHalfLeaf(t, path, sum, best) ==
    IF t = Empty THEN best
    ELSE LET curr == sum + t.data
             here == IF Empty \in {t.left, t.right} /\ curr > best.sum
                     THEN [sum |-> curr, leaf |-> path] ELSE best
             left == getTargetLeaf(t.left, Append(path, "left"), curr, here)
         IN  getTargetLeaf(t.right, Append(path, "right"), curr, left)

getTargetLeaf(t, path, sum, best) ==
    IF t = Empty THEN best
    ELSE LET curr == sum + t.data
             here == IF t.left = Empty /\ t.right = Empty /\ curr > best.sum
                     THEN [sum |-> curr, leaf |-> path] ELSE best
             left == getTargetLeaf(t.left, Append(path, "left"), curr, here)
         IN  getTargetLeaf(t.right, Append(path, "right"), curr, left)

\* The numbers printPath prints below t, which is at path; <<>> for "false".
RECURSIVE printPath(_, _, _)
printPath(t, path, target) ==
    IF t = Empty THEN <<>>
    ELSE LET left == printPath(t.left, Append(path, "left"), target)
             right == printPath(t.right, Append(path, "right"), target)
         IN  CASE path = target -> <<t.data>>
               [] path # target /\ left # <<>> -> Append(left, t.data)
               [] path # target /\ left = <<>> /\ right # <<>> -> Append(right, t.data)
               [] OTHER -> <<>>

\* The sum returned and the numbers printed.
maxSumPath(t) ==
    IF t = Empty THEN [sum |-> 0, line |-> <<>>]
    ELSE LET best == getTargetLeaf(t, <<>>, 0, [sum |-> IntMin, leaf |-> <<>>])
         IN  [sum |-> best.sum, line |-> printPath(t, <<>>, best.leaf)]
-----------------------------------------------------------------------------
VARIABLES tree,
          built      \* by which of the programs: the functions it calls

treeVars == <<tree, built>>

TreeInit == tree = Empty /\ built \in {"newNode", "insert", "Insert"}

\* The trees that main of bst_mirror.c and of PS_4.c can make of t by one more
\* assignment of newNode(v) to a child that is Empty.
RECURSIVE Assigned(_, _)
Assigned(t, v) ==
    IF t = Empty THEN {newNode(v)}
    ELSE      {[t EXCEPT !.left = l] : l \in Assigned(t.left, v)}
         \cup {[t EXCEPT !.right = r] : r \in Assigned(t.right, v)}

TreeNext == /\ Size(tree) < MaxNodes
            /\ \E v \in Numbers :
                  \/ built = "newNode" /\ tree' \in Assigned(tree, v)
                  \/ built = "insert" /\ tree' = insert(tree, v)
                  \/ built = "Insert" /\ tree' = Insert(tree, v)
            /\ UNCHANGED built
-----------------------------------------------------------------------------
(* Reference definitions. *)
Increasing(s) == \A i, j \in DOMAIN s : i < j => s[i] < s[j]
Ascending(s) == \A i, j \in DOMAIN s : i < j => s[i] <= s[j]

\* The nodes of a tree, as paths, and the number at a path.
RECURSIVE Paths(_), At(_, _)
Paths(t) == IF t = Empty THEN {}
            ELSE {<<>>} \cup {<<"left">> \o p : p \in Paths(t.left)}
                       \cup {<<"right">> \o p : p \in Paths(t.right)}
At(t, p) == IF p = <<>> THEN t.data ELSE At(t[Head(p)], Tail(p))

\* Paths by length and, at the same length, from left to right.
Above(p, q) == \/ Len(p) < Len(q)
               \/ /\ Len(p) = Len(q)
                  /\ \E i \in DOMAIN p : /\ p[i] = "left" /\ q[i] = "right"
                                         /\ \A j \in 1 .. i - 1 : p[j] = q[j]
BreadthFirst(t) ==
    LET order == SetToSortSeq(Paths(t), Above)
    IN  [i \in DOMAIN order |-> At(t, order[i])]

LeafPaths(t) == {p \in Paths(t) : \A q \in Paths(t) : IsPrefix(p, q) => q = p}
Upwards(t, p) == [i \in 1 .. Len(p) + 1 |-> At(t, SubSeq(p, 1, Len(p) + 1 - i))]

\* What the searches and the traversals rest on.  After any further insertion
\* the tree is still in order and v is in it; Insert loses nothing, and insert
\* loses the numbers below a v that was there before and no others (bst.c lines
\* 58-79, bst_insert_search.c lines 16-28).  The three traversals agree:
\* mirrored, the tree reads backwards, and preorder turns into postorder
\* (bst.c lines 31-56, bst_mirror.c lines 52-63).
SearchTrees ==
    LET numbers(t) == {At(t, p) : p \in Paths(t)}
        below(v) == {At(tree, p) : p \in {q \in Paths(tree) :
                        \E r \in Paths(tree) : r # q /\ IsPrefix(r, q) /\ At(tree, r) = v}}
    IN  /\ built = "insert" => \A v \in Numbers :
              /\ Increasing(inorder(insert(tree, v)))
              /\ numbers(insert(tree, v)) = (numbers(tree) \ below(v)) \cup {v}
        /\ built = "Insert" => \A v \in Numbers :
              /\ Ascending(inorder(Insert(tree, v)))
              /\ \A w \in Numbers :
                    Cardinality({i \in 1 .. Size(tree) + 1 : inorder(Insert(tree, v))[i] = w})
                      = Cardinality({i \in 1 .. Size(tree) : inorder(tree)[i] = w})
                        + (IF w = v THEN 1 ELSE 0)
        /\ inorder(mirror(tree)) = Reverse(inorder(tree))
        /\ preorder(mirror(tree)) = Reverse(postorder(tree))
        /\ mirror(mirror(tree)) = tree

\* Each of the three queues gives the breadth-first order as long as it can:
\* the bounded one for its length and one more and then stops, the array of
\* bst_mirror.c up to its length, for both traversals of main, and the one of
\* PS_4.c, whose front does not wrap around, up to its length and one more
\* (bst_insert_search.c lines 34-60, bst_mirror.c lines 17-50 and 75-78, PS_4.c
\* lines 116-162).
LevelOrders ==
    LET wanted == BreadthFirst(tree)
    IN  /\ level_order(tree) = SubSeq(wanted, 1, Min({Len(wanted), QueueLen + 1}))
        /\ Size(tree) <= QueueLen =>
              MirrorMain(tree) = <<wanted, BreadthFirst(mirror(tree))>>
        /\ Size(tree) <= QueueLen + 1 => levelorder(tree) = wanted

\* maxSumPath returns the greatest sum of a path from the root to a leaf, also
\* when all sums are negative, and prints such a path from the leaf upwards,
\* the leftmost of several, and nothing else (PS_4.c lines 18-89).
MaxPath ==
    tree # Empty =>
        LET sum(p) == FoldLeft(+, 0, Upwards(tree, p))
            best == {p \in LeafPaths(tree) : \A q \in LeafPaths(tree) : sum(q) <= sum(p)}
            leftmost(p, q) == LET i == CHOOSE i \in DOMAIN p \cap DOMAIN q :
                                          p[i] # q[i] /\ \A j \in 1 .. i - 1 : p[j] = q[j]
                              IN  p[i] = "left"
            first == CHOOSE p \in best : \A q \in best \ {p} : leftmost(p, q)
        IN  maxSumPath(tree) = [sum |-> sum(first), line |-> Upwards(tree, first)]
=============================================================================
