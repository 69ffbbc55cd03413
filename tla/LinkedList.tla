------------------------------ MODULE LinkedList ------------------------------
(***************************************************************************)
(* The singly linked list of mylist.c, with the sort of PS_3.c, whose list *)
(* is the same one: insert walks to the end, deletenode unlinks and frees  *)
(* every node that holds the key, sort is a bubble sort that swaps data    *)
(* and moves no node.  One action per turn of a loop.                      *)
(*                                                                         *)
(* A freed node holds garbage, malloc may hand it out again, and no step   *)
(* dereferences NULL or a freed node: the program is stuck there.          *)
(***************************************************************************)
EXTENDS Integers, Sequences, FiniteSets

CONSTANTS Nodes,      \* bound: the nodes malloc can hand out
          Data,       \* the numbers that are kept
          NULL, Garbage, None

ASSUME NodesAssumption == IsFiniteSet(Nodes) /\ {NULL, Garbage} \cap Nodes = {}
ASSUME DataAssumption == Data \subseteq Int /\ Garbage \notin Data

\* The calls of main: insert and deletenode take a number.
Calls == ({"insert", "deletenode"} \X Data) \cup {<<"sort">>}

ASSUME NoneAssumption == None \notin Calls

VARIABLES heap,       \* the data and next fields of every node
          allocated,
          head,       \* the variable of main
          pc,
          call,       \* the function and its argument, or None
          temp,       \* insert: the new node; deletenode: temp
          current,    \* insert: temp1; sort: current
          prev, rptr, swapped,
          before      \* history: the list when the call was made

locals == <<temp, current, prev, rptr, swapped>>
vars == <<heap, allocated, head, pc, call, locals, before>>

Pointers == Nodes \cup {NULL}
Fields == [data : Data \cup {Garbage}, next : Nodes \cup {NULL, Garbage}]

TypeOK == /\ heap \in [Nodes -> Fields]
          /\ allocated \subseteq Nodes
          /\ head \in Pointers
          /\ pc \in {"idle", "enter", "walk", "heads", "search", "pass"}
          /\ call \in Calls \cup {None}
          /\ {temp, current, prev, rptr} \subseteq Pointers
          /\ swapped \in BOOLEAN
          /\ before \in Seq(Data)
-----------------------------------------------------------------------------
\* s is the sequence of nodes from head to the one whose next is NULL.
IsSpine(s) ==
    /\ head = (IF s = <<>> THEN NULL ELSE s[1])
    /\ \A i \in DOMAIN s : /\ s[i] \in allocated
                           /\ heap[s[i]].data \in Data
                           /\ heap[s[i]].next = IF i = Len(s) THEN NULL ELSE s[i + 1]

NodeSeqs == UNION {[1 .. n -> Nodes] : n \in 0 .. Cardinality(Nodes)}

WellFormed == \E s \in NodeSeqs : IsSpine(s)
Spine == CHOOSE s \in NodeSeqs : IsSpine(s)

\* What printlist prints.
Contents == [i \in DOMAIN Spine |-> heap[Spine[i]].data]

\* The heap h after free(p).
Free(p, h) == [h EXCEPT ![p] = [data |-> Garbage, next |-> Garbage]]

\* A node whose fields may be read or written.
Valid(p) == p \in allocated

Return == /\ pc' = "idle"
          /\ call' = None
          /\ before' = <<>>
          /\ temp' = NULL /\ current' = NULL /\ prev' = NULL /\ rptr' = NULL
          /\ swapped' = FALSE
-----------------------------------------------------------------------------
Init == /\ heap = [p \in Nodes |-> [data |-> Garbage, next |-> Garbage]]
        /\ allocated = {}
        /\ head = NULL
        /\ pc = "idle"
        /\ call = None
        /\ temp = NULL /\ current = NULL /\ prev = NULL /\ rptr = NULL
        /\ swapped = FALSE
        /\ before = <<>>

\* main calls a function.  The sort of PS_3.c is only called on a list with
\* nodes in it, and malloc does not fail.
Call(c) == /\ pc = "idle"
           /\ c[1] = "insert" => allocated # Nodes
           /\ c[1] = "sort" => head # NULL
           /\ pc' = "enter"
           /\ call' = c
           /\ before' = Contents
           /\ UNCHANGED <<heap, allocated, head, locals>>
-----------------------------------------------------------------------------
\* malloc and the first test of insert.
InsertStarts == /\ pc = "enter" /\ call[1] = "insert"
          /\ \E p \in Nodes \ allocated :
                /\ allocated' = allocated \cup {p}
                /\ heap' = [heap EXCEPT ![p] = [data |-> call[2], next |-> NULL]]
                /\ \/ /\ head = NULL
                      /\ head' = p
                      /\ Return
                   \/ /\ head # NULL
                      /\ temp' = p
                      /\ current' = head
                      /\ pc' = "walk"
                      /\ UNCHANGED <<head, call, prev, rptr, swapped, before>>

Walk == /\ pc = "walk" /\ Valid(current)
        /\ heap[current].next # NULL
        /\ current' = heap[current].next
        /\ UNCHANGED <<heap, allocated, head, pc, call, temp, prev, rptr, swapped, before>>

Link == /\ pc = "walk" /\ Valid(current)
        /\ heap[current].next = NULL
        /\ heap' = [heap EXCEPT ![current].next = temp]
        /\ Return
        /\ UNCHANGED <<allocated, head>>
-----------------------------------------------------------------------------
Delete == /\ pc = "enter" /\ call[1] = "deletenode"
          /\ temp' = head
          /\ pc' = "heads"
          /\ UNCHANGED <<heap, allocated, head, call, current, prev, rptr, swapped, before>>

\* A mutant: "if" for "while".
DropHeadOnce == /\ pc = "heads" /\ Valid(temp)
                /\ heap[temp].data = call[2]
                /\ head' = heap[temp].next
                /\ heap' = Free(temp, heap)
                /\ allocated' = allocated \ {temp}
                /\ temp' = head'
                /\ pc' = "search"
                /\ UNCHANGED <<call, current, prev, rptr, swapped, before>>

\* The first loop: the head holds the key.
DropHead == /\ pc = "heads" /\ Valid(temp)
            /\ heap[temp].data = call[2]
            /\ head' = heap[temp].next
            /\ heap' = Free(temp, heap)
            /\ allocated' = allocated \ {temp}
            /\ temp' = head'
            /\ UNCHANGED <<pc, call, current, prev, rptr, swapped, before>>

HeadsDone == /\ pc = "heads"
             /\ \/ temp = NULL
                \/ Valid(temp) /\ heap[temp].data # call[2]
             /\ pc' = "search"
             /\ UNCHANGED <<heap, allocated, head, call, locals, before>>

Skip == /\ pc = "search" /\ Valid(temp)
        /\ heap[temp].data # call[2]
        /\ prev' = temp
        /\ temp' = heap[temp].next
        /\ UNCHANGED <<heap, allocated, head, pc, call, current, rptr, swapped, before>>

\* A mutant: the node is not freed.
UnlinkOnly == /\ pc = "search" /\ Valid(temp) /\ Valid(prev)
              /\ heap[temp].data = call[2]
              /\ heap' = [heap EXCEPT ![prev].next = heap[temp].next]
              /\ temp' = heap'[prev].next
              /\ UNCHANGED <<allocated, head, pc, call, current, prev, rptr, swapped, before>>

Unlink == /\ pc = "search" /\ Valid(temp) /\ Valid(prev)
          /\ heap[temp].data = call[2]
          /\ heap' = Free(temp, [heap EXCEPT ![prev].next = heap[temp].next])
          /\ allocated' = allocated \ {temp}
          /\ temp' = heap'[prev].next
          /\ UNCHANGED <<head, pc, call, current, prev, rptr, swapped, before>>

DeleteReturns == /\ pc = "search"
                 /\ temp = NULL
                 /\ Return
                 /\ UNCHANGED <<heap, allocated, head>>
-----------------------------------------------------------------------------
Sort == /\ pc = "enter" /\ call[1] = "sort"
        /\ current' = head
        /\ rptr' = NULL
        /\ swapped' = FALSE
        /\ pc' = "pass"
        /\ UNCHANGED <<heap, allocated, head, call, temp, prev, before>>

\* One turn of the inner loop: compare two neighbours, swap their data.
Compare ==
    /\ pc = "pass" /\ Valid(current)
    /\ LET next == heap[current].next
           wrong == heap[current].data > heap[next].data
       IN  /\ next # rptr /\ Valid(next)
           /\ heap' = IF wrong
                      THEN [heap EXCEPT ![current].data = heap[next].data,
                                        ![next].data = heap[current].data]
                      ELSE heap
           /\ swapped' = (swapped \/ wrong)
           /\ current' = next
    /\ UNCHANGED <<allocated, head, pc, call, temp, prev, rptr, before>>

PassEnds == /\ pc = "pass" /\ Valid(current)
            /\ heap[current].next = rptr
            /\ \/ /\ swapped
                  /\ rptr' = current
                  /\ swapped' = FALSE
                  /\ current' = head
                  /\ UNCHANGED <<pc, call, temp, prev, before>>
               \/ ~swapped /\ Return
            /\ UNCHANGED <<heap, allocated, head>>

Step == \/ InsertStarts \/ Walk \/ Link
        \/ Delete \/ DropHead \/ HeadsDone \/ Skip \/ Unlink \/ DeleteReturns
        \/ Sort \/ Compare \/ PassEnds

Next == (\E c \in Calls : Call(c)) \/ Step

Spec == Init /\ [][Next]_vars

\* Sequential code goes on while it can.
FairSpec == Spec /\ WF_vars(Step)
-----------------------------------------------------------------------------
\* No node is leaked and none is used after it was freed: between two calls
\* the nodes from head on are exactly the allocated ones, each once, and they
\* end in NULL (mylist.c lines 36-38 and 56-61).
NothingLeaks ==
    pc = "idle" => /\ WellFormed
                   /\ {Spine[i] : i \in DOMAIN Spine} = allocated
                   /\ Len(Spine) = Cardinality(allocated)

\* The functions implement AbstractList: insert appends, deletenode removes all
\* copies of the key and nothing else, also at the head, at the end and in
\* runs, and sort returns the same numbers in order.  And every call returns:
\* no loop runs for ever, falls off the end of the list or meets a pointer that
\* is not initialised or was freed; prev is set before line 56 of mylist.c uses
\* it, and rptr never stands on the head with swapped set (mylist.c lines 3-63,
\* PS_3.c lines 58-75).
Abstract == INSTANCE AbstractList
               WITH list <- IF pc = "idle" THEN Contents ELSE before
IsList == Abstract!FairListSpec
=============================================================================
