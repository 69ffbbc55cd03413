----------------------------- MODULE TurnTaking -----------------------------
(***************************************************************************)
(* What both "alternate print" programs promise, without a mutex, a        *)
(* condition variable or a program counter: two parties raise a counter    *)
(* by one, strictly in turn, from 0, and never above Top.                  *)
(***************************************************************************)
EXTENDS Naturals

CONSTANTS First, Second,   \* the two parties, in the order of their turns
          Top              \* the counter never exceeds Top

VARIABLES counter,         \* the shared counter
          last             \* who raised it last (Second before the start)

turnVars == <<counter, last>>

TurnInit == /\ counter = 0
            /\ last = Second

Take(p) == /\ last # p
           /\ counter < Top
           /\ counter' = counter + 1
           /\ last' = p

TurnNext == \E p \in {First, Second} : Take(p)

TurnSpec == TurnInit /\ [][TurnNext]_turnVars
=============================================================================
