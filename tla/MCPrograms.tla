------------------------------ MODULE MCPrograms ------------------------------
(***************************************************************************)
(* The sequential programs of the repository for TLC: one of them is run,  *)
(* the state of the others stays as it is.                                 *)
(***************************************************************************)
EXTENDS LinkedList, Trees, TextPrograms

VARIABLE program      \* which kind of program is run

MCNumbers == {-2, -1, 1, 3}
MCIntMin == -100

allVars == <<vars, treeVars, input, program>>

ProgramsInit == /\ program \in {"list", "tree", "input"}
                /\ Init /\ TreeInit /\ InputInit
                /\ program # "tree" => built = "insert"

ListStep == program = "list" /\ Step /\ UNCHANGED <<treeVars, input, program>>

ProgramsNext ==
    \/ /\ program = "list"
       /\ \E c \in Calls : Call(c)
       /\ UNCHANGED <<treeVars, input, program>>
    \/ ListStep
    \/ program = "tree" /\ TreeNext /\ UNCHANGED <<vars, input, program>>
    \/ program = "input" /\ InputNext /\ UNCHANGED <<vars, treeVars, program>>

ProgramsSpec == ProgramsInit /\ [][ProgramsNext]_allVars /\ WF_allVars(ListStep)
=============================================================================
