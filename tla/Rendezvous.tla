----------------------------- MODULE Rendezvous -----------------------------
(***************************************************************************)
(* What the header of sem_problem.c promises: every party arrives at the   *)
(* meeting point once per round, and nobody leaves before all have met.    *)
(* It promises nothing after a disturbance.                                *)
(***************************************************************************)
CONSTANT Parties

VARIABLES arrived,    \* the parties that wait at the meeting point
          disturbed

meetVars == <<arrived, disturbed>>

MeetInit == arrived = {} /\ disturbed = FALSE

Arrive(p) == /\ ~disturbed
             /\ p \notin arrived
             /\ arrived' = arrived \cup {p}
             /\ UNCHANGED disturbed

Release == /\ ~disturbed
           /\ arrived = Parties
           /\ arrived' = {}
           /\ UNCHANGED disturbed

Disturb == disturbed' = TRUE /\ arrived' = {}

MeetNext == (\E p \in Parties : Arrive(p)) \/ Release \/ Disturb

MeetSpec == MeetInit /\ [][MeetNext]_meetVars
=============================================================================
