----------------------------- MODULE MyPingSync -----------------------------
(***************************************************************************)
(* myping_synchronous.c: the process pings once with nobody listening,     *)
(* forks a listener and pings again, PING_ATTEMPTS requests each time, one *)
(* second apart.  The listener opens a raw socket and reads PING_ATTEMPTS  *)
(* packets from it with no timeout, and the parent waits for it to exit.   *)
(*                                                                         *)
(* Every ICMP packet the host receives counts for the listener: replies    *)
(* to either round, the requests when the host pings itself, and what      *)
(* other programs cause.  What a packet holds decides only what is         *)
(* printed, as does the read from the sender's own socket: packets are     *)
(* counted.                                                                *)
(***************************************************************************)
EXTENDS Naturals, FiniteSets

CONSTANTS PING_ATTEMPTS,   \* 4 in the code
          MaxStrays        \* bound: packets other programs cause

ASSUME SizesAssumption == PING_ATTEMPTS \in Nat \ {0} /\ MaxStrays \in Nat

Seqs == 1 .. PING_ATTEMPTS

VARIABLES local,     \* the host pings itself
          parent,    \* where the parent is
          round,     \* its first or its second call of ping
          j,         \* the loop variable of ping
          child,     \* where the listener is
          i,         \* its loop variable: the packets read
          unread,    \* packets at its socket
          flight,    \* requests that are not answered yet
          strays,    \* packets of other programs so far
          missed     \* requests of the second round that the listener hears nothing of

parentVars == <<parent, round, j>>
childVars == <<child, i>>
vars == <<local, parentVars, childVars, unread, flight, strays, missed>>

TypeOK == /\ local \in BOOLEAN
          /\ parent \in {"ping", "send", "sleep", "fork", "wait", "exited"}
          /\ round \in {1, 2}
          /\ j \in 0 .. PING_ATTEMPTS
          /\ child \in {"unborn", "failed", "socket", "recv", "exited"}
          /\ i \in 0 .. PING_ATTEMPTS
          /\ unread \in Nat
          /\ flight \subseteq {1, 2} \X Seqs
          /\ strays \in 0 .. MaxStrays
          /\ missed \subseteq Seqs

Init == /\ local \in BOOLEAN
        /\ parent = "ping" /\ round = 1 /\ j = 0
        /\ child = "unborn" /\ i = 0
        /\ unread = 0
        /\ flight = {}
        /\ strays = 0
        /\ missed = {}

Listening == child = "recv"
Hear(n) == unread' = IF Listening THEN unread + n ELSE unread
-----------------------------------------------------------------------------
\* Where main goes on after ping: to fork, or to wait(0).
PingReturns == parent' = IF round = 1 THEN "fork" ELSE "wait"

\* The socket of ping; where there is none, ping returns.
OpenPing == /\ parent = "ping"
            /\ \/ /\ parent' = "send"
                  /\ UNCHANGED missed
               \/ /\ PingReturns
                  /\ missed' = IF round = 2 THEN Seqs ELSE missed
            /\ j' = 0
            /\ UNCHANGED <<local, round, childVars, unread, flight, strays>>

\* One turn of the loop in ping.  sendto may fail.  The sequence numbers start
\* at 1 in each round.
SendEcho == /\ parent = "send"
            /\ \/ /\ flight' = flight \cup {<<round, j + 1>>}
                  /\ Hear(IF local THEN 1 ELSE 0)
                  /\ UNCHANGED missed
               \/ /\ missed' = IF round = 2 THEN missed \cup {j + 1} ELSE missed
                  /\ UNCHANGED <<flight, unread>>
            /\ parent' = "sleep"
            /\ UNCHANGED <<local, round, j, childVars, strays>>

\* sleep(1) returns.
WakeUp == /\ parent = "sleep"
          /\ j' = j + 1
          /\ IF j + 1 < PING_ATTEMPTS THEN parent' = "send" ELSE PingReturns
          /\ UNCHANGED <<local, round, childVars, unread, flight, strays, missed>>

\* fork: if it fails, the parent pings all the same.
Fork == /\ parent = "fork"
        /\ child' \in {"socket", "failed"}
        /\ parent' = "ping"
        /\ round' = 2
        /\ UNCHANGED <<local, j, i, unread, flight, strays, missed>>

\* wait(0) returns when the listener has exited, or there is none.
WaitReturns == /\ parent = "wait"
               /\ child \in {"exited", "failed"}
               /\ parent' = "exited"
               /\ UNCHANGED <<local, round, j, childVars, unread, flight, strays, missed>>

ParentNext == OpenPing \/ SendEcho \/ WakeUp \/ Fork \/ WaitReturns
-----------------------------------------------------------------------------
\* The socket of listener, or exit.
OpenSocket == /\ child = "socket"
              /\ child' \in {"recv", "exited"}
              /\ UNCHANGED <<local, parentVars, i, unread, flight, strays, missed>>

\* A mutant: the loop makes one turn more.
ReadInclusive == /\ child = "recv"
                 /\ unread > 0
                 /\ unread' = unread - 1
                 /\ i' = i + 1
                 /\ child' = IF i + 1 <= PING_ATTEMPTS THEN "recv" ELSE "exited"
                 /\ UNCHANGED <<local, parentVars, flight, strays, missed>>

\* recvfrom returns a packet, for which it waits as long as it takes; display;
\* and exit after the last one.
Read == /\ child = "recv"
        /\ unread > 0
        /\ unread' = unread - 1
        /\ i' = i + 1
        /\ child' = IF i + 1 < PING_ATTEMPTS THEN "recv" ELSE "exited"
        /\ UNCHANGED <<local, parentVars, flight, strays, missed>>

ChildNext == OpenSocket \/ Read

\* recvfrom fails while it waits, which uses up a turn of the loop as well.
RecvFails == /\ child = "recv"
             /\ i' = i + 1
             /\ child' = IF i + 1 < PING_ATTEMPTS THEN "recv" ELSE "exited"
             /\ UNCHANGED <<local, parentVars, unread, flight, strays, missed>>
-----------------------------------------------------------------------------
\* The reply to request r comes, when somebody listens or nobody does; or the
\* request or the reply is lost.
Answered(r) ==
    /\ r \in flight
    /\ flight' = flight \ {r}
    /\ \/ Hear(1) /\ missed' = IF r[1] = 2 /\ ~Listening THEN missed \cup {r[2]} ELSE missed
       \/ UNCHANGED unread /\ missed' = IF r[1] = 2 THEN missed \cup {r[2]} ELSE missed
    /\ UNCHANGED <<local, parentVars, childVars, strays>>

\* Another program causes an ICMP packet.
Stray == /\ strays < MaxStrays
         /\ Listening
         /\ strays' = strays + 1
         /\ Hear(1)
         /\ UNCHANGED <<local, parentVars, childVars, flight, missed>>

Next == \/ ParentNext \/ ChildNext \/ RecvFails
        \/ \E r \in {1, 2} \X Seqs : Answered(r)
        \/ Stray

Spec == Init /\ [][Next]_vars

\* Both processes run when they can, a sleep ends, and every request is answered
\* or lost some time.
FairSpec == /\ Spec
            /\ WF_vars(ParentNext) /\ WF_vars(ChildNext)
            /\ \A r \in {1, 2} \X Seqs : WF_vars(Answered(r))
-----------------------------------------------------------------------------
\* The packets that have come to the listener, and the calls that failed.
Heard == i + unread

\* The program ends, unless fewer than PING_ATTEMPTS packets ever come to the
\* listener; and that takes a request of the second round that it hears nothing
\* of, because it was not sent, was lost, or was answered before the listener's
\* socket was open.  Then it waits for ever: nothing has a timeout (lines
\* 118-134, 160-181 and 204-210).
Ends == \/ <>(parent = "exited")
        \/ <>[](Heard < PING_ATTEMPTS /\ missed # {})
=============================================================================
