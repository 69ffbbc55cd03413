------------------------------- MODULE MyPing -------------------------------
(***************************************************************************)
(* myping.c: the parent sends PING_ATTEMPTS - 1 echo requests, one second  *)
(* apart, while the child, forked before, opens a raw ICMP socket, waits   *)
(* for it in libevent and then reads PING_ATTEMPTS - 1 packets from it,    *)
(* each within 5 seconds.  The two share nothing but the network.          *)
(*                                                                         *)
(* The raw socket is given every ICMP packet the host receives: replies to *)
(* the requests, the requests themselves when the host pings itself, and   *)
(* what other programs cause.  Time is counted in seconds and passes only  *)
(* when both processes are blocked.                                        *)
(***************************************************************************)
EXTENDS Naturals, Sequences, FiniteSets

CONSTANTS PING_ATTEMPTS,   \* 5 in the code
          Timeout,         \* 5 in the code: seconds of both timeouts
          Pids,            \* process ids the parent may have
          PidBits,         \* the width of the identifier in an ICMP header
          MaxLatency,      \* bound: seconds a reply is under way
          MaxStrays        \* bound: packets other programs cause

ASSUME SizesAssumption == /\ PING_ATTEMPTS \in Nat \ {0, 1}
                          /\ Timeout \in Nat \ {0}
                          /\ Pids \subseteq Nat
                          /\ PidBits \in Nat
                          /\ {MaxLatency, MaxStrays} \subseteq Nat

Seqs == 1 .. PING_ATTEMPTS - 1   \* the sequence numbers of the requests

VARIABLES pid,
          local,       \* the host pings itself
          parent,      \* where the parent is
          j,           \* its loop variable
          wake,        \* when its sleep ends
          child,       \* where the child is
          i,           \* the loop variable of listen_ev_thread
          due,         \* when the timeout of the child's wait ends
          clock,
          sentAt,      \* when request s was sent, for the replies under way
          queue,       \* packets at the child's socket
          arrived,     \* when reply s came to the child's socket, if it did
          strays,      \* packets of other programs so far
          shown,       \* own replies that display has named in an "ICMP:" line
          unreachable  \* the child has printed "Destination Host Unreachable"

vars == <<pid, local, parent, j, wake, child, i, due, clock, sentAt, queue, arrived, strays,
          shown, unreachable>>

Packet == [type : {"request", "reply", "stray"}, seq : 0 .. PING_ATTEMPTS - 1]

TypeOK == /\ pid \in Pids
          /\ local \in BOOLEAN
          /\ parent \in {"fork", "send", "sleep", "wait", "exited"}
          /\ j \in 1 .. PING_ATTEMPTS
          /\ wake \in Nat
          /\ child \in {"unborn", "failed", "socket", "dispatch", "recv", "exited"}
          /\ i \in 1 .. PING_ATTEMPTS
          /\ due \in Nat
          /\ clock \in Nat
          /\ \A s \in DOMAIN sentAt : s \in Seqs /\ sentAt[s] \in 0 .. clock
          /\ queue \in Seq(Packet)
          /\ \A s \in DOMAIN arrived : s \in Seqs /\ arrived[s] \in 0 .. clock
          /\ strays \in 0 .. MaxStrays
          /\ shown \subseteq Seqs
          /\ unreachable \in BOOLEAN

Init == /\ pid \in Pids
        /\ local \in BOOLEAN
        /\ parent = "fork"
        /\ j = 1
        /\ wake = 0
        /\ child = "unborn"
        /\ i = 1
        /\ due = 0
        /\ clock = 0
        /\ sentAt = <<>>
        /\ queue = <<>>
        /\ arrived = <<>>
        /\ strays = 0
        /\ shown = {}
        /\ unreachable = FALSE

parentVars == <<parent, j, wake>>
childVars == <<child, i, due, shown, unreachable>>
networkVars == <<sentAt, queue, arrived, strays>>

\* The child's socket exists, and packets are queued at it.
Listening == child \in {"dispatch", "recv"}
Stamp(f, s) == [x \in DOMAIN f \cup {s} |-> IF x = s THEN clock ELSE f[x]]
Enqueue(p) == queue' = IF Listening THEN Append(queue, p) ELSE queue
-----------------------------------------------------------------------------
\* fork: it may fail, and then the parent pings all the same.
Fork == /\ parent = "fork"
        /\ child' \in {"socket", "failed"}
        /\ parent' = "send"
        /\ UNCHANGED <<pid, local, j, wake, i, due, clock, shown, unreachable>>
        /\ UNCHANGED networkVars

\* socket fails in ping: it returns at once.
PingFails == /\ parent = "send"
             /\ j = 1
             /\ parent' = "wait"
             /\ UNCHANGED <<pid, local, j, wake, clock>>
             /\ UNCHANGED childVars
             /\ UNCHANGED networkVars

\* One turn of the loop in ping: sendto, then sleep.  sendto may fail; a request
\* to the host itself comes to the child's socket, too.
SendEcho == /\ parent = "send"
            /\ \/ /\ sentAt' = Stamp(sentAt, j)
                  /\ IF local THEN Enqueue([type |-> "request", seq |-> j])
                                    ELSE UNCHANGED queue
               \/ UNCHANGED <<sentAt, queue>>
            /\ wake' = clock + 1
            /\ parent' = "sleep"
            /\ UNCHANGED <<pid, local, j, clock, arrived, strays>>
            /\ UNCHANGED childVars

\* sleep(1) returns.
WakeUp == /\ parent = "sleep"
          /\ clock >= wake
          /\ j' = j + 1
          /\ parent' = IF j + 1 < PING_ATTEMPTS THEN "send" ELSE "wait"
          /\ UNCHANGED <<pid, local, wake, clock>>
          /\ UNCHANGED childVars
          /\ UNCHANGED networkVars

\* wait(0) returns when the child has exited, or there is none.
WaitReturns == /\ parent = "wait"
               /\ child \in {"exited", "failed"}
               /\ parent' = "exited"
               /\ UNCHANGED <<pid, local, j, wake, clock>>
               /\ UNCHANGED childVars
               /\ UNCHANGED networkVars

ParentNext == Fork \/ PingFails \/ SendEcho \/ WakeUp \/ WaitReturns
-----------------------------------------------------------------------------
\* A mutant: the timeout of the event is one second.
OpenSocketShort == /\ child = "socket"
                   /\ \/ /\ child' = "dispatch"
                         /\ due' = clock + 1
                      \/ child' = "exited" /\ UNCHANGED due
                   /\ UNCHANGED <<pid, local, i, clock, shown, unreachable>>
                   /\ UNCHANGED parentVars
                   /\ UNCHANGED networkVars

\* listener: the socket, its receive timeout and the event; or exit.
OpenSocket == /\ child = "socket"
              /\ \/ /\ child' = "dispatch"
                    /\ due' = clock + Timeout
                 \/ child' = "exited" /\ UNCHANGED due
              /\ UNCHANGED <<pid, local, i, clock, shown, unreachable>>
              /\ UNCHANGED parentVars
              /\ UNCHANGED networkVars

\* libevent calls listen_ev_thread because the timeout has passed; EV_READ may
\* be set as well.
TimeoutEvent == /\ child = "dispatch"
                /\ clock >= due
                /\ unreachable' = TRUE
                /\ child' = "exited"
                /\ UNCHANGED <<pid, local, i, due, clock, shown>>
                /\ UNCHANGED parentVars
                /\ UNCHANGED networkVars

\* libevent calls listen_ev_thread because the socket is readable.
ReadEvent == /\ child = "dispatch"
             /\ queue # <<>>
             /\ child' = "recv"
             /\ due' = clock + Timeout
             /\ UNCHANGED <<pid, local, i, clock, shown, unreachable>>
             /\ UNCHANGED parentVars
             /\ UNCHANGED networkVars

\* A mutant: the loop makes one turn less.
NextAttemptShort == /\ i' = i + 1
                    /\ child' = IF i + 2 < PING_ATTEMPTS THEN "recv" ELSE "exited"
                    /\ due' = clock + Timeout

\* The end of a turn of the loop: another recvfrom, or exit.
NextAttempt == /\ i' = i + 1
               /\ child' = IF i + 1 < PING_ATTEMPTS THEN "recv" ELSE "exited"
               /\ due' = clock + Timeout

\* The identifier of the requests, and of the replies to them: 16 bits of pid.
EchoId == pid % 2^PidBits

\* recvfrom returns a packet: display names it if it is a reply with this id.
Read == /\ child = "recv"
        /\ queue # <<>>
        /\ queue' = Tail(queue)
        /\ shown' = IF Head(queue).type = "reply" /\ EchoId = pid
                    THEN shown \cup {Head(queue).seq} ELSE shown
        /\ NextAttempt
        /\ UNCHANGED <<pid, local, clock, sentAt, arrived, strays, unreachable>>
        /\ UNCHANGED parentVars

\* A mutant: a recvfrom that times out does not count as a turn.
RecvTimesOutFree == /\ child = "recv"
                    /\ queue = <<>>
                    /\ clock >= due
                    /\ due' = clock + Timeout
                    /\ UNCHANGED <<pid, local, child, i, clock, shown, unreachable>>
                    /\ UNCHANGED parentVars
                    /\ UNCHANGED networkVars

\* recvfrom returns -1: the cleared buffer passes for an echo reply (type 0),
\* and is not displayed because bytes is negative.
RecvTimesOut == /\ child = "recv"
                /\ queue = <<>>
                /\ clock >= due
                /\ NextAttempt
                /\ UNCHANGED <<pid, local, clock, shown, unreachable>>
                /\ UNCHANGED parentVars
                /\ UNCHANGED networkVars

ChildNext == OpenSocket \/ TimeoutEvent \/ ReadEvent \/ Read \/ RecvTimesOut
-----------------------------------------------------------------------------
\* A reply comes in time; one that does not is lost.
Arrive(s) == /\ s \in DOMAIN sentAt
             /\ clock <= sentAt[s] + MaxLatency
             /\ sentAt' = [x \in DOMAIN sentAt \ {s} |-> sentAt[x]]
             /\ Enqueue([type |-> "reply", seq |-> s])
             /\ arrived' = IF Listening THEN Stamp(arrived, s) ELSE arrived
             /\ UNCHANGED <<pid, local, clock, strays>>
             /\ UNCHANGED parentVars
             /\ UNCHANGED childVars

\* Another program causes an ICMP packet, of any type and with another id.
Stray == /\ strays < MaxStrays
         /\ Listening
         /\ strays' = strays + 1
         /\ Enqueue([type |-> "stray", seq |-> 0])
         /\ UNCHANGED <<pid, local, clock, sentAt, arrived>>
         /\ UNCHANGED parentVars
         /\ UNCHANGED childVars

ParentBlocked == \/ parent = "sleep" /\ clock < wake
                 \/ parent = "wait" /\ child \notin {"exited", "failed"}
ChildBlocked == \/ child \in {"exited", "failed"}
                \/ Listening /\ queue = <<>> /\ clock < due

\* A second passes.
Tick == /\ ParentBlocked
        /\ ChildBlocked
        /\ clock' = clock + 1
        /\ UNCHANGED <<pid, local>>
        /\ UNCHANGED parentVars
        /\ UNCHANGED childVars
        /\ UNCHANGED networkVars

Over == parent = "exited" /\ UNCHANGED vars

Next == \/ ParentNext \/ ChildNext
        \/ (\E s \in Seqs : Arrive(s)) \/ Stray
        \/ Tick \/ Over

Spec == Init /\ [][Next]_vars
-----------------------------------------------------------------------------
\* The program ends within the timeout of the event and one timeout for each
\* packet that is read, whatever arrives and whatever does not (lines 137-161,
\* 182-193 and 273).
EndsInTime == parent # "exited" => clock <= Timeout * PING_ATTEMPTS

\* "Destination Host Unreachable" is only printed when no reply has come in the
\* first Timeout seconds (lines 137-141 and 193).
UnreachableAfterSilence ==
    unreachable => \A s \in DOMAIN arrived : arrived[s] >= Timeout

\* Every reply that reaches the socket is displayed, unless other packets use up
\* the turns of the loop, the replies are so late that timeouts do, or the
\* process id does not fit the header (lines 122, 144-160 and 228).
NoReplyMissed ==
    /\ child = "exited"
    /\ ~unreachable
    /\ ~local /\ strays = 0
    /\ MaxLatency + 2 <= Timeout
    /\ pid < 2^PidBits
    => shown = DOMAIN arrived
=============================================================================
