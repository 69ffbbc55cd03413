------------------------------- MODULE Ping6 -------------------------------
(***************************************************************************)
(* ping6_ll.c: an echo request is sent as an Ethernet frame and every      *)
(* frame the interface sees is read until one is an echo reply, or         *)
(* recvfrom has waited `timeout' seconds; after trylim timeouts the        *)
(* program gives up.  All requests are the same frame: identifier 1000,    *)
(* sequence number 0, so that replies to different tries are alike.        *)
(*                                                                         *)
(* Time is counted in seconds, and only while recvfrom blocks.  The other  *)
(* hosts on the network are external: a reply comes at any time or never,  *)
(* and any other frame may come at any time.                               *)
(***************************************************************************)
EXTENDS Naturals

CONSTANTS trylim,     \* 3 in the code
          timeout,    \* 2 in the code
          MaxAge,     \* bound: no time above it is told from it
          Failures    \* may a call of the system fail?

ASSUME LimitsAssumption == {trylim, timeout} \subseteq Nat \ {0}
ASSUME AgeAssumption == MaxAge \in Nat /\ MaxAge >= trylim * timeout
ASSUME FlagAssumption == Failures \in BOOLEAN

Tries == 1 .. trylim

VARIABLES pc,        \* where the program is
          trycount,
          sent,      \* requests sent so far
          age,       \* how long ago each was sent
          waited,    \* how long the current recvfrom has waited
          dt,        \* the time that is reported with a reply
          took,      \* the time this reply really took, since its own request
          foreign    \* the reply was to another program's request

vars == <<pc, trycount, sent, age, waited, dt, took, foreign>>

SettingUp == {"allocate", "lookup", "resolve", "build"}
Ended == {"replied", "gave_up", "failed"}

TypeOK == /\ pc \in SettingUp \cup {"send", "recv"} \cup Ended
          /\ trycount \in 0 .. trylim
          /\ sent \in 0 .. trylim
          /\ age \in [Tries -> 0 .. MaxAge]
          /\ waited \in 0 .. timeout
          /\ dt \in 0 .. MaxAge
          /\ took \in 0 .. MaxAge
          /\ foreign \in BOOLEAN

Init == /\ pc = "allocate"
        /\ trycount = 0
        /\ sent = 0
        /\ age = [k \in Tries |-> 0]
        /\ waited = 0
        /\ dt = 0
        /\ took = 0
        /\ foreign = FALSE
-----------------------------------------------------------------------------
\* The buffers.
Allocate == /\ pc = "allocate"
            /\ pc' = "lookup"
            /\ UNCHANGED <<trycount, sent, age, waited, dt, took, foreign>>

\* sendsd, the addresses of the frame and the index of the interface.
FindInterface == /\ pc = "lookup"
                 /\ pc' = "resolve"
                 /\ UNCHANGED <<trycount, sent, age, waited, dt, took, foreign>>

\* The address of the target.
Resolve == /\ pc = "resolve"
           /\ pc' = "build"
           /\ UNCHANGED <<trycount, sent, age, waited, dt, took, foreign>>

\* The headers with the checksum, the frame, recvsd, and the tries at zero.
BuildFrame == /\ pc = "build"
              /\ trycount' = 0
              /\ pc' = "send"
              /\ UNCHANGED <<sent, age, waited, dt, took, foreign>>

SetUp == Allocate \/ FindInterface \/ Resolve \/ BuildFrame

\* sendto, the start of the timer and setsockopt.
Send == /\ pc = "send"
        /\ sent' = sent + 1
        /\ age' = [age EXCEPT ![sent + 1] = 0]
        /\ waited' = 0
        /\ pc' = "recv"
        /\ UNCHANGED <<trycount, dt, took, foreign>>

\* A call fails: exit(EXIT_FAILURE).
Fail == /\ Failures
        /\ pc \in SettingUp \cup {"send", "recv"}
        /\ pc' = "failed"
        /\ UNCHANGED <<trycount, sent, age, waited, dt, took, foreign>>

\* A mutant: the timer is started before the first request only.
ReplySinceFirst(k) == /\ pc = "recv"
                      /\ k <= sent
                      /\ dt' = age[1]
                      /\ took' = age[k]
                      /\ pc' = "replied"
                      /\ UNCHANGED <<trycount, sent, age, waited, foreign>>

\* recvfrom returns an echo reply, to this try or to an earlier one.
Reply(k) == /\ pc = "recv"
            /\ k <= sent
            /\ dt' = age[sent]
            /\ took' = age[k]
            /\ pc' = "replied"
            /\ UNCHANGED <<trycount, sent, age, waited, foreign>>

\* recvfrom returns an echo reply to another program or host: neither the source
\* nor the identifier is compared.
ForeignReply == /\ pc = "recv"
                /\ dt' = age[sent]
                /\ foreign' = TRUE
                /\ pc' = "replied"
                /\ UNCHANGED <<trycount, sent, age, waited, took>>

\* recvfrom returns another frame, or EINTR: the loop calls it again, with the
\* whole timeout before it.
Again == /\ pc = "recv"
         /\ waited' = 0
         /\ UNCHANGED <<pc, trycount, sent, age, dt, took, foreign>>

\* A mutant: every frame that is no reply counts as a try, too.
NoReplyAtOnce == /\ pc = "recv"
                 /\ trycount' = trycount + 1
                 /\ pc' = IF trycount + 1 = trylim THEN "gave_up" ELSE "send"
                 /\ UNCHANGED <<sent, age, waited, dt, took, foreign>>

\* A mutant: recvsd has no receive timeout.
NoReplyNever == FALSE /\ UNCHANGED vars

\* recvfrom returns EAGAIN, and the send loop goes on or gives up.
NoReply == /\ pc = "recv"
           /\ waited = timeout
           /\ trycount' = trycount + 1
           /\ pc' = IF trycount + 1 = trylim THEN "gave_up" ELSE "send"
           /\ UNCHANGED <<sent, age, waited, dt, took, foreign>>

\* A second passes in recvfrom.
Tick == /\ pc = "recv"
        /\ waited < timeout
        /\ waited' = waited + 1
        /\ age' = [k \in Tries |-> IF k <= sent /\ age[k] < MaxAge THEN age[k] + 1 ELSE age[k]]
        /\ UNCHANGED <<pc, trycount, sent, dt, took, foreign>>

\* The program has returned or exited.
Over == pc \in Ended /\ UNCHANGED vars

Next == \/ SetUp \/ Send \/ Fail
        \/ (\E k \in Tries : Reply(k)) \/ ForeignReply \/ Again \/ NoReply
        \/ Tick \/ Over

Spec == Init /\ [][Next]_vars

\* The program runs, and time passes.
FairSpec == Spec /\ WF_vars(SetUp) /\ WF_vars(Send) /\ WF_vars(NoReply) /\ WF_vars(Tick)
-----------------------------------------------------------------------------
\* The program gives up only after trylim requests, each of which has had at
\* least its whole timeout to be answered (lines 271-273, 318-321, 358-361).
GivesUpLate == pc = "gave_up" => /\ sent = trylim
                                 /\ \A k \in Tries : age[k] >= timeout * (trylim - k + 1)

\* The time reported is at most the time our reply took (lines 293 and 335): a
\* late reply to an earlier try makes it too short, nothing makes it too long.
NeverTooLong == pc = "replied" /\ ~foreign => dt <= took

\* The program ends, unless frames that are no reply keep coming in time.
Ends == <>[][~Again]_vars => <>(pc \in Ended)
=============================================================================
