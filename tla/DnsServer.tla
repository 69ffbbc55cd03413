----------------------------- MODULE DnsServer -----------------------------
(***************************************************************************)
(* The DNS forwarder: clients send queries to udpSocket, libevent calls    *)
(* on_recv for one datagram at a time, and on_recv blocks until the        *)
(* upstream server has answered on a socket opened for this query, or 5    *)
(* seconds are over.  Clients, network, upstream server and libevent are   *)
(* external: queries and answers are delayed, lost, repeated and overtaken *)
(* and a client asks again when it gets no answer.                         *)
(*                                                                         *)
(* A message keeps the header fields the code copies or tests, its         *)
(* question, and the number of records that follow it.  nBytes is unsigned *)
(* with IntBits bits, in which the -1 of a failed recvfrom is a length.    *)
(***************************************************************************)
EXTENDS DnsName, Integers

CONSTANTS Clients,
          Questions,       \* what clients ask: records of tid, qname and qtype
          MaxSends,        \* bound: queries sent, retries included, and socket errors
          QueueLen,        \* bound: datagrams the kernel keeps for udpSocket
          Ports,           \* the ports the kernel gives to gdnssocket, numbers
          OptionsMayFail,  \* may socket, setsockopt or sendto fail?
          NoOne,           \* no client; a closed socket
          PointerSize,     \* sizeof(dns): the bytes of the header that are copied
          IntBits          \* the width of nBytes

\* The longest datagram sendto accepts on a UDP socket.
MaxDatagram == 65507

ASSUME WidthAssumption == IntBits \in Nat /\ 2^IntBits - 1 > MaxDatagram
ASSUME NoOneAssumption == NoOne \notin Clients \cup Ports
\* A name with both dots and its terminator fits in domain_name (MAX_NAME_LEN).
ASSUME QuestionsAssumption ==
    \A q \in Questions : IsName(q.qname) /\ Len(q.qname) + 2 <= 256
ASSUME BoundsAssumption == {MaxSends, QueueLen, PointerSize} \subseteq Nat
ASSUME FlagAssumption == OptionsMayFail \in BOOLEAN

VARIABLES sends,           \* how many queries the clients have sent
          inq,             \* datagrams waiting at udpSocket
          pc,              \* where on_recv is
          client,          \* serverStorage: the client being served
          query,           \* its datagram, as it arrived
          buffer, nBytes,  \* the buffer on_recv works on
          so_error,        \* an error of udpSocket waits to be reported
          buffers,         \* buffers on_recv has allocated and not freed
          headers,         \* client_dns_req's allocated and not freed
          gdnssocket,      \* the socket to the upstream server
          port,            \* the port it is bound to by sendto, NoOne: none
          reused,          \* a port has been given again with an answer to it due
          broken,          \* forwards that failed before the header was freed
          upstream,        \* queries under way to the upstream server
          answers,         \* answers under way back
          reply            \* the last datagram udpSocket has sent

request == <<client, query, buffer, nBytes>>
owned == <<buffers, headers, gdnssocket, broken>>
network == <<port, reused, upstream, answers>>
vars == <<sends, inq, so_error, pc, request, owned, network, reply>>

\* A query as a client sends it: one question, and behind it the one EDNS
\* record dig adds.
Query(q) == [tid |-> q.tid, qr |-> 0, q_count |-> 1, ans_count |-> 0, add_count |-> 1,
             qname |-> q.qname, qtype |-> q.qtype, records |-> 1]

NoMessage == [tid |-> <<0, 0>>, qr |-> 0, q_count |-> 0, ans_count |-> 0,
              add_count |-> 0, qname |-> <<>>, qtype |-> 0, records |-> 0]
NoReply == [to |-> NoOne, query |-> NoMessage, msg |-> NoMessage]

TypeOK == /\ sends \in 0 .. MaxSends
          /\ Len(inq) <= QueueLen
          /\ \A k \in DOMAIN inq : inq[k].from \in Clients
          /\ so_error \in BOOLEAN
          /\ pc \in {"dispatch", "verify", "forward", "options", "send", "await", "reply"}
          /\ client \in Clients \cup {NoOne}
          /\ nBytes \in 0 .. 2^IntBits - 1
          /\ {buffers, headers, broken} \subseteq Nat
          /\ gdnssocket \in {"closed", "open"}
          /\ port \in Ports \cup {NoOne}
          /\ reused \in BOOLEAN
          /\ \A m \in upstream \cup answers : m.port \in Ports

Init == /\ sends = 0
        /\ inq = <<>>
        /\ pc = "dispatch"
        /\ client = NoOne
        /\ query = NoMessage
        /\ buffer = NoMessage
        /\ nBytes = 0
        /\ so_error = FALSE
        /\ buffers = 0
        /\ headers = 0
        /\ broken = 0
        /\ gdnssocket = "closed"
        /\ port = NoOne
        /\ reused = FALSE
        /\ upstream = {}
        /\ answers = {}
        /\ reply = NoReply
-----------------------------------------------------------------------------
\* The length of a message; a record of the kind that is counted takes 16 bytes.
Size(m) == HeaderLen + Len(m.qname) + 1 + QuestionLen + 16 * m.records

\* The names of the questions, dotted by read_and_print_dns_header, and those
\* converted by the two calls in send_data_to_dns, the second on the host the
\* first one leaves: tables, as the names are few.
DottedName == [n \in {q.qname : q \in Questions} |-> ToDotted(n)]
Converted == [h \in {ToDotted(q.qname) : q \in Questions} |->
                 ChangetoDnsNameFormat(ChangetoDnsNameFormat(h).host)]

\* Only questions of type A pass; every qname here is terminated.
verify_dns_buffer(m) == m.qtype = T_A

\* buffer[nBytes + 1] = 0: the index is computed in unsigned arithmetic, and
\* index 0 is the first byte of the transaction id.
Terminate(m, n) == IF (n + 1) % 2^IntBits = 0 THEN [m EXCEPT !.tid[1] = 0] ELSE m

\* What on_recv does up to verify_dns_buffer, whatever recvfrom returned: n < 0
\* is never true of an unsigned n.
TakeUp(m, n) ==
    /\ pc = "dispatch"
    /\ buffers' = buffers + 1
    /\ query' = m
    /\ buffer' = Terminate(m, n)
    /\ nBytes' = n
    /\ pc' = "verify"
    /\ UNCHANGED <<sends, headers, gdnssocket, broken, network, reply>>

Receive == /\ inq # <<>>
           /\ ~so_error
           /\ inq' = Tail(inq)
           /\ client' = Head(inq).from
           /\ TakeUp(Head(inq).msg, Size(Head(inq).msg))
           /\ UNCHANGED so_error

\* recvfrom reports an error.  serverStorage is what an earlier call has left on
\* the stack.  Of the new buffer 8 bytes are cleared (sizeof(buffer)), and glibc
\* clears the 8 bytes that follow when it hands out a chunk again (2.29 and
\* later): up to the type of the question after an empty name it is all 0.
RecvFails == /\ so_error
             /\ so_error' = FALSE
             /\ TakeUp(NoMessage, (-1) % 2^IntBits)
             /\ UNCHANGED <<inq, client>>

\* on_recv frees its buffer and returns to libevent.
Return == /\ buffers' = buffers - 1
          /\ pc' = "dispatch"

Ignore == /\ pc = "verify"
          /\ ~verify_dns_buffer(buffer)
          /\ Return
          /\ UNCHANGED <<sends, inq, so_error, request, headers, gdnssocket, broken,
                         network, reply>>

\* The name in the buffer becomes the dotted one.
Accept == /\ pc = "verify"
          /\ verify_dns_buffer(buffer)
          /\ buffer' = [buffer EXCEPT !.qname = DottedName[@]]
          /\ pc' = "forward"
          /\ UNCHANGED <<sends, inq, so_error, client, query, nBytes, owned, network, reply>>

\* A mutant: the whole header is copied, sizeof(struct DNS_HEADER) bytes of it.
ForwardedWhole(m) ==
    LET name  == Converted[m.qname]
        qname == CString(name.dns)
    IN  [tid |-> m.tid, qr |-> m.qr, q_count |-> m.q_count,
         ans_count |-> m.ans_count, add_count |-> m.add_count,
         qname |-> qname, qtype |-> T_A, records |-> 0]

\* The request for the upstream server: of the header only the first
\* PointerSize bytes are copied, the rest is 0; the name is converted twice
\* and the length of the converted host says where the question is stored.
Forwarded(m) ==
    LET name  == Converted[m.qname]
        qname == CString(name.dns)
        Copied(field, end) == IF end <= PointerSize THEN field ELSE 0
    IN  [tid |-> m.tid, qr |-> m.qr,
         q_count   |-> Copied(m.q_count, 6),
         ans_count |-> Copied(m.ans_count, 8),
         add_count |-> Copied(m.add_count, 12),
         qname |-> qname,
         qtype |-> IF Len(name.host) = Len(qname) + 1 THEN T_A ELSE 0,
         records |-> 0]

FreePorts == Ports \ {m.port : m \in upstream \cup answers}

\* The kernel picks a port for gdnssocket: a free one (which one does not matter),
\* or one to which an answer is still due.
PortChoices == {p \in FreePorts : \A q \in FreePorts : p <= q} \cup (Ports \ FreePorts)

\* Step 2: the header is copied and gdnssocket opened; socket may fail.
OpenSocket == /\ pc = "forward"
              /\ headers' = headers + 1
              /\ gdnssocket' \in {"open"} \cup (IF OptionsMayFail THEN {"closed"} ELSE {})
              /\ pc' = "options"
              /\ UNCHANGED <<sends, inq, so_error, request, buffers, broken, network, reply>>

\* A mutant: gdnssocket is not closed when an option cannot be set.
OptionFailsOpen == /\ OptionsMayFail
                   /\ pc = "options"
                   /\ broken' = broken + 1
                   /\ Return
                   /\ UNCHANGED <<sends, inq, so_error, request, headers, gdnssocket,
                                  network, reply>>

\* A setsockopt fails, as it does when there is no socket: gdnssocket is closed
\* and client_dns_req is not freed.
OptionFails == /\ OptionsMayFail
               /\ pc = "options"
               /\ broken' = broken + 1
               /\ gdnssocket' = "closed"
               /\ Return
               /\ UNCHANGED <<sends, inq, so_error, request, headers, network, reply>>

BuildRequest == /\ pc = "options"
                /\ gdnssocket = "open"
                /\ buffer' = Forwarded(buffer)
                /\ headers' = headers - 1
                /\ pc' = "send"
                /\ UNCHANGED <<sends, inq, so_error, client, query, nBytes, buffers,
                               gdnssocket, broken, network, reply>>

SendRequest == /\ pc = "send"
               /\ \E p \in PortChoices :
                     /\ port' = p
                     /\ reused' = (reused \/ p \notin FreePorts)
                     /\ upstream' = upstream \cup {[port |-> p, msg |-> buffer]}
               /\ pc' = "await"
               /\ UNCHANGED <<sends, inq, so_error, request, owned, answers, reply>>

SendFails == /\ OptionsMayFail
             /\ pc = "send"
             /\ gdnssocket' = "closed"
             /\ Return
             /\ UNCHANGED <<sends, inq, so_error, request, headers, broken, network, reply>>

\* What follows recvfrom in send_data_to_dns, whatever recvfrom returned.
Received(m, n) ==
    /\ nBytes' = n
    /\ buffer' = Terminate(m, n)
    /\ gdnssocket' = "closed"
    /\ port' = NoOne
    /\ IF verify_dns_buffer(m) THEN pc' = "reply" /\ UNCHANGED buffers ELSE Return
    /\ UNCHANGED <<sends, inq, so_error, client, query, headers, broken, upstream,
                   reused, reply>>

\* A mutant: one socket is kept for all queries, so that any answer is read.
AnsweredAny == /\ pc = "await"
               /\ \E a \in answers : /\ answers' = answers \ {a}
                                     /\ Received(a.msg, Size(a.msg))

Answered == /\ pc = "await"
            /\ \E a \in answers : /\ a.port = port
                                  /\ answers' = answers \ {a}
                                  /\ Received(a.msg, Size(a.msg))

\* A mutant: nBytes is only assigned when recvfrom succeeds.
TimedOutKeepsLength == /\ pc = "await"
                       /\ Received(buffer, nBytes)
                       /\ UNCHANGED answers

\* A mutant: gdnssocket has no receive timeout.
TimedOutNever == FALSE /\ UNCHANGED vars

\* SO_RCVTIMEO has passed: recvfrom returns -1 and the buffer holds the request.
TimedOut == /\ pc = "await"
            /\ Received(buffer, (-1) % 2^IntBits)
            /\ UNCHANGED answers

\* Step 3: the buffer goes to the client, unless it is too long for a datagram.
Reply == /\ pc = "reply"
         /\ reply' = IF nBytes > MaxDatagram THEN reply
                     ELSE [to |-> client, query |-> query, msg |-> buffer]
         /\ Return
         /\ UNCHANGED <<sends, inq, so_error, request, headers, gdnssocket, broken, network>>

ServerNext == \/ Receive \/ RecvFails \/ Ignore \/ Accept
              \/ OpenSocket \/ OptionFails \/ BuildRequest \/ SendRequest \/ SendFails
              \/ Answered \/ TimedOut \/ Reply
-----------------------------------------------------------------------------
\* A client sends a query, or repeats one; the kernel drops it when udpSocket
\* has no room for it.
Send(c) == /\ sends < MaxSends
           /\ sends' = sends + 1
           /\ \E q \in Questions :
                 inq' = IF Len(inq) < QueueLen
                        THEN Append(inq, [from |-> c, msg |-> Query(q)]) ELSE inq
           /\ UNCHANGED <<so_error, pc, request, owned, network, reply>>

\* The kernel has an error for udpSocket; it is reported before any datagram.
SocketError == /\ sends < MaxSends
               /\ sends' = sends + 1
               /\ so_error' = TRUE
               /\ UNCHANGED <<inq, pc, request, owned, network, reply>>

\* The upstream server answers a query, once or again.  (The code does not look
\* at the sender of an answer; other senders are not modelled.)
UpstreamAnswers ==
    /\ \E u \in upstream :
          answers' = answers \cup
             {[port |-> u.port,
               msg |-> [u.msg EXCEPT !.qr = 1, !.ans_count = 1, !.records = 1]]}
    /\ UNCHANGED <<sends, inq, so_error, pc, request, owned, port, reused, upstream, reply>>

\* A query or an answer leaves the network, delivered or not.
Lose == /\ \E m \in upstream \cup answers : /\ upstream' = upstream \ {m}
                                            /\ answers' = answers \ {m}
        /\ UNCHANGED <<sends, inq, so_error, pc, request, owned, port, reused, reply>>

Next == \/ ServerNext
        \/ \E c \in Clients : Send(c)
        \/ SocketError \/ UpstreamAnswers \/ Lose

Spec == Init /\ [][Next]_vars

\* The process runs, and the receive timeout comes to pass.  Nothing is assumed
\* of clients, network and upstream server.
FairSpec == Spec /\ WF_vars(ServerNext)
-----------------------------------------------------------------------------
\* A client is sent the answer to its own query, late, lost and repeated answers
\* to earlier queries notwithstanding (server.c 157-183, utils.c 202-280).  The
\* code compares no transaction id: it holds until a port is given again while
\* an answer to it is under way.
AnswersOwnQuery ==
    ~reused /\ reply.to # NoOne => /\ reply.msg.tid = reply.query.tid
                                   /\ reply.msg.qname = reply.query.qname

\* No client is ever sent its own query back, although a timeout is handled as
\* if it were an answer (utils.c 261-280, server.c 180).
SendsOnlyAnswers == reply.to # NoOne => reply.msg.qr = 1

\* The upstream server is asked what the client asked, in a message whose
\* counts agree with what it carries: the record behind the client's question
\* is dropped, and its count with it (utils.c 234-255).
ForwardsQuestion ==
    pc = "await" => /\ buffer.tid = query.tid
                    /\ buffer.qname = query.qname
                    /\ buffer.qtype = query.qtype
                    /\ buffer.q_count = 1
                    /\ buffer.ans_count + buffer.add_count = buffer.records

\* Whatever fails on the way, gdnssocket is closed and the buffer freed when
\* on_recv returns (server.c 107-186, utils.c 198-280); and the copy of the
\* header is freed unless an option could not be set (utils.c 208-224).
Released == pc = "dispatch" => /\ gdnssocket = "closed" /\ port = NoOne
                               /\ buffers = 0
                               /\ headers = broken

\* The one thread of the server never waits for ever (utils.c 217-219), whatever
\* the upstream server does: a queued query is taken up, repeated ones and those
\* of the client served last too, and on_recv returns.
ServesAll == /\ inq # <<>> ~> pc = "verify" /\ query # NoMessage
             /\ pc # "dispatch" ~> pc = "dispatch"
=============================================================================
