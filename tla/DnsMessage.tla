----------------------------- MODULE DnsMessage -----------------------------
(***************************************************************************)
(* Messages for the conversions of DnsName: a question and its answers are *)
(* written byte by byte as a DNS server writes them (RFC 1035), with any   *)
(* name compression, and read back by the code.  The machine writes, the   *)
(* properties read: after every record the parser must return exactly what *)
(* was written.                                                            *)
(***************************************************************************)
EXTENDS DnsName

CONSTANTS Labels,       \* the labels names are made of
          MaxLabels,    \* bound: labels of the name asked for
          MaxOwn,       \* bound: labels of another name that are written out
          MaxAnswers,   \* bound: answer records of a message
          Addresses     \* the addresses of A records

IsLabel(l) == l \in Seq(1 .. 191 \ {Dot}) /\ Len(l) \in 1 .. 63

ASSUME LabelsAssumption == \A l \in Labels : IsLabel(l)
ASSUME AddressesAssumption == Addresses \subseteq [1 .. 4 -> 0 .. 255]
ASSUME CountsAssumption == {MaxLabels, MaxOwn, MaxAnswers} \subseteq Nat

VARIABLES asked,    \* the labels of the question
          message,  \* its bytes
          names,    \* the label sequence that starts at an offset of the message
          written   \* the answers, as they should be read

messageVars == <<asked, message, names, written>>

\* The reference definitions: a name is a sequence of labels, written with
\* length bytes on the wire and with dots for people.
Wire(labels) == FlattenSeq([k \in DOMAIN labels |-> <<Len(labels[k])>> \o labels[k]])
Dotted(labels) ==
    Tail(FlattenSeq([k \in DOMAIN labels |-> <<Dot>> \o labels[k]]))

NamesUpTo(n) == BoundedSeq(Labels, n) \ {<<>>}

\* A name with its terminator has at most 255 bytes (RFC 1035, 2.3.4).
Fits(labels) == Len(Wire(labels)) < 255

\* The offsets at which a label of name starts, if name is written at offset,
\* with the labels from there on; labels behind a pointer are not repeated.
Starts(offset, name, own) ==
    [o \in {offset + Len(Wire(SubSeq(name, 1, k - 1))) : k \in 1 .. own} |->
        LET k == CHOOSE n \in 1 .. own : o = offset + Len(Wire(SubSeq(name, 1, n - 1)))
        IN  SubSeq(name, k, Len(name))]

\* f, and g where f has no value.
Extend(f, g) == [x \in DOMAIN f \cup DOMAIN g |-> IF x \in DOMAIN f THEN f[x] ELSE g[x]]

MessageInit ==
    \E name \in NamesUpTo(MaxLabels) :
        /\ Fits(name)
        /\ asked = name
        /\ message = [k \in 1 .. HeaderLen |-> 0] \o Wire(name) \o <<0, 0, T_A, 0, 1>>
        /\ names = Starts(HeaderLen, name, Len(name))
        /\ written = <<>>

\* The ways to write a name: some labels, then the end or a pointer to a name
\* already in the message, which has 14 bits.
Forms(known) ==
    {[bytes |-> Wire(own) \o <<0>>, labels |-> own, own |-> Len(own)] :
        own \in {n \in NamesUpTo(MaxOwn) : Fits(n)}}
    \cup UNION {{[bytes |-> Wire(own) \o <<192 + o \div 256, o % 256>>,
                  labels |-> own \o known[o], own |-> Len(own)] :
                 o \in {p \in DOMAIN known : p < 2^14 /\ Fits(own \o known[p])}} :
                own \in BoundedSeq(Labels, MaxOwn)}

RData(type, len) == <<0, type, 0, 1, 0, 0, 0, 0, len \div 256, len % 256>>

\* The next answer is written: an address of a name, or another name for it.
AddAddress ==
    /\ Len(written) < MaxAnswers
    /\ \E owner \in Forms(names), addr \in Addresses :
          /\ message' = message \o owner.bytes \o RData(T_A, Len(addr)) \o addr
          /\ names' = Extend(names, Starts(Len(message), owner.labels, owner.own))
          /\ written' = Append(written, [name |-> Dotted(owner.labels), type |-> T_A,
                                         rdata |-> addr])
    /\ UNCHANGED asked

AddAlias ==
    /\ Len(written) < MaxAnswers
    /\ \E owner \in Forms(names) :
       LET data  == Len(message) + Len(owner.bytes) + RDataLen
           known == Extend(names, Starts(Len(message), owner.labels, owner.own))
       IN  \E alias \in Forms(known) :
              /\ message' = message \o owner.bytes
                                    \o RData(T_CNAME, Len(alias.bytes)) \o alias.bytes
              /\ names' = Extend(known, Starts(data, alias.labels, alias.own))
              /\ written' = Append(written, [name |-> Dotted(owner.labels),
                                             type |-> T_CNAME,
                                             rdata |-> Dotted(alias.labels)])
    /\ UNCHANGED asked

MessageNext == AddAddress \/ AddAlias

MessageSpec == MessageInit /\ [][MessageNext]_messageVars
-----------------------------------------------------------------------------
\* A name that a client asks for reaches the upstream server unchanged: on_recv
\* overwrites it with its dotted form, send_data_to_dns turns that back into
\* the wire form twice, each time appending a dot (server.c 136-148, utils.c
\* 185-195 and 238-244).  The question is stored right behind the terminated
\* name, at the offset that the request is sent up to (247 and 253), although
\* that is computed from the length of domain_name with its dots.
RoundTrip ==
    LET dotted == ToDotted(Wire(asked))
        first  == ChangetoDnsNameFormat(dotted)
        second == ChangetoDnsNameFormat(first.host)
    IN  /\ dotted = Dotted(asked)
        /\ CString(first.dns) = Wire(asked)
        /\ CString(second.dns) = Wire(asked)
        /\ Len(second.host) = Len(CString(second.dns)) + 1

\* The answers are read as they were written, whatever compression their names
\* use: the parser finds every record where it is and follows every pointer
\* (utils.c 284-320 and 355-406).
ReadsAnswers == ParseAnswers(message, Wire(asked), Len(written)) = written
=============================================================================
