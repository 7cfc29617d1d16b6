------------------------------ MODULE Inspection ------------------------------
(***************************************************************************)
(* The way of a packet through the engine: from the input file by           *)
(* PacketParser::parse and createPacketJob in a parser worker and           *)
(* inspectPayload in a fast path to the output file.  The threads hand a    *)
(* packet over and do not touch it afterwards, so packets go one by one     *)
(* here; their interleaving is the module Pipeline's.                       *)
(*                                                                          *)
(* Each packet is the first of its flow, sent by the client.  The TCP       *)
(* reassembler's buffer is the payload of this one packet; how it comes     *)
(* about from several is the module TCPReassembler's.  What becomes of the  *)
(* classification is the module FastPath's: any verdict may follow.         *)
(***************************************************************************)
EXTENDS CaptureFile, PacketParser, Extractors, AppTypes

CONSTANTS Captures,   \* input files, each with the packets captured in it
          MAX_JUMPS   \* 10 in the code

ASSUME InspectionAssumption ==
    /\ MAX_JUMPS \in Nat
    /\ \A b \in Byte : Chr(b) \in Char
    /\ \A c \in Captures : c.file \in Seq(Byte)

VARIABLES packets, \* history: the packets as they were sent
          id,      \* readerThreadFunc: packet_id, the packets read so far
          job,     \* the offsets of PacketJob
          payload, \* PacketJob::getPayload, empty for a null pointer
          cursor,  \* readDomainName: offset
          jumps,   \* readDomainName: jumps
          domain,  \* readDomainName: domain
          class    \* what classifyConnection is called with

\* The packet that is in work, as it was sent.
sent == packets[id]

inspectVars == <<job, payload, cursor, jumps, domain, class>>

readerVars == <<fileVars, packets, id, memory>>

vars == <<readerVars, frameVars, pc, inspectVars>>

\* No call of classifyConnection; one without a name; one with a name.
NotClassified == [app |-> "NONE", names |-> {}]
Nameless(app) == [app |-> app, names |-> {}]
Named(app, name) == [app |-> app, names |-> {name}]

NoJob == [payload_offset |-> 0, payload_length |-> 0]

Ended == {"end", "not_ipv4"}

TypeOK == /\ ParserTypeOK
          /\ memory \in Memories
          /\ position \in Nat /\ id \in Nat
          /\ output \in Seq(Byte)
          /\ pc \in {"open", "read", "ethernet", "ipv4", "ipv6", "walk", "tcp",
                     "udp", "icmp", "icmpv6", "payload", "parsed", "rejected",
                     "inspect", "host", "value", "dns", "classify", "done"}
                    \cup Ended
          /\ job \in [payload_offset : Nat, payload_length : Nat]
          /\ payload \in Seq(Byte)
          /\ cursor \in Nat
          /\ jumps \in 0..MAX_JUMPS
          /\ domain \in Seq(Char)
          /\ class.names \subseteq Seq(Char)

Init == /\ \E c \in Captures : FileInit(c.file) /\ packets = c.packets
        /\ id = 0 /\ memory \in Memories
        /\ pc = "open"
        /\ ParserInit
        /\ job = NoJob /\ payload = <<>>
        /\ cursor = 0 /\ jumps = 0 /\ domain = <<>>
        /\ class = NotClassified

-----------------------------------------------------------------------------
(* The reader, the parser and the output                                     *)

Open == /\ pc = "open"
        /\ \/ openFile /\ pc' = "read"
           \/ ~hasGlobalHeader(input) /\ pc' = "end" /\ UNCHANGED fileVars
        /\ UNCHANGED <<packets, id, memory, frameVars, inspectVars>>

\* A packet that cannot be parsed is counted, and that is all.
Read == /\ pc \in {"read", "rejected"}
        /\ \/ /\ readNextPacket
              /\ id' = id + 1
              /\ memory' \in Memories
              /\ beginParse(record'.data)
              /\ job' = NoJob /\ payload' = <<>>
              /\ cursor' = 0 /\ jumps' = 0 /\ domain' = <<>>
              /\ class' = NotClassified
              /\ UNCHANGED packets
           \/ /\ endOfFile
              /\ pc' = "end"
              /\ UNCHANGED <<readerVars, frameVars, inspectVars>>

Parse == parse /\ UNCHANGED <<readerVars, inspectVars>>

\* handleOutput for either verdict, and the output thread.
Output == /\ pc = "done"
          /\ pc' = "read"
          /\ writeOutputPacket \/ UNCHANGED fileVars
          /\ UNCHANGED <<packets, id, memory, frameVars, inspectVars>>

-----------------------------------------------------------------------------
(* ParserWorker::createPacketJob                                             *)

\* The header length is read from the first byte behind the Ethernet header
\* once more, whatever the protocol.
transport_offset == 14 + 4 * LowNibble(14)

\* The only test before the data offset 12 bytes further on is read.
readsDataOffset == parsed.transport = "tcp" /\ Len(raw) > transport_offset

payload_offset ==
    CASE Len(raw) <= 14 -> 0
      [] readsDataOffset ->
             transport_offset + 4 * HighNibble(transport_offset + 12)
      [] parsed.transport = "udp" -> transport_offset + 8
      [] OTHER -> 0

\* One past the last byte it reads.
jobReach == CASE Len(raw) <= 14 -> 0
              [] readsDataOffset -> transport_offset + 13
              [] Len(raw) > 14 /\ ~readsDataOffset -> 15

\* processPacket throws on an IPv6 flow key before it inspects (FastPath's
\* BadVariantAccess); a packet without an IP header has no flow key.
createPacketJob ==
    LET length == IF Len(raw) > 14 /\ payload_offset < Len(raw)
                  THEN Len(raw) - payload_offset ELSE 0
    IN  /\ pc = "parsed"
        /\ job' = [payload_offset |-> payload_offset, payload_length |-> length]
        /\ payload' = SubSeq(raw, payload_offset + 1, payload_offset + length)
        /\ reach' = jobReach
        /\ pc' = IF parsed.ip_version = 4 THEN "inspect" ELSE "not_ipv4"
        /\ UNCHANGED <<readerVars, raw, offset, next_hdr, count, parsed, cursor,
                       jumps, domain, class>>

-----------------------------------------------------------------------------
(* inspectPayload                                                            *)

Port(p) == p \in {parsed.src_port, parsed.dest_port}

\* The way out of inspectPayload.
Classify(c) == /\ class' = c /\ pc' = "done"
               /\ UNCHANGED <<readerVars, frameVars, job, payload, cursor, jumps, domain>>

\* An extractor returned a name.
Found(name) == /\ class' = Named("NONE", name) /\ pc' = "classify"
               /\ UNCHANGED <<readerVars, frameVars, job, payload, cursor, jumps, domain>>

\* The name that an extractor found decides, or else there is a class without.
ByName(names, otherwise) == \/ names = {} /\ Classify(otherwise)
                            \/ \E name \in names : Found(name)

\* The call of classifyConnection with a name and its application.
classifyByName ==
    /\ pc = "classify"
    /\ \E name \in class.names : Classify(Named(sniToAppType(name), name))

inspectNothing ==
    /\ pc = "inspect"
    /\ payload = <<>> \/ parsed.protocol \notin {TCP, UDP}
    /\ Classify(NotClassified)

\* Another protocol on the DNS port is not looked at.
inspectDNS ==
    /\ pc = "inspect"
    /\ payload # <<>> /\ parsed.protocol = UDP /\ Port(53)
    /\ \/ ~isDNSQuery(payload) /\ Classify(NotClassified)
       \/ /\ isDNSQuery(payload)
          /\ cursor' = 12 /\ jumps' = 0 /\ domain' = <<>>
          /\ pc' = "dns"
          /\ UNCHANGED <<readerVars, frameVars, job, payload, class>>

inspectQUIC ==
    /\ pc = "inspect"
    /\ payload # <<>> /\ parsed.protocol = UDP /\ ~Port(53)
    /\ \/ ~isQUICInitial(payload) /\ Classify(NotClassified)
       \/ isQUICInitial(payload) /\ ByName(extractQUIC(payload), Nameless("QUIC"))

inspectHTTP ==
    /\ pc = "inspect"
    /\ payload # <<>> /\ parsed.protocol = TCP
    /\ Port(80) \/ isHTTPRequest(payload)
    /\ \/ ~isHTTPRequest(payload) /\ Classify(Nameless("HTTP"))
       \/ /\ isHTTPRequest(payload)
          /\ cursor' = 0
          /\ pc' = "host"
          /\ UNCHANGED <<readerVars, frameVars, job, payload, jumps, domain, class>>

\* What goes to the reassembler.
IsTLSPayload == /\ pc = "inspect"
                /\ payload # <<>> /\ parsed.protocol = TCP
                /\ ~(Port(80) \/ isHTTPRequest(payload))

inspectTLS ==
    /\ IsTLSPayload
    /\ ByName(extractFromBuffer(payload), NotClassified)

-----------------------------------------------------------------------------
(* HTTPHostExtractor::extract: its loop, and what it does with a host line   *)

\* Variant: after an empty value the search begins anew.
hostLinesAnew == {i \in 0..Len(payload) : isHostLine(payload, i)}

hostLines == {i \in cursor..Len(payload) : isHostLine(payload, i)}

findHostLine ==
    /\ pc = "host"
    /\ \/ hostLines = {} /\ Classify(Nameless("HTTP"))
       \/ /\ hostLines # {}
          /\ cursor' = FirstOf(payload, Min(hostLines) + 6, Byte \ Blank)
          /\ pc' = "value"
          /\ UNCHANGED <<readerVars, frameVars, job, payload, jumps, domain, class>>

\* An empty value is passed over; a port is cut off.
readHost ==
    /\ pc = "value"
    /\ \E end \in cursor..Len(payload) :
          /\ IsValueEnd(payload, cursor, end)
          /\ \/ /\ end = cursor
                /\ pc' = "host"
                /\ UNCHANGED <<readerVars, frameVars, job, payload, cursor, jumps,
                               domain, class>>
             \/ /\ end > cursor
                /\ LET n == Min({FirstOf(payload, cursor, {Colon}), end})
                   IN  Found(Stretch(payload, cursor, n - cursor))

-----------------------------------------------------------------------------
(* DNSExtractor::readDomainName, one action per turn of its loop.  Where the *)
(* question goes on behind the name is of no use to the caller.              *)

Here == ByteAt(payload, cursor)

\* A pointer has the two high bits set.
AtPointer == cursor < Len(payload) /\ Here >= 192

AtLabel == cursor < Len(payload) /\ Here \in 1..191

\* The name ends with a zero or, without one, with the payload.
endOfName ==
    /\ pc = "dns"
    /\ ~AtPointer /\ ~AtLabel
    /\ Classify(IF domain = <<>> THEN NotClassified ELSE Named("DNS", domain))

followPointer ==
    LET ptr == 256 * (Here - 192) + ByteAt(payload, cursor + 1)
        valid == cursor + 1 < Len(payload) /\ ptr \in 12..(Len(payload) - 1)
    IN  /\ pc = "dns"
        /\ AtPointer
        /\ \/ ~valid /\ Classify(NotClassified)
           \/ valid /\ jumps = MAX_JUMPS /\ Classify(NotClassified)
           \/ /\ valid /\ jumps < MAX_JUMPS
              /\ cursor' = ptr
              /\ jumps' = jumps + 1
              /\ UNCHANGED <<readerVars, frameVars, pc, job, payload, domain, class>>

readLabel ==
    LET label == Stretch(payload, cursor + 1, Here)
    IN  /\ pc = "dns"
        /\ AtLabel
        /\ \/ cursor + 1 + Here > Len(payload) /\ Classify(NotClassified)
           \/ /\ cursor + 1 + Here <= Len(payload)
              /\ domain' = IF domain = <<>> THEN label ELSE domain \o <<Dot>> \o label
              /\ cursor' = cursor + 1 + Here
              /\ UNCHANGED <<readerVars, frameVars, pc, job, payload, jumps, class>>

-----------------------------------------------------------------------------

Inspect == \/ inspectNothing
           \/ inspectDNS
           \/ inspectQUIC
           \/ inspectHTTP
           \/ inspectTLS
           \/ classifyByName

extractHost == findHostLine \/ readHost

readDomainName == \/ endOfName
                  \/ followPointer
                  \/ readLabel

Step == \/ Open
        \/ Read
        \/ Parse
        \/ createPacketJob
        \/ Inspect
        \/ extractHost
        \/ readDomainName
        \/ Output

Finished == pc \in Ended /\ UNCHANGED vars

Next == Step \/ Finished

\* The threads run on.
Spec == Init /\ [][Next]_vars /\ WF_vars(Step)

-----------------------------------------------------------------------------
(* Properties                                                                *)

\* createPacketJob has read an IPv6 packet, in whose first byte it takes the high
\* half of the traffic class for a header's length.  From 12 on (CS6, CS7) this
\* length may lead it behind the frame.
IPv6Job == pc = "not_ipv4" /\ parsed.ip_version = 6

ReadsBehindIPv6 == IPv6Job /\ readsDataOffset /\ LowNibble(14) >= 12

\* packet_parser.cpp:166, "Never reads beyond [data, data+len)", for every
\* header of every frame, cut anywhere and with any lengths in it; and the
\* offset, from which the next header is read, never passes the end.  The same of
\* createPacketJob, which reads without a check of its own and relies on the
\* parser's, but for the one case in which it may not.
ReadsInBounds == offset <= Len(raw) /\ (reach <= Len(raw) \/ ReadsBehindIPv6)


\* An IPv4 fragment that is not the first: parseIPv4 does not look at the
\* fragment offset and takes its data for a transport header.
LateIPv4Fragment == sent.ip = 4 /\ sent.late_fragment

\* The transport header, its ports and the payload are found where the sender
\* put them, behind IPv4 options and up to MAX_EXT_HEADERS extension headers, by
\* the parser and, for IPv4, by createPacketJob, which computes the payload's
\* place once more.  A frame that is cut in a header is rejected, or shown
\* without a transport and, in the extension headers, flagged; a packet that is
\* all there is never rejected, and the data of a late IPv6 fragment is no header.
ParsedAsSent ==
    pc \in {"rejected", "parsed", "inspect"} /\ ~LateIPv4Fragment =>
        /\ pc = "rejected" => Len(raw) < sent.needed
        /\ pc = "parsed" =>
             IF parsed.transport # "none"
             THEN /\ ~sent.late_fragment
                  /\ parsed.transport = sent.transport
                  /\ <<parsed.src_port, parsed.dest_port>> = sent.ports
                  /\ offset = sent.payload
             ELSE \/ sent.transport = "none"
                  \/ sent.headers > MAX_EXT_HEADERS
                  \/ /\ sent.late_fragment \/ Len(raw) < sent.payload
                     /\ parsed.ext_unsupported
        /\ pc = "inspect" /\ parsed.transport \in {"tcp", "udp"} =>
             payload = SubSeq(raw, sent.payload + 1, Len(raw))

\* What may be found of the name m in a message of a kind.
PartOf(n, m, kind) == CASE kind \in {"tls", "quic"} -> n = m
                        [] kind = "http" -> IsPrefix(n, m)
                        [] kind = "dns" -> IsPrefix(Labels(n), Labels(m))


\* The application is that of the longest domain in the table that covers the
\* name, by whole labels and whatever the case: the order of the tests and the
\* comparison of the names' ends decide no name otherwise.
MostSpecificApexWins ==
    pc = "done" /\ class.app # "DNS" =>
        \A name \in class.names :
            LET apps == MostSpecificApps(name)
            IN  IF apps = {} THEN class.app \in {"HTTPS", "UNKNOWN"}
                             ELSE apps = {class.app}

\* The output file can be read again and gives the packets that were forwarded,
\* with their times and bytes, at any time between two writes; a damaged input
\* file, too, gives a sound output file.  Not said of an input of the other byte
\* order: its magic number is copied as it was read, before numbers that are
\* written in this machine's order.
WrittenIsReadable ==
    ~needsByteSwap(global_header_) => packetsIn(output) = forwarded

\* The walks that are actions here end: over the records of a file and the chain
\* of extension headers, along the labels and compression pointers of a name, also
\* when these form a cycle, and from one host line to the next.  The loops over
\* the extensions of a ClientHello are functions, which end by their form.
InspectionEnds == <>(pc \in Ended)
=============================================================================
