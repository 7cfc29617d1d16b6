----------------------------- MODULE PacketParser -----------------------------
(***************************************************************************)
(* PacketParser::parse of src/packet_parser.cpp on one captured frame: one  *)
(* action per header, and one per turn of the loop over the IPv6 extension  *)
(* headers.  The frame is the sequence of its bytes; offsets count from     *)
(* zero, as in the code.  Numbers of more than two bytes are kept as bytes. *)
(***************************************************************************)
EXTENDS Memory

CONSTANT MAX_EXT_HEADERS   \* 10 in the code

ASSUME ParserAssumption == MAX_EXT_HEADERS \in Nat

VARIABLES raw,       \* the captured bytes
          pc,        \* the header to parse next, or how parse() ended
          offset,    \* where it begins
          next_hdr,  \* walkIPv6ExtHeaders: the kind of the next header
          count,     \* walkIPv6ExtHeaders: the turns taken
          parsed,    \* ParsedPacket
          reach      \* history: one past the last byte the last step read

frameVars == <<raw, offset, next_hdr, count, parsed, reach>>

\* namespace Protocol; 51 is the authentication header.
ICMP == 1
TCP == 6
UDP == 17
ICMPv6 == 58
IPV6_HOP_BY_HOP == 0
IPV6_ROUTING == 43
IPV6_FRAGMENT == 44
IPV6_AUTH == 51
IPV6_NO_NEXT_HDR == 59
IPV6_DEST_OPTS == 60

ExtHeader == {IPV6_HOP_BY_HOP, IPV6_ROUTING, IPV6_FRAGMENT, IPV6_DEST_OPTS,
              IPV6_AUTH}

\* namespace EtherType.
EtherIPv4 == 2048
EtherIPv6 == 34525

IPVersion == {0, 4, 6}
Transport == {"none", "tcp", "udp", "icmp", "icmpv6"}
MaxPort == 65535

PortNumber == 0..MaxPort

\* At most one of has_tcp, has_udp, has_icmp and has_icmpv6 is set: transport.
\* has_ip is ip_version # 0, the five extension flags are the set ext.
ParsedPacket == [ip_version : IPVersion, src : Seq(Byte), dst : Seq(Byte),
                 protocol : Byte, ext : SUBSET ExtHeader,
                 ext_unsupported : BOOLEAN, transport : Transport,
                 src_port : PortNumber, dest_port : PortNumber,
                 tcp_flags : Byte, seq_number : Seq(Byte),
                 payload_length : Nat]

EmptyPacket == [ip_version |-> 0, src |-> <<>>, dst |-> <<>>, protocol |-> 0,
                ext |-> {}, ext_unsupported |-> FALSE, transport |-> "none",
                src_port |-> 0, dest_port |-> 0, tcp_flags |-> 0,
                seq_number |-> <<>>, payload_length |-> 0]

ParserTypeOK ==
    /\ raw \in Seq(Byte)
    /\ offset \in Nat /\ reach \in Nat
    /\ next_hdr \in Byte
    /\ count \in 0..MAX_EXT_HEADERS
    /\ parsed \in ParsedPacket

ParserInit == /\ raw = <<>>
              /\ offset = 0 /\ reach = 0
              /\ next_hdr = 0 /\ count = 0
              /\ parsed = EmptyPacket

\* The call of parse().
beginParse(frame) == /\ raw' = frame
                     /\ pc' = "ethernet"
                     /\ offset' = 0 /\ reach' = 0
                     /\ next_hdr' = 0 /\ count' = 0
                     /\ parsed' = EmptyPacket

\* The byte at a position.
At(i) == ByteAt(raw, i)

Bytes(i, n) == [k \in 1..n |-> At(i + k - 1)]

\* ntohs.
NetToHost16(i) == 256 * At(i) + At(i + 1)

HighNibble(i) == At(i) \div 16
LowNibble(i) == At(i) % 16

Fits(n) == offset + n <= Len(raw)

\* return false.
Reject(n) == /\ pc' = "rejected"
             /\ reach' = offset + n
             /\ UNCHANGED <<raw, offset, next_hdr, count, parsed>>

-----------------------------------------------------------------------------
(* Ethernet and IP                                                           *)

parseEthernet ==
    /\ pc = "ethernet"
    /\ \/ ~Fits(14) /\ Reject(0)
       \/ /\ Fits(14)
          /\ offset' = 14 /\ reach' = 14
          /\ pc' = CASE NetToHost16(12) = EtherIPv4 -> "ipv4"
                     [] NetToHost16(12) = EtherIPv6 -> "ipv6"
                     [] OTHER -> "payload"
          /\ UNCHANGED <<raw, next_hdr, count, parsed>>

\* Where parse() goes on for a protocol; other protocols have only a payload.
transportOf(version, protocol) ==
    CASE protocol = TCP -> "tcp"
      [] protocol = UDP -> "udp"
      [] protocol = ICMP /\ version = 4 -> "icmp"
      [] protocol = ICMPv6 /\ version = 6 -> "icmpv6"
      [] OTHER -> "payload"

\* Variant: the options are not looked for in the frame.
ipHeaderFitsFixed(length) == length >= 20

\* The header with its options is in the frame.
ipHeaderFits(length) == length >= 20 /\ Fits(length)

parseIPv4 ==
    LET length == 4 * LowNibble(offset)
        protocol == At(offset + 9)
    IN  /\ pc = "ipv4"
        /\ \/ ~Fits(20) /\ Reject(0)
           \/ Fits(20) /\ HighNibble(offset) # 4 /\ Reject(1)
           \/ /\ Fits(20) /\ HighNibble(offset) = 4
              /\ ~ipHeaderFits(length)
              /\ Reject(1)
           \/ /\ Fits(20) /\ HighNibble(offset) = 4
              /\ ipHeaderFits(length)
              /\ parsed' = [parsed EXCEPT !.ip_version = 4,
                                          !.protocol = protocol,
                                          !.src = Bytes(offset + 12, 4),
                                          !.dst = Bytes(offset + 16, 4)]
              /\ reach' = offset + 20
              /\ offset' = offset + length
              /\ pc' = transportOf(4, protocol)
              /\ UNCHANGED <<raw, next_hdr, count>>

parseIPv6 ==
    /\ pc = "ipv6"
    /\ \/ ~Fits(40) /\ Reject(0)
       \/ Fits(40) /\ HighNibble(offset) # 6 /\ Reject(1)
       \/ /\ Fits(40) /\ HighNibble(offset) = 6
          /\ parsed' = [parsed EXCEPT !.ip_version = 6,
                                      !.src = Bytes(offset + 8, 16),
                                      !.dst = Bytes(offset + 24, 16)]
          /\ next_hdr' = At(offset + 6) /\ count' = 0
          /\ reach' = offset + 40
          /\ offset' = offset + 40
          /\ pc' = "walk"
          /\ UNCHANGED raw

-----------------------------------------------------------------------------
(* walkIPv6ExtHeaders                                                        *)

\* Variant: only another kind of header ends the walk.
WalkingUncounted == next_hdr \in ExtHeader

Walking == count < MAX_EXT_HEADERS /\ next_hdr \in ExtHeader

Flagged == [parsed EXCEPT !.ext = @ \cup {next_hdr}]

\* The walk ends without a transport protocol.  read bytes were looked at,
\* skipped bytes are left behind.
Unsupported(read, skipped) ==
    /\ parsed' = [Flagged EXCEPT !.ext_unsupported = TRUE,
                                 !.protocol = IPV6_NO_NEXT_HDR]
    /\ reach' = offset + read
    /\ offset' = offset + skipped
    /\ pc' = "payload"
    /\ UNCHANGED <<raw, next_hdr, count>>

\* The next turn of the loop, behind a header of the given length.
NextHeader(read, length) ==
    /\ parsed' = Flagged
    /\ next_hdr' = At(offset)
    /\ reach' = offset + read
    /\ offset' = offset + length
    /\ count' = count + 1
    /\ UNCHANGED <<raw, pc>>

\* The 13 bits of the fragment offset are zero.
FirstFragment == NetToHost16(offset + 2) < 8

walkFragment ==
    /\ pc = "walk"
    /\ Walking /\ next_hdr = IPV6_FRAGMENT
    /\ \/ ~Fits(8) /\ Unsupported(0, 0)
       \/ Fits(8) /\ ~FirstFragment /\ Unsupported(4, 8)
       \/ Fits(8) /\ FirstFragment /\ NextHeader(4, 8)

\* Variant: the header's length in units of 8 bytes for every kind.
extLengthUniform == 8 * (At(offset + 1) + 1)

\* The authentication header counts in units of 4 bytes.  The code's test for
\* a length below 8 never holds.
extLength == IF next_hdr = IPV6_AUTH THEN 4 * (At(offset + 1) + 2)
                                     ELSE 8 * (At(offset + 1) + 1)

walkVariable ==
    /\ pc = "walk"
    /\ Walking /\ next_hdr # IPV6_FRAGMENT
    /\ \/ ~Fits(2) /\ Unsupported(0, 0)
       \/ Fits(2) /\ ~Fits(extLength) /\ Unsupported(2, 0)
       \/ Fits(2) /\ Fits(extLength) /\ NextHeader(2, extLength)

walkEnd ==
    /\ pc = "walk"
    /\ ~Walking
    /\ parsed' = [parsed EXCEPT !.protocol = next_hdr]
    /\ pc' = transportOf(6, next_hdr)
    /\ UNCHANGED <<raw, offset, next_hdr, count, reach>>

-----------------------------------------------------------------------------
(* Transport headers and payload                                             *)

\* The ports and sequence number are stored before the length is checked, but a
\* rejected packet is thrown away.
parseTCP ==
    LET length == 4 * HighNibble(offset + 12)
    IN  /\ pc = "tcp"
        /\ \/ ~Fits(20) /\ Reject(0)
           \/ Fits(20) /\ (length < 20 \/ ~Fits(length)) /\ Reject(13)
           \/ /\ Fits(20) /\ length >= 20 /\ Fits(length)
              /\ parsed' = [parsed EXCEPT !.transport = "tcp",
                                          !.src_port = NetToHost16(offset),
                                          !.dest_port = NetToHost16(offset + 2),
                                          !.seq_number = Bytes(offset + 4, 4),
                                          !.tcp_flags = At(offset + 13)]
              /\ reach' = offset + 14
              /\ offset' = offset + length
              /\ pc' = "payload"
              /\ UNCHANGED <<raw, next_hdr, count>>

\* The length field counts the header, and must not exceed the frame.
parseUDP ==
    LET udp_len == NetToHost16(offset + 4)
    IN  /\ pc = "udp"
        /\ \/ ~Fits(8) /\ Reject(0)
           \/ Fits(8) /\ (udp_len < 8 \/ ~Fits(udp_len)) /\ Reject(6)
           \/ /\ Fits(8) /\ udp_len >= 8 /\ Fits(udp_len)
              /\ parsed' = [parsed EXCEPT !.transport = "udp",
                                          !.src_port = NetToHost16(offset),
                                          !.dest_port = NetToHost16(offset + 2)]
              /\ reach' = offset + 6
              /\ offset' = offset + 8
              /\ pc' = "payload"
              /\ UNCHANGED <<raw, next_hdr, count>>

\* parseICMP and parseICMPv6; type and code are only for display.
parseICMP ==
    /\ pc \in {"icmp", "icmpv6"}
    /\ \/ ~Fits(8) /\ Reject(0)
       \/ /\ Fits(8)
          /\ parsed' = [parsed EXCEPT !.transport = pc]
          /\ reach' = offset + 2
          /\ offset' = offset + 8
          /\ pc' = "payload"
          /\ UNCHANGED <<raw, next_hdr, count>>

\* The end of parse(): what follows the headers is the payload.
setPayload ==
    /\ pc = "payload"
    /\ parsed' = [parsed EXCEPT !.payload_length =
                                    IF offset < Len(raw) THEN Len(raw) - offset
                                                         ELSE 0]
    /\ pc' = "parsed"
    /\ UNCHANGED <<raw, offset, next_hdr, count, reach>>

parse == \/ parseEthernet
         \/ parseIPv4
         \/ parseIPv6
         \/ walkFragment
         \/ walkVariable
         \/ walkEnd
         \/ parseTCP
         \/ parseUDP
         \/ parseICMP
         \/ setPayload

=============================================================================
