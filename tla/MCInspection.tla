---------------------------- MODULE MCInspection ----------------------------
(***************************************************************************)
(* Instance of Inspection for TLC: packets put together from headers and    *)
(* messages, most of them captured up to every length.                      *)
(***************************************************************************)
EXTENDS Inspection

MCChar == {Chr(b) : b \in Byte} \cup {Star}

MCLower == [c \in MCChar |-> LET upper == {b \in 65..90 : Chr(b) = c}
                             IN  IF upper = {} THEN c ELSE Chr(Min(upper) + 32)]

\* Zeros, or the largest numbers.
MCMemories == {<<0>>, <<255>>}

Code(c) == CHOOSE b \in 45..122 : Chr(b) = c

Ascii(text) == [i \in 1..Len(text) |-> Code(SubSeq(text, i, i))]
Zeros(n) == [i \in 1..n |-> 0]
U16(n) == <<n \div 256, n % 256>>

-----------------------------------------------------------------------------
(* Messages: their bytes, and the names an extractor should find             *)

Msg(kind, bytes, names) == [kind |-> kind, bytes |-> bytes, whole |-> TRUE,
                            names |-> {Chars(n) : n \in names}]

NoMsg == Msg("other", <<>>, {})

NameExt(name) == LET n == Len(name)
                 IN  U16(0) \o U16(5 + n) \o U16(3 + n) \o <<0>> \o U16(n) \o Ascii(name)

OtherExt == U16(10) \o U16(4) \o Zeros(4)

\* A record with a ClientHello that has these extensions.
Record(exts) ==
    LET body == <<3, 3>> \o [i \in 1..32 |-> 1] \o <<2, 7, 7>>
                \o U16(2) \o <<19, 1>> \o <<1, 0>> \o U16(Len(exts)) \o exts
        hello == <<1, 0>> \o U16(Len(body)) \o body
    IN  <<22, 3, 1>> \o U16(Len(hello)) \o hello

Hello(name) == Msg("tls", Record(NameExt(name)), {name})

\* The name between other extensions, and another record behind the hello.
FullHello(name) == Msg("tls", Record(OtherExt \o NameExt(name) \o OtherExt)
                              \o <<20, 3, 3, 0, 1, 1>>, {name})

\* The name at the very end.
LastHello(name) == Msg("tls", Record(OtherExt \o NameExt(name)), {name})

\* The first of two records that the hello is split over: its first n bytes.
SplitHello(name, n) ==
    [Hello(name) EXCEPT !.bytes = SubSeq(@, 1, 3) \o U16(n) \o SubSeq(@, 6, 5 + n),
                        !.whole = FALSE]

NamelessHello == Msg("tls", Record(OtherExt), {})

Quic(name) == Msg("quic", <<192, 0, 0, 0, 1, 1, 0, 1>> \o Record(NameExt(name)), {name})

CRLF == <<13, 10>>
Get == <<71, 69, 84, 32, 47, 32>> \o Ascii("HTTP/1.1") \o CRLF

Request(name) == Msg("http", Get \o Ascii("X-Host:other.org") \o CRLF
                             \o Ascii("Host:") \o CRLF
                             \o Ascii("hOsT:") \o <<32, 9>> \o Ascii(name)
                             \o Ascii(":8080") \o <<32>> \o CRLF \o CRLF, {name})

HostlessRequest == Msg("http", Get \o Ascii("X-Host:other.org") \o CRLF \o CRLF, {})

Label(text) == <<Len(text)>> \o Ascii(text)

DnsHeader(flags) == <<0, 1, flags, 0>> \o U16(1) \o Zeros(6)

Query(name, wire) == Msg("dns", DnsHeader(1) \o wire, {name})

PlainName == Label("www") \o Label("zoom") \o Label("us") \o <<0>> \o Zeros(4)

\* www, and a pointer to where zoom.us stands.
PointedName == Label("www") \o <<192, 20>> \o U16(1) \o Label("zoom") \o Label("us") \o <<0>>

\* As many jumps as are allowed when MAX_JUMPS is 2, and one more: the name may
\* be given up.
TwoJumps == <<192, 14, 192, 16>> \o Label("us") \o <<0>>
ThreeJumps == <<192, 14, 192, 16, 192, 18>> \o Label("us") \o <<0>>

Junk(bytes) == Msg("other", bytes, {})

\* Pointers to themselves, to each other, behind a label, into the header.
Cycles == {Junk(DnsHeader(1) \o wire) :
              wire \in {<<192, 12>>, <<192, 14, 192, 12>>, Label("a") \o <<192, 12>>,
                        <<192, 4>>, <<192>>}}

\* Queries that end early, in a datagram of just their length.
CutQueries == {[Query("www.zoom.us", PlainName) EXCEPT
                  !.bytes = SubSeq(@, 1, n), !.whole = FALSE] : n \in 1..28}

-----------------------------------------------------------------------------
(* Headers                                                                   *)

Ethernet(type) == Zeros(12) \o U16(type)

IPv4(words, fragment, protocol) ==
    Ethernet(EtherIPv4) \o <<64 + words>> \o Zeros(5) \o U16(fragment)
    \o <<64, protocol, 0, 0, 10, 0, 0, 1, 10, 0, 0, 2>> \o Zeros(4 * (words - 5))

\* With the high half of the traffic class in the first byte.
IPv6Marked(class4, next) ==
    Ethernet(EtherIPv6) \o <<96 + class4>> \o Zeros(5) \o <<next, 64>> \o Zeros(32)

IPv6(next) == IPv6Marked(0, next)

Ext(next, units) == <<next, units>> \o Zeros(8 * (units + 1) - 2)
Auth(next) == <<next, 1>> \o Zeros(10)
Fragment(next, place) == <<next, 0>> \o U16(8 * place + 1) \o Zeros(4)

TCPHeader(words, port) == U16(1024) \o U16(port) \o Zeros(8) \o <<16 * words, 24>>
                          \o Zeros(6 + 4 * (words - 5))

UDPHeader(port, length) == U16(1024) \o U16(port) \o U16(length) \o <<0, 0>>

Packet(ip, headers, network, transport, header, port, msg) ==
    LET bytes == network \o header \o msg.bytes
        body == Len(network) + Len(header)
    IN  [bytes |-> bytes, captured |-> 0..Len(bytes), ip |-> ip,
         headers |-> headers, late_fragment |-> FALSE, transport |-> transport,
         ports |-> IF port = 0 THEN <<0, 0>> ELSE <<1024, port>>,
         payload |-> body,
         needed |-> IF transport = "udp" THEN Len(bytes) ELSE body,
         kind |-> msg.kind, names |-> msg.names, whole |-> msg.whole]

Tcp4(words, tcpWords, port, msg) ==
    Packet(4, 0, IPv4(words, 0, TCP), "tcp", TCPHeader(tcpWords, port), port, msg)

Udp4(words, port, msg) ==
    Packet(4, 0, IPv4(words, 0, UDP), "udp", UDPHeader(port, 8 + Len(msg.bytes)),
           port, msg)

Tcp6(headers, network) ==
    Packet(6, headers, network, "tcp", TCPHeader(5, 443), 443, Hello("x.com"))

\* A segment without data, in a frame of 74 bytes.
Ack6(class4) == Packet(6, 0, IPv6Marked(class4, TCP), "tcp", TCPHeader(5, 443), 443, NoMsg)

Other(ip, headers, network) == Packet(ip, headers, network, "none", <<>>, 0, NoMsg)

\* Captured completely only.
Whole(packet) == [packet EXCEPT !.captured = {Len(packet.bytes)}]

\* The second part of a fragmented packet: 20 bytes of data, no header.
Late(ip, headers, network, transport) ==
    [Packet(ip, headers, network \o Zeros(20), transport, <<>>, 0, NoMsg)
        EXCEPT !.late_fragment = TRUE, !.needed = Len(network)]

\* No sender's packet: never complete.
Malformed(ip, network, header) ==
    [Packet(ip, 0, network, "none", header, 0, NoMsg) EXCEPT !.needed = 1000]

MCNames == {"lh3.ggpht.com", "yt3.ggpht.com", "a.YT3.ggpht.com.", "netflix.com",
            "X.com", "list.co", "t.co", "aws.amazon.com", "notyoutube.com", "com",
            "itunes.apple.com.", "cdninstagram.com", "1.1.1.1", "me.t.me"}

Sent ==
    {Whole(Tcp4(5, 5, 443, Hello(n))) : n \in MCNames}
    \cup {Whole(Udp4(5, 53, m)) : m \in CutQueries \cup Cycles}
    \cup {Whole(Udp4(5, 53, m)) : m \in {Query("us", TwoJumps),
                                         [Query("us", ThreeJumps) EXCEPT !.whole = FALSE],
                                         Junk(DnsHeader(129) \o PlainName)}}
    \cup {Tcp4(5, 5, 443, FullHello("wa.me")), Tcp4(6, 7, 443, LastHello("wa.me")),
          Whole(Tcp4(5, 5, 443, NamelessHello)),
          Tcp4(6, 5, 8080, Request("fb.com")), Whole(Tcp4(5, 5, 80, Request(""))),
          Whole(Tcp4(5, 6, 80, HostlessRequest)), Whole(Tcp4(5, 5, 80, Junk(<<1, 2, 3>>))),
          Udp4(7, 443, Quic("t.me")), Whole(Udp4(5, 443, Junk(<<192, 0, 0, 0, 1>>))),
          Whole(Udp4(5, 443, Junk(<<1, 2, 3>>))),
          Udp4(5, 53, Query("www.zoom.us", PointedName)),
          Packet(4, 0, IPv4(5, 0, ICMP), "icmp", Zeros(8), 0, NoMsg),
          Packet(6, 0, IPv6(ICMPv6), "icmpv6", Zeros(8), 0, NoMsg),
          Other(4, 0, IPv4(5, 0, 50)), Other(6, 0, IPv6(50)), Other(0, 0, Ethernet(2054)),
          Tcp6(0, IPv6(TCP)), Ack6(1), Ack6(11), Whole(Tcp6(0, IPv6Marked(12, TCP))),
          Tcp6(3, IPv6(0) \o Ext(43, 0) \o Ext(51, 1) \o Auth(6)),
          Tcp6(4, IPv6(0) \o Ext(60, 0) \o Ext(60, 0) \o Ext(60, 0) \o Ext(6, 0)),
          Tcp6(2, IPv6(60) \o Ext(44, 0) \o Fragment(6, 0)),
          Late(6, 1, IPv6(44) \o Fragment(6, 1), "tcp"),
          Late(4, 0, IPv4(5, 1, TCP), "tcp")}
    \cup {Malformed(4, Ethernet(EtherIPv4), Zeros(20)),
          Malformed(6, Ethernet(EtherIPv6), Zeros(40)),
          Malformed(4, IPv4(5, 0, TCP), Zeros(20)),
          Malformed(4, IPv4(5, 0, UDP), Zeros(8)),
          Malformed(4, Ethernet(EtherIPv4), <<68>> \o Zeros(19))}

\* Acknowledgements of every half of a traffic class.
Marked == {Whole(Ack6(class4)) : class4 \in 0..15}

\* Hellos whose first record ends behind one of their first parts.
Split == {Whole(Tcp4(5, 5, 443, SplitHello("t.co", n))) : n \in 30..50}

-----------------------------------------------------------------------------
(* Files                                                                     *)

LE(n) == <<n % 256, n \div 256>>
LE4(n) == LE(n) \o <<0, 0>>

\* Version 2.4, a capture length of 255, Ethernet.
FileHeader == <<212, 195, 178, 161>> \o LE(2) \o LE(4) \o LE4(0) \o LE4(0)
              \o LE4(255) \o LE4(1)

FileRecord(frame) == LE4(7) \o LE4(9) \o LE4(Len(frame)) \o LE4(1500) \o frame

Capture(packet, n) ==
    [file |-> FileHeader \o FileRecord(SubSeq(packet.bytes, 1, n)),
     packets |-> <<packet>>]

\* The same in the other byte order.
SwappedHeader == <<161, 178, 195, 212>> \o U16(2) \o U16(4) \o Zeros(8)
                 \o <<0, 0>> \o U16(255) \o <<0, 0>> \o U16(1)

SwappedRecord(frame) == <<0, 0>> \o U16(7) \o <<0, 0>> \o U16(9)
                        \o <<0, 0>> \o U16(Len(frame)) \o <<0, 0>> \o U16(1500) \o frame

Short == Whole(Udp4(5, 53, Query("us", Label("us") \o <<0>>)))
Long == Whole(Tcp4(5, 5, 443, Hello("t.co")))

Two == [file |-> FileHeader \o FileRecord(Short.bytes) \o FileRecord(Long.bytes),
        packets |-> <<Short, Long>>]

\* A file that ends anywhere, files of the other order and files with a wrong
\* magic number, a length above the file's limit and one above the code's.
CapturesOf(sentPackets) == UNION {{Capture(p, n) : n \in p.captured} : p \in sentPackets}

MCCaptures ==
    CapturesOf(Sent \cup Marked \cup Split)
    \cup {[Two EXCEPT !.file = SubSeq(@, 1, n)] : n \in 0..Len(Two.file)}
    \cup {[Two EXCEPT !.file = SwappedHeader \o SwappedRecord(Short.bytes)
                                \o SwappedRecord(Long.bytes)],
          [Two EXCEPT !.file[1] = 0],
          [Two EXCEPT !.file[34] = 1],
          [Two EXCEPT !.file[19] = 255, !.file[35] = 1]}
=============================================================================
