------------------------------ MODULE Extractors ------------------------------
(***************************************************************************)
(* What src/sni_extractor.cpp and the end of TCPReassembler::tryExtractSNI  *)
(* find in a payload, as functions of its bytes.  Positions count from      *)
(* zero.  The result of an extractor is the set of the names it found: empty *)
(* for std::nullopt, or one sequence of characters.  The loops of            *)
(* HTTPHostExtractor and of DNSExtractor are actions of Inspection.          *)
(***************************************************************************)
EXTENDS Memory, SequencesExt

\* The characters from - to z, but for backslash and accent.
Printable == "-./0123456789:;<=>?@ABCDEFGHIJKLMNOPQRSTUVWXYZ[?]^_?abcdefghijklmnopqrstuvwxyz"

\* The character with an ASCII code.
Chr(code) == IF code \in 45..122 THEN SubSeq(Printable, code - 44, code - 44)
                                 ELSE "?"

\* std::string of a stretch of bytes.
Stretch(p, from, n) == [k \in 1..n |-> Chr(ByteAt(p, from + k - 1))]

readUint16BE(p, i) == 256 * ByteAt(p, i) + ByteAt(p, i + 1)

readUint24BE(p, i) == 65536 * ByteAt(p, i) + readUint16BE(p, i + 1)

-----------------------------------------------------------------------------
(* The ClientHello, twice                                                    *)

\* Where the parts of a record at position b begin: the session id behind the
\* record and handshake headers, the version and the random bytes; then the
\* others by the lengths before them.
Session(b) == b + 43

Ciphers(p, b) == Session(b) + 1 + ByteAt(p, Session(b))

Methods(p, b) == Ciphers(p, b) + 2 + readUint16BE(p, Ciphers(p, b))

Extensions(p, b) == Methods(p, b) + 1 + ByteAt(p, Methods(p, b))

\* The server name extension with n bytes of data at position i.
serverName(p, i, n) ==
    LET length == readUint16BE(p, i + 3)
    IN  IF /\ n >= 5
           /\ readUint16BE(p, i) >= 3
           /\ ByteAt(p, i + 2) = 0
           /\ length <= n - 5
        THEN {Stretch(p, i + 5, length)}
        ELSE {}

\* SNIExtractor's loop over the extensions in from..(end - 1).  It stops at an
\* extension that is cut off and at the first server name extension.
scanExtensions(p, from, end) ==
    LET scan[i \in Nat] ==
            LET n == readUint16BE(p, i + 2)
            IN  IF i + 4 > end \/ i + 4 + n > end THEN {}
                ELSE IF readUint16BE(p, i) = 0 THEN serverName(p, i + 4, n)
                ELSE scan[i + 4 + n]
    IN  scan[from]

isTLSClientHello(p, b) ==
    /\ Len(p) - b >= 9
    /\ ByteAt(p, b) = 22
    /\ readUint16BE(p, b + 1) \in 768..772
    /\ readUint16BE(p, b + 3) <= Len(p) - b - 5
    /\ ByteAt(p, b + 5) = 1

\* SNIExtractor::extract on what begins at b.
extractSNI(p, b) ==
    LET exts == Extensions(p, b)
        end == exts + 2 + readUint16BE(p, exts)
    IN  IF /\ isTLSClientHello(p, b)
           /\ b + 9 + readUint24BE(p, b + 6) <= Len(p)
           /\ Session(b) < Len(p)
           /\ Ciphers(p, b) + 2 <= Len(p)
           /\ Methods(p, b) < Len(p)
           /\ exts + 2 <= Len(p)
           /\ end <= Len(p)
        THEN scanExtensions(p, exts + 2, end)
        ELSE {}

\* remaining is a size_t: below zero it is huge.
MoreThan(remaining, n) == remaining > n \/ remaining < 0

\* tryExtractSNI's loop: it goes on behind a server name it cannot use.
scanBuffer(p, from, end) ==
    LET scan[i \in Nat] ==
            LET n == readUint16BE(p, i + 2)
                found == IF readUint16BE(p, i) = 0 /\ i + 4 + n <= end
                         THEN serverName(p, i + 4, n) ELSE {}
            IN  IF i + 4 > end THEN {}
                ELSE IF found # {} THEN found
                ELSE scan[i + 4 + n]
    IN  scan[from]


\* The buffer begins with a record that is all there and begins a ClientHello.
isBufferedHello(p) ==
    /\ Len(p) >= 5
    /\ ByteAt(p, 0) = 22 /\ ByteAt(p, 1) = 3
    /\ Len(p) >= 5 + readUint16BE(p, 3)
    /\ Len(p) - 5 > 38
    /\ ByteAt(p, 5) = 1

\* What is tested before the lengths behind these parts are read.
HasCiphers(p) == MoreThan(Len(p) - Ciphers(p, 0), 2)
HasMethods(p) == HasCiphers(p) /\ MoreThan(Len(p) - Methods(p, 0), 1)
HasExtensions(p) == HasMethods(p) /\ MoreThan(Len(p) - Extensions(p, 0), 2)

\* The last byte that is read on the way to the extensions.
lastRead(p) == CASE HasExtensions(p) -> Extensions(p, 0) + 1
                 [] HasMethods(p) /\ ~HasExtensions(p) -> Methods(p, 0)
                 [] HasCiphers(p) /\ ~HasMethods(p) -> Ciphers(p, 0) + 1
                 [] OTHER -> Session(0)

\* tryExtractSNI on the contiguous buffer.
extractFromBuffer(p) ==
    LET exts == Extensions(p, 0)
        left == Len(p) - exts - 2
        announced == readUint16BE(p, exts)
    IN  IF isBufferedHello(p) /\ HasExtensions(p)
        THEN scanBuffer(p, exts + 2,
                        exts + 2 + (IF MoreThan(left, announced) THEN announced
                                                                 ELSE left))
        ELSE {}

-----------------------------------------------------------------------------
(* QUICSNIExtractor                                                          *)

LOOKAHEAD == 50

isQUICInitial(p) == Len(p) >= 5 /\ ByteAt(p, 0) >= 128

\* The first byte 1 that can be a ClientHello's handshake type, with a record
\* header before it, decides.
extractQUIC(p) ==
    LET hellos == {i \in 5..(Len(p) - LOOKAHEAD) :
                      ByteAt(p, i) = 1 /\ extractSNI(p, i - 5) # {}}
        first == {i \in hellos : \A j \in hellos : i <= j}
    IN  IF isQUICInitial(p) THEN UNION {extractSNI(p, i - 5) : i \in first} ELSE {}

-----------------------------------------------------------------------------
(* HTTPHostExtractor                                                         *)

LF == 10
CR == 13
Blank == {9, 32}
Colon == 58

\* GET, POST, PUT, HEAD, DELE, PATC, OPTI.
Methods4 == {<<71, 69, 84, 32>>, <<80, 79, 83, 84>>, <<80, 85, 84, 32>>,
             <<72, 69, 65, 68>>, <<68, 69, 76, 69>>, <<80, 65, 84, 67>>,
             <<79, 80, 84, 73>>}

isHTTPRequest(p) == Len(p) >= 4 /\ SubSeq(p, 1, 4) \in Methods4


\* A line that begins with "Host:", in any case, behind the line feed at i.
isHostLine(p, i) ==
    /\ i + 6 < Len(p)
    /\ ByteAt(p, i) = LF
    /\ ByteAt(p, i + 1) \in {72, 104}
    /\ ByteAt(p, i + 2) \in {79, 111}
    /\ ByteAt(p, i + 3) \in {83, 115}
    /\ ByteAt(p, i + 4) \in {84, 116}
    /\ ByteAt(p, i + 5) = Colon

\* The first position from i on with a byte of a kind, or the end.
FirstOf(p, i, kind) ==
    CHOOSE k \in i..Len(p) : /\ k = Len(p) \/ ByteAt(p, k) \in kind
                             /\ \A j \in i..(k - 1) : ByteAt(p, j) \notin kind

\* Where the text from i to the end of its line ends, without trailing blanks.
IsValueEnd(p, i, k) ==
    LET eol == FirstOf(p, i, {CR, LF})
    IN  /\ k \in i..eol
        /\ k = i \/ ByteAt(p, k - 1) \notin Blank
        /\ \A j \in k..(eol - 1) : ByteAt(p, j) \in Blank

-----------------------------------------------------------------------------
(* DNSExtractor                                                              *)

isDNSQuery(p) == /\ Len(p) >= 12
                 /\ ByteAt(p, 2) < 128
                 /\ readUint16BE(p, 4) > 0
=============================================================================
