----------------------------- MODULE CaptureFile -----------------------------
(***************************************************************************)
(* PCAP files: PcapReader of src/pcap_reader.cpp and the writer of          *)
(* src/dpi_engine.cpp, byte by byte.  The writer copies the structs of the  *)
(* reader's header from memory, on a little-endian machine.  A number of 4  *)
(* (or 2) bytes is the sequence of its bytes, the most significant first.   *)
(***************************************************************************)
EXTENDS Integers, SequencesExt

VARIABLES input,          \* the file that is read
          position,       \* file_: where the next read begins
          global_header_, \* PcapReader::global_header_
          record,         \* the last packet read: its time and its bytes
          output,         \* output_file_
          forwarded       \* history: the packets that were written

fileVars == <<input, position, global_header_, record, output, forwarded>>

PCAP_MAGIC_NATIVE == <<161, 178, 195, 212>>
PCAP_MAGIC_SWAPPED == Reverse(PCAP_MAGIC_NATIVE)

\* A number in memory, from and to its bytes in a file.
Load(file, i, n) == Reverse(SubSeq(file, i + 1, i + n))
Store(number) == Reverse(number)

AtMost(v, w) ==
    v = w \/ \E i \in DOMAIN v : v[i] < w[i] /\ \A j \in 1..(i - 1) : v[j] = w[j]

\* A length, of at most 65535.
Length(number) == 256 * number[3] + number[4]
OfLength(n) == <<0, 0, n \div 256, n % 256>>
MaxLength == OfLength(65535)

NoHeader == [magic_number |-> <<>>, version |-> <<>>, zone |-> <<>>,
             snaplen |-> <<>>, network |-> <<>>]

NoRecord == [ts |-> <<>>, data |-> <<>>]

FileInit(file) == /\ input = file
                  /\ position = 0
                  /\ global_header_ = NoHeader
                  /\ record = NoRecord
                  /\ output = <<>> /\ forwarded = <<>>

-----------------------------------------------------------------------------
(* PcapReader                                                                *)

needsByteSwap(header) == header.magic_number = PCAP_MAGIC_SWAPPED

maybeSwap(swap, number) == IF swap THEN Reverse(number) ELSE number

hasGlobalHeader(file) ==
    /\ Len(file) >= 24
    /\ Load(file, 0, 4) \in {PCAP_MAGIC_NATIVE, PCAP_MAGIC_SWAPPED}

\* The magic number, the time zone and the accuracy stay as they were read.
globalHeader(file) ==
    LET magic == Load(file, 0, 4)
        swap == magic = PCAP_MAGIC_SWAPPED
    IN  [magic_number |-> magic,
         version |-> <<maybeSwap(swap, Load(file, 4, 2)),
                       maybeSwap(swap, Load(file, 6, 2))>>,
         zone |-> <<Load(file, 8, 4), Load(file, 12, 4)>>,
         snaplen |-> maybeSwap(swap, Load(file, 16, 4)),
         network |-> maybeSwap(swap, Load(file, 20, 4))]

\* The packet at a position, as a set: empty when the file ends there, in the
\* packet, or when its length cannot be right.
packetAt(file, header, i) ==
    LET number(k) == maybeSwap(needsByteSwap(header), Load(file, i + k, 4))
        incl_len == number(8)
    IN  IF /\ i + 16 <= Len(file)
           /\ AtMost(incl_len, header.snaplen)
           /\ AtMost(incl_len, MaxLength)
           /\ i + 16 + Length(incl_len) <= Len(file)
        THEN {[ts |-> <<number(0), number(4)>>,
               data |-> SubSeq(file, i + 17, i + 16 + Length(incl_len))]}
        ELSE {}

-----------------------------------------------------------------------------
(* Reader and output thread                                                  *)

\* writeOutputHeader.
headerBytes(h) ==
    Store(h.magic_number) \o Store(h.version[1]) \o Store(h.version[2])
    \o Store(h.zone[1]) \o Store(h.zone[2]) \o Store(h.snaplen) \o Store(h.network)

\* Variant: the length that is written counts the record's header.
packetBytesWithHeader(r) ==
    Store(r.ts[1]) \o Store(r.ts[2]) \o Store(OfLength(16 + Len(r.data)))
    \o Store(OfLength(16 + Len(r.data))) \o r.data

\* writeOutputPacket; the length the packet had before it was cut is not kept.
packetBytes(r) ==
    Store(r.ts[1]) \o Store(r.ts[2]) \o Store(OfLength(Len(r.data)))
    \o Store(OfLength(Len(r.data))) \o r.data

\* open() and the header of the output file.
openFile == /\ hasGlobalHeader(input)
            /\ position' = 24
            /\ global_header_' = globalHeader(input)
            /\ output' = headerBytes(globalHeader(input))
            /\ UNCHANGED <<input, record, forwarded>>

readNextPacket == \E r \in packetAt(input, global_header_, position) :
                     /\ record' = r
                     /\ position' = position + 16 + Len(r.data)
                     /\ UNCHANGED <<input, global_header_, output, forwarded>>

endOfFile == packetAt(input, global_header_, position) = {}

writeOutputPacket == /\ output' = output \o packetBytes(record)
                     /\ forwarded' = Append(forwarded, record)
                     /\ UNCHANGED <<input, position, global_header_, record>>

-----------------------------------------------------------------------------

\* What PcapReader reads from a file, from its beginning to its end.
packetsIn(file) ==
    LET header == globalHeader(file)
        from[i \in Nat] ==
            IF packetAt(file, header, i) = {} THEN <<>>
            ELSE LET r == CHOOSE r \in packetAt(file, header, i) : TRUE
                 IN  <<r>> \o from[i + 16 + Len(r.data)]
    IN  IF hasGlobalHeader(file) THEN from[24] ELSE <<>>
=============================================================================
