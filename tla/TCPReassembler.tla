---------------------------- MODULE TCPReassembler ----------------------------
(***************************************************************************)
(* TCPReassembler of src/tcp_reassembler.cpp for one direction of a flow,   *)
(* called by FastPathProcessor::inspectPayload for every client payload.    *)
(*                                                                          *)
(* The client sends a stream of StreamLen bytes; byte n stands for itself,  *)
(* so the content of a buffer shows which bytes it holds.  A segment is any *)
(* stretch of the stream, delivered in any order and any number of times,   *)
(* with overlaps.  Sequence numbers are 32-bit in the code and counted      *)
(* modulo Modulus here.  The class is used by one thread: a call is the     *)
(* actions from Receive to the return to "idle", with nothing in between.   *)
(***************************************************************************)
EXTENDS Integers, Sequences, FiniteSets

CONSTANTS StreamLen,  \* bound: bytes the client sends
          HelloLen,   \* how many of them the ClientHello record takes
          MaxBytes,   \* max_buffer_bytes
          Modulus,    \* 2^32 in the code
          ISN         \* sequence number of byte 0

ASSUME ReassemblerAssumption ==
    /\ StreamLen \in Nat /\ HelloLen \in 1..StreamLen
    /\ MaxBytes \in Nat /\ MaxBytes > 1
    /\ Modulus \in Nat /\ Modulus > 2 * StreamLen
    /\ ISN \in 0..(Modulus - 1)

VARIABLES buffer_,       \* in-order contiguous bytes
          expected_seq_, \* next expected sequence number, -1: not initialised
          out_of_order_, \* buffered future segments
          memory,        \* current_memory_usage_
          failed_,       \* the direction is given up
          pc,            \* "idle", "merge" (in mergeOutOfOrder) or "extract"
          sni,           \* the server name was returned to the caller
          base,          \* history: the first byte of the first segment
          delivered      \* history: the bytes handed in so far

vars == <<buffer_, expected_seq_, out_of_order_, memory, failed_, pc, sni,
          base, delivered>>

Byte == 1..StreamLen

SeqNo == 0..(Modulus - 1)

Segment == [seq : SeqNo, from : Byte, length : Byte]

TypeOK == /\ buffer_ \in Seq(Byte)
          /\ expected_seq_ \in SeqNo \cup {-1}
          /\ out_of_order_ \in Seq(Segment)
          /\ memory \in 0..MaxBytes
          /\ failed_ \in BOOLEAN
          /\ pc \in {"idle", "merge", "extract"}
          /\ sni \in BOOLEAN
          /\ base \in Byte \cup {0}
          /\ delivered \in SUBSET Byte

Init == /\ buffer_ = <<>> /\ out_of_order_ = <<>> /\ memory = 0
        /\ expected_seq_ = -1
        /\ failed_ = FALSE /\ sni = FALSE
        /\ pc = "idle"
        /\ base = 0 /\ delivered = {}

\* seqDiff without the reduction to a signed number.
PlainDiff(s1, s2) == s1 - s2

\* seqDiff: the signed distance of two sequence numbers, safe at wraparound.
SeqDiff(s1, s2) == LET d == (s1 - s2) % Modulus
                   IN  IF 2 * d < Modulus THEN d ELSE d - Modulus

\* Stream bytes from a to b.
Bytes(a, b) == [i \in 1..(b - a + 1) |-> a + i - 1]

\* clear(): expected_seq_ keeps its value.
Clear == buffer_' = <<>> /\ out_of_order_' = <<>> /\ memory' = 0

\* Variant: clear() has the last word on failed_.
GiveUpAndForget == Clear /\ failed_' = FALSE

\* The limit is exceeded: drop everything, stop tracking this direction.
GiveUp == Clear /\ failed_' = TRUE

-----------------------------------------------------------------------------
(* tryExtractSNI, sections 1 to 4                                            *)

\* The in-order segment joins the buffer.
AcceptInOrder(seg) ==
    /\ buffer_' = buffer_ \o Bytes(seg.from, seg.from + seg.length - 1)
    /\ memory' = memory + seg.length
    /\ expected_seq_' = (seg.seq + seg.length) % Modulus
    /\ pc' = "merge"
    /\ UNCHANGED <<out_of_order_, failed_>>

\* How many buffered segments come before a sequence number: where
\* std::lower_bound points, counted from zero.
LowerBound(s) == Cardinality({i \in DOMAIN out_of_order_ :
                                SeqDiff(out_of_order_[i].seq, s) < 0})

InsertAt(s, n, x) == SubSeq(s, 1, n) \o <<x>> \o SubSeq(s, n + 1, Len(s))

\* Variant: the replaced segment is taken off the books, the new one not put on.
RechargedShort(old, seg) == memory - old.length

\* memory after seg took the place of old.
Recharged(old, seg) == memory - old.length + seg.length

\* The future segment is ignored as a duplicate, replaces a shorter one with
\* the same start, or is inserted in order.
BufferOutOfOrder(seg) ==
    LET n == LowerBound(seg.seq)
        same == n < Len(out_of_order_) /\ out_of_order_[n + 1].seq = seg.seq
    IN  \/ /\ same
           /\ seg.length <= out_of_order_[n + 1].length
           /\ pc' = "idle"
           /\ UNCHANGED <<out_of_order_, memory>>
        \/ /\ same
           /\ seg.length > out_of_order_[n + 1].length
           /\ out_of_order_' = [out_of_order_ EXCEPT ![n + 1] = seg]
           /\ memory' = Recharged(out_of_order_[n + 1], seg)
           /\ pc' = "extract"
        \/ /\ ~same
           /\ out_of_order_' = InsertAt(out_of_order_, n, seg)
           /\ memory' = memory + seg.length
           /\ pc' = "extract"

\* The segment without the bytes before the expected one.
Trimmed(seg, overlap) == [seq |-> (seg.seq + overlap) % Modulus,
                          from |-> seg.from + overlap,
                          length |-> seg.length - overlap]

\* Variant: the limit is checked after the fact.
ExceedsLimitLate(length) == memory > MaxBytes

ExceedsLimit(length) == memory + length > MaxBytes

\* The call with a segment of the stream.  inspectPayload does not call when
\* the flow is classified, which it is once the name was found.
Receive(from, length) ==
    LET seq == (ISN + from) % Modulus
        expected == IF expected_seq_ = -1 THEN seq ELSE expected_seq_
        diff == SeqDiff(seq, expected)
        overlap == IF diff < 0 THEN -diff ELSE 0
        seg == Trimmed([seq |-> seq, from |-> from, length |-> length], overlap)
    IN  /\ pc = "idle" /\ ~failed_ /\ ~sni
        /\ base' = IF expected_seq_ = -1 THEN from ELSE base
        /\ delivered' = delivered \cup (from..(from + length - 1))
        /\ UNCHANGED sni
        /\ \/ /\ overlap >= length
              /\ UNCHANGED <<buffer_, expected_seq_, out_of_order_, memory,
                             failed_, pc>>
           \/ /\ overlap < length
              /\ ExceedsLimit(seg.length)
              /\ GiveUp
              /\ expected_seq_' = expected
              /\ UNCHANGED pc
           \/ /\ overlap < length
              /\ ~ExceedsLimit(seg.length)
              /\ diff <= 0
              /\ AcceptInOrder(seg)
           \/ /\ overlap < length
              /\ ~ExceedsLimit(seg.length)
              /\ diff > 0
              /\ BufferOutOfOrder(seg)
              /\ UNCHANGED <<buffer_, expected_seq_, failed_>>

-----------------------------------------------------------------------------
(* mergeOutOfOrder: one action per iteration of its loop                     *)

Front == out_of_order_[1]

Behind == -SeqDiff(Front.seq, expected_seq_)

\* Variant: only a segment that starts exactly at the expected byte is merged.
CanMergeExact == out_of_order_ # <<>> /\ Behind = 0

\* The list's first segment starts at or before the expected byte.
CanMerge == out_of_order_ # <<>> /\ Behind >= 0

\* Variant: the limit is not checked again.
MergeFitsAlways == TRUE

\* The front segment's new bytes do not take the buffer over the limit.
MergeFits == Len(buffer_) + Front.length - Behind <= MaxBytes

\* The front segment's new bytes, if any, join the buffer, and it leaves the list
\* and, although its bytes are still held, the books.
MergeFront ==
    /\ pc = "merge"
    /\ CanMerge
    /\ \/ /\ Behind < Front.length
          /\ MergeFits
          /\ buffer_' = buffer_ \o Bytes(Front.from + Behind,
                                         Front.from + Front.length - 1)
          /\ expected_seq_' = (expected_seq_ + Front.length - Behind) % Modulus
       \/ /\ Behind >= Front.length
          /\ UNCHANGED <<buffer_, expected_seq_>>
    /\ out_of_order_' = Tail(out_of_order_)
    /\ memory' = memory - Front.length
    /\ UNCHANGED <<failed_, pc, sni, base, delivered>>

\* The merged bytes would exceed the limit: give up.
MergeExceedsLimit ==
    /\ pc = "merge"
    /\ CanMerge
    /\ Behind < Front.length
    /\ ~MergeFits
    /\ GiveUp
    /\ pc' = "extract"
    /\ UNCHANGED <<expected_seq_, sni, base, delivered>>

\* A gap, or nothing left to merge.
MergeEnd ==
    /\ pc = "merge"
    /\ ~CanMerge
    /\ pc' = "extract"
    /\ UNCHANGED <<buffer_, expected_seq_, out_of_order_, memory, failed_, sni,
                   base, delivered>>

-----------------------------------------------------------------------------
(* The end of tryExtractSNI: look for a complete ClientHello at the front    *)

HelloComplete == buffer_ # <<>> /\ buffer_[1] = 1 /\ Len(buffer_) >= HelloLen

\* The name is found and the caller clears the reassembler; or not yet.
Extract ==
    /\ pc = "extract"
    /\ pc' = "idle"
    /\ \/ /\ HelloComplete
          /\ sni' = TRUE
          /\ Clear
       \/ /\ ~HelloComplete
          /\ UNCHANGED <<sni, buffer_, out_of_order_, memory>>
    /\ UNCHANGED <<expected_seq_, failed_, base, delivered>>

\* The flow is classified or given up: no further call has an effect.
Finished == pc = "idle" /\ (sni \/ failed_) /\ UNCHANGED vars

Next == \/ \E from \in Byte : \E length \in 1..(StreamLen - from + 1) :
                Receive(from, length)
        \/ MergeFront
        \/ MergeExceedsLimit
        \/ MergeEnd
        \/ Extract
        \/ Finished

Spec == Init /\ [][Next]_vars

-----------------------------------------------------------------------------
(* Properties                                                                *)

\* The bytes held in a list of segments, each named by its segment and its place.
Cells(list) == {c \in (DOMAIN list) \X Byte : c[2] <= list[c[1]].length}

Buffered == Cardinality(Cells(out_of_order_))

\* The buffer is a gapless stretch of the stream starting with the first byte
\* seen, and expected_seq_ is the number of the byte after it: whatever the
\* order, overlaps, duplicates and wraparound, no byte is skipped, repeated or
\* misplaced.
BufferIsContiguous ==
    ~failed_ /\ ~sni /\ base # 0 =>
        /\ buffer_ = Bytes(base, base + Len(buffer_) - 1)
        /\ expected_seq_ = (ISN + base + Len(buffer_)) % Modulus

\* Between calls the buffered segments are sorted without repetition, and all
\* of them start after the expected byte: nothing that could be merged waits.
NothingMergeableWaits ==
    pc = "idle" =>
        /\ \A i, j \in DOMAIN out_of_order_ :
              i < j => SeqDiff(out_of_order_[i].seq, out_of_order_[j].seq) < 0
        /\ \A i \in DOMAIN out_of_order_ :
              SeqDiff(out_of_order_[i].seq, expected_seq_) > 0

\* current_memory_usage_, an unsigned counter, covers the buffered segments at
\* all times: no subtraction in a replacement or a merge wraps around.
AccountingHolds == Buffered <= memory

\* What is held stays below twice the limit.  Merged bytes are off the books,
\* but a merge takes at least two bytes that were accepted in order, before and
\* in the gap, and these stay on them.
HeldBelowTwiceLimit == Len(buffer_) + Buffered <= 2 * MaxBytes - 2

\* When all bytes of the ClientHello were handed in and the direction was not given
\* up, the name was found exactly if the stream's first segment was the first to
\* come.  Otherwise the segments before the one that was are retransmissions for the
\* code (tcp_reassembler.cpp:21), and the name is never found, although README.md:37
\* has "reassemble out-of-order TCP segments".
HelloFoundWhenDelivered ==
    pc = "idle" /\ ~failed_ /\ 1..HelloLen \subseteq delivered
        => (sni <=> base = 1)

-----------------------------------------------------------------------------
(* What the documentation says                                               *)

\* tcp_reassembler.h:17, "16 KB strict aggregate max per direction".
StrictAggregateMax == pc = "idle" => Len(buffer_) + Buffered <= MaxBytes
=============================================================================
