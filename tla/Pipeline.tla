------------------------------ MODULE Pipeline ------------------------------
(***************************************************************************)
(* The engine's threads from start() to the end of stop(): the reader, the  *)
(* parser workers, the load balancers, the fast paths, the output thread    *)
(* and the main thread in waitForCompletion() and stop()                    *)
(* (src/dpi_engine.cpp, parser_pool.cpp, load_balancer.cpp, fast_path.cpp). *)
(*                                                                          *)
(* A ThreadSafeQueue is the bounded FIFO it implements (ThreadSafeQueue.tla):*)
(* a push that has to wait is an action that is not enabled, and a          *)
(* popWithTimeout that returns nullopt changes nothing.  What a fast path   *)
(* decides about a packet is left open here.                                *)
(***************************************************************************)
EXTENDS FlowKey, Sequences, Functions, FiniteSets

CONSTANTS NumPackets,    \* bound: packets in the input
          TupleOf,       \* the five-tuple of each packet
          Malformed,     \* the packets PacketParser::parse rejects
          NumParsers,    \* num_parser_workers
          NumLBs,        \* num_load_balancers
          FPsPerLB,      \* fps_per_lb
          QueueSize,     \* queue_size: of the raw and the output queue
          WorkerQueueSize, \* of the load balancers' and fast paths' queues
          FileModes      \* is output_file_ open: processFile or processSynthetic

Packet == 1..NumPackets

ASSUME PipelineAssumption ==
    /\ NumPackets \in Nat
    /\ TupleOf \in [Packet -> FiveTuple]
    /\ Malformed \subseteq Packet
    /\ NumParsers \in Nat \ {0}
    /\ NumLBs \in Nat \ {0}
    /\ FPsPerLB \in Nat \ {0}
    /\ QueueSize \in Nat
    /\ WorkerQueueSize \in Nat
    /\ FileModes \subseteq BOOLEAN

Parser == {<<"parser", i>> : i \in 0..(NumParsers - 1)}
LB == {<<"lb", i>> : i \in 0..(NumLBs - 1)}
FP == {<<"fp", i, j>> : i \in 0..(NumLBs - 1), j \in 0..(FPsPerLB - 1)}
Worker == Parser \cup LB \cup FP

\* A load balancer's and a fast path's queue is named after its owner.
raw == <<"raw">>
output == <<"output">>
Queue == {raw, output} \cup LB \cup FP

\* No packet, no thread.
NoPacket == 0
NoWorker == <<"none">>

VARIABLES next,        \* the packet the reader reads next
          readerDone,  \* the reader thread has ended
          queue,       \* the content of every queue
          shut,        \* the queues that were shut down
          hold,        \* the packet a worker has popped and not yet pushed
          thread,      \* a worker: running_ set, running_ cleared, or ended
          outputAlive, \* the output thread has not ended
          running_,    \* DPIEngine::running_
          fileOpen,    \* output_file_.is_open()
          phase,       \* where the main thread is
          stopping,    \* the worker the main thread is stopping
          errors,      \* packets counted in total_errors
          dropped,     \* packets counted in dropped_packets
          forwarded,   \* packets counted in forwarded_packets
          written,     \* packets written to the output file, in order
          lost,        \* packets pushed onto a queue that was shut down
          arrived,     \* history: packets put into a load balancer's queue
          processed    \* history: packets a fast path has processed, in order

readerVars == <<next, readerDone>>
mainVars == <<running_, phase, stopping, fileOpen>>
counters == <<errors, dropped, forwarded, written>>
vars == <<readerVars, queue, shut, hold, thread, outputAlive, mainVars,
          counters, lost, arrived, processed>>

TypeOK == /\ next \in 1..(NumPackets + 1)
          /\ readerDone \in BOOLEAN
          /\ queue \in [Queue -> Seq(Packet)]
          /\ shut \in SUBSET Queue
          /\ hold \in [Worker -> Packet \cup {NoPacket}]
          /\ thread \in [Worker -> {"running", "stopping", "ended"}]
          /\ outputAlive \in BOOLEAN
          /\ running_ \in BOOLEAN
          /\ fileOpen \in BOOLEAN
          /\ phase \in {"reading", "parsers", "lbs", "fps", "output", "done"}
          /\ stopping \in Worker \cup {NoWorker}
          /\ errors \in SUBSET Packet
          /\ dropped \in SUBSET Packet
          /\ forwarded \in SUBSET Packet
          /\ written \in Seq(Packet)
          /\ lost \in SUBSET Packet
          /\ arrived \in [LB -> Seq(Packet)]
          /\ processed \in [FP -> Seq(Packet)]

\* The state after start() and the creation of the reader thread.
Init == /\ next = 1 /\ readerDone = FALSE
        /\ queue = [k \in Queue |-> <<>>]
        /\ shut = {}
        /\ hold = [w \in Worker |-> NoPacket]
        /\ thread = [w \in Worker |-> "running"]
        /\ outputAlive = TRUE
        /\ running_ = TRUE
        /\ fileOpen \in FileModes
        /\ phase = "reading"
        /\ stopping = NoWorker
        /\ errors = {} /\ dropped = {} /\ forwarded = {} /\ written = <<>>
        /\ lost = {}
        /\ arrived = [l \in LB |-> <<>>]
        /\ processed = [f \in FP |-> <<>>]

-----------------------------------------------------------------------------
(* Queues and routing                                                        *)

MaxSize(k) == IF k \in {raw, output} THEN QueueSize ELSE WorkerQueueSize

\* push does not block.
CanPush(k) == Len(queue[k]) < MaxSize(k) \/ k \in shut

\* Variant: the newest packet goes first.
PushFront(k, p) ==
    IF k \in shut
    THEN lost' = lost \cup {p} /\ UNCHANGED queue
    ELSE queue' = [queue EXCEPT ![k] = <<p>> \o @] /\ UNCHANGED lost

\* push onto a shut queue returns without a word: the packet is gone.
PushOnto(k, p) ==
    IF k \in shut
    THEN lost' = lost \cup {p} /\ UNCHANGED queue
    ELSE queue' = [queue EXCEPT ![k] = Append(@, p)] /\ UNCHANGED lost

\* The queue a worker pops from.
Input(w) == IF w \in Parser THEN raw ELSE w

\* LBManager::getLBForPacket
LBForPacket(p) == <<"lb", FiveTupleHash(TupleOf[p]) % NumLBs>>

\* LoadBalancer::selectFP, among the fast paths of load balancer l
SelectFP(l, p) == <<"fp", l[2], FiveTupleHash(TupleOf[p]) % FPsPerLB>>

-----------------------------------------------------------------------------
(* The reader thread                                                         *)

\* Variant: packet ids start at zero.
ReaderPushFromZero ==
    /\ ~readerDone
    /\ next <= NumPackets
    /\ CanPush(raw)
    /\ PushOnto(raw, next - 1)
    /\ next' = next + 1
    /\ UNCHANGED <<readerDone, shut, hold, thread, outputAlive, mainVars,
                   counters, arrived, processed>>

ReaderPush ==
    /\ ~readerDone
    /\ next <= NumPackets
    /\ CanPush(raw)
    /\ PushOnto(raw, next)
    /\ next' = next + 1
    /\ UNCHANGED <<readerDone, shut, hold, thread, outputAlive, mainVars,
                   counters, arrived, processed>>

\* The input cannot be opened, is cut short, or is at its end.
ReaderEnd ==
    /\ ~readerDone
    /\ readerDone' = TRUE
    /\ UNCHANGED <<next, queue, shut, hold, thread, outputAlive, mainVars,
                   counters, lost, arrived, processed>>

-----------------------------------------------------------------------------
(* The workers                                                               *)

\* popWithTimeout hands the worker a packet.
Pop(w, p) == /\ thread[w] # "ended"
             /\ hold[w] = NoPacket
             /\ queue[Input(w)] # <<>>
             /\ p = Head(queue[Input(w)])
             /\ queue' = [queue EXCEPT ![Input(w)] = Tail(@)]

\* The worker's push of the packet it holds.
PushHeld(w, k) == /\ hold[w] # NoPacket
                  /\ CanPush(k)
                  /\ PushOnto(k, hold[w])
                  /\ hold' = [hold EXCEPT ![w] = NoPacket]

Parse(w) == \E p \in Packet :
    /\ Pop(w, p)
    /\ IF p \in Malformed
       THEN errors' = errors \cup {p} /\ UNCHANGED hold
       ELSE hold' = [hold EXCEPT ![w] = p] /\ UNCHANGED errors
    /\ UNCHANGED <<readerVars, shut, thread, outputAlive, mainVars, dropped,
                   forwarded, written, lost, arrived, processed>>

\* lb_selector_ and the push into the load balancer's queue.
ParserPush(w) ==
    LET l == LBForPacket(hold[w])
    IN  /\ PushHeld(w, l)
        /\ arrived' = IF l \in shut
                      THEN arrived
                      ELSE [arrived EXCEPT ![l] = Append(@, hold[w])]
        /\ UNCHANGED <<readerVars, shut, thread, outputAlive, mainVars,
                       counters, processed>>

LBPop(l) == \E p \in Packet :
    /\ Pop(l, p)
    /\ hold' = [hold EXCEPT ![l] = p]
    /\ UNCHANGED <<readerVars, shut, thread, outputAlive, mainVars, counters,
                   lost, arrived, processed>>

LBPush(l) == /\ PushHeld(l, SelectFP(l, hold[l]))
             /\ UNCHANGED <<readerVars, shut, thread, outputAlive, mainVars,
                            counters, arrived, processed>>

\* Variant of handleOutput: a dropped packet is not returned from.
DropAndForward(f, p) ==
    /\ dropped' = dropped \cup {p}
    /\ forwarded' = forwarded \cup {p}
    /\ hold' = IF fileOpen THEN [hold EXCEPT ![f] = p] ELSE hold

\* handleOutput with either action: count, and keep a forwarded packet for the
\* output queue when there is an output file.
HandleOutput(f, p) ==
    \/ /\ dropped' = dropped \cup {p}
       /\ UNCHANGED <<forwarded, hold>>
    \/ /\ forwarded' = forwarded \cup {p}
       /\ hold' = IF fileOpen THEN [hold EXCEPT ![f] = p] ELSE hold
       /\ UNCHANGED dropped

\* processPacket decides about the packet and calls handleOutput.
FPProcess(f) == \E p \in Packet :
    /\ Pop(f, p)
    /\ processed' = [processed EXCEPT ![f] = Append(@, p)]
    /\ HandleOutput(f, p)
    /\ UNCHANGED <<readerVars, shut, thread, outputAlive, mainVars, errors,
                   written, lost, arrived>>

\* handleOutput's push into the output queue.
FPPush(f) == /\ PushHeld(f, output)
             /\ UNCHANGED <<readerVars, shut, thread, outputAlive, mainVars,
                            counters, arrived, processed>>

\* Variant: a worker that was told to stop leaves its queue alone.
WorkerEndAtOnce(w) ==
    /\ thread[w] = "stopping"
    /\ hold[w] = NoPacket
    /\ thread' = [thread EXCEPT ![w] = "ended"]
    /\ UNCHANGED <<readerVars, queue, shut, hold, outputAlive, mainVars,
                   counters, lost, arrived, processed>>

\* The loop of run() breaks: nothing to pop, !running_ and the queue empty.
WorkerEnd(w) ==
    /\ thread[w] = "stopping"
    /\ hold[w] = NoPacket
    /\ queue[Input(w)] = <<>>
    /\ thread' = [thread EXCEPT ![w] = "ended"]
    /\ UNCHANGED <<readerVars, queue, shut, hold, outputAlive, mainVars,
                   counters, lost, arrived, processed>>

-----------------------------------------------------------------------------
(* The output thread                                                         *)

OutputWrite ==
    /\ outputAlive
    /\ queue[output] # <<>>
    /\ written' = Append(written, Head(queue[output]))
    /\ queue' = [queue EXCEPT ![output] = Tail(@)]
    /\ UNCHANGED <<readerVars, shut, hold, thread, outputAlive, mainVars,
                   errors, dropped, forwarded, lost, arrived, processed>>

\* The loop's condition running_ || !output_queue_.empty() is false.
OutputEnd ==
    /\ outputAlive
    /\ ~running_
    /\ queue[output] = <<>>
    /\ outputAlive' = FALSE
    /\ UNCHANGED <<readerVars, queue, shut, hold, thread, mainVars, counters,
                   lost, arrived, processed>>

-----------------------------------------------------------------------------
(* The main thread: waitForCompletion(), then stop()                         *)

\* reader_thread_.join(); raw_packet_queue_.shutdown()
JoinReader ==
    /\ phase = "reading"
    /\ readerDone
    /\ shut' = shut \cup {raw}
    /\ phase' = "parsers"
    /\ UNCHANGED <<readerVars, queue, hold, thread, outputAlive, running_,
                   stopping, fileOpen, counters, lost, arrived, processed>>

\* The workers the present stopAll() goes through.
Stage == CASE phase = "parsers" -> Parser
           [] phase = "lbs" -> LB
           [] phase = "fps" -> FP
           [] OTHER -> {}

\* A worker's place in its manager's vector.
Index(w) == IF w \in FP THEN w[2] * FPsPerLB + w[3] ELSE w[2]

\* The first half of a worker's stop(), in the vector's order: clear its
\* running_ and, but for a parser, shut its queue down.
StopWorker(w) ==
    /\ stopping = NoWorker
    /\ w \in Stage
    /\ thread[w] = "running"
    /\ \A v \in Stage : thread[v] = "running" => Index(w) <= Index(v)
    /\ thread' = [thread EXCEPT ![w] = "stopping"]
    /\ shut' = IF w \in Parser THEN shut ELSE shut \cup {w}
    /\ stopping' = w
    /\ UNCHANGED <<readerVars, queue, hold, outputAlive, running_, phase,
                   fileOpen, counters, lost, arrived, processed>>

\* The second half: thread_.join().
JoinWorker ==
    /\ stopping # NoWorker
    /\ thread[stopping] = "ended"
    /\ stopping' = NoWorker
    /\ UNCHANGED <<readerVars, queue, shut, hold, thread, outputAlive,
                   running_, phase, fileOpen, counters, lost, arrived,
                   processed>>

\* Variant: the fast paths are stopped before the load balancers that feed them.
NextPhaseFpsFirst == CASE phase = "parsers" -> "fps"
                       [] phase = "fps" -> "lbs"
                       [] phase = "lbs" -> "output"

NextPhase == CASE phase = "parsers" -> "lbs"
               [] phase = "lbs" -> "fps"
               [] phase = "fps" -> "output"

\* Variant: stop() forgets running_.
StageStoppedStillRunning ==
    /\ phase \in {"parsers", "lbs", "fps"}
    /\ stopping = NoWorker
    /\ \A w \in Stage : thread[w] = "ended"
    /\ phase' = NextPhase
    /\ UNCHANGED running_
    /\ shut' = IF phase = "fps" THEN shut \cup {output} ELSE shut
    /\ UNCHANGED <<readerVars, queue, hold, thread, outputAlive, stopping,
                   fileOpen, counters, lost, arrived, processed>>

\* A stopAll() returns.  After the parsers' in waitForCompletion(), stop()
\* clears running_ before it turns to the load balancers; after the fast
\* paths' it shuts the output queue down.
StageStopped ==
    /\ phase \in {"parsers", "lbs", "fps"}
    /\ stopping = NoWorker
    /\ \A w \in Stage : thread[w] = "ended"
    /\ phase' = NextPhase
    /\ running_' = FALSE
    /\ shut' = IF phase = "fps" THEN shut \cup {output} ELSE shut
    /\ UNCHANGED <<readerVars, queue, hold, thread, outputAlive, stopping,
                   fileOpen, counters, lost, arrived, processed>>

\* output_thread_.join(), the end of stop().
JoinOutput ==
    /\ phase = "output"
    /\ ~outputAlive
    /\ phase' = "done"
    /\ UNCHANGED <<readerVars, queue, shut, hold, thread, outputAlive,
                   running_, stopping, fileOpen, counters, lost, arrived,
                   processed>>

\* The engine has stopped and nothing happens any more.
Stopped == phase = "done" /\ UNCHANGED vars

-----------------------------------------------------------------------------

ReaderStep == ReaderPush \/ ReaderEnd
ParserStep(w) == Parse(w) \/ ParserPush(w) \/ WorkerEnd(w)
LBStep(l) == LBPop(l) \/ LBPush(l) \/ WorkerEnd(l)
FPStep(f) == FPProcess(f) \/ FPPush(f) \/ WorkerEnd(f)
OutputStep == OutputWrite \/ OutputEnd
MainStep == \/ JoinReader
            \/ \E w \in Worker : StopWorker(w)
            \/ JoinWorker
            \/ StageStopped
            \/ JoinOutput

Next == \/ ReaderStep
        \/ \E w \in Parser : ParserStep(w)
        \/ \E l \in LB : LBStep(l)
        \/ \E f \in FP : FPStep(f)
        \/ OutputStep
        \/ MainStep
        \/ Stopped

Spec == Init /\ [][Next]_vars

\* Every thread is scheduled: one that can take a step eventually does.
Fairness == /\ WF_vars(ReaderStep)
            /\ \A w \in Parser : WF_vars(ParserStep(w))
            /\ \A l \in LB : WF_vars(LBStep(l))
            /\ \A f \in FP : WF_vars(FPStep(f))
            /\ WF_vars(OutputStep)
            /\ WF_vars(MainStep)

FairSpec == Spec /\ Fairness

-----------------------------------------------------------------------------
(* Properties                                                                *)

Read == 1..(next - 1)

\* What may have become of a packet in the end.
Fate == [errors |-> errors, dropped |-> dropped, forwarded |-> forwarded,
         lost |-> lost]

\* All the places a packet is in before its fate is decided, and its fates.
Places(p) == (UNION {{<<"queue", k, i>> : i \in {j \in DOMAIN queue[k] : queue[k][j] = p}} :
                         k \in Queue \ {output}})
             \cup {<<"hold", w>> : w \in {v \in Parser \cup LB : hold[v] = p}}
             \cup {<<"fate", e>> : e \in {d \in DOMAIN Fate : p \in Fate[d]}}

\* The places of a forwarded packet on its way to the file.
OutputPlaces(p) == {<<"queue", i>> : i \in {j \in DOMAIN queue[output] :
                                               queue[output][j] = p}}
                   \cup {<<"hold", f>> : f \in {g \in FP : hold[g] = p}}
                   \cup {<<"written", i>> : i \in {j \in DOMAIN written :
                                                     written[j] = p}}

\* No stage loses or duplicates a packet: every packet read is in exactly one
\* place of the pipeline or has exactly one fate, and with an output file a
\* forwarded packet is in exactly one place of the output path.
EveryPacketOnce ==
    /\ \A p \in Packet : Cardinality(Places(p)) = IF p \in Read THEN 1 ELSE 0
    /\ fileOpen => \A p \in forwarded : Cardinality(OutputPlaces(p)) = 1

\* stop() shuts a queue down only after everybody who pushes onto it has ended:
\* push's silent return on shutdown never swallows a packet.
NoSilentLoss == lost = {}

\* Packets of one flow, of either direction, are processed by one fast path:
\* a flow's state needs no lock.
FlowAffinity ==
    \A f, g \in FP : \A p \in Range(processed[f]), r \in Range(processed[g]) :
        SameFlow(TupleOf[p], TupleOf[r]) => f = g

\* When stop() returns, every packet read has its verdict: nothing is left in
\* a queue in front of a fast path or in a worker's hands.
StopLeavesNoPacketBehind ==
    phase = "done" => errors \cup dropped \cup forwarded = Read

\* The packets of l's fast path f among the first i of s, in their order.
BoundAmong(s, l, f) ==
    LET B[i \in 0..Len(s)] == IF i = 0 THEN <<>>
                              ELSE IF SelectFP(l, s[i]) = f THEN Append(B[i - 1], s[i])
                              ELSE B[i - 1]
    IN  B

Bound(s, l, f) == BoundAmong(s, l, f)[Len(s)]

Held(w) == IF hold[w] = NoPacket THEN <<>> ELSE <<hold[w]>>

\* From the load balancer's queue on, order is kept: what a fast path has
\* processed and has yet to process is what reached the load balancer for it,
\* in that order.
OrderKeptAfterParsers ==
    \A l \in LB : \A f \in {<<"fp", l[2], j>> : j \in 0..(FPsPerLB - 1)} :
        Bound(arrived[l], l, f) =
            processed[f] \o queue[f] \o Bound(Held(l), l, f)
                         \o Bound(queue[l], l, f)

\* stop() returns.
StopReturns == <>(phase = "done")

-----------------------------------------------------------------------------
(* What the documentation says                                               *)

\* README.md:67, "preserving strict flow order": a fast path processes the
\* packets of a flow in the order they were read.
StrictFlowOrder ==
    \A f \in FP : \A i, j \in DOMAIN processed[f] :
        i < j /\ SameFlow(TupleOf[processed[f][i]], TupleOf[processed[f][j]])
            => processed[f][i] < processed[f][j]

\* dpi_engine.cpp:180 and README.md:60, "graceful shutdown draining": when
\* processFile returns, every forwarded packet is in the output file.
ForwardedIsWritten ==
    phase = "done" /\ fileOpen => forwarded = Range(written)
=============================================================================
