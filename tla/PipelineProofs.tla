--------------------------- MODULE PipelineProofs ---------------------------
(***************************************************************************)
(* Proofs about Pipeline for any number of packets, parsers, load balancers *)
(* and fast paths, any queue sizes and any hash function.                   *)
(***************************************************************************)
EXTENDS Pipeline, TLAPS

-----------------------------------------------------------------------------
(* Flow keys                                                                 *)

\* canonical() and reverse() stay inside the tuples.
LEMMA CanonicalType ==
  ASSUME NEW t \in FiveTuple
  PROVE  reverse(t) \in FiveTuple /\ canonical(t) \in FiveTuple
  BY DEF FiveTuple, reverse, canonical

\* Both directions of a flow have one canonical form: FiveTuple::canonical()
\* orders the endpoints by address and then by port, totally.
THEOREM CanonicalOfReverse ==
  ASSUME NEW t \in FiveTuple
  PROVE  canonical(reverse(t)) = canonical(t)
  <1> USE FlowKeyAssumption
  <1>1. /\ t.src_ip \in Nat /\ t.dst_ip \in Nat
        /\ t.src_port \in Nat /\ t.dst_port \in Nat
    BY DEF FiveTuple
  <1>2. reverse(reverse(t)) = t
    BY DEF FiveTuple, reverse
  <1>3. CASE t.src_ip = t.dst_ip /\ t.src_port = t.dst_port
    <2>1. reverse(t) = t
      BY <1>3 DEF FiveTuple, reverse
    <2> QED
      BY <2>1
  <1>4. CASE ~(t.src_ip = t.dst_ip /\ t.src_port = t.dst_port)
    BY <1>1, <1>2, <1>4 DEF canonical, reverse
  <1> QED
    BY <1>3, <1>4

\* So they have one hash.
LEMMA SameFlowSameHash ==
  ASSUME NEW t \in FiveTuple, NEW u \in FiveTuple, SameFlow(t, u)
  PROVE  FiveTupleHash(t) = FiveTupleHash(u)
  BY CanonicalOfReverse DEF SameFlow, FiveTupleHash

LEMMA HashType == \A t \in FiveTuple : FiveTupleHash(t) \in Nat
  BY FlowKeyAssumption, CanonicalType DEF FiveTupleHash

-----------------------------------------------------------------------------
(* Types                                                                     *)

\* The names of threads and queues do not clash.
LEMMA Names ==
  /\ raw \in Queue /\ output \in Queue /\ raw # output
  /\ LB \subseteq Queue /\ FP \subseteq Queue
  /\ \A w \in Worker : Input(w) \in Queue \ {output}
  /\ \A w \in LB \cup FP : Input(w) = w
  /\ \A w \in Parser : Input(w) = raw
  /\ raw \notin LB \cup FP /\ output \notin LB \cup FP
  /\ LB \cap FP = {} /\ Parser \cap LB = {} /\ Parser \cap FP = {}
  /\ NoWorker \notin Worker
  /\ NoPacket \notin Packet
  <1>1. \A i \in Nat : /\ <<"lb", i>> # <<"raw">> /\ <<"lb", i>> # <<"output">>
                       /\ <<"lb", i>> # <<"none">> /\ <<"parser", i>> # <<"none">>
                       /\ \A j \in Nat : <<"lb", i>> # <<"parser", j>>
    OBVIOUS
  <1>2. \A i, j \in Nat : /\ <<"fp", i, j>> # <<"raw">> /\ <<"fp", i, j>> # <<"output">>
                          /\ <<"fp", i, j>> # <<"none">>
                          /\ \A k \in Nat : /\ <<"fp", i, j>> # <<"parser", k>>
                                            /\ <<"fp", i, j>> # <<"lb", k>>
    OBVIOUS
  <1>3. <<"raw">> # <<"output">>
    OBVIOUS
  <1> QED
    BY <1>1, <1>2, <1>3, PipelineAssumption
    DEF Queue, raw, output, Worker, Parser, LB, FP, Input, NoWorker, NoPacket, Packet

\* Routing stays within the load balancers and within their fast paths.
LEMMA RouteType ==
  /\ \A p \in Packet : LBForPacket(p) \in LB
  /\ \A l \in LB, p \in Packet : SelectFP(l, p) \in FP
  <1> USE PipelineAssumption
  <1>1. \A p \in Packet : FiveTupleHash(TupleOf[p]) \in Nat
    BY HashType
  <1>2. \A h \in Nat : h % NumLBs \in 0..(NumLBs - 1) /\ h % FPsPerLB \in 0..(FPsPerLB - 1)
    OBVIOUS
  <1>3. ASSUME NEW p \in Packet PROVE LBForPacket(p) \in LB
    BY <1>1, <1>2 DEF LBForPacket, LB
  <1>4. ASSUME NEW l \in LB, NEW p \in Packet PROVE SelectFP(l, p) \in FP
    <2>1. l[2] \in 0..(NumLBs - 1)
      BY DEF LB
    <2>2. FiveTupleHash(TupleOf[p]) % FPsPerLB \in 0..(FPsPerLB - 1)
      BY <1>1, <1>2
    <2> QED
      BY <2>1, <2>2 DEF SelectFP, FP
  <1> QED
    BY <1>3, <1>4

LEMMA TypeInit == Init => TypeOK
  <1> SUFFICES ASSUME Init PROVE TypeOK
    OBVIOUS
  <1> USE PipelineAssumption
  <1>1. /\ queue \in [Queue -> Seq(Packet)]
        /\ hold \in [Worker -> Packet \cup {NoPacket}]
        /\ thread \in [Worker -> {"running", "stopping", "ended"}]
        /\ arrived \in [LB -> Seq(Packet)]
        /\ processed \in [FP -> Seq(Packet)]
    BY DEF Init
  <1>2. next \in 1..(NumPackets + 1) /\ fileOpen \in BOOLEAN
    BY DEF Init
  <1>3. <<>> \in Seq(Packet)
    OBVIOUS
  <1> QED
    BY <1>1, <1>2, <1>3 DEF Init, TypeOK

\* A push keeps the types of what it changes.
LEMMA PushType ==
  ASSUME TypeOK, NEW k \in Queue, NEW p \in Packet, PushOnto(k, p)
  PROVE  queue' \in [Queue -> Seq(Packet)] /\ lost' \in SUBSET Packet
  <1>1. Append(queue[k], p) \in Seq(Packet)
    BY DEF TypeOK
  <1> QED
    BY <1>1 DEF TypeOK, PushOnto

LEMMA PushHeldType ==
  ASSUME TypeOK, NEW w \in Worker, NEW k \in Queue, PushHeld(w, k)
  PROVE  /\ queue' \in [Queue -> Seq(Packet)] /\ lost' \in SUBSET Packet
         /\ hold' \in [Worker -> Packet \cup {NoPacket}]
         /\ hold[w] \in Packet /\ PushOnto(k, hold[w])
  <1>1. hold[w] \in Packet /\ PushOnto(k, hold[w])
    BY DEF PushHeld, TypeOK
  <1>2. hold' \in [Worker -> Packet \cup {NoPacket}]
    BY DEF PushHeld, TypeOK
  <1> QED
    BY <1>1, <1>2, PushType

LEMMA PopType ==
  ASSUME TypeOK, NEW w \in Worker, NEW p \in Packet, Pop(w, p)
  PROVE  queue' \in [Queue -> Seq(Packet)]
  <1>1. Input(w) \in Queue
    BY Names
  <1>2. Tail(queue[Input(w)]) \in Seq(Packet)
    BY <1>1 DEF Pop, TypeOK
  <1> QED
    BY <1>1, <1>2 DEF Pop, TypeOK

LEMMA TypeStep == TypeOK /\ [Next]_vars => TypeOK'
  <1> SUFFICES ASSUME TypeOK, [Next]_vars PROVE TypeOK'
    OBVIOUS
  <1> USE DEF readerVars, mainVars, counters
  <1>1. CASE ReaderPush
    <2>1. next \in Packet /\ next + 1 \in 1..(NumPackets + 1)
      BY <1>1, PipelineAssumption DEF ReaderPush, TypeOK, Packet
    <2>2. queue' \in [Queue -> Seq(Packet)] /\ lost' \in SUBSET Packet
      BY <1>1, <2>1, PushType, Names DEF ReaderPush
    <2> QED
      BY <1>1, <2>1, <2>2 DEF ReaderPush, TypeOK
  <1>2. CASE ReaderEnd
    BY <1>2 DEF ReaderEnd, TypeOK
  <1>3. ASSUME NEW w \in Parser, Parse(w) PROVE TypeOK'
    <2>1. PICK p \in Packet : /\ Pop(w, p)
                              /\ IF p \in Malformed
                                 THEN errors' = errors \cup {p} /\ UNCHANGED hold
                                 ELSE hold' = [hold EXCEPT ![w] = p] /\ UNCHANGED errors
                              /\ UNCHANGED <<readerVars, shut, thread, outputAlive,
                                             mainVars, dropped, forwarded, written,
                                             lost, arrived, processed>>
      BY <1>3 DEF Parse
    <2>2. queue' \in [Queue -> Seq(Packet)]
      BY <2>1, PopType DEF Worker
    <2>3. hold' \in [Worker -> Packet \cup {NoPacket}] /\ errors' \in SUBSET Packet
      BY <2>1 DEF TypeOK
    <2> QED
      BY <2>1, <2>2, <2>3 DEF TypeOK
  <1>4. ASSUME NEW w \in Parser, ParserPush(w) PROVE TypeOK'
    <2> DEFINE l == LBForPacket(hold[w])
    <2>0. PushHeld(w, l) /\ hold[w] \in Packet
      BY <1>4, Names DEF ParserPush, PushHeld, TypeOK, Worker
    <2>1. l \in LB /\ l \in Queue /\ w \in Worker
      BY <2>0, RouteType, Names DEF Worker
    <2>2. /\ queue' \in [Queue -> Seq(Packet)] /\ lost' \in SUBSET Packet
          /\ hold' \in [Worker -> Packet \cup {NoPacket}]
      BY <2>0, <2>1, PushHeldType
    <2>3. arrived' \in [LB -> Seq(Packet)]
      <3>1. arrived' = arrived \/ arrived' = [arrived EXCEPT ![l] = Append(@, hold[w])]
        BY <1>4 DEF ParserPush
      <3>2. Append(arrived[l], hold[w]) \in Seq(Packet)
        BY <2>0, <2>1 DEF TypeOK
      <3> QED
        BY <3>1, <3>2 DEF TypeOK
    <2> QED
      BY <1>4, <2>2, <2>3 DEF ParserPush, TypeOK
  <1>5. ASSUME NEW l \in LB, LBPop(l) PROVE TypeOK'
    <2>1. PICK p \in Packet : Pop(l, p) /\ hold' = [hold EXCEPT ![l] = p]
      BY <1>5 DEF LBPop
    <2>2. queue' \in [Queue -> Seq(Packet)]
      BY <2>1, PopType DEF Worker
    <2>3. hold' \in [Worker -> Packet \cup {NoPacket}]
      BY <2>1 DEF TypeOK
    <2> QED
      BY <1>5, <2>2, <2>3 DEF LBPop, TypeOK
  <1>6. ASSUME NEW l \in LB, LBPush(l) PROVE TypeOK'
    <2>1. PushHeld(l, SelectFP(l, hold[l])) /\ hold[l] \in Packet
      BY <1>6, Names DEF LBPush, PushHeld, TypeOK, Worker
    <2>2. SelectFP(l, hold[l]) \in Queue /\ l \in Worker
      BY <2>1, RouteType, Names DEF Worker
    <2>3. /\ queue' \in [Queue -> Seq(Packet)] /\ lost' \in SUBSET Packet
          /\ hold' \in [Worker -> Packet \cup {NoPacket}]
      BY <2>1, <2>2, PushHeldType
    <2> QED
      BY <1>6, <2>3 DEF LBPush, TypeOK
  <1>7. ASSUME NEW f \in FP, FPProcess(f) PROVE TypeOK'
    <2>1. PICK p \in Packet : /\ Pop(f, p) /\ HandleOutput(f, p)
                              /\ processed' = [processed EXCEPT ![f] = Append(@, p)]
      BY <1>7 DEF FPProcess
    <2>2. queue' \in [Queue -> Seq(Packet)]
      BY <2>1, PopType DEF Worker
    <2>3. /\ hold' \in [Worker -> Packet \cup {NoPacket}]
          /\ dropped' \in SUBSET Packet /\ forwarded' \in SUBSET Packet
      BY <2>1 DEF HandleOutput, TypeOK
    <2>4. processed' \in [FP -> Seq(Packet)]
      <3>1. Append(processed[f], p) \in Seq(Packet)
        BY DEF TypeOK
      <3> QED
        BY <2>1, <3>1 DEF TypeOK
    <2> QED
      BY <1>7, <2>2, <2>3, <2>4 DEF FPProcess, TypeOK
  <1>8. ASSUME NEW f \in FP, FPPush(f) PROVE TypeOK'
    <2>1. /\ queue' \in [Queue -> Seq(Packet)] /\ lost' \in SUBSET Packet
          /\ hold' \in [Worker -> Packet \cup {NoPacket}]
      BY <1>8, PushHeldType, Names DEF FPPush, Worker
    <2> QED
      BY <1>8, <2>1 DEF FPPush, TypeOK
  <1>9. ASSUME NEW w \in Worker, WorkerEnd(w) PROVE TypeOK'
    <2>1. thread' \in [Worker -> {"running", "stopping", "ended"}]
      BY <1>9 DEF WorkerEnd, TypeOK
    <2> QED
      BY <1>9, <2>1 DEF WorkerEnd, TypeOK
  <1>10. CASE OutputWrite
    <2>1. /\ queue[output] \in Seq(Packet) /\ queue[output] # <<>>
          /\ output \in Queue /\ written \in Seq(Packet)
      BY <1>10, Names DEF OutputWrite, TypeOK
    <2>2. Head(queue[output]) \in Packet /\ Tail(queue[output]) \in Seq(Packet)
      BY <2>1
    <2>3. queue' \in [Queue -> Seq(Packet)] /\ written' \in Seq(Packet)
      BY <1>10, <2>1, <2>2 DEF OutputWrite, TypeOK
    <2> QED
      BY <1>10, <2>3 DEF OutputWrite, TypeOK
  <1>11. CASE OutputEnd
    BY <1>11 DEF OutputEnd, TypeOK
  <1>12. CASE JoinReader
    BY <1>12, Names DEF JoinReader, TypeOK
  <1>13. ASSUME NEW w \in Worker, StopWorker(w) PROVE TypeOK'
    <2>1. thread' \in [Worker -> {"running", "stopping", "ended"}]
      BY <1>13 DEF StopWorker, TypeOK
    <2>2. shut' \in SUBSET Queue
      BY <1>13, Names DEF StopWorker, TypeOK, Worker
    <2> QED
      BY <1>13, <2>1, <2>2 DEF StopWorker, TypeOK
  <1>14. CASE JoinWorker
    BY <1>14 DEF JoinWorker, TypeOK
  <1>15. CASE StageStopped
    BY <1>15, Names DEF StageStopped, NextPhase, TypeOK
  <1>16. CASE JoinOutput
    BY <1>16 DEF JoinOutput, TypeOK
  <1>17. CASE UNCHANGED vars
    BY <1>17 DEF vars, TypeOK
  <1> QED
    BY <1>1, <1>2, <1>3, <1>4, <1>5, <1>6, <1>7, <1>8, <1>9, <1>10, <1>11,
       <1>12, <1>13, <1>14, <1>15, <1>16, <1>17
    DEF Next, ReaderStep, ParserStep, LBStep, FPStep, OutputStep, MainStep,
        Stopped, Worker

\* Type correctness for every size of the pipeline.
THEOREM PipelineTypeCorrect == Spec => []TypeOK
  BY TypeInit, TypeStep, PTL DEF Spec

-----------------------------------------------------------------------------
(* Flow affinity                                                             *)

\* The packets a load balancer is responsible for, and those a fast path is.
PacketsOfLB(l) == {p \in Packet : LBForPacket(p) = l}
PacketsOfFP(f) == {p \in Packet : SelectFP(LBForPacket(p), p) = f}

\* Packets are only where their hash sends them.
Routed == /\ \A l \in LB : /\ queue[l] \in Seq(PacketsOfLB(l))
                           /\ hold[l] # NoPacket => hold[l] \in PacketsOfLB(l)
          /\ \A f \in FP : /\ queue[f] \in Seq(PacketsOfFP(f))
                           /\ processed[f] \in Seq(PacketsOfFP(f))

\* A push of p onto queue k keeps every queue in the packets allowed for it if
\* p is allowed for k.
LEMMA PushRouted ==
  ASSUME TypeOK, Routed, NEW k \in Queue, NEW p \in Packet, PushOnto(k, p),
         k \in LB => p \in PacketsOfLB(k), k \in FP => p \in PacketsOfFP(k)
  PROVE  /\ \A l \in LB : queue'[l] \in Seq(PacketsOfLB(l))
         /\ \A f \in FP : queue'[f] \in Seq(PacketsOfFP(f))
  <1>1. CASE UNCHANGED queue
    BY <1>1 DEF Routed
  <1>2. CASE queue' = [queue EXCEPT ![k] = Append(@, p)]
    <2>1. ASSUME NEW l \in LB PROVE queue'[l] \in Seq(PacketsOfLB(l))
      <3>1. CASE l = k
        <4>1. queue[l] \in Seq(PacketsOfLB(l)) /\ p \in PacketsOfLB(l)
          BY <3>1 DEF Routed
        <4>2. Append(queue[l], p) \in Seq(PacketsOfLB(l))
          BY <4>1
        <4> QED
          BY <1>2, <3>1, <4>2 DEF TypeOK
      <3>2. CASE l # k
        BY <1>2, <3>2, Names DEF TypeOK, Routed
      <3> QED
        BY <3>1, <3>2
    <2>2. ASSUME NEW f \in FP PROVE queue'[f] \in Seq(PacketsOfFP(f))
      <3>1. CASE f = k
        <4>1. queue[f] \in Seq(PacketsOfFP(f)) /\ p \in PacketsOfFP(f)
          BY <3>1 DEF Routed
        <4>2. Append(queue[f], p) \in Seq(PacketsOfFP(f))
          BY <4>1
        <4> QED
          BY <1>2, <3>1, <4>2 DEF TypeOK
      <3>2. CASE f # k
        BY <1>2, <3>2, Names DEF TypeOK, Routed
      <3> QED
        BY <3>1, <3>2
    <2> QED
      BY <2>1, <2>2
  <1> QED
    BY <1>1, <1>2 DEF PushOnto

\* A pop keeps them, too, and what is popped was allowed where it was.
LEMMA PopRouted ==
  ASSUME TypeOK, Routed, NEW w \in Worker, NEW p \in Packet, Pop(w, p)
  PROVE  /\ \A l \in LB : queue'[l] \in Seq(PacketsOfLB(l))
         /\ \A f \in FP : queue'[f] \in Seq(PacketsOfFP(f))
         /\ w \in LB => p \in PacketsOfLB(w)
         /\ w \in FP => p \in PacketsOfFP(w)
  <1>1. /\ queue' = [queue EXCEPT ![Input(w)] = Tail(@)] /\ Input(w) \in Queue
        /\ queue[Input(w)] # <<>> /\ p = Head(queue[Input(w)])
    BY Names DEF Pop
  <1>2. ASSUME NEW l \in LB PROVE queue'[l] \in Seq(PacketsOfLB(l))
    <2>1. queue[l] \in Seq(PacketsOfLB(l)) /\ l \in Queue
      BY Names DEF Routed
    <2>2. queue[l] # <<>> => Tail(queue[l]) \in Seq(PacketsOfLB(l))
      BY <2>1
    <2> QED
      BY <1>1, <2>1, <2>2 DEF TypeOK
  <1>3. ASSUME NEW f \in FP PROVE queue'[f] \in Seq(PacketsOfFP(f))
    <2>1. queue[f] \in Seq(PacketsOfFP(f)) /\ f \in Queue
      BY Names DEF Routed
    <2>2. queue[f] # <<>> => Tail(queue[f]) \in Seq(PacketsOfFP(f))
      BY <2>1
    <2> QED
      BY <1>1, <2>1, <2>2 DEF TypeOK
  <1>4. ASSUME w \in LB PROVE p \in PacketsOfLB(w)
    <2>1. queue[w] \in Seq(PacketsOfLB(w)) /\ Input(w) = w
      BY <1>4, Names DEF Routed
    <2> QED
      BY <1>1, <2>1
  <1>5. ASSUME w \in FP PROVE p \in PacketsOfFP(w)
    <2>1. queue[w] \in Seq(PacketsOfFP(w)) /\ Input(w) = w
      BY <1>5, Names DEF Routed
    <2> QED
      BY <1>1, <2>1
  <1> QED
    BY <1>2, <1>3, <1>4, <1>5

LEMMA RoutedInit == Init => Routed
  <1> SUFFICES ASSUME Init PROVE Routed
    OBVIOUS
  <1>1. \A l \in LB : queue[l] = <<>> /\ hold[l] = NoPacket
    BY Names DEF Init, Worker
  <1>2. \A f \in FP : queue[f] = <<>> /\ processed[f] = <<>>
    BY Names DEF Init
  <1>3. \A S : <<>> \in Seq(S)
    OBVIOUS
  <1> QED
    BY <1>1, <1>2, <1>3 DEF Routed

LEMMA RoutedStep == TypeOK /\ Routed /\ [Next]_vars => Routed'
  <1> SUFFICES ASSUME TypeOK, Routed, [Next]_vars PROVE Routed'
    OBVIOUS
  <1> USE DEF readerVars, mainVars, counters
  <1>1. CASE ReaderPush
    <2>1. PushOnto(raw, next) /\ next \in Packet
      BY <1>1, PipelineAssumption DEF ReaderPush, TypeOK, Packet
    <2>2. /\ \A l \in LB : queue'[l] \in Seq(PacketsOfLB(l))
          /\ \A f \in FP : queue'[f] \in Seq(PacketsOfFP(f))
      BY <2>1, PushRouted, Names
    <2> QED
      BY <1>1, <2>2 DEF ReaderPush, Routed
  <1>2. ASSUME NEW w \in Parser, Parse(w) PROVE Routed'
    <2>1. PICK p \in Packet : Pop(w, p)
      BY <1>2 DEF Parse
    <2>2. /\ \A l \in LB : queue'[l] \in Seq(PacketsOfLB(l))
          /\ \A f \in FP : queue'[f] \in Seq(PacketsOfFP(f))
      BY <2>1, PopRouted DEF Worker
    <2>3. \A l \in LB : hold'[l] = hold[l]
      BY <1>2, Names DEF Parse, TypeOK, Worker
    <2> QED
      BY <1>2, <2>2, <2>3 DEF Parse, Routed
  <1>3. ASSUME NEW w \in Parser, ParserPush(w) PROVE Routed'
    <2> DEFINE k == LBForPacket(hold[w])
    <2>1. PushHeld(w, k) /\ hold[w] \in Packet
      BY <1>3, Names DEF ParserPush, PushHeld, TypeOK, Worker
    <2>2. k \in LB /\ k \in Queue /\ k \notin FP /\ hold[w] \in PacketsOfLB(k)
      BY <2>1, RouteType, Names DEF PacketsOfLB
    <2>3. /\ \A l \in LB : queue'[l] \in Seq(PacketsOfLB(l))
          /\ \A f \in FP : queue'[f] \in Seq(PacketsOfFP(f))
      BY <2>1, <2>2, PushRouted DEF PushHeld
    <2>4. \A l \in LB : hold'[l] = hold[l]
      BY <2>1, Names DEF PushHeld, TypeOK, Worker
    <2> QED
      BY <1>3, <2>3, <2>4 DEF ParserPush, Routed
  <1>4. ASSUME NEW l \in LB, LBPop(l) PROVE Routed'
    <2>1. PICK p \in Packet : Pop(l, p) /\ hold' = [hold EXCEPT ![l] = p]
      BY <1>4 DEF LBPop
    <2>2. /\ \A m \in LB : queue'[m] \in Seq(PacketsOfLB(m))
          /\ \A f \in FP : queue'[f] \in Seq(PacketsOfFP(f))
          /\ p \in PacketsOfLB(l)
      BY <2>1, PopRouted DEF Worker
    <2>3. \A m \in LB : hold'[m] # NoPacket => hold'[m] \in PacketsOfLB(m)
      BY <2>1, <2>2 DEF TypeOK, Routed, Worker
    <2> QED
      BY <1>4, <2>2, <2>3 DEF LBPop, Routed
  <1>5. ASSUME NEW l \in LB, LBPush(l) PROVE Routed'
    <2> DEFINE k == SelectFP(l, hold[l])
    <2>1. PushHeld(l, k) /\ hold[l] \in PacketsOfLB(l) /\ hold[l] \in Packet
      BY <1>5 DEF LBPush, PushHeld, Routed, PacketsOfLB
    <2>2. k \in FP /\ k \in Queue /\ k \notin LB /\ hold[l] \in PacketsOfFP(k)
      BY <2>1, RouteType, Names DEF PacketsOfLB, PacketsOfFP
    <2>3. /\ \A m \in LB : queue'[m] \in Seq(PacketsOfLB(m))
          /\ \A f \in FP : queue'[f] \in Seq(PacketsOfFP(f))
      BY <2>1, <2>2, PushRouted DEF PushHeld
    <2>4. \A m \in LB : hold'[m] # NoPacket => hold'[m] = hold[m]
      BY <2>1 DEF PushHeld, TypeOK, Worker
    <2> QED
      BY <1>5, <2>3, <2>4 DEF LBPush, Routed
  <1>6. ASSUME NEW f \in FP, FPProcess(f) PROVE Routed'
    <2>1. PICK p \in Packet : /\ Pop(f, p) /\ HandleOutput(f, p)
                              /\ processed' = [processed EXCEPT ![f] = Append(@, p)]
      BY <1>6 DEF FPProcess
    <2>2. /\ \A m \in LB : queue'[m] \in Seq(PacketsOfLB(m))
          /\ \A g \in FP : queue'[g] \in Seq(PacketsOfFP(g))
          /\ p \in PacketsOfFP(f)
      BY <2>1, PopRouted DEF Worker
    <2>3. \A m \in LB : hold'[m] = hold[m]
      BY <2>1, Names DEF HandleOutput, TypeOK, Worker
    <2>4. ASSUME NEW g \in FP PROVE processed'[g] \in Seq(PacketsOfFP(g))
      <3>1. processed[g] \in Seq(PacketsOfFP(g))
        BY DEF Routed
      <3>2. p \in PacketsOfFP(g) => Append(processed[g], p) \in Seq(PacketsOfFP(g))
        BY <3>1
      <3> QED
        BY <2>1, <2>2, <3>1, <3>2 DEF TypeOK
    <2> QED
      BY <2>2, <2>3, <2>4 DEF Routed
  <1>7. ASSUME NEW f \in FP, FPPush(f) PROVE Routed'
    <2>1. PushHeld(f, output) /\ hold[f] \in Packet
      BY <1>7 DEF FPPush, PushHeld, TypeOK, Worker
    <2>2. /\ \A m \in LB : queue'[m] \in Seq(PacketsOfLB(m))
          /\ \A g \in FP : queue'[g] \in Seq(PacketsOfFP(g))
      BY <2>1, PushRouted, Names DEF PushHeld
    <2>3. \A m \in LB : hold'[m] = hold[m]
      BY <2>1, Names DEF PushHeld, TypeOK, Worker
    <2> QED
      BY <1>7, <2>2, <2>3 DEF FPPush, Routed
  <1>8. CASE OutputWrite
    BY <1>8, Names DEF OutputWrite, Routed, TypeOK
  <1>9. ASSUME UNCHANGED <<queue, hold, processed>> PROVE Routed'
    BY <1>9 DEF Routed
  <1>10. ASSUME NEW w \in Worker, WorkerEnd(w) \/ StopWorker(w) PROVE Routed'
    BY <1>9, <1>10 DEF WorkerEnd, StopWorker
  <1>11. CASE \/ ReaderEnd \/ OutputEnd \/ JoinReader \/ JoinWorker
              \/ StageStopped \/ JoinOutput \/ UNCHANGED vars
    BY <1>9, <1>11 DEF ReaderEnd, OutputEnd, JoinReader, JoinWorker, StageStopped,
                       JoinOutput, vars
  <1> QED
    BY <1>1, <1>2, <1>3, <1>4, <1>5, <1>6, <1>7, <1>8, <1>10, <1>11
    DEF Next, ReaderStep, ParserStep, LBStep, FPStep, OutputStep, MainStep,
        Stopped, Worker

\* Whatever the hash function and the numbers of threads, the packets of a
\* flow are processed by one fast path, in both directions.
THEOREM AffinityHolds == Spec => []FlowAffinity
  <1>1. ASSUME TypeOK, Routed PROVE FlowAffinity
    <2> SUFFICES ASSUME NEW f \in FP, NEW g \in FP,
                        NEW p \in Range(processed[f]), NEW r \in Range(processed[g]),
                        SameFlow(TupleOf[p], TupleOf[r])
                 PROVE  f = g
      BY DEF FlowAffinity
    <2>1. processed[f] \in Seq(PacketsOfFP(f)) /\ processed[g] \in Seq(PacketsOfFP(g))
      BY <1>1 DEF Routed
    <2>2. p \in PacketsOfFP(f) /\ r \in PacketsOfFP(g)
      BY <2>1 DEF Range
    <2>3. TupleOf[p] \in FiveTuple /\ TupleOf[r] \in FiveTuple
      BY <2>2, PipelineAssumption DEF PacketsOfFP
    <2>4. FiveTupleHash(TupleOf[p]) = FiveTupleHash(TupleOf[r])
      BY <2>3, SameFlowSameHash
    <2> QED
      BY <2>2, <2>4 DEF PacketsOfFP, SelectFP, LBForPacket
  <1> QED
    BY <1>1, TypeInit, TypeStep, RoutedInit, RoutedStep, PTL DEF Spec

-----------------------------------------------------------------------------
(* Shutdown: no push ever meets a queue that was shut down                   *)

AllEnded(S) == \A w \in S : thread[w] = "ended"

\* How far stop() is: who has ended before the main thread goes on.
PhaseOrder ==
  /\ phase # "reading" => readerDone
  /\ phase \in {"lbs", "fps", "output", "done"} => AllEnded(Parser)
  /\ phase \in {"fps", "output", "done"} => AllEnded(LB)
  /\ phase \in {"output", "done"} => AllEnded(FP) /\ output \in shut

\* Nobody is told to stop and no queue is shut before its phase.
StopOrder ==
  /\ \A w \in Parser : thread[w] # "running" => phase # "reading"
  /\ \A l \in LB : thread[l] # "running" \/ l \in shut
                      => phase \in {"lbs", "fps", "output", "done"}
  /\ \A f \in FP : thread[f] # "running" \/ f \in shut
                      => phase \in {"fps", "output", "done"}
  /\ raw \in shut => phase # "reading"
  /\ output \in shut => phase \in {"output", "done"}

\* A worker that has ended holds nothing and has left its queue empty.
EndedDrained == \A w \in Worker : thread[w] = "ended" =>
                    hold[w] = NoPacket /\ queue[Input(w)] = <<>>

StopInv == PhaseOrder /\ StopOrder /\ EndedDrained /\ NoSilentLoss

LEMMA StopInvInit == Init => StopInv
  <1> SUFFICES ASSUME Init PROVE StopInv
    OBVIOUS
  <1>1. \A w \in Worker : thread[w] = "running"
    BY DEF Init
  <1> QED
    BY <1>1 DEF Init, StopInv, PhaseOrder, StopOrder, EndedDrained, NoSilentLoss, Worker

\* A push by a thread whose target is open and whose target's owner has not
\* ended leaves the invariant alone.
LEMMA PushKeepsStopInv ==
  ASSUME TypeOK, StopInv, NEW k \in Queue, NEW p \in Packet, PushOnto(k, p),
         k \notin shut, \A w \in Worker : Input(w) = k => thread[w] # "ended",
         \A w \in Worker : hold'[w] = hold[w] \/ hold'[w] = NoPacket,
         UNCHANGED <<phase, thread, shut, readerDone>>
  PROVE  StopInv'
  <1>1. lost' = {} /\ queue' = [queue EXCEPT ![k] = Append(@, p)]
    BY DEF PushOnto, StopInv, NoSilentLoss
  <1>2. EndedDrained'
    <2> SUFFICES ASSUME NEW w \in Worker, thread'[w] = "ended"
                 PROVE  hold'[w] = NoPacket /\ queue'[Input(w)] = <<>>
      BY DEF EndedDrained, Input
    <2>1. thread[w] = "ended" /\ Input(w) # k /\ Input(w) \in Queue
      BY Names
    <2> QED
      BY <1>1, <2>1 DEF StopInv, EndedDrained, TypeOK
  <1> QED
    BY <1>1, <1>2 DEF StopInv, PhaseOrder, StopOrder, NoSilentLoss, AllEnded

\* A pop by a worker that has not ended leaves it alone.
LEMMA PopKeepsStopInv ==
  ASSUME TypeOK, StopInv, NEW w \in Worker, NEW p \in Packet, Pop(w, p),
         \A v \in Worker \ {w} : hold'[v] = hold[v],
         UNCHANGED <<phase, thread, shut, readerDone, lost>>
  PROVE  StopInv'
  <1>1. EndedDrained'
    <2> SUFFICES ASSUME NEW v \in Worker, thread'[v] = "ended"
                 PROVE  hold'[v] = NoPacket /\ queue'[Input(v)] = <<>>
      BY DEF EndedDrained, Input
    <2>1. v # w /\ Input(v) \in Queue /\ queue[Input(v)] = <<>> /\ hold[v] = NoPacket
      BY Names DEF Pop, StopInv, EndedDrained
    <2>2. Input(w) # Input(v)
      BY <2>1 DEF Pop
    <2> QED
      BY <2>1, <2>2 DEF Pop, TypeOK
  <1> QED
    BY <1>1 DEF StopInv, PhaseOrder, StopOrder, NoSilentLoss, AllEnded

LEMMA StopInvStep == TypeOK /\ StopInv /\ [Next]_vars => StopInv'
  <1> SUFFICES ASSUME TypeOK, StopInv, [Next]_vars PROVE StopInv'
    OBVIOUS
  <1> USE DEF readerVars, mainVars, counters
  <1>i. PhaseOrder /\ StopOrder /\ EndedDrained /\ NoSilentLoss
    BY DEF StopInv
  <1>1. CASE ReaderPush
    <2>1. PushOnto(raw, next) /\ next \in Packet /\ ~readerDone
      BY <1>1, PipelineAssumption DEF ReaderPush, TypeOK, Packet
    <2>2. phase = "reading"
      BY <2>1, <1>i DEF PhaseOrder
    <2>3. raw \notin shut /\ \A w \in Worker : thread[w] = "running"
      BY <2>2, <1>i DEF StopOrder, Worker
    <2> QED
      BY <1>1, <2>1, <2>3, PushKeepsStopInv, Names DEF ReaderPush
  <1>2. CASE ReaderEnd
    BY <1>2, <1>i DEF ReaderEnd, StopInv, PhaseOrder, StopOrder, EndedDrained,
                      NoSilentLoss, AllEnded
  <1>3. ASSUME NEW w \in Parser, Parse(w) PROVE StopInv'
    <2>1. PICK p \in Packet : Pop(w, p)
      BY <1>3 DEF Parse
    <2>2. \A v \in Worker \ {w} : hold'[v] = hold[v]
      BY <1>3 DEF Parse, TypeOK
    <2> QED
      BY <1>3, <2>1, <2>2, PopKeepsStopInv DEF Parse, Worker
  <1>4. ASSUME NEW w \in Parser, ParserPush(w) PROVE StopInv'
    <2> DEFINE k == LBForPacket(hold[w])
    <2>1. /\ PushHeld(w, k) /\ hold[w] \in Packet /\ w \in Worker
          /\ UNCHANGED <<phase, thread, shut, readerDone>>
      BY <1>4, Names DEF ParserPush, PushHeld, TypeOK, Worker
    <2>2. k \in LB /\ k \in Queue
      BY <2>1, RouteType, Names
    <2>3. thread[w] # "ended"
      BY <2>1, <1>i DEF EndedDrained, PushHeld
    <2>4. k \notin shut /\ thread[k] = "running"
      BY <2>2, <2>3, <1>i DEF PhaseOrder, StopOrder, AllEnded
    <2>5. \A v \in Worker : Input(v) = k => thread[v] # "ended"
      BY <2>2, <2>4, Names DEF Worker
    <2>6. \A v \in Worker : hold'[v] = hold[v] \/ hold'[v] = NoPacket
      BY <2>1 DEF PushHeld, TypeOK
    <2>7. PushOnto(k, hold[w])
      BY <2>1 DEF PushHeld
    <2> QED
      BY <2>1, <2>2, <2>4, <2>5, <2>6, <2>7, PushKeepsStopInv
  <1>5. ASSUME NEW l \in LB, LBPop(l) PROVE StopInv'
    <2>1. PICK p \in Packet : Pop(l, p)
      BY <1>5 DEF LBPop
    <2>2. \A v \in Worker \ {l} : hold'[v] = hold[v]
      BY <1>5 DEF LBPop, TypeOK
    <2> QED
      BY <1>5, <2>1, <2>2, PopKeepsStopInv DEF LBPop, Worker
  <1>6. ASSUME NEW l \in LB, LBPush(l) PROVE StopInv'
    <2> DEFINE k == SelectFP(l, hold[l])
    <2>1. /\ PushHeld(l, k) /\ hold[l] \in Packet /\ l \in Worker
          /\ UNCHANGED <<phase, thread, shut, readerDone>>
      BY <1>6, Names DEF LBPush, PushHeld, TypeOK, Worker
    <2>2. k \in FP /\ k \in Queue
      BY <2>1, RouteType, Names
    <2>3. thread[l] # "ended"
      BY <2>1, <1>i DEF EndedDrained, PushHeld
    <2>4. k \notin shut /\ thread[k] = "running"
      BY <2>2, <2>3, <1>i DEF PhaseOrder, StopOrder, AllEnded
    <2>5. \A v \in Worker : Input(v) = k => thread[v] # "ended"
      BY <2>2, <2>4, Names DEF Worker
    <2>6. \A v \in Worker : hold'[v] = hold[v] \/ hold'[v] = NoPacket
      BY <2>1 DEF PushHeld, TypeOK
    <2>7. PushOnto(k, hold[l])
      BY <2>1 DEF PushHeld
    <2> QED
      BY <2>1, <2>2, <2>4, <2>5, <2>6, <2>7, PushKeepsStopInv
  <1>7. ASSUME NEW f \in FP, FPProcess(f) PROVE StopInv'
    <2>1. PICK p \in Packet : Pop(f, p) /\ HandleOutput(f, p)
      BY <1>7 DEF FPProcess
    <2>2. \A v \in Worker \ {f} : hold'[v] = hold[v]
      BY <2>1 DEF HandleOutput, TypeOK
    <2> QED
      BY <1>7, <2>1, <2>2, PopKeepsStopInv DEF FPProcess, Worker
  <1>8. ASSUME NEW f \in FP, FPPush(f) PROVE StopInv'
    <2>1. /\ PushHeld(f, output) /\ hold[f] \in Packet /\ f \in Worker
          /\ UNCHANGED <<phase, thread, shut, readerDone>>
      BY <1>8, Names DEF FPPush, PushHeld, TypeOK, Worker
    <2>2. output \notin shut
      BY <2>1, <1>i DEF EndedDrained, PushHeld, PhaseOrder, StopOrder, AllEnded
    <2>3. \A v \in Worker : hold'[v] = hold[v] \/ hold'[v] = NoPacket
      BY <2>1 DEF PushHeld, TypeOK
    <2>4. PushOnto(output, hold[f]) /\ \A v \in Worker : Input(v) # output
      BY <2>1, Names DEF PushHeld
    <2> QED
      BY <2>1, <2>2, <2>3, <2>4, PushKeepsStopInv, Names
  <1>9. ASSUME NEW w \in Worker, WorkerEnd(w) PROVE StopInv'
    <2>1. \A v \in Worker : thread'[v] = IF v = w THEN "ended" ELSE thread[v]
      BY <1>9 DEF WorkerEnd, TypeOK
    <2>2. EndedDrained'
      BY <1>9, <2>1, <1>i DEF WorkerEnd, EndedDrained, Input
    <2>3. PhaseOrder'
      BY <1>9, <2>1, <1>i DEF WorkerEnd, PhaseOrder, AllEnded, Worker
    <2>4. StopOrder'
      BY <1>9, <2>1, <1>i DEF WorkerEnd, StopOrder, Worker
    <2> QED
      BY <1>9, <2>2, <2>3, <2>4, <1>i DEF WorkerEnd, StopInv, NoSilentLoss
  <1>10. CASE OutputWrite
    <2>1. \A w \in Worker : queue'[Input(w)] = queue[Input(w)]
      BY <1>10, Names DEF OutputWrite, TypeOK
    <2>2. EndedDrained'
      BY <1>10, <2>1, <1>i DEF OutputWrite, EndedDrained, Input
    <2> QED
      BY <1>10, <2>2, <1>i DEF OutputWrite, StopInv, PhaseOrder, StopOrder,
                               NoSilentLoss, AllEnded
  <1>11. CASE OutputEnd \/ JoinWorker \/ UNCHANGED vars
    BY <1>11, <1>i DEF OutputEnd, JoinWorker, vars, StopInv, PhaseOrder, StopOrder,
                       EndedDrained, NoSilentLoss, AllEnded, Input
  <1>12. CASE JoinReader
    BY <1>12, <1>i, Names DEF JoinReader, StopInv, PhaseOrder, StopOrder,
                              EndedDrained, NoSilentLoss, AllEnded, Input
  <1>13. ASSUME NEW w \in Worker, StopWorker(w) PROVE StopInv'
    <2>1. \A v \in Worker : thread'[v] = IF v = w THEN "stopping" ELSE thread[v]
      BY <1>13 DEF StopWorker, TypeOK
    <2>2. /\ thread[w] = "running" /\ w \in Stage
          /\ shut' = IF w \in Parser THEN shut ELSE shut \cup {w}
          /\ UNCHANGED <<phase, readerDone, queue, hold, lost>>
      BY <1>13 DEF StopWorker
    <2>3. /\ w \in Parser => phase = "parsers"
          /\ w \in LB => phase = "lbs"
          /\ w \in FP => phase = "fps"
      BY <2>2, Names DEF Stage
    <2>4. PhaseOrder'
      BY <2>1, <2>2, <2>3, <1>i DEF PhaseOrder, AllEnded, Worker
    <2>5. StopOrder'
      BY <2>1, <2>2, <2>3, <1>i, Names DEF StopOrder, Worker
    <2>6. EndedDrained'
      BY <2>1, <2>2, <1>i DEF EndedDrained, Input
    <2> QED
      BY <2>2, <2>4, <2>5, <2>6, <1>i DEF StopInv, NoSilentLoss
  <1>14. CASE StageStopped
    <2>1. \/ phase = "parsers" /\ phase' = "lbs" /\ AllEnded(Parser)
          \/ phase = "lbs" /\ phase' = "fps" /\ AllEnded(LB)
          \/ phase = "fps" /\ phase' = "output" /\ AllEnded(FP)
      BY <1>14 DEF StageStopped, NextPhase, Stage, AllEnded
    <2>2. /\ shut' = IF phase = "fps" THEN shut \cup {output} ELSE shut
          /\ UNCHANGED <<thread, readerDone, queue, hold, lost>>
      BY <1>14 DEF StageStopped
    <2>3. PhaseOrder'
      BY <2>1, <2>2, <1>i DEF PhaseOrder, AllEnded
    <2>4. StopOrder'
      BY <2>1, <2>2, <1>i, Names DEF StopOrder
    <2>5. EndedDrained'
      BY <2>2, <1>i DEF EndedDrained, Input
    <2> QED
      BY <2>2, <2>3, <2>4, <2>5, <1>i DEF StopInv, NoSilentLoss
  <1>15. CASE JoinOutput
    BY <1>15, <1>i DEF JoinOutput, StopInv, PhaseOrder, StopOrder, EndedDrained,
                       NoSilentLoss, AllEnded, Input
  <1> QED
    BY <1>1, <1>2, <1>3, <1>4, <1>5, <1>6, <1>7, <1>8, <1>9, <1>10, <1>11,
       <1>12, <1>13, <1>14, <1>15
    DEF Next, ReaderStep, ParserStep, LBStep, FPStep, OutputStep, MainStep,
        Stopped, Worker

\* stop()'s order, parsers before load balancers before fast paths before the
\* output queue, means that push never silently drops a packet.
THEOREM NoPacketIsSilentlyLost == Spec => []NoSilentLoss
  <1>1. StopInv => NoSilentLoss
    BY DEF StopInv
  <1> QED
    BY <1>1, TypeInit, TypeStep, StopInvInit, StopInvStep, PTL DEF Spec

\* From when the fast paths are joined and the output queue is shut on: nothing is
\* left in front of a worker or in its hands.
WorkersDrained == phase \in {"output", "done"} =>
    /\ output \in shut
    /\ \A w \in Worker : /\ thread[w] = "ended"
                         /\ hold[w] = NoPacket
                         /\ queue[Input(w)] = <<>>

\* Before stop() waits for the output thread, all workers have ended, none of them
\* holds a packet and all queues but the output queue are empty: the output queue,
\* which is shut, gets no packet any more.
THEOREM StopDrainsWorkers == Spec => []WorkersDrained
  <1>1. StopInv => WorkersDrained
    BY DEF StopInv, PhaseOrder, StopOrder, AllEnded, EndedDrained, WorkersDrained, Worker
  <1> QED
    BY <1>1, TypeInit, TypeStep, StopInvInit, StopInvStep, PTL DEF Spec
=============================================================================
