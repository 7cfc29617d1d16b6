------------------------ MODULE ThreadSafeQueueProofs ------------------------
(***************************************************************************)
(* Proofs about ThreadSafeQueue, for any number of producers and consumers  *)
(* and any max_size_.  IInv below is the inductive invariant: besides the   *)
(* properties themselves it says that a thread is never both asleep and     *)
(* woken (so that waking one really adds a runner) and that a push in       *)
(* progress has an item to push.                                            *)
(***************************************************************************)
EXTENDS ThreadSafeQueue, FiniteSetTheorems, SequenceTheorems, TLAPS

\* A thread is in at most one of the two sets of its condition variable.
WaitSetsDisjoint == /\ fullWait \cap fullWoken = {}
                    /\ emptyWait \cap emptyWoken = {}

\* A push in progress has offered its item.
PendingPushOffered == \A p \in fullWait \cup fullWoken : offered[p] > 0

Typed == TypeOK /\ PendingPushOffered

IInv == /\ Typed
        /\ WaitSetsDisjoint
        /\ Bounded
        /\ Conservation
        /\ NoLostWakeup
        /\ ShutdownLeavesNoSleeper
        /\ EndOfStreamIsFinal

-----------------------------------------------------------------------------

\* notify_one keeps the threads of the condition variable, never un-wakes one,
\* and if somebody still sleeps afterwards it has woken exactly one more.
LEMMA NotifyOneEffect ==
  ASSUME NEW S, IsFiniteSet(S), NEW W \in SUBSET S, NEW K \in SUBSET S,
         NEW W1, NEW K1, W \cap K = {}, NotifyOne(W, K, W1, K1)
  PROVE  /\ W1 \in SUBSET S /\ K1 \in SUBSET S
         /\ W1 \subseteq W /\ W1 \cup K1 = W \cup K /\ W1 \cap K1 = {}
         /\ W1 # {} => W # {} /\ Cardinality(K1) = Cardinality(K) + 1
  <1>1. CASE W = {} /\ W1 = W /\ K1 = K
    BY <1>1
  <1>2. ASSUME NEW t \in W, W1 = W \ {t}, K1 = K \cup {t}
        PROVE  /\ W1 \in SUBSET S /\ K1 \in SUBSET S
               /\ W1 \subseteq W /\ W1 \cup K1 = W \cup K /\ W1 \cap K1 = {}
               /\ W1 # {} => W # {} /\ Cardinality(K1) = Cardinality(K) + 1
    <2>1. IsFiniteSet(K) /\ t \notin K
      BY FS_Subset
    <2>2. Cardinality(K1) = Cardinality(K) + 1
      BY <1>2, <2>1, FS_AddElement
    <2> QED
      BY <1>2, <2>2
  <1> QED
    BY <1>1, <1>2 DEF NotifyOne

\* Types are kept by every step.
LEMMA TypedStep == Typed /\ [Next]_vars => Typed'
  <1> SUFFICES ASSUME Typed, [Next]_vars PROVE Typed'
    OBVIOUS
  <1> USE QueueAssumption DEF Typed, TypeOK, PendingPushOffered
  <1>e. ASSUME NEW x \in Item, Enqueue(x)
        PROVE  /\ queue_' \in Seq(Item) /\ accepted' \in Seq(Item)
               /\ emptyWait' \in SUBSET Consumer
               /\ emptyWoken' \in SUBSET Consumer
    BY <1>e DEF Enqueue, NotifyOne
  <1>ne. ASSUME NoEnqueue
         PROVE  /\ queue_' \in Seq(Item) /\ accepted' \in Seq(Item)
                /\ emptyWait' \in SUBSET Consumer
                /\ emptyWoken' \in SUBSET Consumer
    BY <1>ne DEF NoEnqueue
  <1>f. ASSUME NEW x \in Item, FinishPush(x)
        PROVE  /\ queue_' \in Seq(Item) /\ accepted' \in Seq(Item)
               /\ emptyWait' \in SUBSET Consumer
               /\ emptyWoken' \in SUBSET Consumer
    BY <1>f, <1>e, <1>ne DEF FinishPush
  <1>d. ASSUME NEW c \in Consumer, FinishPop(c)
        PROVE  /\ queue_' \in Seq(Item) /\ delivered' \in Seq(Item)
               /\ fullWait' \in SUBSET Producer
               /\ fullWoken' \in SUBSET Producer
               /\ fullWait' \cup fullWoken' = fullWait \cup fullWoken
               /\ ended' \in SUBSET Consumer
    <2>1. CASE ~Empty /\ Dequeue /\ UNCHANGED ended
      <3>1. queue_' \in Seq(Item) /\ delivered' \in Seq(Item)
        BY <2>1, HeadTailProperties DEF Dequeue, Empty
      <3> QED
        BY <2>1, <3>1 DEF Dequeue, NotifyOne
    <2>2. CASE Empty /\ NoDequeue /\ ended' \in {ended, ended \cup {c}}
      BY <2>2 DEF NoDequeue
    <2> QED
      BY <1>d, <2>1, <2>2 DEF FinishPop
  <1>n. ASSUME NoDequeue
        PROVE  /\ queue_' \in Seq(Item) /\ delivered' \in Seq(Item)
               /\ fullWait' \in SUBSET Producer
               /\ fullWoken' \in SUBSET Producer
               /\ fullWait' \cup fullWoken' = fullWait \cup fullWoken
    BY <1>n DEF NoDequeue
  <1>1. ASSUME NEW p \in Producer, Push(p) PROVE Typed'
    <2>1. <<p, offered[p] + 1>> \in Item
      BY <1>1 DEF Push, ProducerIdle, Item
    <2>2. offered' \in [Producer -> 0..MaxCalls] /\ offered'[p] > 0
          /\ \A q \in Producer : offered[q] > 0 => offered'[q] > 0
      BY <1>1 DEF Push, ProducerIdle, Offer
    <2> QED
      BY <1>1, <1>f, <1>ne, <2>1, <2>2 DEF Push
  <1>2. ASSUME NEW p \in Producer, ResumePush(p) PROVE Typed'
    <2>1. <<p, offered[p]>> \in Item
      BY <1>2 DEF ResumePush, Item
    <2> QED
      BY <1>2, <1>f, <1>ne, <2>1 DEF ResumePush
  <1>3. ASSUME NEW p \in Producer, TryPush(p) PROVE Typed'
    <2>1. <<p, offered[p] + 1>> \in Item
      BY <1>3 DEF TryPush, ProducerIdle, Item
    <2>2. offered' \in [Producer -> 0..MaxCalls] /\ offered'[p] > 0
          /\ \A q \in Producer : offered[q] > 0 => offered'[q] > 0
      BY <1>3 DEF TryPush, ProducerIdle, Offer
    <2> QED
      BY <1>3, <1>e, <1>ne, <2>1, <2>2 DEF TryPush
  <1>4. ASSUME NEW p \in Producer, SpuriousWakePush(p) PROVE Typed'
    BY <1>4 DEF SpuriousWakePush
  <1>5. ASSUME NEW c \in Consumer, NEW b \in BOOLEAN, Pop(c, b) PROVE Typed'
    <2>1. /\ timed' \in [Consumer -> BOOLEAN]
          /\ emptyWait' \in SUBSET Consumer /\ ended' \in SUBSET Consumer
      BY <1>5, <1>d DEF Pop
    <2> QED
      BY <1>5, <1>d, <1>n, <2>1 DEF Pop
  <1>6. ASSUME NEW c \in Consumer, ResumePop(c) PROVE Typed'
    BY <1>6, <1>d, <1>n DEF ResumePop
  <1>7. ASSUME NEW c \in Consumer, Timeout(c) PROVE Typed'
    BY <1>7 DEF Timeout
  <1>8. ASSUME NEW c \in Consumer, SpuriousWakePop(c) PROVE Typed'
    BY <1>8 DEF SpuriousWakePop
  <1>9. CASE Shutdown
    BY <1>9 DEF Shutdown
  <1>10. CASE UNCHANGED vars
    BY <1>10 DEF vars
  <1> QED
    BY <1>1, <1>2, <1>3, <1>4, <1>5, <1>6, <1>7, <1>8, <1>9, <1>10
    DEF Next, ProducerStep, ConsumerStep

LEMMA TypedInit == Init => Typed
  <1> SUFFICES ASSUME Init PROVE Typed
    OBVIOUS
  <1>1. timed \in [Consumer -> BOOLEAN] /\ shutdown_ \in BOOLEAN
    BY DEF Init
  <1>2. offered \in [Producer -> 0..MaxCalls]
    BY QueueAssumption DEF Init
  <1>3. <<>> \in Seq(Item)
    OBVIOUS
  <1> QED
    BY <1>1, <1>2, <1>3 DEF Init, Typed, TypeOK, PendingPushOffered

\* Type correctness, for every number of threads, capacity and bound.
THEOREM TypeCorrect == Spec => []TypeOK
  <1>1. Typed => TypeOK
    BY DEF Typed
  <1> QED
    BY <1>1, TypedInit, TypedStep, PTL DEF Spec

-----------------------------------------------------------------------------

\* What the queue keeps is shown in two halves: the contents, and the wait sets.
Contents == Bounded /\ Conservation /\ EndOfStreamIsFinal

WaitSets == WaitSetsDisjoint /\ NoLostWakeup /\ ShutdownLeavesNoSleeper

\* Appending to a concatenation appends to its second part.
LEMMA AppendConcat ==
  ASSUME NEW s \in Seq(Item), NEW t \in Seq(Item), NEW x \in Item
  PROVE  Append(s \o t, x) = s \o Append(t, x)
  <1>1. s \o t \in Seq(Item) /\ <<x>> \in Seq(Item)
    OBVIOUS
  <1>2. Append(s \o t, x) = (s \o t) \o <<x>>
    BY <1>1, AppendIsConcat
  <1>3. Append(t, x) = t \o <<x>>
    BY AppendIsConcat
  <1> QED
    BY <1>1, <1>2, <1>3, ConcatAssociative

\* A step that queues an item while there is room keeps the contents' invariants.
LEMMA EnqueueContents ==
  ASSUME Typed, Contents, NEW x \in Item, Enqueue(x), ~Full, ~shutdown_,
         UNCHANGED <<shutdown_, delivered, ended>>
  PROVE  Contents'
  <1> USE DEF Typed, TypeOK, Contents
  <1>1. Len(queue_') = Len(queue_) + 1 /\ Len(queue_) < MaxSize
    BY QueueAssumption DEF Enqueue, Full
  <1>2. accepted' = delivered' \o queue_'
    <2>1. accepted' = Append(delivered \o queue_, x)
      BY DEF Enqueue, Conservation
    <2>2. Append(delivered \o queue_, x) = delivered \o Append(queue_, x)
      BY AppendConcat
    <2> QED
      BY <2>1, <2>2 DEF Enqueue
  <1> QED
    BY <1>1, <1>2, QueueAssumption DEF Bounded, Conservation, EndOfStreamIsFinal

\* A step that takes the front item keeps them too.
LEMMA DequeueContents ==
  ASSUME Typed, Contents, ~Empty, Dequeue,
         UNCHANGED <<shutdown_, accepted, ended>>
  PROVE  Contents'
  <1> USE DEF Typed, TypeOK, Contents
  <1>1. Len(queue_') = Len(queue_) - 1
    BY DEF Dequeue, Empty
  <1>2. accepted' = delivered' \o queue_'
    <2>1. queue_ # <<>>
      BY DEF Empty
    <2>2. delivered \o queue_ = Append(delivered, Head(queue_)) \o Tail(queue_)
      BY <2>1
    <2> QED
      BY <2>2 DEF Dequeue, Conservation
  <1>3. ended = {}
    BY DEF EndOfStreamIsFinal, Empty
  <1> QED
    BY <1>1, <1>2, <1>3, QueueAssumption DEF Bounded, Conservation, EndOfStreamIsFinal

LEMMA ContentsStep == Typed /\ Contents /\ [Next]_vars => Contents'
  <1> SUFFICES ASSUME Typed, Contents, [Next]_vars PROVE Contents'
    OBVIOUS
  <1>u. ASSUME UNCHANGED <<queue_, accepted, delivered>>,
               shutdown_ => shutdown_', ended' = ended \/ (shutdown_ /\ Empty)
        PROVE  Contents'
    BY <1>u DEF Contents, Bounded, Conservation, EndOfStreamIsFinal, Empty
  <1>d. ASSUME NEW c \in Consumer, FinishPop(c), UNCHANGED <<shutdown_, accepted>>
        PROVE  Contents'
    BY <1>d, <1>u, DequeueContents DEF FinishPop, NoDequeue
  <1>1. ASSUME NEW p \in Producer, Push(p) PROVE Contents'
    <2>1. <<p, offered[p] + 1>> \in Item
      BY <1>1, QueueAssumption DEF Push, ProducerIdle, Item, Typed, TypeOK
    <2>2. CASE NoEnqueue
      BY <1>1, <1>u, <2>2 DEF Push, NoEnqueue
    <2>3. CASE Enqueue(<<p, offered[p] + 1>>) /\ ~Full /\ ~shutdown_
      BY <1>1, <2>1, <2>3, EnqueueContents DEF Push
    <2> QED
      BY <1>1, <2>2, <2>3 DEF Push, FinishPush
  <1>2. ASSUME NEW p \in Producer, ResumePush(p) PROVE Contents'
    <2>1. <<p, offered[p]>> \in Item
      BY <1>2, QueueAssumption DEF ResumePush, Item, Typed, TypeOK, PendingPushOffered
    <2>2. CASE NoEnqueue
      BY <1>2, <1>u, <2>2 DEF ResumePush, NoEnqueue
    <2>3. CASE Enqueue(<<p, offered[p]>>) /\ ~Full /\ ~shutdown_
      BY <1>2, <2>1, <2>3, EnqueueContents DEF ResumePush
    <2> QED
      BY <1>2, <2>2, <2>3 DEF ResumePush, FinishPush
  <1>3. ASSUME NEW p \in Producer, TryPush(p) PROVE Contents'
    <2>1. <<p, offered[p] + 1>> \in Item
      BY <1>3, QueueAssumption DEF TryPush, ProducerIdle, Item, Typed, TypeOK
    <2>2. CASE NoEnqueue
      BY <1>3, <1>u, <2>2 DEF TryPush, NoEnqueue
    <2>3. CASE Enqueue(<<p, offered[p] + 1>>) /\ ~Full /\ ~shutdown_
      BY <1>3, <2>1, <2>3, EnqueueContents DEF TryPush
    <2> QED
      BY <1>3, <2>2, <2>3 DEF TryPush
  <1>4. ASSUME NEW p \in Producer, SpuriousWakePush(p) PROVE Contents'
    BY <1>4, <1>u DEF SpuriousWakePush
  <1>5. ASSUME NEW c \in Consumer, NEW b \in BOOLEAN, Pop(c, b) PROVE Contents'
    BY <1>5, <1>u, <1>d DEF Pop, NoDequeue
  <1>6. ASSUME NEW c \in Consumer, ResumePop(c) PROVE Contents'
    BY <1>6, <1>u, <1>d DEF ResumePop, NoDequeue
  <1>7. ASSUME NEW c \in Consumer, Timeout(c) PROVE Contents'
    BY <1>7, <1>u DEF Timeout
  <1>8. ASSUME NEW c \in Consumer, SpuriousWakePop(c) PROVE Contents'
    BY <1>8, <1>u DEF SpuriousWakePop
  <1>9. CASE Shutdown
    BY <1>9, <1>u DEF Shutdown
  <1>10. CASE UNCHANGED vars
    BY <1>10, <1>u DEF vars
  <1> QED
    BY <1>1, <1>2, <1>3, <1>4, <1>5, <1>6, <1>7, <1>8, <1>9, <1>10
    DEF Next, ProducerStep, ConsumerStep

LEMMA ContentsInit == Init => Contents
  BY QueueAssumption DEF Init, Contents, Bounded, Conservation, EndOfStreamIsFinal

\* The queue never exceeds max_size_, hands over what it accepted in order and
\* exactly once, and reports the end of the stream only when nothing is left:
\* for any number of threads and any max_size_.
THEOREM QueueContents ==
  Spec => [](Bounded /\ Conservation /\ EndOfStreamIsFinal)
  <1> QED
    BY TypedInit, TypedStep, ContentsInit, ContentsStep, PTL DEF Spec, Contents

-----------------------------------------------------------------------------

\* A notification, or any wakeup of one or all sleepers, before the queue grows
\* by at most one item keeps the consumers' half; the producers' half likewise.
LEMMA WaitSetsStep == IInv /\ [Next]_vars => WaitSets'
  <1> SUFFICES ASSUME IInv, [Next]_vars PROVE WaitSets'
    OBVIOUS
  <1> USE QueueAssumption
  <1>t. Typed /\ TypeOK /\ WaitSets /\ Bounded
    BY DEF IInv, Typed, WaitSets
  <1>f. /\ IsFiniteSet(fullWoken) /\ Cardinality(fullWoken) \in Nat
        /\ IsFiniteSet(emptyWoken) /\ Cardinality(emptyWoken) \in Nat
        /\ Len(queue_) \in Nat
    BY <1>t, FS_Subset, FS_CardinalityType DEF TypeOK
  <1> DEFINE EmptyHalf == /\ emptyWait \cap emptyWoken = {}
                          /\ emptyWait # {} => Len(queue_) <= Cardinality(emptyWoken)
                          /\ shutdown_ => emptyWait = {}
             FullHalf == /\ fullWait \cap fullWoken = {}
                         /\ fullWait # {} => MaxSize <= Len(queue_) + Cardinality(fullWoken)
                         /\ shutdown_ => fullWait = {}
  <1>h. /\ WaitSets <=> EmptyHalf /\ FullHalf
        /\ WaitSets' <=> EmptyHalf' /\ FullHalf'
    BY DEF WaitSets, WaitSetsDisjoint, NoLostWakeup, ShutdownLeavesNoSleeper
  <1>eq. ASSUME NEW x \in Item, Enqueue(x), ~shutdown_, UNCHANGED shutdown_
         PROVE  EmptyHalf' /\ Len(queue_') = Len(queue_) + 1
    <2>1. Len(queue_') = Len(queue_) + 1
      BY <1>eq, <1>t DEF Enqueue, TypeOK
    <2>2. /\ emptyWait' \cap emptyWoken' = {}
          /\ emptyWait' # {} => /\ emptyWait # {}
                                /\ Cardinality(emptyWoken') = Cardinality(emptyWoken) + 1
      <3>1. /\ NotifyOne(emptyWait, emptyWoken, emptyWait', emptyWoken') /\ IsFiniteSet(Consumer)
            /\ emptyWait \in SUBSET Consumer /\ emptyWoken \in SUBSET Consumer
            /\ emptyWait \cap emptyWoken = {}
        BY <1>eq, <1>t, <1>h DEF Enqueue, TypeOK
      <3> QED
        BY <3>1, NotifyOneEffect
    <2> QED
      BY <1>eq, <1>t, <1>h, <1>f, <2>1, <2>2
  <1>dq. ASSUME Dequeue, ~Empty, UNCHANGED shutdown_
         PROVE  FullHalf' /\ Len(queue_') = Len(queue_) - 1 /\ Len(queue_) > 0
    <2>1. Len(queue_') = Len(queue_) - 1 /\ Len(queue_) > 0
      BY <1>dq, <1>t DEF Dequeue, TypeOK, Empty
    <2>2. /\ fullWait' \cap fullWoken' = {}
          /\ fullWait' \subseteq fullWait
          /\ fullWait' # {} => /\ fullWait # {}
                               /\ Cardinality(fullWoken') = Cardinality(fullWoken) + 1
      <3>1. /\ NotifyOne(fullWait, fullWoken, fullWait', fullWoken') /\ IsFiniteSet(Producer)
            /\ fullWait \in SUBSET Producer /\ fullWoken \in SUBSET Producer
            /\ fullWait \cap fullWoken = {}
        BY <1>dq, <1>t, <1>h DEF Dequeue, TypeOK
      <3> QED
        BY <3>1, NotifyOneEffect
    <2> QED
      BY <1>dq, <1>t, <1>h, <1>f, <2>1, <2>2
  <1>ne. ASSUME NoEnqueue, UNCHANGED shutdown_
         PROVE  EmptyHalf' /\ Len(queue_') = Len(queue_)
    BY <1>ne, <1>t, <1>h DEF NoEnqueue
  <1>nd. ASSUME NoDequeue, UNCHANGED shutdown_
         PROVE  FullHalf' /\ Len(queue_') = Len(queue_)
    BY <1>nd, <1>t, <1>h DEF NoDequeue
  <1>1. ASSUME NEW p \in Producer, Push(p) PROVE WaitSets'
    <2>1. <<p, offered[p] + 1>> \in Item
      BY <1>1, <1>t DEF Push, ProducerIdle, Item, TypeOK
    <2>2. CASE Full /\ ~shutdown_ /\ fullWait' = fullWait \cup {p} /\ NoEnqueue
      <3>1. FullHalf'
        BY <1>1, <2>2, <1>t, <1>h, <1>f DEF Push, ProducerIdle, Full, NoEnqueue
      <3> QED
        BY <1>1, <2>2, <3>1, <1>ne, <1>h DEF Push
    <2>3. CASE shutdown_ /\ NoEnqueue /\ UNCHANGED fullWait
      BY <1>1, <2>3, <1>ne, <1>h, <1>t, <1>f DEF Push, NoEnqueue
    <2>4. CASE ~shutdown_ /\ Enqueue(<<p, offered[p] + 1>>) /\ UNCHANGED fullWait
      BY <1>1, <2>1, <2>4, <1>eq, <1>h, <1>t, <1>f DEF Push
    <2> QED
      BY <1>1, <2>2, <2>3, <2>4 DEF Push, FinishPush
  <1>2. ASSUME NEW p \in Producer, ResumePush(p) PROVE WaitSets'
    <2>1. <<p, offered[p]>> \in Item
      BY <1>2, <1>t DEF ResumePush, Item, TypeOK, Typed, PendingPushOffered
    <2>2. /\ Cardinality(fullWoken') = Cardinality(fullWoken) - 1
          /\ fullWoken' = fullWoken \ {p} /\ UNCHANGED shutdown_
      BY <1>2, <1>f, FS_RemoveElement DEF ResumePush
    <2>3. CASE Full /\ ~shutdown_ /\ fullWait' = fullWait \cup {p} /\ NoEnqueue
      <3>1. Len(queue_') >= MaxSize
        BY <2>3, <1>f DEF Full, NoEnqueue
      <3>2. Cardinality(fullWoken') \in Nat
        BY <1>f, <2>2, FS_RemoveElement, FS_CardinalityType
      <3>3. FullHalf'
        BY <2>2, <2>3, <3>1, <3>2, <1>t, <1>h, <1>f DEF NoEnqueue
      <3> QED
        BY <2>2, <2>3, <3>3, <1>ne, <1>h
    <2>4. CASE shutdown_ /\ NoEnqueue /\ UNCHANGED fullWait
      BY <2>2, <2>4, <1>ne, <1>h, <1>t, <1>f DEF NoEnqueue
    <2>5. CASE ~shutdown_ /\ Enqueue(<<p, offered[p]>>) /\ UNCHANGED fullWait
      BY <2>1, <2>2, <2>5, <1>eq, <1>h, <1>t, <1>f
    <2> QED
      BY <1>2, <2>3, <2>4, <2>5 DEF ResumePush, FinishPush
  <1>3. ASSUME NEW p \in Producer, TryPush(p) PROVE WaitSets'
    <2>1. <<p, offered[p] + 1>> \in Item
      BY <1>3, <1>t DEF TryPush, ProducerIdle, Item, TypeOK
    <2>2. CASE NoEnqueue
      BY <1>3, <2>2, <1>ne, <1>h, <1>t, <1>f DEF TryPush, NoEnqueue
    <2>3. CASE ~shutdown_ /\ Enqueue(<<p, offered[p] + 1>>)
      BY <1>3, <2>1, <2>3, <1>eq, <1>h, <1>t, <1>f DEF TryPush
    <2> QED
      BY <1>3, <2>2, <2>3 DEF TryPush
  <1>4. ASSUME NEW p \in Producer, SpuriousWakePush(p) PROVE WaitSets'
    <2>1. Cardinality(fullWoken') = Cardinality(fullWoken) + 1
      BY <1>4, <1>t, <1>h, <1>f, FS_AddElement DEF SpuriousWakePush
    <2> QED
      BY <1>4, <2>1, <1>t, <1>h, <1>f DEF SpuriousWakePush
  <1>5. ASSUME NEW c \in Consumer, NEW b \in BOOLEAN, Pop(c, b) PROVE WaitSets'
    <2>1. CASE Empty /\ ~shutdown_ /\ emptyWait' = emptyWait \cup {c} /\ NoDequeue
      <3>1. EmptyHalf'
        BY <1>5, <2>1, <1>t, <1>h, <1>f DEF Pop, ConsumerIdle, Empty, NoDequeue
      <3> QED
        BY <1>5, <2>1, <3>1, <1>nd, <1>h DEF Pop
    <2>2. CASE NoDequeue /\ UNCHANGED emptyWait
      BY <1>5, <2>2, <1>nd, <1>h, <1>t, <1>f DEF Pop, NoDequeue
    <2>3. CASE ~Empty /\ Dequeue /\ UNCHANGED emptyWait
      BY <1>5, <2>3, <1>dq, <1>h, <1>t, <1>f DEF Pop
    <2> QED
      BY <1>5, <2>1, <2>2, <2>3 DEF Pop, FinishPop
  <1>6. ASSUME NEW c \in Consumer, ResumePop(c) PROVE WaitSets'
    <2>1. /\ Cardinality(emptyWoken') = Cardinality(emptyWoken) - 1
          /\ Cardinality(emptyWoken') \in Nat
          /\ emptyWoken' = emptyWoken \ {c} /\ UNCHANGED shutdown_
      BY <1>6, <1>f, FS_RemoveElement, FS_CardinalityType DEF ResumePop
    <2>2. CASE Empty /\ ~shutdown_ /\ emptyWait' = emptyWait \cup {c} /\ NoDequeue
      <3>1. EmptyHalf'
        BY <2>1, <2>2, <1>t, <1>h, <1>f DEF Empty, NoDequeue
      <3> QED
        BY <2>1, <2>2, <3>1, <1>nd, <1>h
    <2>3. CASE Empty /\ NoDequeue /\ UNCHANGED emptyWait
      <3>1. EmptyHalf'
        BY <2>1, <2>3, <1>t, <1>h, <1>f DEF Empty, NoDequeue
      <3> QED
        BY <2>1, <2>3, <3>1, <1>nd, <1>h
    <2>4. CASE ~Empty /\ Dequeue /\ UNCHANGED emptyWait
      BY <2>1, <2>4, <1>dq, <1>h, <1>t, <1>f
    <2> QED
      BY <1>6, <2>2, <2>3, <2>4 DEF ResumePop, FinishPop
  <1>7. ASSUME NEW c \in emptyWait, emptyWait' = emptyWait \ {c},
               emptyWoken' = emptyWoken \cup {c},
               UNCHANGED <<queue_, shutdown_, fullWait, fullWoken>>
        PROVE  WaitSets'
    <2>1. Cardinality(emptyWoken') = Cardinality(emptyWoken) + 1
      BY <1>7, <1>t, <1>h, <1>f, FS_AddElement
    <2> QED
      BY <1>7, <2>1, <1>t, <1>h, <1>f
  <1>8. ASSUME NEW c \in Consumer, Timeout(c) \/ SpuriousWakePop(c) PROVE WaitSets'
    BY <1>7, <1>8 DEF Timeout, SpuriousWakePop
  <1>9. CASE Shutdown
    BY <1>9, <1>h, <1>t DEF Shutdown
  <1>10. CASE UNCHANGED vars
    BY <1>10, <1>h, <1>t DEF vars
  <1> QED
    BY <1>1, <1>2, <1>3, <1>4, <1>5, <1>6, <1>8, <1>9, <1>10
    DEF Next, ProducerStep, ConsumerStep

LEMMA IInvInit == Init => IInv
  BY TypedInit, ContentsInit
  DEF Init, IInv, Contents, WaitSetsDisjoint, NoLostWakeup, ShutdownLeavesNoSleeper

LEMMA IInvStep == IInv /\ [Next]_vars => IInv'
  <1> SUFFICES ASSUME IInv, [Next]_vars PROVE IInv'
    OBVIOUS
  <1>1. Typed /\ Contents
    BY DEF IInv, Contents
  <1>2. Typed' /\ Contents' /\ WaitSets'
    BY <1>1, TypedStep, ContentsStep, WaitSetsStep
  <1> QED
    BY <1>2 DEF IInv, Contents, WaitSets

\* One notify_one per item and per freed slot is enough, with timeouts and
\* spurious wakeups, and a shutdown leaves no thread asleep: for any number of
\* threads and any max_size_.
THEOREM NoThreadSleepsThroughItsWakeup ==
  Spec => [](NoLostWakeup /\ ShutdownLeavesNoSleeper)
  <1>1. IInv => NoLostWakeup /\ ShutdownLeavesNoSleeper
    BY DEF IInv
  <1> QED
    BY <1>1, IInvInit, IInvStep, PTL DEF Spec

-----------------------------------------------------------------------------

\* The item that Dequeue hands over is the next one of the accepted sequence.
LEMMA HeadIsNext ==
  ASSUME NEW d \in Seq(Item), NEW q \in Seq(Item), q # <<>>
  PROVE  /\ Len(d) < Len(d \o q)
         /\ Head(q) = (d \o q)[Len(d) + 1]
         /\ Len(d \o q) = Len(d) + Len(q)
  <1>1. /\ Len(d \o q) = Len(d) + Len(q) /\ Len(q) > 0
        /\ Len(d) \in Nat /\ Len(q) \in Nat
    OBVIOUS
  <1>2. (d \o q)[Len(d) + 1] = q[1]
    BY <1>1
  <1> QED
    BY <1>1, <1>2

LEMMA ChannelStep ==
  ASSUME Typed, Contents, [Next]_vars
  PROVE  [Channel!Next]_(Channel!vars)
  <1> USE QueueAssumption
  <1>t. /\ queue_ \in Seq(Item) /\ delivered \in Seq(Item)
        /\ accepted = delivered \o queue_
        /\ Len(accepted) = Len(delivered) + Len(queue_)
    BY DEF Typed, TypeOK, Contents, Conservation
  <1>s. ASSUME UNCHANGED <<accepted, delivered, shutdown_>>
        PROVE  UNCHANGED Channel!vars
    BY <1>s DEF Channel!vars
  <1>e. ASSUME NEW x \in Item, Enqueue(x), ~Full, ~shutdown_,
               UNCHANGED <<delivered, shutdown_>>
        PROVE  Channel!Next
    <2>1. Len(accepted) < Len(delivered) + MaxSize
      BY <1>e, <1>t DEF Full
    <2> QED
      BY <1>e, <2>1 DEF Enqueue, Channel!Next, Channel!Send
  <1>d. ASSUME ~Empty, Dequeue, UNCHANGED <<accepted, shutdown_>>
        PROVE  Channel!Next
    <2>1. /\ Len(delivered) < Len(accepted)
          /\ Head(queue_) = accepted[Len(delivered) + 1]
      BY <1>d, <1>t, HeadIsNext DEF Empty
    <2> QED
      BY <1>d, <2>1 DEF Dequeue, Channel!Next, Channel!Receive
  <1>1. ASSUME NEW p \in Producer, Push(p) PROVE [Channel!Next]_(Channel!vars)
    <2>1. <<p, offered[p] + 1>> \in Item
      BY <1>1 DEF Push, ProducerIdle, Item, Typed, TypeOK
    <2> QED
      BY <1>1, <1>s, <1>e, <2>1 DEF Push, FinishPush, NoEnqueue
  <1>2. ASSUME NEW p \in Producer, ResumePush(p) PROVE [Channel!Next]_(Channel!vars)
    <2>1. <<p, offered[p]>> \in Item
      BY <1>2 DEF ResumePush, Item, Typed, TypeOK, PendingPushOffered
    <2> QED
      BY <1>2, <1>s, <1>e, <2>1 DEF ResumePush, FinishPush, NoEnqueue
  <1>3. ASSUME NEW p \in Producer, TryPush(p) PROVE [Channel!Next]_(Channel!vars)
    <2>1. <<p, offered[p] + 1>> \in Item
      BY <1>3 DEF TryPush, ProducerIdle, Item, Typed, TypeOK
    <2> QED
      BY <1>3, <1>s, <1>e, <2>1 DEF TryPush, NoEnqueue
  <1>4. ASSUME NEW p \in Producer, SpuriousWakePush(p)
        PROVE  [Channel!Next]_(Channel!vars)
    BY <1>4, <1>s DEF SpuriousWakePush
  <1>5. ASSUME NEW c \in Consumer, NEW b \in BOOLEAN, Pop(c, b)
        PROVE  [Channel!Next]_(Channel!vars)
    BY <1>5, <1>s, <1>d DEF Pop, FinishPop, NoDequeue
  <1>6. ASSUME NEW c \in Consumer, ResumePop(c) PROVE [Channel!Next]_(Channel!vars)
    BY <1>6, <1>s, <1>d DEF ResumePop, FinishPop, NoDequeue
  <1>7. ASSUME NEW c \in Consumer, Timeout(c) \/ SpuriousWakePop(c)
        PROVE  [Channel!Next]_(Channel!vars)
    BY <1>7, <1>s DEF Timeout, SpuriousWakePop
  <1>8. CASE Shutdown
    BY <1>8 DEF Shutdown, Channel!Next, Channel!Close
  <1>9. CASE UNCHANGED vars
    BY <1>9, <1>s DEF vars
  <1> QED
    BY <1>1, <1>2, <1>3, <1>4, <1>5, <1>6, <1>7, <1>8, <1>9
    DEF Next, ProducerStep, ConsumerStep

\* The queue with its mutex, condition variables and threads implements the
\* bounded FIFO channel that the rest of the engine relies on.
THEOREM QueueImplementsChannel == Spec => ImplementsChannel
  <1>1. Init => Channel!Init
    BY DEF Init, Channel!Init
  <1>2. Typed /\ Contents /\ [Next]_vars => [Channel!Next]_(Channel!vars)
    BY ChannelStep
  <1> QED
    BY <1>1, <1>2, TypedInit, TypedStep, ContentsInit, ContentsStep, PTL
    DEF Spec, ImplementsChannel, Channel!Spec
=============================================================================
