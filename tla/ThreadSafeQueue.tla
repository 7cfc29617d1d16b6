--------------------------- MODULE ThreadSafeQueue ---------------------------
(***************************************************************************)
(* ThreadSafeQueue<T> of include/thread_safe_queue.h: the bounded blocking  *)
(* queue between all the pipeline's threads.                                *)
(*                                                                          *)
(* Every method body runs under mutex_ from its first line to its return or *)
(* to a wait on a condition variable, which releases mutex_ atomically: one *)
(* action is one such critical section.  A condition variable is the set of *)
(* threads blocked on it and the set of those already woken that have yet   *)
(* to take mutex_ again and look at the predicate: between the two, other   *)
(* threads run, which is where a wakeup or a shutdown can get lost.         *)
(***************************************************************************)
EXTENDS Naturals, Sequences, FiniteSets

CONSTANTS Producer,   \* threads that call push and tryPush
          Consumer,   \* threads that call pop and popWithTimeout
          MaxSize,    \* max_size_
          MaxCalls    \* bound: how many items each producer offers

ASSUME QueueAssumption == /\ MaxSize \in Nat
                          /\ MaxCalls \in Nat
                          /\ IsFiniteSet(Producer)
                          /\ IsFiniteSet(Consumer)

VARIABLES queue_,       \* queue_, the contents, oldest first
          shutdown_,    \* shutdown_
          fullWait,     \* producers blocked on not_full_
          fullWoken,    \* producers woken from not_full_, not yet running
          emptyWait,    \* consumers blocked on not_empty_
          emptyWoken,   \* consumers woken from not_empty_, not yet running
          timed,        \* the consumer's call is popWithTimeout, not pop
          offered,      \* how many items each producer has offered
          accepted,     \* history: the items pushed onto queue_
          delivered,    \* history: the items popped from queue_
          ended         \* history: consumers told nullopt after a shutdown

vars == <<queue_, shutdown_, fullWait, fullWoken, emptyWait, emptyWoken,
          timed, offered, accepted, delivered, ended>>

\* The n-th item a producer offers.
Item == Producer \X (1..MaxCalls)

TypeOK == /\ queue_ \in Seq(Item)
          /\ shutdown_ \in BOOLEAN
          /\ fullWait \in SUBSET Producer
          /\ fullWoken \in SUBSET Producer
          /\ emptyWait \in SUBSET Consumer
          /\ emptyWoken \in SUBSET Consumer
          /\ timed \in [Consumer -> BOOLEAN]
          /\ offered \in [Producer -> 0..MaxCalls]
          /\ accepted \in Seq(Item)
          /\ delivered \in Seq(Item)
          /\ ended \in SUBSET Consumer

Init == /\ queue_ = <<>>
        /\ shutdown_ = FALSE
        /\ fullWait = {} /\ fullWoken = {}
        /\ emptyWait = {} /\ emptyWoken = {}
        /\ timed = [c \in Consumer |-> FALSE]
        /\ offered = [p \in Producer |-> 0]
        /\ accepted = <<>> /\ delivered = <<>>
        /\ ended = {}

Full == Len(queue_) >= MaxSize

Empty == queue_ = <<>>

-----------------------------------------------------------------------------
(* notify_one wakes one of the blocked threads, any of them, or nobody when  *)
(* none is blocked: a notification is not remembered.                        *)

NotifyOne(waiting, woken, waiting1, woken1) ==
    \/ /\ waiting = {}
       /\ waiting1 = waiting /\ woken1 = woken
    \/ \E t \in waiting : /\ waiting1 = waiting \ {t}
                          /\ woken1 = woken \cup {t}

\* Variant: the notification is forgotten.
NoNotifyEnqueue(x) == /\ queue_' = Append(queue_, x)
                      /\ accepted' = Append(accepted, x)
                      /\ UNCHANGED <<emptyWait, emptyWoken>>

\* Variant: the item was already moved away when it reaches queue_.
MovedFromEnqueue(x) == /\ queue_' = Append(queue_, <<>>)
                       /\ accepted' = Append(accepted, <<>>)
                       /\ NotifyOne(emptyWait, emptyWoken, emptyWait', emptyWoken')

\* push's and tryPush's queue_.push(item); not_empty_.notify_one().
Enqueue(x) == /\ queue_' = Append(queue_, x)
              /\ accepted' = Append(accepted, x)
              /\ NotifyOne(emptyWait, emptyWoken, emptyWait', emptyWoken')

NoEnqueue == UNCHANGED <<queue_, accepted, emptyWait, emptyWoken>>

\* Variant: the notification is forgotten.
NoNotifyDequeue == /\ queue_' = Tail(queue_)
                   /\ delivered' = Append(delivered, Head(queue_))
                   /\ UNCHANGED <<fullWait, fullWoken>>

\* pop's and popWithTimeout's front, queue_.pop() and not_full_.notify_one().
Dequeue == /\ queue_' = Tail(queue_)
           /\ delivered' = Append(delivered, Head(queue_))
           /\ NotifyOne(fullWait, fullWoken, fullWait', fullWoken')

NoDequeue == UNCHANGED <<queue_, delivered, fullWait, fullWoken>>

-----------------------------------------------------------------------------
(* Producers                                                                 *)

ProducerIdle(p) == /\ p \notin fullWait \cup fullWoken
                   /\ offered[p] < MaxCalls

\* The producer comes up with its next item.
Offer(p) == offered' = [offered EXCEPT ![p] = @ + 1]

\* Variant: shutdown_ is not looked at after the wait.
PushWithoutRecheck(x) == Enqueue(x)

\* The body of push once it needs no wait: shut down, the item is dropped
\* silently; otherwise it is queued.
FinishPush(x) == IF shutdown_ THEN NoEnqueue ELSE Enqueue(x)

\* push: blocks on not_full_ when full and not shut down.
Push(p) == /\ ProducerIdle(p)
           /\ Offer(p)
           /\ \/ /\ Full /\ ~shutdown_
                 /\ fullWait' = fullWait \cup {p}
                 /\ NoEnqueue
              \/ /\ ~Full \/ shutdown_
                 /\ FinishPush(<<p, offered[p] + 1>>)
                 /\ UNCHANGED fullWait
           /\ UNCHANGED <<shutdown_, fullWoken, timed, delivered, ended>>

\* A woken push takes mutex_ again and evaluates the wait's predicate.
ResumePush(p) ==
    /\ p \in fullWoken
    /\ fullWoken' = fullWoken \ {p}
    /\ \/ /\ Full /\ ~shutdown_
          /\ fullWait' = fullWait \cup {p}
          /\ NoEnqueue
       \/ /\ ~Full \/ shutdown_
          /\ FinishPush(<<p, offered[p]>>)
          /\ UNCHANGED fullWait
    /\ UNCHANGED <<shutdown_, timed, offered, delivered, ended>>

\* tryPush: refuses the item when full or shut down.
TryPush(p) == /\ ProducerIdle(p)
              /\ Offer(p)
              /\ IF Full \/ shutdown_ THEN NoEnqueue
                                      ELSE Enqueue(<<p, offered[p] + 1>>)
              /\ UNCHANGED <<shutdown_, fullWait, fullWoken, timed, delivered,
                             ended>>

-----------------------------------------------------------------------------
(* Consumers                                                                 *)

ConsumerIdle(c) == c \notin emptyWait \cup emptyWoken

\* The end of pop and popWithTimeout: an item, or nullopt when there is none.
FinishPop(c) ==
    \/ /\ ~Empty
       /\ Dequeue
       /\ UNCHANGED ended
    \/ /\ Empty
       /\ NoDequeue
       /\ ended' = IF shutdown_ THEN ended \cup {c} ELSE ended

\* pop (isTimed = FALSE) and popWithTimeout (isTimed = TRUE): block on
\* not_empty_ when empty and not shut down.
Pop(c, isTimed) ==
    /\ ConsumerIdle(c)
    /\ timed' = [timed EXCEPT ![c] = isTimed]
    /\ \/ /\ Empty /\ ~shutdown_
          /\ emptyWait' = emptyWait \cup {c}
          /\ NoDequeue /\ UNCHANGED ended
       \/ /\ ~Empty \/ shutdown_
          /\ FinishPop(c)
          /\ UNCHANGED emptyWait
    /\ UNCHANGED <<shutdown_, emptyWoken, offered, accepted>>

\* A woken pop evaluates the predicate.  When it does not hold, pop blocks
\* again; popWithTimeout blocks again or, its time being over, returns nullopt.
ResumePop(c) ==
    /\ c \in emptyWoken
    /\ emptyWoken' = emptyWoken \ {c}
    /\ \/ /\ Empty /\ ~shutdown_
          /\ emptyWait' = emptyWait \cup {c}
          /\ NoDequeue /\ UNCHANGED ended
       \/ /\ ~Empty \/ shutdown_ \/ timed[c]
          /\ FinishPop(c)
          /\ UNCHANGED emptyWait
    /\ UNCHANGED <<shutdown_, timed, offered, accepted>>

\* wait_for reaches its deadline: the blocked consumer competes for mutex_.
Timeout(c) == /\ c \in emptyWait /\ timed[c]
              /\ emptyWait' = emptyWait \ {c}
              /\ emptyWoken' = emptyWoken \cup {c}
              /\ UNCHANGED <<queue_, shutdown_, fullWait, fullWoken, timed,
                             offered, accepted, delivered, ended>>

-----------------------------------------------------------------------------
(* A condition variable may wake a thread without any notification.          *)

SpuriousWakePush(p) ==
    /\ p \in fullWait
    /\ fullWait' = fullWait \ {p}
    /\ fullWoken' = fullWoken \cup {p}
    /\ UNCHANGED <<queue_, shutdown_, emptyWait, emptyWoken, timed, offered,
                   accepted, delivered, ended>>

SpuriousWakePop(c) ==
    /\ c \in emptyWait
    /\ emptyWait' = emptyWait \ {c}
    /\ emptyWoken' = emptyWoken \cup {c}
    /\ UNCHANGED <<queue_, shutdown_, fullWait, fullWoken, timed, offered,
                   accepted, delivered, ended>>

\* Variant: blocked producers are not woken.
ShutdownWithoutNotFull ==
            /\ shutdown_' = TRUE
            /\ emptyWait' = {} /\ emptyWoken' = emptyWoken \cup emptyWait
            /\ UNCHANGED <<queue_, timed, offered, accepted, delivered, ended,
                           fullWait, fullWoken>>

\* shutdown: sets the flag and wakes everybody on both condition variables.
Shutdown == /\ shutdown_' = TRUE
            /\ emptyWait' = {} /\ emptyWoken' = emptyWoken \cup emptyWait
            /\ fullWait' = {}  /\ fullWoken' = fullWoken \cup fullWait
            /\ UNCHANGED <<queue_, timed, offered, accepted, delivered, ended>>

-----------------------------------------------------------------------------

ProducerStep(p) == Push(p) \/ ResumePush(p) \/ TryPush(p) \/ SpuriousWakePush(p)

ConsumerStep(c) == \/ \E isTimed \in BOOLEAN : Pop(c, isTimed)
                   \/ ResumePop(c)
                   \/ Timeout(c)
                   \/ SpuriousWakePop(c)

Next == \/ \E p \in Producer : ProducerStep(p)
        \/ \E c \in Consumer : ConsumerStep(c)
        \/ Shutdown

\* A woken thread gets mutex_ eventually, and a consumer keeps asking: the
\* worker loops call popWithTimeout again after every item and every nullopt.
\* Nothing obliges producers, shutdown, timeouts or spurious wakeups.
Fairness == /\ \A p \in Producer : WF_vars(ResumePush(p))
            /\ \A c \in Consumer : /\ WF_vars(ResumePop(c))
                                   /\ WF_vars(\E b \in BOOLEAN : Pop(c, b))

Spec == Init /\ [][Next]_vars

FairSpec == Spec /\ Fairness

-----------------------------------------------------------------------------
(* Properties                                                                *)

\* Neither push (which re-reads the size after a wait) nor tryPush ever grows
\* queue_ beyond max_size_.
Bounded == Len(queue_) <= MaxSize

\* What went in and has not come out is exactly the content, in order: no
\* item is lost, duplicated or overtaken between push and pop.
Conservation == accepted = delivered \o queue_

\* notify_one is enough.  While a consumer sleeps on not_empty_, every queued
\* item has a woken consumer on its way to it; while a producer sleeps on
\* not_full_, so has every free slot.
NoLostWakeup ==
    /\ emptyWait # {} => Len(queue_) <= Cardinality(emptyWoken)
    /\ fullWait # {} => MaxSize <= Len(queue_) + Cardinality(fullWoken)

\* After shutdown() nobody sleeps and nobody goes to sleep: stop() can join.
ShutdownLeavesNoSleeper == shutdown_ => fullWait = {} /\ emptyWait = {}

\* The end of the stream is final: once a consumer was told nullopt after a
\* shutdown, the queue is empty for good and no item is stranded in it.
EndOfStreamIsFinal == ended # {} => shutdown_ /\ queue_ = <<>>

\* The queue implements the channel: every step of the threads is one send,
\* one receive, the close, or invisible.
Channel == INSTANCE BoundedFifo WITH Capacity <- MaxSize,
                                     received <- delivered,
                                     closed <- shutdown_
ImplementsChannel == Channel!Spec

\* After a shutdown every call in progress returns.
ShutdownReleasesEveryCall ==
    shutdown_ ~> fullWait \cup fullWoken \cup emptyWait \cup emptyWoken = {}

\* Backpressure is temporary: a push blocked by a full queue returns as long
\* as consumers keep popping.
BlockedPushReturns ==
    \A p \in Producer : p \in fullWait ~> p \notin fullWait \cup fullWoken

\* Every accepted item is handed over, with or without a shutdown.
AcceptedIsDelivered == ~Empty ~> Empty
=============================================================================
