------------------------ MODULE PipelinePacketProofs ------------------------
(***************************************************************************)
(* No stage of the pipeline loses or duplicates a packet, for any number of *)
(* packets and threads and any queue sizes.  A packet is always in exactly  *)
(* one container (a queue, a worker's hands, a counter); every step of a    *)
(* thread moves one packet from one container to another.                   *)
(* From a load balancer's queue to the fast path, packets keep their order. *)
(***************************************************************************)
EXTENDS PipelineProofs, FiniteSetTheorems, WellFoundedInduction,
        SequenceTheorems

-----------------------------------------------------------------------------
(* Partitions                                                                *)

\* The sets C[c] for c in I are disjoint and together they are S.
Partition(I, C, S) == /\ \A p \in S : \E c \in I : p \in C[c]
                      /\ \A c \in I : C[c] \subseteq S
                      /\ \A c, d \in I : c # d => C[c] \cap C[d] = {}

\* Moving an element keeps a partition.
LEMMA MoveKeepsPartition ==
  ASSUME NEW I, NEW C, NEW D, NEW S, Partition(I, C, S),
         NEW c \in I, NEW d \in I, c # d, NEW p, p \in C[c],
         D[c] = C[c] \ {p}, D[d] = C[d] \cup {p},
         \A x \in I \ {c, d} : D[x] = C[x]
  PROVE  Partition(I, D, S)
  <1>1. /\ \A q \in S : \E x \in I : q \in C[x]
        /\ \A x \in I : C[x] \subseteq S
        /\ \A x, y \in I : x # y => C[x] \cap C[y] = {}
    BY DEF Partition
  <1>2. \A q \in S : \E x \in I : q \in D[x]
    <2> SUFFICES ASSUME NEW q \in S PROVE \E x \in I : q \in D[x]
      OBVIOUS
    <2>1. CASE q = p
      BY <2>1
    <2>2. CASE q # p
      <3>1. PICK x \in I : q \in C[x]
        BY <1>1
      <3>2. q \in D[x]
        BY <2>2, <3>1
      <3> QED
        BY <3>2
    <2> QED
      BY <2>1, <2>2
  <1>3. \A x \in I : D[x] \subseteq S
    <2>1. p \in S
      BY <1>1
    <2> QED
      BY <1>1, <2>1
  <1>4. \A x, y \in I : x # y => D[x] \cap D[y] = {}
    <2> SUFFICES ASSUME NEW x \in I, NEW y \in I, x # y, NEW q, q \in D[x], q \in D[y]
                 PROVE  FALSE
      OBVIOUS
    <2>1. \A z \in I : q \in D[z] => (q \in C[z] /\ ~(z = c /\ q = p)) \/ (z = d /\ q = p)
      OBVIOUS
    <2>2. \A z \in I : q = p /\ q \in C[z] => z = c
      BY <1>1
    <2> QED
      BY <1>1, <2>1, <2>2
  <1> QED
    BY <1>2, <1>3, <1>4 DEF Partition

\* So does adding a new one.
LEMMA AddKeepsPartition ==
  ASSUME NEW I, NEW C, NEW D, NEW S, Partition(I, C, S),
         NEW d \in I, NEW p, p \notin S, D[d] = C[d] \cup {p},
         \A x \in I \ {d} : D[x] = C[x]
  PROVE  Partition(I, D, S \cup {p})
  <1>1. /\ \A q \in S : \E x \in I : q \in C[x]
        /\ \A x \in I : C[x] \subseteq S
        /\ \A x, y \in I : x # y => C[x] \cap C[y] = {}
    BY DEF Partition
  <1>2. ASSUME NEW q \in S \cup {p} PROVE \E x \in I : q \in D[x]
    <2>1. CASE q = p
      BY <2>1
    <2>2. CASE q \in S
      <3>1. PICK x \in I : q \in C[x]
        BY <1>1, <2>2
      <3>2. q \in D[x]
        BY <3>1
      <3> QED
        BY <3>2
    <2> QED
      BY <2>1, <2>2
  <1>3. \A x \in I : D[x] \subseteq S \cup {p}
    BY <1>1
  <1>4. ASSUME NEW x \in I, NEW y \in I, x # y, NEW q, q \in D[x], q \in D[y]
        PROVE  FALSE
    <2>1. \A z \in I : p \notin C[z]
      BY <1>1
    <2>2. \A z \in I : q \in D[z] => q \in C[z] \/ (z = d /\ q = p)
      OBVIOUS
    <2> QED
      BY <1>1, <1>4, <2>1, <2>2
  <1> QED
    BY <1>2, <1>3, <1>4 DEF Partition

\* A partition does not depend on more than the sets.
LEMMA SamePartition ==
  ASSUME NEW I, NEW C, NEW D, NEW S, Partition(I, C, S), \A x \in I : D[x] = C[x]
  PROVE  Partition(I, D, S)
  BY DEF Partition

-----------------------------------------------------------------------------
(* Queues without duplicates                                                 *)

LEMMA PopSeq ==
  ASSUME NEW P, NEW s \in Seq(P), s # <<>>, IsInjective(s)
  PROVE  /\ Head(s) \in Range(s)
         /\ Range(Tail(s)) = Range(s) \ {Head(s)}
         /\ IsInjective(Tail(s))
  <1>1. /\ Len(s) \in Nat /\ Len(s) >= 1 /\ DOMAIN s = 1..Len(s)
        /\ Head(s) = s[1] /\ DOMAIN Tail(s) = 1..(Len(s) - 1)
        /\ \A i \in 1..(Len(s) - 1) : Tail(s)[i] = s[i + 1]
    OBVIOUS
  <1>2. Range(Tail(s)) = Range(s) \ {Head(s)}
    <2>1. ASSUME NEW i \in 1..(Len(s) - 1) PROVE Tail(s)[i] \in Range(s) \ {Head(s)}
      <3>1. i + 1 \in 1..Len(s) /\ i + 1 # 1 /\ 1 \in 1..Len(s)
        BY <1>1
      <3> QED
        BY <1>1, <3>1 DEF Range, IsInjective
    <2>2. ASSUME NEW j \in 1..Len(s), s[j] # Head(s) PROVE s[j] \in Range(Tail(s))
      <3>1. j - 1 \in 1..(Len(s) - 1) /\ (j - 1) + 1 = j
        BY <1>1, <2>2
      <3>2. s[j] = Tail(s)[j - 1]
        BY <1>1, <3>1
      <3> QED
        BY <1>1, <3>1, <3>2 DEF Range
    <2>3. Range(Tail(s)) \subseteq Range(s) \ {Head(s)}
      <3>1. \A x \in Range(Tail(s)) : \E i \in 1..(Len(s) - 1) : x = Tail(s)[i]
        BY <1>1 DEF Range
      <3> QED
        BY <2>1, <3>1, Zenon
    <2>4. Range(s) \ {Head(s)} \subseteq Range(Tail(s))
      <3>1. \A x \in Range(s) : \E i \in 1..Len(s) : x = s[i]
        BY <1>1 DEF Range
      <3> QED
        BY <2>2, <3>1, Zenon
    <2> QED
      BY <2>3, <2>4
  <1>3. ASSUME NEW i \in 1..(Len(s) - 1), NEW j \in 1..(Len(s) - 1), Tail(s)[i] = Tail(s)[j]
        PROVE  i = j
    <2>1. i + 1 \in 1..Len(s) /\ j + 1 \in 1..Len(s) /\ s[i + 1] = s[j + 1]
      BY <1>1, <1>3
    <2>2. i + 1 = j + 1
      BY <1>1, <2>1 DEF IsInjective
    <2> QED
      BY <2>2
  <1>4. IsInjective(Tail(s))
    BY <1>1, <1>3 DEF IsInjective
  <1>5. Head(s) \in Range(s)
    <2>1. 1 \in DOMAIN s
      BY <1>1
    <2> QED
      BY <1>1, <2>1 DEF Range
  <1> QED
    BY <1>2, <1>4, <1>5

LEMMA PushSeq ==
  ASSUME NEW P, NEW s \in Seq(P), NEW p \in P, p \notin Range(s), IsInjective(s)
  PROVE  /\ Range(Append(s, p)) = Range(s) \cup {p}
         /\ IsInjective(Append(s, p))
  <1> DEFINE t == Append(s, p)
  <1>1. /\ Len(s) \in Nat /\ DOMAIN s = 1..Len(s) /\ DOMAIN t = 1..(Len(s) + 1)
        /\ t[Len(s) + 1] = p
        /\ \A i \in 1..Len(s) : t[i] = s[i]
    OBVIOUS
  <1> HIDE DEF t
  <1>2. DOMAIN t = DOMAIN s \cup {Len(s) + 1} /\ Len(s) + 1 \notin DOMAIN s
    BY <1>1
  <1>3. Range(t) = Range(s) \cup {p}
    BY <1>1, <1>2 DEF Range
  <1>4. IsInjective(t)
    BY <1>1, <1>2 DEF Range, IsInjective
  <1> QED
    BY <1>3, <1>4 DEF t

\* What a pop does to the queues.
LEMMA PopEffect ==
  ASSUME TypeOK, NEW w \in Worker, NEW p \in Packet, Pop(w, p),
         IsInjective(queue[Input(w)])
  PROVE  /\ p \in Range(queue[Input(w)])
         /\ Range(queue'[Input(w)]) = Range(queue[Input(w)]) \ {p}
         /\ IsInjective(queue'[Input(w)])
         /\ \A k \in Queue \ {Input(w)} : queue'[k] = queue[k]
  <1>1. /\ Input(w) \in Queue /\ queue[Input(w)] \in Seq(Packet)
        /\ queue[Input(w)] # <<>> /\ p = Head(queue[Input(w)])
        /\ queue' = [queue EXCEPT ![Input(w)] = Tail(@)]
    BY Names DEF Pop, TypeOK
  <1>2. /\ queue'[Input(w)] = Tail(queue[Input(w)])
        /\ \A k \in Queue \ {Input(w)} : queue'[k] = queue[k]
    BY <1>1 DEF TypeOK
  <1> QED
    BY <1>1, <1>2, PopSeq

\* What a push onto a queue that is not shut does.  NoSilentLoss' says it was
\* not.
LEMMA PushEffect ==
  ASSUME TypeOK, NoSilentLoss, NoSilentLoss', NEW k \in Queue, NEW p \in Packet,
         PushOnto(k, p), p \notin Range(queue[k]), IsInjective(queue[k])
  PROVE  /\ Range(queue'[k]) = Range(queue[k]) \cup {p}
         /\ IsInjective(queue'[k])
         /\ \A m \in Queue \ {k} : queue'[m] = queue[m]
         /\ lost' = lost
  <1>1. queue' = [queue EXCEPT ![k] = Append(@, p)] /\ lost' = lost
    BY DEF PushOnto, NoSilentLoss
  <1>2. queue[k] \in Seq(Packet)
    BY DEF TypeOK
  <1>3. /\ queue'[k] = Append(queue[k], p)
        /\ \A m \in Queue \ {k} : queue'[m] = queue[m]
    BY <1>1 DEF TypeOK
  <1> QED
    BY <1>1, <1>2, <1>3, PushSeq

-----------------------------------------------------------------------------
(* Every packet read is in one container                                     *)

\* The queues but the output queue, the hands of parsers and load balancers,
\* and the counters.
Inner == Queue \ {output}
Counter == {"errors", "dropped", "forwarded", "lost"}
Container == ({"queue"} \X Inner) \cup ({"hold"} \X (Parser \cup LB))
                \cup ({"fate"} \X Counter)

\* What is in them when the queues are q, the hands h and the fates e.
Contents(q, h, e) == [c \in Container |->
    IF c[1] = "queue" THEN Range(q[c[2]])
    ELSE IF c[1] = "hold" THEN {h[c[2]]} \ {NoPacket}
    ELSE e[c[2]]]

LEMMA ContentsOf ==
  ASSUME NEW q, NEW h, NEW e
  PROVE  /\ \A k \in Inner : /\ <<"queue", k>> \in Container
                             /\ Contents(q, h, e)[<<"queue", k>>] = Range(q[k])
         /\ \A w \in Parser \cup LB :
                /\ <<"hold", w>> \in Container
                /\ Contents(q, h, e)[<<"hold", w>>] = {h[w]} \ {NoPacket}
         /\ \A f \in Counter : /\ <<"fate", f>> \in Container
                               /\ Contents(q, h, e)[<<"fate", f>>] = e[f]
  <1>1. ASSUME NEW k \in Inner
        PROVE  /\ <<"queue", k>> \in Container
               /\ Contents(q, h, e)[<<"queue", k>>] = Range(q[k])
    <2>1. <<"queue", k>> \in Container
      BY DEF Container
    <2> QED
      BY <2>1 DEF Contents
  <1>2. ASSUME NEW w \in Parser \cup LB
        PROVE  /\ <<"hold", w>> \in Container
               /\ Contents(q, h, e)[<<"hold", w>>] = {h[w]} \ {NoPacket}
    <2>1. <<"hold", w>> \in Container
      BY DEF Container
    <2> QED
      BY <2>1 DEF Contents
  <1>3. ASSUME NEW f \in Counter
        PROVE  /\ <<"fate", f>> \in Container
               /\ Contents(q, h, e)[<<"fate", f>>] = e[f]
    <2>1. <<"fate", f>> \in Container
      BY DEF Container
    <2> QED
      BY <2>1 DEF Contents
  <1> QED
    BY <1>1, <1>2, <1>3

LEMMA ContainerKinds ==
  /\ \A c \in Container : \/ \E k \in Inner : c = <<"queue", k>>
                          \/ \E w \in Parser \cup LB : c = <<"hold", w>>
                          \/ \E f \in Counter : c = <<"fate", f>>
  /\ \A x, y : <<"queue", x>> # <<"hold", y>> /\ <<"queue", x>> # <<"fate", y>>
                  /\ <<"hold", x>> # <<"fate", y>>
  <1>1. \A x, y : <<"queue", x>> # <<"hold", y>> /\ <<"queue", x>> # <<"fate", y>>
                     /\ <<"hold", x>> # <<"fate", y>>
    OBVIOUS
  <1>2. \A c \in Container : \/ \E k \in Inner : c = <<"queue", k>>
                             \/ \E w \in Parser \cup LB : c = <<"hold", w>>
                             \/ \E f \in Counter : c = <<"fate", f>>
    BY DEF Container
  <1> QED
    BY <1>1, <1>2

\* Containers whose contents are the same before and after a step.
LEMMA SameContents ==
  ASSUME NEW X,
         \A k \in Inner : <<"queue", k>> \in X \/ queue'[k] = queue[k],
         \A w \in Parser \cup LB : <<"hold", w>> \in X \/ hold'[w] = hold[w],
         \A f \in Counter : <<"fate", f>> \in X \/ Fate'[f] = Fate[f]
  PROVE  \A c \in Container \ X : Contents(queue', hold', Fate')[c] = Contents(queue, hold, Fate)[c]
  <1> SUFFICES ASSUME NEW c \in Container \ X
               PROVE  Contents(queue', hold', Fate')[c] = Contents(queue, hold, Fate)[c]
    OBVIOUS
  <1>1. CASE \E k \in Inner : c = <<"queue", k>>
    <2>1. PICK k \in Inner : c = <<"queue", k>>
      BY <1>1
    <2>2. queue'[k] = queue[k]
      BY <2>1
    <2>3. Contents(queue, hold, Fate)[<<"queue", k>>] = Range(queue[k])
      BY ContentsOf
    <2>4. Contents(queue', hold', Fate')[<<"queue", k>>] = Range(queue'[k])
      BY ContentsOf
    <2> QED
      BY <2>1, <2>2, <2>3, <2>4
  <1>2. CASE \E w \in Parser \cup LB : c = <<"hold", w>>
    <2>1. PICK w \in Parser \cup LB : c = <<"hold", w>>
      BY <1>2
    <2>2. hold'[w] = hold[w]
      BY <2>1
    <2>3. Contents(queue, hold, Fate)[<<"hold", w>>] = {hold[w]} \ {NoPacket}
      BY ContentsOf
    <2>4. Contents(queue', hold', Fate')[<<"hold", w>>] = {hold'[w]} \ {NoPacket}
      BY ContentsOf
    <2> QED
      BY <2>1, <2>2, <2>3, <2>4
  <1>3. CASE \E f \in Counter : c = <<"fate", f>>
    <2>1. PICK f \in Counter : c = <<"fate", f>>
      BY <1>3
    <2>2. Fate'[f] = Fate[f]
      BY <2>1
    <2>3. Contents(queue, hold, Fate)[<<"fate", f>>] = Fate[f]
      BY ContentsOf
    <2>4. Contents(queue', hold', Fate')[<<"fate", f>>] = Fate'[f]
      BY ContentsOf
    <2> QED
      BY <2>1, <2>2, <2>3, <2>4
  <1> QED
    BY <1>1, <1>2, <1>3, ContainerKinds

InOnePlace == /\ Partition(Container, Contents(queue, hold, Fate), Read)
              /\ \A k \in Inner : IsInjective(queue[k])

\* A step that moves packet p from container c to container d and touches no
\* other.
LEMMA MoveKeepsInOnePlace ==
  ASSUME InOnePlace, Read' = Read, NEW c \in Container, NEW d \in Container, c # d,
         NEW p, p \in Contents(queue, hold, Fate)[c],
         Contents(queue', hold', Fate')[c] = Contents(queue, hold, Fate)[c] \ {p},
         Contents(queue', hold', Fate')[d] = Contents(queue, hold, Fate)[d] \cup {p},
         \A k \in Inner : <<"queue", k>> \in {c, d} \/ queue'[k] = queue[k],
         \A w \in Parser \cup LB : <<"hold", w>> \in {c, d} \/ hold'[w] = hold[w],
         \A f \in Counter : <<"fate", f>> \in {c, d} \/ Fate'[f] = Fate[f],
         \A k \in Inner : IsInjective(queue'[k])
  PROVE  InOnePlace'
  <1> DEFINE C == Contents(queue, hold, Fate)
             D == Contents(queue', hold', Fate')
  <1>1. \A x \in Container \ {c, d} : D[x] = C[x]
    BY SameContents
  <1>2. Partition(Container, C, Read)
    BY DEF InOnePlace
  <1>3. Partition(Container, D, Read)
    <2> HIDE DEF C, D
    <2> QED
      BY <1>1, <1>2, MoveKeepsPartition DEF C, D
  <1> QED
    BY <1>3 DEF InOnePlace

\* A step that touches no container.
LEMMA SameInOnePlace ==
  ASSUME InOnePlace, Read' = Read,
         \A k \in Inner : queue'[k] = queue[k],
         \A w \in Parser \cup LB : hold'[w] = hold[w],
         Fate' = Fate
  PROVE  InOnePlace'
  <1> DEFINE C == Contents(queue, hold, Fate)
             D == Contents(queue', hold', Fate')
  <1>1. \A x \in Container : D[x] = C[x]
    <2>1. \A x \in Container \ {} : D[x] = C[x]
      BY SameContents
    <2> QED
      BY <2>1
  <1>2. Partition(Container, C, Read)
    BY DEF InOnePlace
  <1>3. Partition(Container, D, Read)
    <2> HIDE DEF C, D
    <2> QED
      BY <1>1, <1>2, SamePartition
  <1>4. \A k \in Inner : IsInjective(queue'[k])
    BY DEF InOnePlace
  <1> QED
    BY <1>3, <1>4 DEF InOnePlace

\* A packet that is held or counted is in no queue.
LEMMA ElsewhereNotQueued ==
  ASSUME InOnePlace, NEW c \in Container, NEW p, p \in Contents(queue, hold, Fate)[c],
         NEW k \in Inner, c # <<"queue", k>>
  PROVE  p \notin Range(queue[k])
  <1>1. <<"queue", k>> \in Container
        /\ Contents(queue, hold, Fate)[<<"queue", k>>] = Range(queue[k])
    BY ContentsOf
  <1> QED
    BY <1>1 DEF InOnePlace, Partition

\* A worker's hands, before and after a step.
LEMMA HandsOf ==
  ASSUME NEW w \in Parser \cup LB
  PROVE  /\ <<"hold", w>> \in Container
         /\ Contents(queue, hold, Fate)[<<"hold", w>>] = {hold[w]} \ {NoPacket}
         /\ Contents(queue', hold', Fate')[<<"hold", w>>] = {hold'[w]} \ {NoPacket}
  <1>1. /\ <<"hold", w>> \in Container
        /\ Contents(queue, hold, Fate)[<<"hold", w>>] = {hold[w]} \ {NoPacket}
    BY ContentsOf
  <1>2. Contents(queue', hold', Fate')[<<"hold", w>>] = {hold'[w]} \ {NoPacket}
    BY ContentsOf
  <1> QED
    BY <1>1, <1>2

\* The reader reads a packet that was nowhere yet.
LEMMA ReaderPushOnce ==
  ASSUME TypeOK, StopInv, StopInv', InOnePlace, ReaderPush
  PROVE  InOnePlace'
  <1> DEFINE C == Contents(queue, hold, Fate)
             D == Contents(queue', hold', Fate')
             d == <<"queue", raw>>
  <1>1. /\ next \in Packet /\ next \notin Read /\ Read' = Read \cup {next}
    BY PipelineAssumption DEF ReaderPush, TypeOK, Packet, Read
  <1>2. raw \in Inner /\ raw \in Queue
    BY Names DEF Inner
  <1>3. d \in Container /\ C[d] = Range(queue[raw]) /\ D[d] = Range(queue'[raw])
    BY <1>2, ContentsOf
  <1>4. next \notin Range(queue[raw]) /\ IsInjective(queue[raw])
    BY <1>1, <1>2, <1>3 DEF InOnePlace, Partition
  <1>5. /\ Range(queue'[raw]) = Range(queue[raw]) \cup {next}
        /\ IsInjective(queue'[raw]) /\ lost' = lost
        /\ \A k \in Queue \ {raw} : queue'[k] = queue[k]
    <2>1. PushOnto(raw, next)
      BY DEF ReaderPush
    <2> QED
      BY <1>1, <1>2, <1>4, <2>1, PushEffect DEF StopInv
  <1>6. \A x \in Container \ {d} : D[x] = C[x]
    <2>1. \A k \in Inner : <<"queue", k>> \in {d} \/ queue'[k] = queue[k]
      BY <1>5 DEF Inner
    <2>2. \A w \in Parser \cup LB : <<"hold", w>> \in {d} \/ hold'[w] = hold[w]
      BY DEF ReaderPush
    <2>3. \A f \in Counter : <<"fate", f>> \in {d} \/ Fate'[f] = Fate[f]
      BY <1>5 DEF ReaderPush, counters, Fate
    <2> QED
      BY <2>1, <2>2, <2>3, SameContents
  <1>7. Partition(Container, D, Read \cup {next})
    <2>1. Partition(Container, C, Read) /\ D[d] = C[d] \cup {next}
      BY <1>3, <1>5 DEF InOnePlace
    <2> HIDE DEF C, D, d
    <2> QED
      BY <1>1, <1>3, <1>6, <2>1, AddKeepsPartition
  <1>8. \A k \in Inner : IsInjective(queue'[k])
    BY <1>5 DEF InOnePlace, Inner
  <1> QED
    BY <1>1, <1>7, <1>8 DEF InOnePlace

\* A parser or a load balancer takes a packet out of its queue.
LEMMA PopToHold ==
  ASSUME TypeOK, InOnePlace, NEW w \in Parser \cup LB, NEW p \in Packet, Pop(w, p),
         hold' = [hold EXCEPT ![w] = p], Fate' = Fate, Read' = Read
  PROVE  InOnePlace'
  <1> DEFINE k == Input(w)
             c == <<"queue", k>>
             d == <<"hold", w>>
  <1>1. w \in Worker /\ k \in Inner /\ k \in Queue
    BY Names DEF Worker, Inner
  <1>2. /\ p \in Range(queue[k]) /\ Range(queue'[k]) = Range(queue[k]) \ {p}
        /\ IsInjective(queue'[k])
        /\ \A m \in Queue \ {k} : queue'[m] = queue[m]
    <2>1. IsInjective(queue[k])
      BY <1>1 DEF InOnePlace
    <2> QED
      BY <1>1, <2>1, PopEffect
  <1>3. /\ c \in Container /\ d \in Container /\ c # d
        /\ Contents(queue, hold, Fate)[c] = Range(queue[k])
        /\ Contents(queue', hold', Fate')[c] = Range(queue'[k])
        /\ Contents(queue, hold, Fate)[d] = {hold[w]} \ {NoPacket}
        /\ Contents(queue', hold', Fate')[d] = {hold'[w]} \ {NoPacket}
    <2>1. /\ c \in Container
          /\ Contents(queue, hold, Fate)[c] = Range(queue[k])
          /\ Contents(queue', hold', Fate')[c] = Range(queue'[k])
      BY <1>1, ContentsOf
    <2>2. /\ d \in Container
          /\ Contents(queue, hold, Fate)[d] = {hold[w]} \ {NoPacket}
          /\ Contents(queue', hold', Fate')[d] = {hold'[w]} \ {NoPacket}
      BY HandsOf, Zenon
    <2>3. c # d
      BY ContainerKinds
    <2> QED
      BY <2>1, <2>2, <2>3
  <1>4. hold[w] = NoPacket /\ hold'[w] = p /\ p # NoPacket
    BY <1>1, Names DEF Pop, TypeOK
  <1>5. \A m \in Inner : <<"queue", m>> \in {c, d} \/ queue'[m] = queue[m]
    BY <1>2 DEF Inner
  <1>6. \A v \in Parser \cup LB : <<"hold", v>> \in {c, d} \/ hold'[v] = hold[v]
    BY <1>1 DEF TypeOK, Worker
  <1>7. \A m \in Inner : IsInjective(queue'[m])
    BY <1>2 DEF InOnePlace, Inner
  <1>8. /\ p \in Contents(queue, hold, Fate)[c]
        /\ Contents(queue', hold', Fate')[c] = Contents(queue, hold, Fate)[c] \ {p}
        /\ Contents(queue', hold', Fate')[d] = Contents(queue, hold, Fate)[d] \cup {p}
    BY <1>2, <1>3, <1>4
  <1> HIDE DEF c, d
  <1> QED
    BY <1>3, <1>5, <1>6, <1>7, <1>8, MoveKeepsInOnePlace

\* A parser or a fast path takes a packet out of its queue and decides its
\* fate f.
LEMMA PopToFate ==
  ASSUME TypeOK, InOnePlace, NEW w \in Parser \cup FP, NEW p \in Packet, Pop(w, p),
         NEW f \in Counter, Fate'[f] = Fate[f] \cup {p},
         \A g \in Counter \ {f} : Fate'[g] = Fate[g],
         \A v \in Parser \cup LB : hold'[v] = hold[v], Read' = Read
  PROVE  InOnePlace'
  <1> DEFINE k == Input(w)
             c == <<"queue", k>>
             d == <<"fate", f>>
  <1>1. w \in Worker /\ k \in Inner /\ k \in Queue
    BY Names DEF Worker, Inner
  <1>2. /\ p \in Range(queue[k]) /\ Range(queue'[k]) = Range(queue[k]) \ {p}
        /\ IsInjective(queue'[k])
        /\ \A m \in Queue \ {k} : queue'[m] = queue[m]
    <2>1. IsInjective(queue[k])
      BY <1>1 DEF InOnePlace
    <2> QED
      BY <1>1, <2>1, PopEffect
  <1>3. /\ c \in Container /\ d \in Container /\ c # d
        /\ Contents(queue, hold, Fate)[c] = Range(queue[k])
        /\ Contents(queue', hold', Fate')[c] = Range(queue'[k])
        /\ Contents(queue, hold, Fate)[d] = Fate[f]
        /\ Contents(queue', hold', Fate')[d] = Fate'[f]
    <2>1. /\ c \in Container
          /\ Contents(queue, hold, Fate)[c] = Range(queue[k])
          /\ Contents(queue', hold', Fate')[c] = Range(queue'[k])
      BY <1>1, ContentsOf
    <2>2. /\ d \in Container
          /\ Contents(queue, hold, Fate)[d] = Fate[f]
          /\ Contents(queue', hold', Fate')[d] = Fate'[f]
      BY <1>1, ContentsOf
    <2>3. c # d
      BY ContainerKinds
    <2> QED
      BY <2>1, <2>2, <2>3
  <1>4. \A m \in Inner : <<"queue", m>> \in {c, d} \/ queue'[m] = queue[m]
    BY <1>2 DEF Inner
  <1>5. \A g \in Counter : <<"fate", g>> \in {c, d} \/ Fate'[g] = Fate[g]
    OBVIOUS
  <1>6. \A m \in Inner : IsInjective(queue'[m])
    BY <1>2 DEF InOnePlace, Inner
  <1>7. /\ p \in Contents(queue, hold, Fate)[c]
        /\ Contents(queue', hold', Fate')[c] = Contents(queue, hold, Fate)[c] \ {p}
        /\ Contents(queue', hold', Fate')[d] = Contents(queue, hold, Fate)[d] \cup {p}
    BY <1>2, <1>3
  <1> HIDE DEF c, d
  <1> QED
    BY <1>3, <1>4, <1>5, <1>6, <1>7, MoveKeepsInOnePlace

\* A parser or a load balancer pushes the packet it holds.
LEMMA HoldToQueue ==
  ASSUME TypeOK, StopInv, StopInv', InOnePlace, NEW w \in Parser \cup LB, NEW k \in Inner,
         PushHeld(w, k), UNCHANGED <<next, errors, dropped, forwarded>>
  PROVE  InOnePlace'
  <1> DEFINE p == hold[w]
             c == <<"hold", w>>
             d == <<"queue", k>>
  <1>1. /\ w \in Worker /\ k \in Queue /\ p # NoPacket /\ p \in Packet
        /\ PushOnto(k, p) /\ hold' = [hold EXCEPT ![w] = NoPacket]
    BY DEF Worker, Inner, PushHeld, TypeOK
  <1>2. /\ c \in Container /\ d \in Container /\ c # d
        /\ Contents(queue, hold, Fate)[c] = {hold[w]} \ {NoPacket}
        /\ Contents(queue', hold', Fate')[c] = {hold'[w]} \ {NoPacket}
        /\ Contents(queue, hold, Fate)[d] = Range(queue[k])
        /\ Contents(queue', hold', Fate')[d] = Range(queue'[k])
    <2>1. /\ c \in Container
          /\ Contents(queue, hold, Fate)[c] = {hold[w]} \ {NoPacket}
          /\ Contents(queue', hold', Fate')[c] = {hold'[w]} \ {NoPacket}
      BY ContentsOf
    <2>2. /\ d \in Container
          /\ Contents(queue, hold, Fate)[d] = Range(queue[k])
          /\ Contents(queue', hold', Fate')[d] = Range(queue'[k])
      BY ContentsOf
    <2>3. c # d
      BY ContainerKinds
    <2> QED
      BY <2>1, <2>2, <2>3
  <1>3. hold'[w] = NoPacket /\ p \in Contents(queue, hold, Fate)[c]
    BY <1>1, <1>2 DEF TypeOK
  <1>4. /\ Range(queue'[k]) = Range(queue[k]) \cup {p}
        /\ IsInjective(queue'[k]) /\ lost' = lost
        /\ \A m \in Queue \ {k} : queue'[m] = queue[m]
    <2>1. p \notin Range(queue[k])
      BY <1>2, <1>3, ElsewhereNotQueued
    <2>2. IsInjective(queue[k])
      BY DEF InOnePlace
    <2> QED
      BY <1>1, <2>1, <2>2, PushEffect DEF StopInv
  <1>5. \A m \in Inner : <<"queue", m>> \in {c, d} \/ queue'[m] = queue[m]
    BY <1>4 DEF Inner
  <1>6. \A v \in Parser \cup LB : <<"hold", v>> \in {c, d} \/ hold'[v] = hold[v]
    BY <1>1 DEF TypeOK, Worker
  <1>7. \A m \in Inner : IsInjective(queue'[m])
    BY <1>4 DEF InOnePlace, Inner
  <1>8. Fate' = Fate /\ Read' = Read
    BY <1>4 DEF Fate, Read
  <1>9. /\ Contents(queue', hold', Fate')[c] = Contents(queue, hold, Fate)[c] \ {p}
        /\ Contents(queue', hold', Fate')[d] = Contents(queue, hold, Fate)[d] \cup {p}
    BY <1>2, <1>3, <1>4
  <1> HIDE DEF c, d, p
  <1> QED
    BY <1>2, <1>3, <1>5, <1>6, <1>7, <1>8, <1>9, MoveKeepsInOnePlace

LEMMA InOnePlaceInit == Init => InOnePlace
  <1> SUFFICES ASSUME Init PROVE InOnePlace
    OBVIOUS
  <1>1. \A k \in Inner : queue[k] = <<>>
    BY DEF Init, Inner
  <1>2. \A w \in Parser \cup LB : hold[w] = NoPacket
    BY DEF Init, Worker
  <1>3. \A f \in Counter : Fate[f] = {}
    BY DEF Init, Fate, Counter
  <1>4. Range(<<>>) = {} /\ IsInjective(<<>>)
    BY DEF Range, IsInjective
  <1>5. ASSUME NEW c \in Container PROVE Contents(queue, hold, Fate)[c] = {}
    BY <1>1, <1>2, <1>3, <1>4, ContainerKinds, ContentsOf
  <1>6. Read = {}
    BY DEF Init, Read
  <1>7. \A k \in Inner : IsInjective(queue[k])
    BY <1>1, <1>4
  <1> QED
    BY <1>5, <1>6, <1>7 DEF InOnePlace, Partition

LEMMA InOnePlaceStep ==
  TypeOK /\ StopInv /\ StopInv' /\ InOnePlace /\ [Next]_vars => InOnePlace'
  <1> SUFFICES ASSUME TypeOK, StopInv, StopInv', InOnePlace, [Next]_vars
               PROVE  InOnePlace'
    OBVIOUS
  <1> USE DEF readerVars, mainVars, counters
  <1>1. CASE ReaderPush
    BY <1>1, ReaderPushOnce
  <1>2. ASSUME NEW w \in Parser, Parse(w) PROVE InOnePlace'
    <2>1. PICK p \in Packet : /\ Pop(w, p)
                              /\ IF p \in Malformed
                                 THEN errors' = errors \cup {p} /\ UNCHANGED hold
                                 ELSE hold' = [hold EXCEPT ![w] = p] /\ UNCHANGED errors
                              /\ UNCHANGED <<next, dropped, forwarded, lost>>
      BY <1>2 DEF Parse
    <2>2. Read' = Read
      BY <2>1 DEF Read
    <2>3. CASE p \in Malformed
      <3>1. /\ Fate'["errors"] = Fate["errors"] \cup {p}
            /\ \A g \in Counter \ {"errors"} : Fate'[g] = Fate[g]
            /\ "errors" \in Counter
            /\ \A v \in Parser \cup LB : hold'[v] = hold[v]
        BY <2>1, <2>3 DEF Fate, Counter
      <3> QED
        BY <2>1, <2>2, <3>1, PopToFate
    <2>4. CASE p \notin Malformed
      <3>1. Fate' = Fate /\ hold' = [hold EXCEPT ![w] = p]
        BY <2>1, <2>4 DEF Fate
      <3> QED
        BY <2>1, <2>2, <3>1, PopToHold
    <2> QED
      BY <2>3, <2>4
  <1>3. ASSUME NEW w \in Parser, ParserPush(w) PROVE InOnePlace'
    <2>1. /\ PushHeld(w, LBForPacket(hold[w])) /\ hold[w] \in Packet
          /\ UNCHANGED <<next, errors, dropped, forwarded>>
      BY <1>3, Names DEF ParserPush, PushHeld, TypeOK, Worker
    <2>2. LBForPacket(hold[w]) \in Inner
      BY <2>1, RouteType, Names DEF Inner
    <2> QED
      BY <2>1, <2>2, HoldToQueue
  <1>4. ASSUME NEW l \in LB, LBPop(l) PROVE InOnePlace'
    <2>1. PICK p \in Packet : Pop(l, p) /\ hold' = [hold EXCEPT ![l] = p]
      BY <1>4 DEF LBPop
    <2>2. Fate' = Fate /\ Read' = Read
      BY <1>4 DEF LBPop, Fate, Read
    <2> QED
      BY <2>1, <2>2, PopToHold
  <1>5. ASSUME NEW l \in LB, LBPush(l) PROVE InOnePlace'
    <2>1. /\ PushHeld(l, SelectFP(l, hold[l])) /\ hold[l] \in Packet
          /\ UNCHANGED <<next, errors, dropped, forwarded>>
      BY <1>5, Names DEF LBPush, PushHeld, TypeOK, Worker
    <2>2. SelectFP(l, hold[l]) \in Inner
      BY <2>1, RouteType, Names DEF Inner
    <2> QED
      BY <2>1, <2>2, HoldToQueue
  <1>6. ASSUME NEW f \in FP, FPProcess(f) PROVE InOnePlace'
    <2>1. PICK p \in Packet : Pop(f, p) /\ HandleOutput(f, p)
      BY <1>6 DEF FPProcess
    <2>2. Read' = Read /\ errors' = errors /\ lost' = lost
      BY <1>6 DEF FPProcess, Read
    <2>3. \A v \in Parser \cup LB : hold'[v] = hold[v]
      BY <2>1, Names DEF HandleOutput, TypeOK, Worker
    <2>4. CASE dropped' = dropped \cup {p} /\ forwarded' = forwarded
      <3>1. /\ Fate'["dropped"] = Fate["dropped"] \cup {p}
            /\ \A g \in Counter \ {"dropped"} : Fate'[g] = Fate[g]
            /\ "dropped" \in Counter
        BY <2>2, <2>4 DEF Fate, Counter
      <3> QED
        BY <2>1, <2>2, <2>3, <3>1, PopToFate
    <2>5. CASE forwarded' = forwarded \cup {p} /\ dropped' = dropped
      <3>1. /\ Fate'["forwarded"] = Fate["forwarded"] \cup {p}
            /\ \A g \in Counter \ {"forwarded"} : Fate'[g] = Fate[g]
            /\ "forwarded" \in Counter
        BY <2>2, <2>5 DEF Fate, Counter
      <3> QED
        BY <2>1, <2>2, <2>3, <3>1, PopToFate
    <2> QED
      BY <2>1, <2>4, <2>5 DEF HandleOutput
  <1>7. ASSUME NEW f \in FP, FPPush(f) PROVE InOnePlace'
    <2>1. /\ PushHeld(f, output) /\ f \in Worker
          /\ UNCHANGED <<next, errors, dropped, forwarded>>
      BY <1>7 DEF FPPush, Worker
    <2>2. \A v \in Parser \cup LB : hold'[v] = hold[v]
      BY <2>1, Names DEF PushHeld, TypeOK, Worker
    <2>3. \A k \in Inner : queue'[k] = queue[k]
      BY <2>1 DEF PushHeld, PushOnto, TypeOK, Inner
    <2>4. lost' = lost
      BY DEF StopInv, NoSilentLoss
    <2> QED
      BY <2>1, <2>2, <2>3, <2>4, SameInOnePlace DEF Fate, Read
  <1>8. CASE OutputWrite
    <2>1. \A k \in Inner : queue'[k] = queue[k]
      BY <1>8 DEF OutputWrite, TypeOK, Inner
    <2> QED
      BY <1>8, <2>1, SameInOnePlace DEF OutputWrite, Fate, Read
  <1>9. ASSUME UNCHANGED <<next, queue, hold, errors, dropped, forwarded, lost>>
        PROVE  InOnePlace'
    BY <1>9, SameInOnePlace DEF Fate, Read
  <1>10. ASSUME NEW w \in Worker, WorkerEnd(w) \/ StopWorker(w) PROVE InOnePlace'
    BY <1>9, <1>10 DEF WorkerEnd, StopWorker
  <1>11. CASE \/ ReaderEnd \/ OutputEnd \/ JoinReader \/ JoinWorker
              \/ StageStopped \/ JoinOutput \/ UNCHANGED vars
    BY <1>9, <1>11 DEF ReaderEnd, OutputEnd, JoinReader, JoinWorker, StageStopped,
                       JoinOutput, vars
  <1> QED
    BY <1>1, <1>2, <1>3, <1>4, <1>5, <1>6, <1>7, <1>8, <1>10, <1>11
    DEF Next, ReaderStep, ParserStep, LBStep, FPStep, OutputStep, MainStep,
        Stopped, Worker

-----------------------------------------------------------------------------
(* Every forwarded packet is in one container of the output path             *)

\* The output queue, the output file and the hands of the fast paths.
file == <<"file">>
OutContainer == {output, file} \cup FP

OutContents(q, h, z) == [c \in OutContainer |->
    IF c = output THEN Range(q[output])
    ELSE IF c = file THEN Range(z)
    ELSE {h[c]} \ {NoPacket}]

LEMMA OutNames == output # file /\ output \notin FP /\ file \notin FP
  <1>1. <<"output">> # <<"file">> /\ \A i, j \in Nat : <<"fp", i, j>> # <<"file">>
    OBVIOUS
  <1> QED
    BY <1>1, Names, PipelineAssumption DEF output, file, FP

LEMMA OutContentsOf ==
  ASSUME NEW q, NEW h, NEW z
  PROVE  /\ OutContents(q, h, z)[output] = Range(q[output])
         /\ OutContents(q, h, z)[file] = Range(z)
         /\ \A f \in FP : OutContents(q, h, z)[f] = {h[f]} \ {NoPacket}
  BY OutNames DEF OutContents, OutContainer

\* The contents before and after a step.
LEMMA OutContentsOfStep ==
  /\ OutContents(queue, hold, written)[output] = Range(queue[output])
  /\ OutContents(queue, hold, written)[file] = Range(written)
  /\ \A f \in FP : OutContents(queue, hold, written)[f] = {hold[f]} \ {NoPacket}
  /\ OutContents(queue', hold', written')[output] = Range(queue'[output])
  /\ OutContents(queue', hold', written')[file] = Range(written')
  /\ \A f \in FP : OutContents(queue', hold', written')[f] = {hold'[f]} \ {NoPacket}
  <1>1. /\ OutContents(queue, hold, written)[output] = Range(queue[output])
        /\ OutContents(queue, hold, written)[file] = Range(written)
        /\ \A f \in FP : OutContents(queue, hold, written)[f] = {hold[f]} \ {NoPacket}
    BY OutContentsOf
  <1>2. /\ OutContents(queue', hold', written')[output] = Range(queue'[output])
        /\ OutContents(queue', hold', written')[file] = Range(written')
        /\ \A f \in FP : OutContents(queue', hold', written')[f] = {hold'[f]} \ {NoPacket}
    BY OutContentsOf
  <1> QED
    BY <1>1, <1>2

OutputOnce ==
  fileOpen => /\ Partition(OutContainer, OutContents(queue, hold, written), forwarded)
              /\ IsInjective(queue[output])
              /\ IsInjective(written)

LEMMA OutputOnceInit == Init => OutputOnce
  <1> SUFFICES ASSUME Init PROVE OutputOnce
    OBVIOUS
  <1>1. /\ queue[output] = <<>> /\ written = <<>> /\ forwarded = {}
        /\ \A f \in FP : hold[f] = NoPacket
    BY Names DEF Init, Worker
  <1>2. Range(<<>>) = {} /\ IsInjective(<<>>)
    BY DEF Range, IsInjective
  <1>3. \A c \in OutContainer : OutContents(queue, hold, written)[c] = {}
    BY <1>1, <1>2, OutContentsOf DEF OutContainer
  <1> QED
    BY <1>1, <1>2, <1>3 DEF OutputOnce, Partition

\* A step that leaves the output path alone.
LEMMA SameOutputOnce ==
  ASSUME OutputOnce, queue'[output] = queue[output], \A f \in FP : hold'[f] = hold[f],
         UNCHANGED <<written, forwarded, fileOpen>>
  PROVE  OutputOnce'
  <1> DEFINE C == OutContents(queue, hold, written)
             D == OutContents(queue', hold', written')
  <1>1. \A c \in OutContainer : D[c] = C[c]
    BY OutContentsOfStep DEF OutContainer
  <1>2. ASSUME fileOpen PROVE Partition(OutContainer, D, forwarded)
    <2>1. Partition(OutContainer, C, forwarded)
      BY <1>2 DEF OutputOnce
    <2> HIDE DEF C, D
    <2> QED
      BY <1>1, <2>1, SamePartition
  <1> QED
    BY <1>2 DEF OutputOnce

\* processPacket forwards a packet that was not forwarded before.
LEMMA ForwardOnce ==
  ASSUME TypeOK, InOnePlace, OutputOnce, NEW f \in FP, NEW p \in Packet, Pop(f, p),
         forwarded' = forwarded \cup {p},
         hold' = IF fileOpen THEN [hold EXCEPT ![f] = p] ELSE hold,
         UNCHANGED <<written, fileOpen>>
  PROVE  OutputOnce'
  <1> DEFINE C == OutContents(queue, hold, written)
             D == OutContents(queue', hold', written')
  <1>1. f \in Worker /\ Input(f) = f /\ f \in Inner /\ f # output /\ f \in OutContainer
    BY Names, OutNames DEF Worker, Inner, OutContainer
  <1>2. p \in Range(queue[f]) /\ queue'[output] = queue[output]
    <2>1. IsInjective(queue[f])
      BY <1>1 DEF InOnePlace
    <2> QED
      BY <1>1, <2>1, PopEffect, Names
  <1>3. p \notin forwarded
    <2>1. /\ <<"queue", f>> \in Container /\ <<"fate", "forwarded">> \in Container
          /\ <<"queue", f>> # <<"fate", "forwarded">>
      BY <1>1, ContentsOf, ContainerKinds DEF Counter
    <2>2. /\ Contents(queue, hold, Fate)[<<"queue", f>>] = Range(queue[f])
          /\ Contents(queue, hold, Fate)[<<"fate", "forwarded">>] = Fate["forwarded"]
      BY <1>1, ContentsOf DEF Counter
    <2>3. Fate["forwarded"] = forwarded
      BY DEF Fate
    <2>4. Contents(queue, hold, Fate)[<<"queue", f>>]
             \cap Contents(queue, hold, Fate)[<<"fate", "forwarded">>] = {}
      BY <2>1, Zenon DEF InOnePlace, Partition
    <2> QED
      BY <1>2, <2>2, <2>3, <2>4
  <1> SUFFICES ASSUME fileOpen
               PROVE  /\ Partition(OutContainer, D, forwarded \cup {p})
                      /\ IsInjective(queue[output]) /\ IsInjective(written)
    BY <1>2 DEF OutputOnce
  <1>4. hold[f] = NoPacket /\ hold'[f] = p /\ \A g \in FP \ {f} : hold'[g] = hold[g]
    BY <1>1 DEF Pop, TypeOK, Worker
  <1>5. D[f] = C[f] \cup {p} /\ \A c \in OutContainer \ {f} : D[c] = C[c]
    <2>1. C[f] = {hold[f]} \ {NoPacket} /\ D[f] = {hold'[f]} \ {NoPacket}
      BY OutContentsOfStep, Zenon
    <2>2. ASSUME NEW g \in FP \ {f} PROVE D[g] = C[g]
      <3>1. C[g] = {hold[g]} \ {NoPacket} /\ D[g] = {hold'[g]} \ {NoPacket}
        BY OutContentsOfStep, Zenon
      <3>2. hold'[g] = hold[g]
        BY <1>4
      <3> QED
        BY <3>1, <3>2, Zenon
    <2>3. D[output] = C[output] /\ D[file] = C[file]
      BY <1>2, OutContentsOfStep
    <2>4. p # NoPacket
      BY Names
    <2> HIDE DEF C, D
    <2> QED
      BY <1>4, <2>1, <2>2, <2>3, <2>4 DEF OutContainer
  <1>6. Partition(OutContainer, C, forwarded)
    BY DEF OutputOnce
  <1>7. Partition(OutContainer, D, forwarded \cup {p})
    <2> HIDE DEF C, D
    <2> QED
      BY <1>1, <1>3, <1>5, <1>6, AddKeepsPartition
  <1> QED
    BY <1>7 DEF OutputOnce

\* handleOutput's push into the output queue.
LEMMA FPPushOnce ==
  ASSUME TypeOK, StopInv, StopInv', OutputOnce, NEW f \in FP, FPPush(f)
  PROVE  OutputOnce'
  <1> DEFINE C == OutContents(queue, hold, written)
             D == OutContents(queue', hold', written')
             p == hold[f]
  <1>1. /\ p \in Packet /\ p # NoPacket /\ PushOnto(output, p)
        /\ hold'[f] = NoPacket /\ \A g \in FP \ {f} : hold'[g] = hold[g]
        /\ UNCHANGED <<written, forwarded, fileOpen>>
    BY DEF FPPush, PushHeld, TypeOK, Worker, counters, mainVars
  <1>2. f \in OutContainer /\ output \in OutContainer /\ f # output /\ output \in Queue
    BY Names, OutNames DEF OutContainer
  <1> SUFFICES ASSUME fileOpen
               PROVE  /\ Partition(OutContainer, D, forwarded)
                      /\ IsInjective(queue'[output]) /\ IsInjective(written)
    BY <1>1 DEF OutputOnce
  <1>3. Partition(OutContainer, C, forwarded) /\ IsInjective(queue[output])
    BY DEF OutputOnce
  <1>4. C[f] = {hold[f]} \ {NoPacket} /\ D[f] = {hold'[f]} \ {NoPacket}
    BY OutContentsOfStep, Zenon
  <1>5. C[output] = Range(queue[output]) /\ D[output] = Range(queue'[output])
    BY OutContentsOfStep, Zenon
  <1>6. C[f] \cap C[output] = {}
    BY <1>2, <1>3, Zenon DEF Partition
  <1>7. p \in C[f] /\ p \notin Range(queue[output]) /\ D[f] = C[f] \ {p}
    <2> HIDE DEF C, D
    <2> QED
      BY <1>1, <1>4, <1>5, <1>6
  <1>8. /\ Range(queue'[output]) = Range(queue[output]) \cup {p}
        /\ IsInjective(queue'[output])
    BY <1>1, <1>2, <1>3, <1>7, PushEffect DEF StopInv
  <1>9. \A c \in OutContainer \ {f, output} : D[c] = C[c]
    <2>1. \A g \in FP \ {f} : D[g] = C[g]
      BY <1>1, OutContentsOfStep
    <2>2. D[file] = C[file]
      BY <1>1, OutContentsOfStep
    <2> HIDE DEF C, D
    <2> QED
      BY <2>1, <2>2 DEF OutContainer
  <1>10. Partition(OutContainer, D, forwarded)
    <2>1. D[output] = C[output] \cup {p}
      BY <1>5, <1>8
    <2> HIDE DEF C, D, p
    <2> QED
      BY <1>2, <1>3, <1>7, <1>9, <2>1, MoveKeepsPartition
  <1> QED
    BY <1>8, <1>10 DEF OutputOnce

\* outputThreadFunc writes the packet at the head of the output queue.
LEMMA OutputWriteOnce ==
  ASSUME TypeOK, OutputOnce, OutputWrite
  PROVE  OutputOnce'
  <1> DEFINE C == OutContents(queue, hold, written)
             D == OutContents(queue', hold', written')
             s == queue[output]
             p == Head(s)
  <1>1. /\ s \in Seq(Packet) /\ s # <<>> /\ queue'[output] = Tail(s)
        /\ written \in Seq(Packet) /\ written' = Append(written, p)
        /\ UNCHANGED <<hold, forwarded, fileOpen>>
    BY Names DEF OutputWrite, TypeOK, mainVars
  <1>2. file \in OutContainer /\ output \in OutContainer /\ file # output
    BY OutNames DEF OutContainer
  <1> SUFFICES ASSUME fileOpen
               PROVE  /\ Partition(OutContainer, D, forwarded)
                      /\ IsInjective(queue'[output]) /\ IsInjective(written')
    BY <1>1 DEF OutputOnce
  <1>3. /\ Partition(OutContainer, C, forwarded)
        /\ IsInjective(s) /\ IsInjective(written)
    BY DEF OutputOnce
  <1>4. /\ p \in Range(s) /\ Range(queue'[output]) = Range(s) \ {p}
        /\ IsInjective(queue'[output])
    BY <1>1, <1>3, PopSeq
  <1>5. /\ C[output] = Range(s) /\ D[output] = Range(queue'[output])
        /\ C[file] = Range(written) /\ D[file] = Range(written')
    BY OutContentsOfStep, Zenon
  <1>6. p \notin Range(written) /\ p \in Packet
    <2>1. C[output] \cap C[file] = {}
      BY <1>2, <1>3, Zenon DEF Partition
    <2>2. p \in Packet
      BY <1>1
    <2> HIDE DEF C, D, p
    <2> QED
      BY <1>4, <1>5, <2>1, <2>2
  <1>7. Range(written') = Range(written) \cup {p} /\ IsInjective(written')
    <2> HIDE DEF p
    <2> QED
      BY <1>1, <1>3, <1>6, PushSeq
  <1>8. \A c \in OutContainer \ {output, file} : D[c] = C[c]
    <2>1. \A g \in FP : D[g] = C[g]
      BY <1>1, OutContentsOfStep
    <2> HIDE DEF C, D
    <2> QED
      BY <2>1 DEF OutContainer
  <1>9. Partition(OutContainer, D, forwarded)
    <2>1. p \in C[output] /\ D[output] = C[output] \ {p} /\ D[file] = C[file] \cup {p}
      BY <1>4, <1>5, <1>7
    <2> HIDE DEF C, D, p
    <2> QED
      BY <1>2, <1>3, <1>8, <2>1, MoveKeepsPartition
  <1> QED
    BY <1>4, <1>7, <1>9

LEMMA OutputOnceStep ==
  TypeOK /\ StopInv /\ StopInv' /\ InOnePlace /\ OutputOnce /\ [Next]_vars => OutputOnce'
  <1> SUFFICES ASSUME TypeOK, StopInv, StopInv', InOnePlace, OutputOnce, [Next]_vars
               PROVE  OutputOnce'
    OBVIOUS
  <1> USE DEF readerVars, mainVars, counters
  <1>1. CASE ReaderPush
    <2>1. queue'[output] = queue[output]
      BY <1>1, Names DEF ReaderPush, PushOnto, TypeOK
    <2> QED
      BY <1>1, <2>1, SameOutputOnce DEF ReaderPush
  <1>2. ASSUME NEW w \in Parser, Parse(w) PROVE OutputOnce'
    <2>1. queue'[output] = queue[output]
      BY <1>2, Names DEF Parse, Pop, TypeOK, Worker
    <2>2. \A f \in FP : hold'[f] = hold[f]
      BY <1>2, Names DEF Parse, TypeOK, Worker
    <2> QED
      BY <1>2, <2>1, <2>2, SameOutputOnce DEF Parse
  <1>3. ASSUME NEW w \in Parser \cup LB, NEW k \in LB \cup FP, PushHeld(w, k),
               UNCHANGED <<written, forwarded, fileOpen>>
        PROVE  OutputOnce'
    <2>1. queue'[output] = queue[output]
      BY <1>3, Names DEF PushHeld, PushOnto, TypeOK
    <2>2. \A f \in FP : hold'[f] = hold[f]
      BY <1>3, Names DEF PushHeld, TypeOK, Worker
    <2> QED
      BY <1>3, <2>1, <2>2, SameOutputOnce
  <1>4. ASSUME NEW w \in Parser, ParserPush(w) PROVE OutputOnce'
    <2>1. PushHeld(w, LBForPacket(hold[w])) /\ hold[w] \in Packet
      BY <1>4, Names DEF ParserPush, PushHeld, TypeOK, Worker
    <2>2. LBForPacket(hold[w]) \in LB
      BY <2>1, RouteType
    <2> QED
      BY <1>3, <1>4, <2>1, <2>2 DEF ParserPush
  <1>5. ASSUME NEW l \in LB, LBPop(l) PROVE OutputOnce'
    <2>1. queue'[output] = queue[output]
      BY <1>5, Names DEF LBPop, Pop, TypeOK, Worker
    <2>2. \A f \in FP : hold'[f] = hold[f]
      BY <1>5, Names DEF LBPop, TypeOK, Worker
    <2> QED
      BY <1>5, <2>1, <2>2, SameOutputOnce DEF LBPop
  <1>6. ASSUME NEW l \in LB, LBPush(l) PROVE OutputOnce'
    <2>1. PushHeld(l, SelectFP(l, hold[l])) /\ hold[l] \in Packet
      BY <1>6, Names DEF LBPush, PushHeld, TypeOK, Worker
    <2>2. SelectFP(l, hold[l]) \in FP
      BY <2>1, RouteType
    <2> QED
      BY <1>3, <1>6, <2>1, <2>2 DEF LBPush
  <1>7. ASSUME NEW f \in FP, FPProcess(f) PROVE OutputOnce'
    <2>1. PICK p \in Packet : Pop(f, p) /\ HandleOutput(f, p)
      BY <1>7 DEF FPProcess
    <2>2. UNCHANGED <<written, fileOpen>>
      BY <1>7 DEF FPProcess
    <2>3. CASE UNCHANGED <<forwarded, hold>>
      <3>1. queue'[output] = queue[output]
        BY <2>1, Names DEF Pop, TypeOK, Worker
      <3> QED
        BY <2>2, <2>3, <3>1, SameOutputOnce
    <2>4. CASE /\ forwarded' = forwarded \cup {p}
               /\ hold' = IF fileOpen THEN [hold EXCEPT ![f] = p] ELSE hold
      BY <2>1, <2>2, <2>4, ForwardOnce
    <2> QED
      BY <2>1, <2>3, <2>4 DEF HandleOutput
  <1>8. ASSUME NEW f \in FP, FPPush(f) PROVE OutputOnce'
    BY <1>8, FPPushOnce
  <1>9. CASE OutputWrite
    BY <1>9, OutputWriteOnce
  <1>10. ASSUME UNCHANGED <<queue, hold, written, forwarded, fileOpen>>
         PROVE  OutputOnce'
    BY <1>10, SameOutputOnce
  <1>11. ASSUME NEW w \in Worker, WorkerEnd(w) \/ StopWorker(w) PROVE OutputOnce'
    BY <1>10, <1>11 DEF WorkerEnd, StopWorker
  <1>12. CASE \/ ReaderEnd \/ OutputEnd \/ JoinReader \/ JoinWorker
              \/ StageStopped \/ JoinOutput \/ UNCHANGED vars
    BY <1>10, <1>12 DEF ReaderEnd, OutputEnd, JoinReader, JoinWorker, StageStopped,
                        JoinOutput, vars
  <1> QED
    BY <1>1, <1>2, <1>4, <1>5, <1>6, <1>7, <1>8, <1>9, <1>11, <1>12
    DEF Next, ReaderStep, ParserStep, LBStep, FPStep, OutputStep, MainStep,
        Stopped, Worker

-----------------------------------------------------------------------------
(* The theorems                                                              *)

\* The parts of Places that a container stands for.
LEMMA PlacesOf ==
  ASSUME NEW p
  PROVE  \A x : x \in Places(p) <=>
            \/ \E k \in Inner : \E i \in DOMAIN queue[k] : queue[k][i] = p /\ x = <<"queue", k, i>>
            \/ \E w \in Parser \cup LB : hold[w] = p /\ x = <<"hold", w>>
            \/ \E f \in Counter : p \in Fate[f] /\ x = <<"fate", f>>
  <1>1. DOMAIN Fate = Counter
    BY DEF Fate, Counter
  <1> DEFINE R(k) == {<<"queue", k, i>> : i \in {j \in DOMAIN queue[k] : queue[k][j] = p}}
             Q == UNION {R(k) : k \in Queue \ {output}}
             H == {<<"hold", w>> : w \in {v \in Parser \cup LB : hold[v] = p}}
             F == {<<"fate", e>> : e \in {d \in DOMAIN Fate : p \in Fate[d]}}
  <1>2. Places(p) = Q \cup H \cup F
    BY DEF Places
  <1>3. \A x : x \in Q <=> \E k \in Inner : \E i \in DOMAIN queue[k] :
                               queue[k][i] = p /\ x = <<"queue", k, i>>
    <2>1. ASSUME NEW k \in Inner, NEW x
          PROVE  x \in R(k) <=> \E i \in DOMAIN queue[k] :
                                   queue[k][i] = p /\ x = <<"queue", k, i>>
      OBVIOUS
    <2>2. \A x : x \in Q <=> \E k \in Inner : x \in R(k)
      <3> HIDE DEF R
      <3> QED
        BY DEF Inner
    <2> HIDE DEF R, Q
    <2> QED
      BY <2>1, <2>2, Zenon
  <1>4. \A x : x \in H <=> \E w \in Parser \cup LB : hold[w] = p /\ x = <<"hold", w>>
    OBVIOUS
  <1>5. \A x : x \in F <=> \E f \in Counter : p \in Fate[f] /\ x = <<"fate", f>>
    BY <1>1
  <1> HIDE DEF Q, H, F
  <1> QED
    BY <1>2, <1>3, <1>4, <1>5, Zenon

\* A packet is at a place exactly if the container has it.
LEMMA ContainerOfPlace ==
  ASSUME NEW p \in Packet
  PROVE  /\ \A k \in Inner : \A i \in DOMAIN queue[k] :
                queue[k][i] = p => p \in Contents(queue, hold, Fate)[<<"queue", k>>]
         /\ \A w \in Parser \cup LB :
                hold[w] = p => p \in Contents(queue, hold, Fate)[<<"hold", w>>]
         /\ \A f \in Counter :
                p \in Fate[f] => p \in Contents(queue, hold, Fate)[<<"fate", f>>]
  <1>1. p # NoPacket
    BY Names
  <1> QED
    BY <1>1, ContentsOf DEF Range

LEMMA OncePlaces ==
  ASSUME TypeOK, InOnePlace, NEW p \in Packet
  PROVE  IF p \in Read THEN \E x : Places(p) = {x} ELSE Places(p) = {}
  <1> DEFINE C == Contents(queue, hold, Fate)
  <1>1. /\ \A q \in Read : \E c \in Container : q \in C[c]
        /\ \A c \in Container : C[c] \subseteq Read
        /\ \A c, d \in Container : c # d => C[c] \cap C[d] = {}
    BY Zenon DEF InOnePlace, Partition
  <1>2. \A c, d \in Container : p \in C[c] /\ p \in C[d] => c = d
    BY <1>1
  <1>3. /\ \A k \in Inner : <<"queue", k>> \in Container
        /\ \A w \in Parser \cup LB : <<"hold", w>> \in Container
        /\ \A f \in Counter : <<"fate", f>> \in Container
    BY ContentsOf, Zenon
  <1>4. /\ \A k \in Inner : \A i \in DOMAIN queue[k] : queue[k][i] = p => p \in C[<<"queue", k>>]
        /\ \A w \in Parser \cup LB : hold[w] = p => p \in C[<<"hold", w>>]
        /\ \A f \in Counter : p \in Fate[f] => p \in C[<<"fate", f>>]
    BY ContainerOfPlace, Zenon
  <1>5. CASE p \notin Read
    <2>1. \A c \in Container : p \notin C[c]
      BY <1>1, <1>5
    <2>2. \A x : x \notin Places(p)
      BY <1>3, <1>4, <2>1, PlacesOf, Zenon
    <2> QED
      BY <1>5, <2>2
  <1>6. CASE p \in Read
    <2>1. PICK c \in Container : p \in C[c]
      BY <1>1, <1>6
    <2>2. CASE \E k \in Inner : c = <<"queue", k>>
      <3>1. PICK k \in Inner : c = <<"queue", k>>
        BY <2>2
      <3>2. C[<<"queue", k>>] = Range(queue[k])
        BY ContentsOf
      <3>3. PICK i \in DOMAIN queue[k] : queue[k][i] = p
        BY <2>1, <3>1, <3>2 DEF Range
      <3>4. \A m \in Inner : \A j \in DOMAIN queue[m] : queue[m][j] = p => m = k /\ j = i
        <4> SUFFICES ASSUME NEW m \in Inner, NEW j \in DOMAIN queue[m], queue[m][j] = p
                     PROVE  m = k /\ j = i
          OBVIOUS
        <4>1. <<"queue", m>> = <<"queue", k>>
          BY <1>2, <1>3, <1>4, <2>1, <3>1, Zenon
        <4>2. m = k
          BY <4>1
        <4> QED
          BY <3>3, <4>2 DEF InOnePlace, IsInjective
      <3>5. \A w \in Parser \cup LB : hold[w] # p
        BY <1>2, <1>3, <1>4, <2>1, <3>1, ContainerKinds, Zenon
      <3>6. \A f \in Counter : p \notin Fate[f]
        BY <1>2, <1>3, <1>4, <2>1, <3>1, ContainerKinds, Zenon
      <3>7. <<"queue", k, i>> \in Places(p)
        BY <3>3, PlacesOf
      <3>8. ASSUME NEW x, x \in Places(p) PROVE x = <<"queue", k, i>>
        <4>1. \E m \in Inner : \E j \in DOMAIN queue[m] : queue[m][j] = p /\ x = <<"queue", m, j>>
          BY <3>5, <3>6, <3>8, PlacesOf
        <4> QED
          BY <3>4, <4>1
      <3>9. Places(p) = {<<"queue", k, i>>}
        BY <3>7, <3>8
      <3> QED
        BY <1>6, <3>9
    <2>3. CASE \E w \in Parser \cup LB : c = <<"hold", w>>
      <3>1. PICK w \in Parser \cup LB : c = <<"hold", w>>
        BY <2>3
      <3>2. C[<<"hold", w>>] = {hold[w]} \ {NoPacket}
        BY ContentsOf
      <3>3. hold[w] = p
        BY <2>1, <3>1, <3>2
      <3>4. \A v \in Parser \cup LB : hold[v] = p => v = w
        <4> SUFFICES ASSUME NEW v \in Parser \cup LB, hold[v] = p PROVE v = w
          OBVIOUS
        <4>1. <<"hold", v>> = <<"hold", w>>
          BY <1>2, <1>3, <1>4, <2>1, <3>1, Zenon
        <4> QED
          BY <4>1
      <3>5. \A k \in Inner : \A i \in DOMAIN queue[k] : queue[k][i] # p
        BY <1>2, <1>3, <1>4, <2>1, <3>1, ContainerKinds, Zenon
      <3>6. \A f \in Counter : p \notin Fate[f]
        BY <1>2, <1>3, <1>4, <2>1, <3>1, ContainerKinds, Zenon
      <3>7. <<"hold", w>> \in Places(p)
        BY <3>3, PlacesOf
      <3>8. ASSUME NEW x, x \in Places(p) PROVE x = <<"hold", w>>
        <4>1. \E v \in Parser \cup LB : hold[v] = p /\ x = <<"hold", v>>
          BY <3>5, <3>6, <3>8, PlacesOf
        <4> QED
          BY <3>4, <4>1
      <3>9. Places(p) = {<<"hold", w>>}
        BY <3>7, <3>8
      <3> QED
        BY <1>6, <3>9
    <2>4. CASE \E f \in Counter : c = <<"fate", f>>
      <3>1. PICK f \in Counter : c = <<"fate", f>>
        BY <2>4
      <3>2. C[<<"fate", f>>] = Fate[f]
        BY ContentsOf
      <3>3. p \in Fate[f]
        BY <2>1, <3>1, <3>2
      <3>4. \A g \in Counter : p \in Fate[g] => g = f
        <4> SUFFICES ASSUME NEW g \in Counter, p \in Fate[g] PROVE g = f
          OBVIOUS
        <4>1. <<"fate", g>> = <<"fate", f>>
          BY <1>2, <1>3, <1>4, <2>1, <3>1, Zenon
        <4> QED
          BY <4>1
      <3>5. \A k \in Inner : \A i \in DOMAIN queue[k] : queue[k][i] # p
        BY <1>2, <1>3, <1>4, <2>1, <3>1, ContainerKinds, Zenon
      <3>6. \A w \in Parser \cup LB : hold[w] # p
        BY <1>2, <1>3, <1>4, <2>1, <3>1, ContainerKinds, Zenon
      <3>7. <<"fate", f>> \in Places(p)
        BY <3>3, PlacesOf
      <3>8. ASSUME NEW x, x \in Places(p) PROVE x = <<"fate", f>>
        <4>1. \E g \in Counter : p \in Fate[g] /\ x = <<"fate", g>>
          BY <3>5, <3>6, <3>8, PlacesOf
        <4> QED
          BY <3>4, <4>1
      <3>9. Places(p) = {<<"fate", f>>}
        BY <3>7, <3>8
      <3> QED
        BY <1>6, <3>9
    <2> QED
      BY <2>1, <2>2, <2>3, <2>4, ContainerKinds
  <1> QED
    BY <1>5, <1>6

\* The same for the output path.
LEMMA OutPlacesOf ==
  ASSUME NEW p
  PROVE  \A x : x \in OutputPlaces(p) <=>
            \/ \E i \in DOMAIN queue[output] : queue[output][i] = p /\ x = <<"queue", i>>
            \/ \E f \in FP : hold[f] = p /\ x = <<"hold", f>>
            \/ \E i \in DOMAIN written : written[i] = p /\ x = <<"written", i>>
  <1> DEFINE Q == {<<"queue", i>> : i \in {j \in DOMAIN queue[output] : queue[output][j] = p}}
             H == {<<"hold", f>> : f \in {g \in FP : hold[g] = p}}
             W == {<<"written", i>> : i \in {j \in DOMAIN written : written[j] = p}}
  <1>1. OutputPlaces(p) = Q \cup H \cup W
    BY DEF OutputPlaces
  <1>2. \A x : x \in Q <=> \E i \in DOMAIN queue[output] :
                               queue[output][i] = p /\ x = <<"queue", i>>
    OBVIOUS
  <1>3. \A x : x \in H <=> \E f \in FP : hold[f] = p /\ x = <<"hold", f>>
    OBVIOUS
  <1>4. \A x : x \in W <=> \E i \in DOMAIN written : written[i] = p /\ x = <<"written", i>>
    OBVIOUS
  <1> HIDE DEF Q, H, W
  <1> QED
    BY <1>1, <1>2, <1>3, <1>4, Zenon

LEMMA OnceOutputPlaces ==
  ASSUME TypeOK, OutputOnce, fileOpen, NEW p \in forwarded
  PROVE  \E x : OutputPlaces(p) = {x}
  <1> DEFINE C == OutContents(queue, hold, written)
  <1>0. p \in Packet /\ p # NoPacket
    BY Names DEF TypeOK
  <1>1. /\ \A q \in forwarded : \E c \in OutContainer : q \in C[c]
        /\ \A c, d \in OutContainer : c # d => C[c] \cap C[d] = {}
        /\ IsInjective(queue[output]) /\ IsInjective(written)
    BY Zenon DEF OutputOnce, Partition
  <1>2. \A c, d \in OutContainer : p \in C[c] /\ p \in C[d] => c = d
    BY <1>1
  <1>3. /\ C[output] = Range(queue[output]) /\ C[file] = Range(written)
        /\ \A f \in FP : C[f] = {hold[f]} \ {NoPacket}
    BY OutContentsOfStep, Zenon
  <1> HIDE DEF C
  <1>4. /\ \A i \in DOMAIN queue[output] : queue[output][i] = p => p \in C[output]
        /\ \A i \in DOMAIN written : written[i] = p => p \in C[file]
        /\ \A f \in FP : hold[f] = p => p \in C[f]
    BY <1>0, <1>3 DEF Range
  <1>5. /\ output \in OutContainer /\ file \in OutContainer /\ FP \subseteq OutContainer
        /\ output # file /\ output \notin FP /\ file \notin FP
    BY OutNames DEF OutContainer
  <1>6. PICK c \in OutContainer : p \in C[c]
    BY <1>1
  <1>7. CASE c = output
    <2>1. PICK i \in DOMAIN queue[output] : queue[output][i] = p
      BY <1>3, <1>6, <1>7 DEF Range
    <2>2. \A j \in DOMAIN queue[output] : queue[output][j] = p => j = i
      BY <1>1, <2>1 DEF IsInjective
    <2>3. (\A f \in FP : hold[f] # p) /\ (\A j \in DOMAIN written : written[j] # p)
      BY <1>2, <1>4, <1>5, <1>6, <1>7
    <2>4. <<"queue", i>> \in OutputPlaces(p)
      BY <2>1, OutPlacesOf
    <2>5. ASSUME NEW x, x \in OutputPlaces(p) PROVE x = <<"queue", i>>
      <3>1. \E j \in DOMAIN queue[output] : queue[output][j] = p /\ x = <<"queue", j>>
        BY <2>3, <2>5, OutPlacesOf
      <3> QED
        BY <2>2, <3>1
    <2>6. OutputPlaces(p) = {<<"queue", i>>}
      BY <2>4, <2>5
    <2> QED
      BY <2>6
  <1>8. CASE c = file
    <2>1. PICK i \in DOMAIN written : written[i] = p
      BY <1>3, <1>6, <1>8 DEF Range
    <2>2. \A j \in DOMAIN written : written[j] = p => j = i
      BY <1>1, <2>1 DEF IsInjective
    <2>3. /\ \A f \in FP : hold[f] # p
          /\ \A j \in DOMAIN queue[output] : queue[output][j] # p
      BY <1>2, <1>4, <1>5, <1>6, <1>8
    <2>4. <<"written", i>> \in OutputPlaces(p)
      BY <2>1, OutPlacesOf
    <2>5. ASSUME NEW x, x \in OutputPlaces(p) PROVE x = <<"written", i>>
      <3>1. \E j \in DOMAIN written : written[j] = p /\ x = <<"written", j>>
        BY <2>3, <2>5, OutPlacesOf
      <3> QED
        BY <2>2, <3>1
    <2>6. OutputPlaces(p) = {<<"written", i>>}
      BY <2>4, <2>5
    <2> QED
      BY <2>6
  <1>9. CASE c \in FP
    <2>1. hold[c] = p
      BY <1>3, <1>6, <1>9
    <2>2. \A f \in FP : hold[f] = p => f = c
      BY <1>2, <1>4, <1>5, <1>6
    <2>3. /\ \A j \in DOMAIN queue[output] : queue[output][j] # p
          /\ \A j \in DOMAIN written : written[j] # p
      BY <1>2, <1>4, <1>5, <1>6, <1>9
    <2>4. <<"hold", c>> \in OutputPlaces(p)
      BY <1>9, <2>1, OutPlacesOf
    <2>5. ASSUME NEW x, x \in OutputPlaces(p) PROVE x = <<"hold", c>>
      <3>1. \E f \in FP : hold[f] = p /\ x = <<"hold", f>>
        BY <2>3, <2>5, OutPlacesOf
      <3> QED
        BY <2>2, <3>1
    <2>6. OutputPlaces(p) = {<<"hold", c>>}
      BY <2>4, <2>5
    <2> QED
      BY <2>6
  <1> QED
    BY <1>6, <1>7, <1>8, <1>9 DEF OutContainer

\* The inductive invariant of the pipeline.
PipelineInv == TypeOK /\ StopInv /\ InOnePlace /\ OutputOnce

LEMMA PipelineInvHolds == Spec => []PipelineInv
  <1>1. Init => PipelineInv
    BY TypeInit, StopInvInit, InOnePlaceInit, OutputOnceInit DEF PipelineInv
  <1>2. PipelineInv /\ [Next]_vars => PipelineInv'
    BY TypeStep, StopInvStep, InOnePlaceStep, OutputOnceStep DEF PipelineInv
  <1> QED
    BY <1>1, <1>2, PTL DEF Spec

\* Whatever the numbers of threads and the sizes of the queues, the pipeline
\* neither loses nor duplicates a packet: one that was read is in exactly one
\* queue position, one worker's hands or one counter, and a forwarded one is in
\* exactly one place on its way to the output file.
THEOREM PacketsAreConserved == Spec => []EveryPacketOnce
  <1>1. ASSUME PipelineInv PROVE EveryPacketOnce
    <2>1. ASSUME NEW p \in Packet
          PROVE  Cardinality(Places(p)) = IF p \in Read THEN 1 ELSE 0
      <3>1. IF p \in Read THEN \E x : Places(p) = {x} ELSE Places(p) = {}
        BY <1>1, OncePlaces DEF PipelineInv
      <3> QED
        BY <3>1, FS_EmptySet, FS_Singleton
    <2>2. ASSUME fileOpen, NEW p \in forwarded PROVE Cardinality(OutputPlaces(p)) = 1
      <3>1. \E x : OutputPlaces(p) = {x}
        BY <1>1, <2>2, OnceOutputPlaces DEF PipelineInv
      <3> QED
        BY <3>1, FS_Singleton
    <2> QED
      BY <2>1, <2>2 DEF EveryPacketOnce
  <1> QED
    BY <1>1, PipelineInvHolds, PTL

\* When stop() has returned, every packet the reader read has been counted as
\* an error, as dropped or as forwarded: the drain of the shutdown sequence
\* leaves no packet without a verdict.  That those forwarded are in the output
\* file is not said: see ForwardedIsWritten.
THEOREM StopLeavesNothing == Spec => []StopLeavesNoPacketBehind
  <1>1. ASSUME PipelineInv, phase = "done" PROVE errors \cup dropped \cup forwarded = Read
    <2> DEFINE C == Contents(queue, hold, Fate)
    <2>1. /\ \A q \in Read : \E c \in Container : q \in C[c]
          /\ \A c \in Container : C[c] \subseteq Read
      BY <1>1, Zenon DEF PipelineInv, InOnePlace, Partition
    <2>2. \A w \in Worker : hold[w] = NoPacket /\ queue[Input(w)] = <<>>
      BY <1>1 DEF PipelineInv, StopInv, PhaseOrder, AllEnded, EndedDrained, Worker
    <2>3. \A k \in Inner : \E w \in Worker : Input(w) = k
      <3>1. <<"parser", 0>> \in Parser
        BY PipelineAssumption DEF Parser
      <3> QED
        BY <3>1, Names DEF Inner, Queue, Worker
    <2>4. \A k \in Inner : C[<<"queue", k>>] = {}
      <3>1. Range(<<>>) = {}
        BY DEF Range
      <3>2. ASSUME NEW k \in Inner PROVE C[<<"queue", k>>] = Range(queue[k])
        BY ContentsOf
      <3> QED
        BY <2>2, <2>3, <3>1, <3>2
    <2>5. \A w \in Parser \cup LB : C[<<"hold", w>>] = {}
      <3>1. ASSUME NEW w \in Parser \cup LB PROVE C[<<"hold", w>>] = {hold[w]} \ {NoPacket}
        BY ContentsOf
      <3> QED
        BY <2>2, <3>1 DEF Worker
    <2>6. ASSUME NEW f \in Counter
          PROVE  <<"fate", f>> \in Container /\ C[<<"fate", f>>] = Fate[f]
      BY ContentsOf
    <2>7. /\ Fate["errors"] = errors /\ Fate["dropped"] = dropped
          /\ Fate["forwarded"] = forwarded /\ Fate["lost"] = {}
      BY <1>1 DEF Fate, PipelineInv, StopInv, NoSilentLoss
    <2> HIDE DEF C
    <2>8. errors \subseteq Read /\ dropped \subseteq Read /\ forwarded \subseteq Read
      BY <2>1, <2>6, <2>7 DEF Counter
    <2>9. ASSUME NEW q \in Read PROVE q \in errors \cup dropped \cup forwarded
      <3>1. PICK c \in Container : q \in C[c]
        BY <2>1
      <3>2. PICK f \in Counter : c = <<"fate", f>>
        BY <2>4, <2>5, <3>1, ContainerKinds
      <3>3. q \in Fate[f]
        BY <2>6, <3>1, <3>2
      <3> QED
        BY <2>7, <3>3 DEF Counter
    <2> QED
      BY <2>8, <2>9
  <1>2. PipelineInv => StopLeavesNoPacketBehind
    BY <1>1 DEF StopLeavesNoPacketBehind
  <1> QED
    BY <1>2, PipelineInvHolds, PTL

-----------------------------------------------------------------------------
(* The recursive function behind Bound                                       *)

\* A set of naturals has a least element.
LEMMA LeastNat ==
  ASSUME NEW T, T \subseteq Nat, T # {}
  PROVE  \E m \in T : \A k \in T : m <= k
  <1>1. PICK m \in T : \A k \in T : ~(<<k, m>> \in OpToRel(<, Nat))
    BY WFMin, NatLessThanWellFounded
  <1>2. \A k \in T : ~(k < m)
    BY <1>1 DEF OpToRel
  <1> QED
    BY <1>2

\* Induction up to n, with the property as the set of the numbers that have it.
LEMMA UpTo ==
  ASSUME NEW n \in Nat, NEW G, 0 \in G, \A i \in 1..n : i - 1 \in G => i \in G
  PROVE  \A i \in 0..n : i \in G
  <1> DEFINE T == {i \in 0..n : i \notin G}
  <1> SUFFICES ASSUME T # {} PROVE FALSE
    OBVIOUS
  <1>1. T \subseteq Nat
    OBVIOUS
  <1>2. PICK m \in T : \A k \in T : m <= k
    <2> HIDE DEF T
    <2> QED
      BY <1>1, LeastNat
  <1>3. m \in 1..n /\ m - 1 \in 0..n /\ ~(m <= m - 1)
    BY <1>2
  <1>4. m - 1 \in G
    BY <1>2, <1>3
  <1> QED
    BY <1>2, <1>3, <1>4

\* One step of BoundAmong: what is selected up to position i when b is what is
\* selected up to position i - 1.
Extend(s, l, f, b, i) == IF SelectFP(l, s[i]) = f THEN Append(b, s[i]) ELSE b

\* g obeys the recursion of BoundAmong up to m.
Follows(g, s, l, f, m) ==
    g = [i \in 0..m |-> IF i = 0 THEN <<>>
                        ELSE IF SelectFP(l, s[i]) = f THEN Append(g[i - 1], s[i])
                        ELSE g[i - 1]]

LEMMA FollowerExists ==
  ASSUME NEW s, NEW l, NEW f, NEW n \in Nat
  PROVE  \E g : Follows(g, s, l, f, n)
  <1> DEFINE T == {m \in Nat : ~\E g : Follows(g, s, l, f, m)}
  <1> SUFFICES ASSUME T # {} PROVE FALSE
    OBVIOUS
  <1>1. PICK m \in T : \A k \in T : m <= k
    BY LeastNat
  <1>2. CASE m = 0
    <2> DEFINE g == [i \in 0..0 |-> <<>>]
    <2>1. Follows(g, s, l, f, 0)
      BY DEF Follows
    <2> QED
      BY <1>1, <1>2, <2>1
  <1>3. CASE m # 0
    <2>1. m \in Nat /\ m - 1 \in Nat /\ m - 1 \notin T
      BY <1>1, <1>3
    <2>2. PICK g : Follows(g, s, l, f, m - 1)
      BY <2>1
    <2> DEFINE h == [i \in 0..m |-> IF i = m THEN Extend(s, l, f, g[m - 1], m) ELSE g[i]]
               r == [i \in 0..m |-> IF i = 0 THEN <<>>
                        ELSE IF SelectFP(l, s[i]) = f THEN Append(h[i - 1], s[i])
                        ELSE h[i - 1]]
    <2>3. ASSUME NEW i \in 0..m PROVE h[i] = r[i]
      <3>1. CASE i = m
        <4>1. h[m] = Extend(s, l, f, g[m - 1], m) /\ h[m - 1] = g[m - 1]
          BY <2>1
        <4>2. r[m] = Extend(s, l, f, h[m - 1], m)
          BY <1>3, <2>1 DEF Extend
        <4> QED
          BY <3>1, <4>1, <4>2
      <3>2. CASE i # m
        <4>1. i \in 0..(m - 1) /\ h[i] = g[i]
          BY <2>1, <3>2
        <4>2. CASE i = 0
          <5>1. g[i] = <<>>
            BY <2>2, <4>1, <4>2 DEF Follows
          <5> QED
            BY <4>1, <4>2, <5>1
        <4>3. CASE i # 0
          <5>1. h[i - 1] = g[i - 1]
            BY <2>1, <3>2, <4>3
          <5>2. g[i] = Extend(s, l, f, g[i - 1], i)
            BY <2>2, <4>1, <4>3 DEF Follows, Extend
          <5>3. r[i] = Extend(s, l, f, h[i - 1], i)
            BY <4>3 DEF Extend
          <5> QED
            BY <4>1, <5>1, <5>2, <5>3
        <4> QED
          BY <4>2, <4>3
      <3> QED
        BY <3>1, <3>2
    <2>4. h = r
      BY <2>3
    <2>5. Follows(h, s, l, f, m)
      BY <2>4 DEF Follows
    <2> QED
      BY <1>1, <2>5
  <1> QED
    BY <1>2, <1>3

LEMMA BoundFollows ==
  ASSUME NEW s, NEW l, NEW f, Len(s) \in Nat
  PROVE  Follows(BoundAmong(s, l, f), s, l, f, Len(s))
  <1>1. \E g : Follows(g, s, l, f, Len(s))
    BY FollowerExists
  <1>2. BoundAmong(s, l, f) = CHOOSE g : Follows(g, s, l, f, Len(s))
    BY DEF BoundAmong, Follows
  <1> QED
    BY <1>1, <1>2, Zenon

\* Appending to a concatenation appends to its second part.
LEMMA AppendConcat ==
  \A s, t \in Seq(Packet) : \A p \in Packet : Append(s \o t, p) = s \o Append(t, p)
  <1> SUFFICES ASSUME NEW s \in Seq(Packet), NEW t \in Seq(Packet), NEW p \in Packet
               PROVE  Append(s \o t, p) = s \o Append(t, p)
    OBVIOUS
  <1>1. s \o t \in Seq(Packet) /\ <<p>> \in Seq(Packet)
    OBVIOUS
  <1>2. Append(s \o t, p) = (s \o t) \o <<p>> /\ Append(t, p) = t \o <<p>>
    BY <1>1, AppendIsConcat
  <1>3. (s \o t) \o <<p>> = s \o (t \o <<p>>)
    BY <1>1, ConcatAssociative
  <1> QED
    BY <1>2, <1>3, Zenon

LEMMA ConcatPackets ==
  /\ \A s, t, u \in Seq(Packet) : (s \o t) \o u = s \o (t \o u)
  /\ \A s \in Seq(Packet) : s \o <<>> = s
  /\ \A s \in Seq(Packet) : \A p \in Packet : Append(s, p) = s \o <<p>>
  <1>1. \A s, t, u \in Seq(Packet) : (s \o t) \o u = s \o (t \o u)
    BY ConcatAssociative
  <1>2. \A s \in Seq(Packet) : s \o <<>> = s
    BY ConcatEmptySeq
  <1>3. \A s \in Seq(Packet) : \A p \in Packet : Append(s, p) = s \o <<p>>
    BY AppendIsConcat
  <1> QED
    BY <1>1, <1>2, <1>3

\* A packet that goes from the end of one part to the end of the part before it.
LEMMA ShiftLast ==
  ASSUME NEW s \in Seq(Packet), NEW t \in Seq(Packet), NEW p \in Packet
  PROVE  (s \o t) \o <<p>> = (s \o Append(t, p)) \o <<>>
  <1>1. /\ s \o t \in Seq(Packet) /\ <<p>> \in Seq(Packet)
        /\ Append(t, p) \in Seq(Packet) /\ s \o Append(t, p) \in Seq(Packet)
    OBVIOUS
  <1>2. (s \o t) \o <<p>> = s \o (t \o <<p>>)
    BY <1>1, ConcatPackets, Zenon
  <1>3. Append(t, p) = t \o <<p>>
    BY ConcatPackets, Zenon
  <1>4. (s \o Append(t, p)) \o <<>> = s \o Append(t, p)
    BY <1>1, ConcatPackets, Zenon
  <1> QED
    BY <1>2, <1>3, <1>4, Zenon

LEMMA BoundStep ==
  ASSUME NEW P, NEW s \in Seq(P), NEW l, NEW f
  PROVE  /\ BoundAmong(s, l, f)[0] = <<>>
         /\ \A i \in 1..Len(s) :
                BoundAmong(s, l, f)[i] = Extend(s, l, f, BoundAmong(s, l, f)[i - 1], i)
  <1> DEFINE B == BoundAmong(s, l, f)
  <1>1. Len(s) \in Nat
    OBVIOUS
  <1>2. Follows(B, s, l, f, Len(s))
    BY <1>1, BoundFollows
  <1> HIDE DEF B
  <1>3. \A i \in 0..Len(s) : B[i] = IF i = 0 THEN <<>>
                                    ELSE IF SelectFP(l, s[i]) = f THEN Append(B[i - 1], s[i])
                                    ELSE B[i - 1]
    BY <1>2, Zenon DEF Follows
  <1>4. B[0] = <<>>
    BY <1>1, <1>3
  <1>5. ASSUME NEW i \in 1..Len(s) PROVE B[i] = Extend(s, l, f, B[i - 1], i)
    <2>1. i \in 0..Len(s) /\ i # 0
      BY <1>1
    <2> QED
      BY <1>3, <2>1, Zenon DEF Extend
  <1> QED
    BY <1>4, <1>5 DEF B

LEMMA BoundType ==
  ASSUME NEW P, NEW s \in Seq(P), NEW l, NEW f
  PROVE  /\ \A i \in 0..Len(s) : BoundAmong(s, l, f)[i] \in Seq(P)
         /\ Bound(s, l, f) \in Seq(P)
  <1> DEFINE B == BoundAmong(s, l, f)
             G == {i \in 0..Len(s) : B[i] \in Seq(P)}
  <1>1. /\ B[0] = <<>>
        /\ \A i \in 1..Len(s) : B[i] = Extend(s, l, f, B[i - 1], i)
    BY BoundStep
  <1> HIDE DEF B
  <1>2. ASSUME NEW m \in 1..Len(s), m - 1 \in G PROVE m \in G
    <2>1. B[m] = Extend(s, l, f, B[m - 1], m) /\ B[m - 1] \in Seq(P) /\ s[m] \in P
      BY <1>1, <1>2
    <2>2. B[m] \in Seq(P)
      BY <2>1 DEF Extend
    <2> QED
      BY <2>2
  <1>3. \A i \in 0..Len(s) : B[i] \in Seq(P)
    <2>0. <<>> \in Seq(P) /\ Len(s) \in Nat /\ 0 \in 0..Len(s)
      OBVIOUS
    <2>1. 0 \in G /\ Len(s) \in Nat
      BY <1>1, <2>0
    <2>2. \A i \in 0..Len(s) : i \in G
      <3> HIDE DEF G
      <3> QED
        BY <1>2, <2>1, UpTo
    <2> QED
      BY <2>2
  <1>4. Len(s) \in 0..Len(s)
    OBVIOUS
  <1> QED
    BY <1>3, <1>4, Zenon DEF B, Bound

LEMMA BoundEmpty ==
  ASSUME NEW l, NEW f
  PROVE  Bound(<<>>, l, f) = <<>>
  <1> DEFINE e == <<>>
  <1>1. e \in Seq(Packet) /\ Len(e) = 0
    OBVIOUS
  <1> HIDE DEF e
  <1>2. BoundAmong(e, l, f)[0] = <<>>
    BY <1>1, BoundStep
  <1> QED
    BY <1>1, <1>2 DEF Bound, e

\* A packet at the end of a sequence is selected or not.
LEMMA BoundAppend ==
  ASSUME NEW s \in Seq(Packet), NEW p \in Packet, NEW l, NEW f
  PROVE  /\ SelectFP(l, p) = f => Bound(Append(s, p), l, f) = Append(Bound(s, l, f), p)
         /\ SelectFP(l, p) # f => Bound(Append(s, p), l, f) = Bound(s, l, f)
  <1> DEFINE t == Append(s, p)
             n == Len(s)
             B == BoundAmong(s, l, f)
             C == BoundAmong(t, l, f)
             G == {i \in 0..n : C[i] = B[i]}
  <1>1. /\ t \in Seq(Packet) /\ n \in Nat /\ Len(t) = n + 1 /\ t[n + 1] = p
        /\ \A i \in 1..n : t[i] = s[i]
    OBVIOUS
  <1>2. /\ B[0] = <<>>
        /\ \A i \in 1..n : B[i] = Extend(s, l, f, B[i - 1], i)
    BY BoundStep
  <1>3. /\ C[0] = <<>>
        /\ \A i \in 1..(n + 1) : C[i] = Extend(t, l, f, C[i - 1], i)
    <2> HIDE DEF t, n
    <2> QED
      BY <1>1, BoundStep
  <1> HIDE DEF t, n, B, C
  <1>4. \A i \in 0..n : i \in G
    <2>1. 0 \in G
      BY <1>1, <1>2, <1>3
    <2>2. ASSUME NEW m \in 1..n, m - 1 \in G PROVE m \in G
      <3>1. m \in 1..(n + 1) /\ m \in 0..n /\ C[m - 1] = B[m - 1] /\ t[m] = s[m]
        BY <1>1, <2>2
      <3>2. C[m] = B[m]
        BY <1>2, <1>3, <3>1 DEF Extend
      <3> QED
        BY <3>1, <3>2
    <2> HIDE DEF G
    <2> QED
      BY <1>1, <2>1, <2>2, UpTo
  <1>5. n \in 0..n /\ n + 1 \in 1..(n + 1) /\ (n + 1) - 1 = n
    BY <1>1
  <1>6. C[n] = B[n]
    BY <1>4, <1>5
  <1>7. C[n + 1] = Extend(t, l, f, C[n], n + 1)
    BY <1>3, <1>5
  <1>8. Bound(t, l, f) = C[n + 1] /\ Bound(s, l, f) = B[n]
    BY <1>1 DEF Bound, B, C, n
  <1> QED
    BY <1>1, <1>6, <1>7, <1>8 DEF Extend, t

LEMMA BoundSingle ==
  ASSUME NEW p \in Packet, NEW l, NEW f
  PROVE  Bound(<<p>>, l, f) = IF SelectFP(l, p) = f THEN <<p>> ELSE <<>>
  <1>1. <<>> \in Seq(Packet) /\ Append(<<>>, p) = <<p>>
    OBVIOUS
  <1>2. /\ SelectFP(l, p) = f => Bound(Append(<<>>, p), l, f) = Append(Bound(<<>>, l, f), p)
        /\ SelectFP(l, p) # f => Bound(Append(<<>>, p), l, f) = Bound(<<>>, l, f)
    <2> DEFINE e == <<>>
    <2>1. e \in Seq(Packet)
      OBVIOUS
    <2> HIDE DEF e
    <2>2. /\ SelectFP(l, p) = f => Bound(Append(e, p), l, f) = Append(Bound(e, l, f), p)
          /\ SelectFP(l, p) # f => Bound(Append(e, p), l, f) = Bound(e, l, f)
      BY <2>1, BoundAppend
    <2> QED
      BY <2>2 DEF e
  <1> QED
    BY <1>1, <1>2, BoundEmpty

\* A packet at the head of a sequence is selected or not.
LEMMA BoundCons ==
  ASSUME NEW s \in Seq(Packet), s # <<>>, NEW l, NEW f
  PROVE  Bound(s, l, f) = Bound(<<Head(s)>>, l, f) \o Bound(Tail(s), l, f)
  <1> DEFINE t == Tail(s)
             n == Len(t)
             B == BoundAmong(s, l, f)
             C == BoundAmong(t, l, f)
             h == IF SelectFP(l, s[1]) = f THEN <<s[1]>> ELSE <<>>
             G == {i \in 0..n : B[i + 1] = h \o C[i]}
  <1>1. /\ t \in Seq(Packet) /\ n \in Nat /\ Len(s) = n + 1 /\ Head(s) = s[1]
        /\ s[1] \in Packet
        /\ \A i \in 1..n : t[i] = s[i + 1] /\ t[i] \in Packet
    OBVIOUS
  <1>2. h \in Seq(Packet)
    BY <1>1
  <1>3. /\ B[0] = <<>>
        /\ \A i \in 1..(n + 1) : B[i] = Extend(s, l, f, B[i - 1], i)
    BY <1>1, BoundStep
  <1>4. /\ C[0] = <<>>
        /\ \A i \in 1..n : C[i] = Extend(t, l, f, C[i - 1], i)
        /\ \A i \in 0..n : C[i] \in Seq(Packet)
    <2> HIDE DEF t
    <2> QED
      BY <1>1, BoundStep, BoundType
  <1>5. B[1] = h
    <2>1. 1 \in 1..(n + 1) /\ 1 - 1 = 0
      BY <1>1
    <2>2. B[1] = Extend(s, l, f, B[0], 1)
      BY <1>3, <2>1
    <2>3. Append(<<>>, s[1]) = <<s[1]>>
      OBVIOUS
    <2> HIDE DEF B
    <2> QED
      BY <1>3, <2>2, <2>3 DEF Extend
  <1> HIDE DEF t, n, B, C, h
  <1>6. \A i \in 0..n : i \in G
    <2>1. 0 \in G
      <3>1. h \o <<>> = h
        BY <1>2, ConcatEmptySeq
      <3>2. B[0 + 1] = h \o C[0]
        BY <1>4, <1>5, <3>1
      <3> QED
        BY <1>1, <3>2
    <2>2. ASSUME NEW m \in 1..n, m - 1 \in G PROVE m \in G
      <3>1. /\ m + 1 \in 1..(n + 1) /\ m \in 0..n /\ m - 1 \in 0..n
            /\ (m + 1) - 1 = m /\ (m - 1) + 1 = m
        BY <1>1
      <3>2. B[m] = h \o C[m - 1] /\ t[m] = s[m + 1] /\ t[m] \in Packet
        BY <1>1, <2>2, <3>1
      <3>3. B[m + 1] = Extend(s, l, f, B[m], m + 1)
        BY <1>3, <3>1
      <3>4. C[m] = Extend(t, l, f, C[m - 1], m) /\ C[m - 1] \in Seq(Packet)
        BY <1>4, <3>1
      <3>5. Append(h \o C[m - 1], t[m]) = h \o Append(C[m - 1], t[m])
        BY <1>2, <3>2, <3>4, AppendConcat, Zenon
      <3>6. B[m + 1] = h \o C[m]
        BY <3>2, <3>3, <3>4, <3>5 DEF Extend
      <3> QED
        BY <3>1, <3>6
    <2> HIDE DEF G
    <2> QED
      BY <1>1, <2>1, <2>2, UpTo
  <1>7. n \in 0..n
    BY <1>1
  <1>8. B[n + 1] = h \o C[n]
    BY <1>6, <1>7
  <1>9. Bound(s, l, f) = B[n + 1] /\ Bound(t, l, f) = C[n]
    BY <1>1 DEF Bound, B, C, n
  <1>10. Bound(<<Head(s)>>, l, f) = h
    BY <1>1, BoundSingle DEF h
  <1> QED
    BY <1>8, <1>9, <1>10 DEF t

-----------------------------------------------------------------------------
(* Order                                                                     *)

\* A packet that goes from the head of one part of the path to the end of the
\* part before it leaves the path as it was.
LEMMA ShiftFirst ==
  ASSUME NEW P \in Seq(Packet), NEW Q \in Seq(Packet), Q # <<>>
  PROVE  Append(P, Head(Q)) \o Tail(Q) = P \o Q
  <1>1. /\ Head(Q) \in Packet /\ Tail(Q) \in Seq(Packet) /\ <<Head(Q)>> \in Seq(Packet)
        /\ Q = <<Head(Q)>> \o Tail(Q)
    OBVIOUS
  <1>2. Append(P, Head(Q)) = P \o <<Head(Q)>>
    BY <1>1, AppendIsConcat
  <1>3. (P \o <<Head(Q)>>) \o Tail(Q) = P \o (<<Head(Q)>> \o Tail(Q))
    BY <1>1, ConcatAssociative
  <1> QED
    BY <1>1, <1>2, <1>3, Zenon

\* The fast paths of a load balancer.
FPsOf(l) == {<<"fp", l[2], j>> : j \in 0..(FPsPerLB - 1)}

OrderKept(l, f) ==
  Bound(arrived[l], l, f) = processed[f] \o queue[f] \o Bound(Held(l), l, f)
                                         \o Bound(queue[l], l, f)

LEMMA FPsOfType ==
  /\ \A l \in LB : FPsOf(l) \subseteq FP
  /\ \A l, m \in LB : \A f \in FPsOf(l) : f \in FPsOf(m) => l = m
  /\ \A l \in LB, p \in Packet : SelectFP(l, p) \in FPsOf(l)
  <1>1. \A l \in LB : l[2] \in 0..(NumLBs - 1) /\ l = <<"lb", l[2]>>
    BY DEF LB
  <1>2. \A l \in LB : FPsOf(l) \subseteq FP
    BY <1>1 DEF FPsOf, FP
  <1>3. \A l, m \in LB : \A f \in FPsOf(l) : f \in FPsOf(m) => l = m
    <2> SUFFICES ASSUME NEW l \in LB, NEW m \in LB, NEW f \in FPsOf(l), f \in FPsOf(m)
                 PROVE  l = m
      OBVIOUS
    <2>1. f[2] = l[2] /\ f[2] = m[2]
      BY DEF FPsOf
    <2> QED
      BY <1>1, <2>1
  <1>4. ASSUME NEW l \in LB, NEW p \in Packet PROVE SelectFP(l, p) \in FPsOf(l)
    <2>1. FiveTupleHash(TupleOf[p]) \in Nat
      BY HashType, PipelineAssumption
    <2>2. \A h \in Nat : h % FPsPerLB \in 0..(FPsPerLB - 1)
      BY PipelineAssumption
    <2> QED
      BY <2>1, <2>2 DEF SelectFP, FPsOf
  <1> QED
    BY <1>2, <1>3, <1>4

LEMMA HeldType ==
  ASSUME TypeOK, NEW l \in LB
  PROVE  Held(l) \in Seq(Packet)
  <1>1. hold[l] = NoPacket \/ hold[l] \in Packet
    BY DEF TypeOK, Worker
  <1> QED
    BY <1>1 DEF Held

\* The types of the parts of the path.
LEMMA PartsType ==
  ASSUME TypeOK, NEW l \in LB, NEW f \in FPsOf(l)
  PROVE  /\ arrived[l] \in Seq(Packet) /\ queue[l] \in Seq(Packet)
         /\ processed[f] \in Seq(Packet) /\ queue[f] \in Seq(Packet)
         /\ Bound(arrived[l], l, f) \in Seq(Packet)
         /\ Bound(Held(l), l, f) \in Seq(Packet)
         /\ Bound(queue[l], l, f) \in Seq(Packet)
  <1>1. f \in FP /\ f \in Queue /\ l \in Queue
    BY FPsOfType, Names
  <1>2. /\ arrived[l] \in Seq(Packet) /\ queue[l] \in Seq(Packet)
        /\ processed[f] \in Seq(Packet) /\ queue[f] \in Seq(Packet)
    BY <1>1 DEF TypeOK
  <1> QED
    BY <1>2, HeldType, BoundType

LEMMA SameOrder ==
  ASSUME NEW l \in LB, NEW f \in FPsOf(l), OrderKept(l, f),
         arrived'[l] = arrived[l], processed'[f] = processed[f],
         queue'[f] = queue[f], queue'[l] = queue[l], hold'[l] = hold[l]
  PROVE  OrderKept(l, f)'
  <1>1. Held(l)' = Held(l)
    BY DEF Held
  <1> QED
    BY <1>1 DEF OrderKept

\* The parser's push: the packet arrives at the load balancer and waits there.
LEMMA ArriveKeepsOrder ==
  ASSUME TypeOK, NEW l \in LB, NEW f \in FPsOf(l), OrderKept(l, f), NEW p \in Packet,
         arrived'[l] = Append(arrived[l], p), queue'[l] = Append(queue[l], p),
         processed'[f] = processed[f], queue'[f] = queue[f], hold'[l] = hold[l]
  PROVE  OrderKept(l, f)'
  <1> DEFINE X == Bound(arrived[l], l, f)
             Y == processed[f] \o queue[f] \o Bound(Held(l), l, f)
             W == Bound(queue[l], l, f)
  <1>1. X = Y \o W
    BY DEF OrderKept
  <1>2. Y \in Seq(Packet) /\ W \in Seq(Packet)
    <2>1. /\ processed[f] \in Seq(Packet) /\ queue[f] \in Seq(Packet)
          /\ Bound(Held(l), l, f) \in Seq(Packet) /\ W \in Seq(Packet)
      BY PartsType
    <2> QED
      BY <2>1
  <1>3. /\ Bound(arrived'[l], l, f) = IF SelectFP(l, p) = f THEN Append(X, p) ELSE X
        /\ Bound(queue'[l], l, f) = IF SelectFP(l, p) = f THEN Append(W, p) ELSE W
    <2>1. arrived[l] \in Seq(Packet) /\ queue[l] \in Seq(Packet)
      BY PartsType
    <2>2. /\ SelectFP(l, p) = f => Bound(Append(arrived[l], p), l, f) = Append(X, p)
          /\ SelectFP(l, p) # f => Bound(Append(arrived[l], p), l, f) = X
      BY <2>1, BoundAppend
    <2>3. /\ SelectFP(l, p) = f => Bound(Append(queue[l], p), l, f) = Append(W, p)
          /\ SelectFP(l, p) # f => Bound(Append(queue[l], p), l, f) = W
      BY <2>1, BoundAppend
    <2> HIDE DEF X, W
    <2> QED
      BY <2>2, <2>3
  <1>4. Append(Y \o W, p) = Y \o Append(W, p)
    <2> HIDE DEF Y, W
    <2> QED
      BY <1>2, AppendConcat, Zenon
  <1>5. processed'[f] \o queue'[f] \o Bound(Held(l)', l, f) = Y
    <2>1. Held(l)' = Held(l)
      BY DEF Held
    <2> QED
      BY <2>1
  <1>6. Bound(arrived'[l], l, f) = Y \o Bound(queue'[l], l, f)
    <2> HIDE DEF X, Y, W
    <2> QED
      BY <1>1, <1>3, <1>4
  <1> QED
    BY <1>5, <1>6 DEF OrderKept

\* The load balancer's pop: from its queue into its hands.
LEMMA LBPopKeepsOrder ==
  ASSUME TypeOK, NEW l \in LB, NEW f \in FPsOf(l), OrderKept(l, f),
         queue[l] # <<>>, hold[l] = NoPacket, hold'[l] = Head(queue[l]),
         queue'[l] = Tail(queue[l]), arrived'[l] = arrived[l],
         processed'[f] = processed[f], queue'[f] = queue[f]
  PROVE  OrderKept(l, f)'
  <1> DEFINE Y == processed[f] \o queue[f]
             A == Bound(<<Head(queue[l])>>, l, f)
             W == Bound(Tail(queue[l]), l, f)
  <1>1. /\ queue[l] \in Seq(Packet) /\ processed[f] \in Seq(Packet) /\ queue[f] \in Seq(Packet)
    BY PartsType
  <1>2. /\ Head(queue[l]) \in Packet /\ <<Head(queue[l])>> \in Seq(Packet)
        /\ Tail(queue[l]) \in Seq(Packet) /\ Y \in Seq(Packet)
    BY <1>1
  <1>3. A \in Seq(Packet) /\ W \in Seq(Packet)
    BY <1>2, BoundType
  <1>4. Held(l) = <<>> /\ Held(l)' = <<Head(queue[l])>>
    BY <1>2, Names DEF Held
  <1>5. Bound(arrived[l], l, f) = Y \o <<>> \o (A \o W)
    BY <1>1, <1>4, BoundCons, BoundEmpty DEF OrderKept
  <1>6. Y \o <<>> \o (A \o W) = Y \o A \o W
    <2> HIDE DEF Y, A, W
    <2>1. Y \o <<>> = Y
      BY <1>2, ConcatPackets, Zenon
    <2>2. (Y \o A) \o W = Y \o (A \o W)
      BY <1>2, <1>3, ConcatPackets, Zenon
    <2> QED
      BY <2>1, <2>2, Zenon
  <1> QED
    BY <1>4, <1>5, <1>6 DEF OrderKept

\* The load balancer's push: from its hands into the queue of the fast path it
\* selects; the packets of the others are not concerned.
LEMMA LBPushKeepsOrder ==
  ASSUME TypeOK, NEW l \in LB, NEW f \in FPsOf(l), OrderKept(l, f), NEW p \in Packet,
         hold[l] = p, hold'[l] = NoPacket,
         queue'[f] = IF SelectFP(l, p) = f THEN Append(queue[f], p) ELSE queue[f],
         queue'[l] = queue[l], arrived'[l] = arrived[l], processed'[f] = processed[f]
  PROVE  OrderKept(l, f)'
  <1> DEFINE P == processed[f]
             Q == queue[f]
             W == Bound(queue[l], l, f)
  <1>1. P \in Seq(Packet) /\ Q \in Seq(Packet) /\ W \in Seq(Packet)
    BY PartsType
  <1>2. Held(l) = <<p>> /\ Held(l)' = <<>>
    BY Names DEF Held
  <1>3. Bound(Held(l), l, f) = IF SelectFP(l, p) = f THEN <<p>> ELSE <<>>
    BY <1>2, BoundSingle
  <1>4. Bound(Held(l)', l, f) = <<>>
    BY <1>2, BoundEmpty
  <1>5. P \o Q \o Bound(Held(l), l, f) = P \o queue'[f] \o <<>>
    <2>1. CASE SelectFP(l, p) = f
      <3>1. (P \o Q) \o <<p>> = (P \o Append(Q, p)) \o <<>>
        BY <1>1, ShiftLast, Zenon
      <3>2. Bound(Held(l), l, f) = <<p>> /\ queue'[f] = Append(Q, p)
        BY <1>3, <2>1
      <3> HIDE DEF P, Q
      <3> QED
        BY <3>1, <3>2, Zenon
    <2>2. CASE SelectFP(l, p) # f
      BY <1>3, <2>2
    <2> QED
      BY <2>1, <2>2
  <1> QED
    BY <1>4, <1>5 DEF OrderKept

\* processPacket: from the queue to what has been processed.
LEMMA ProcessKeepsOrder ==
  ASSUME TypeOK, NEW l \in LB, NEW f \in FPsOf(l), OrderKept(l, f), queue[f] # <<>>,
         processed'[f] = Append(processed[f], Head(queue[f])),
         queue'[f] = Tail(queue[f]),
         queue'[l] = queue[l], arrived'[l] = arrived[l], hold'[l] = hold[l]
  PROVE  OrderKept(l, f)'
  <1>1. processed[f] \in Seq(Packet) /\ queue[f] \in Seq(Packet)
    BY PartsType
  <1>2. processed'[f] \o queue'[f] = processed[f] \o queue[f]
    BY <1>1, ShiftFirst
  <1>3. Held(l)' = Held(l)
    BY DEF Held
  <1> QED
    BY <1>2, <1>3 DEF OrderKept

\* The invariant is inductive as it stands, given the types and that no push
\* meets a queue that was shut down.
OrderInv == \A l \in LB : \A f \in FPsOf(l) : OrderKept(l, f)

LEMMA OrderInit == Init => OrderInv
  <1> SUFFICES ASSUME Init, NEW l \in LB, NEW f \in FPsOf(l) PROVE OrderKept(l, f)
    BY DEF OrderInv
  <1>1. f \in FP /\ f \in Queue /\ l \in Queue /\ l \in Worker
    BY FPsOfType, Names DEF Worker
  <1>2. /\ arrived[l] = <<>> /\ processed[f] = <<>> /\ queue[f] = <<>>
        /\ queue[l] = <<>> /\ Held(l) = <<>>
    BY <1>1 DEF Init, Held
  <1>3. <<>> \o <<>> \o <<>> \o <<>> = <<>>
    OBVIOUS
  <1> QED
    BY <1>2, <1>3, BoundEmpty DEF OrderKept

LEMMA OrderStep ==
  TypeOK /\ StopInv /\ StopInv' /\ OrderInv /\ [Next]_vars => OrderInv'
  <1> SUFFICES ASSUME TypeOK, StopInv, StopInv', OrderInv, [Next]_vars,
                      NEW l \in LB, NEW f \in FPsOf(l)
               PROVE  OrderKept(l, f)'
    BY DEF OrderInv
  <1> USE DEF readerVars, mainVars, counters
  <1>a. /\ OrderKept(l, f) /\ f \in FP /\ f \in Queue /\ l \in Queue
        /\ l \in Worker /\ f \in Worker
        /\ l # f /\ l # raw /\ l # output /\ f # raw /\ f # output
    BY FPsOfType, Names DEF OrderInv, Worker
  <1>1. CASE ReaderPush
    <2>1. queue'[f] = queue[f] /\ queue'[l] = queue[l]
      BY <1>1, <1>a DEF ReaderPush, PushOnto, TypeOK
    <2> QED
      BY <1>1, <1>a, <2>1, SameOrder DEF ReaderPush
  <1>2. ASSUME NEW w \in Parser, Parse(w) PROVE OrderKept(l, f)'
    <2>1. queue'[f] = queue[f] /\ queue'[l] = queue[l]
      BY <1>2, <1>a, Names DEF Parse, Pop, TypeOK
    <2>2. hold'[l] = hold[l]
      BY <1>2, <1>a, Names DEF Parse, TypeOK
    <2> QED
      BY <1>2, <1>a, <2>1, <2>2, SameOrder DEF Parse
  <1>3. ASSUME NEW w \in Parser, ParserPush(w) PROVE OrderKept(l, f)'
    <2> DEFINE p == hold[w]
               m == LBForPacket(p)
    <2>1. /\ PushOnto(m, p) /\ p \in Packet /\ hold' = [hold EXCEPT ![w] = NoPacket]
          /\ arrived' = IF m \in shut THEN arrived ELSE [arrived EXCEPT ![m] = Append(@, p)]
          /\ processed' = processed
      BY <1>3, Names DEF ParserPush, PushHeld, TypeOK, Worker
    <2>2. m \in LB /\ m \in Queue /\ m # f
      BY <1>a, <2>1, RouteType, Names
    <2>3. m \notin shut
      BY <2>1 DEF PushOnto, StopInv, NoSilentLoss
    <2>4. hold'[l] = hold[l]
      BY <1>a, <2>1, Names DEF TypeOK
    <2> HIDE DEF p, m
    <2>5. /\ queue' = [queue EXCEPT ![m] = Append(@, p)]
          /\ arrived' = [arrived EXCEPT ![m] = Append(@, p)]
      BY <2>1, <2>3 DEF PushOnto
    <2>6. queue'[f] = queue[f]
      BY <1>a, <2>2, <2>5 DEF TypeOK
    <2>7. CASE l = m
      <3>1. arrived'[l] = Append(arrived[l], p) /\ queue'[l] = Append(queue[l], p)
        BY <1>a, <2>5, <2>7 DEF TypeOK
      <3> QED
        BY <1>a, <2>1, <2>4, <2>6, <3>1, ArriveKeepsOrder
    <2>8. CASE l # m
      <3>1. arrived'[l] = arrived[l] /\ queue'[l] = queue[l]
        BY <1>a, <2>5, <2>8 DEF TypeOK
      <3> QED
        BY <1>a, <2>1, <2>4, <2>6, <3>1, SameOrder
    <2> QED
      BY <2>7, <2>8
  <1>4. ASSUME NEW m \in LB, LBPop(m) PROVE OrderKept(l, f)'
    <2>1. PICK p \in Packet : Pop(m, p) /\ hold' = [hold EXCEPT ![m] = p]
      BY <1>4 DEF LBPop
    <2>2. /\ Input(m) = m /\ m \in Queue /\ m \in Worker /\ m # f
          /\ arrived' = arrived /\ processed' = processed
      BY <1>4, <1>a, Names DEF LBPop, Worker
    <2>3. /\ queue' = [queue EXCEPT ![m] = Tail(@)] /\ p = Head(queue[m])
          /\ queue[m] # <<>> /\ hold[m] = NoPacket
      BY <2>1, <2>2 DEF Pop
    <2>4. queue'[f] = queue[f]
      BY <1>a, <2>2, <2>3 DEF TypeOK
    <2>5. CASE l = m
      <3>1. hold'[l] = Head(queue[l]) /\ queue'[l] = Tail(queue[l])
        BY <1>a, <2>1, <2>3, <2>5 DEF TypeOK
      <3> QED
        BY <1>a, <2>2, <2>3, <2>4, <2>5, <3>1, LBPopKeepsOrder
    <2>6. CASE l # m
      <3>1. hold'[l] = hold[l] /\ queue'[l] = queue[l]
        BY <1>a, <2>1, <2>3, <2>6 DEF TypeOK
      <3> QED
        BY <1>a, <2>2, <2>4, <3>1, SameOrder
    <2> QED
      BY <2>5, <2>6
  <1>5. ASSUME NEW m \in LB, LBPush(m) PROVE OrderKept(l, f)'
    <2> DEFINE p == hold[m]
               k == SelectFP(m, p)
    <2>1. /\ PushOnto(k, p) /\ p \in Packet /\ hold' = [hold EXCEPT ![m] = NoPacket]
          /\ arrived' = arrived /\ processed' = processed /\ m \in Worker
      BY <1>5, Names DEF LBPush, PushHeld, TypeOK, Worker
    <2>2. k \in FPsOf(m) /\ k \in Queue /\ k # l
      BY <1>a, <2>1, FPsOfType, Names
    <2>3. k \notin shut
      BY <2>1 DEF PushOnto, StopInv, NoSilentLoss
    <2>4. queue' = [queue EXCEPT ![k] = Append(@, p)]
      BY <2>1, <2>3 DEF PushOnto
    <2>5. queue'[l] = queue[l]
      <3> HIDE DEF p, k
      <3> QED
        BY <1>a, <2>2, <2>4 DEF TypeOK
    <2>6. queue'[f] = IF k = f THEN Append(queue[f], p) ELSE queue[f]
      <3> HIDE DEF p, k
      <3> QED
        BY <1>a, <2>2, <2>4 DEF TypeOK
    <2>7. CASE l = m
      <3>1. hold'[l] = NoPacket /\ hold[l] = p
        BY <1>a, <2>1, <2>7 DEF TypeOK
      <3>2. queue'[f] = IF SelectFP(l, p) = f THEN Append(queue[f], p) ELSE queue[f]
        BY <2>6, <2>7
      <3>3. arrived'[l] = arrived[l] /\ processed'[f] = processed[f]
        BY <2>1
      <3> HIDE DEF p, k
      <3> QED
        BY <1>a, <2>1, <2>5, <3>1, <3>2, <3>3, LBPushKeepsOrder
    <2>8. CASE l # m
      <3>1. k # f
        BY <2>2, <2>8, FPsOfType
      <3>2. hold'[l] = hold[l] /\ queue'[f] = queue[f]
        BY <1>a, <2>1, <2>6, <2>8, <3>1 DEF TypeOK
      <3> HIDE DEF p, k
      <3> QED
        BY <1>a, <2>1, <2>5, <3>2, SameOrder
    <2> QED
      BY <2>7, <2>8
  <1>6. ASSUME NEW g \in FP, FPProcess(g) PROVE OrderKept(l, f)'
    <2>1. PICK p \in Packet : /\ Pop(g, p) /\ HandleOutput(g, p)
                              /\ processed' = [processed EXCEPT ![g] = Append(@, p)]
      BY <1>6 DEF FPProcess
    <2>2. /\ Input(g) = g /\ g \in Queue /\ g \in Worker /\ g # l /\ arrived' = arrived
      BY <1>6, <1>a, Names DEF FPProcess, Worker
    <2>3. /\ queue' = [queue EXCEPT ![g] = Tail(@)] /\ p = Head(queue[g])
          /\ queue[g] # <<>>
      BY <2>1, <2>2 DEF Pop
    <2>4. hold'[l] = hold[l]
      BY <1>a, <2>1, <2>2 DEF HandleOutput, TypeOK
    <2>5. queue'[l] = queue[l]
      BY <1>a, <2>2, <2>3 DEF TypeOK
    <2>6. CASE f = g
      <3>1. /\ processed'[f] = Append(processed[f], Head(queue[f]))
            /\ queue'[f] = Tail(queue[f])
        BY <1>a, <2>1, <2>3, <2>6 DEF TypeOK
      <3> QED
        BY <1>a, <2>2, <2>3, <2>4, <2>5, <2>6, <3>1, ProcessKeepsOrder
    <2>7. CASE f # g
      <3>1. processed'[f] = processed[f] /\ queue'[f] = queue[f]
        BY <1>a, <2>1, <2>3, <2>7 DEF TypeOK
      <3> QED
        BY <1>a, <2>2, <2>4, <2>5, <3>1, SameOrder
    <2> QED
      BY <2>6, <2>7
  <1>7. ASSUME NEW g \in FP, FPPush(g) PROVE OrderKept(l, f)'
    <2>1. /\ PushOnto(output, hold[g]) /\ hold' = [hold EXCEPT ![g] = NoPacket]
          /\ arrived' = arrived /\ processed' = processed /\ g # l
      BY <1>7, <1>a, Names DEF FPPush, PushHeld
    <2>2. queue'[f] = queue[f] /\ queue'[l] = queue[l]
      BY <1>a, <2>1 DEF PushOnto, TypeOK
    <2>3. hold'[l] = hold[l]
      BY <1>a, <2>1 DEF TypeOK
    <2> QED
      BY <1>a, <2>1, <2>2, <2>3, SameOrder
  <1>8. CASE OutputWrite
    <2>1. queue'[f] = queue[f] /\ queue'[l] = queue[l]
      BY <1>8, <1>a DEF OutputWrite, TypeOK
    <2> QED
      BY <1>8, <1>a, <2>1, SameOrder DEF OutputWrite
  <1>9. ASSUME UNCHANGED <<queue, hold, arrived, processed>> PROVE OrderKept(l, f)'
    BY <1>9, <1>a, SameOrder
  <1>10. ASSUME NEW w \in Worker, WorkerEnd(w) \/ StopWorker(w) PROVE OrderKept(l, f)'
    BY <1>9, <1>10 DEF WorkerEnd, StopWorker
  <1>11. CASE \/ ReaderEnd \/ OutputEnd \/ JoinReader \/ JoinWorker
              \/ StageStopped \/ JoinOutput \/ UNCHANGED vars
    BY <1>9, <1>11 DEF ReaderEnd, OutputEnd, JoinReader, JoinWorker, StageStopped,
                       JoinOutput, vars
  <1> QED
    BY <1>1, <1>2, <1>3, <1>4, <1>5, <1>6, <1>7, <1>8, <1>10, <1>11
    DEF Next, ReaderStep, ParserStep, LBStep, FPStep, OutputStep, MainStep,
        Stopped, Worker

\* For every number of load balancers and fast paths, what a fast path has
\* processed and still has before it is what reached its load balancer for it,
\* in the order of arrival: no stage behind the parsers reorders packets.
THEOREM OrderIsKept == Spec => []OrderKeptAfterParsers
  <1>1. OrderInv => OrderKeptAfterParsers
    BY DEF OrderInv, OrderKept, OrderKeptAfterParsers, FPsOf
  <1>2. TypeOK /\ StopInv /\ [Next]_vars => StopInv'
    BY StopInvStep
  <1> QED
    BY <1>1, <1>2, TypeInit, TypeStep, StopInvInit, OrderInit, OrderStep, PTL DEF Spec
=============================================================================
