------------------------- MODULE ChatQueueProofs -------------------------
(***************************************************************************)
(* Proofs about ChatQueue, for any messages, sessions, number of permits   *)
(* and workers: PermitsBalance, DispatchedOnce, QueuesKeepOrder and        *)
(* EveryRunIsCancellable, that is all its safety properties.               *)
(*                                                                         *)
(*  - Shapes: the types, and that whoever refers to a queue refers to one. *)
(*  - Placed: a message is at one place at most, in one queue object of    *)
(*    its own session or among those a recall has kept, and its stage says *)
(*    which.  Replaced objects count, since the consumer may hold one.     *)
(*  - Balanced: the permits.  A session that is not live has no permit     *)
(*    out, which is why it can start again with all of them.               *)
(*  - Sorted: every queue object is in order, and while a recall takes a   *)
(*    queue apart, what it has kept comes before what is left, and before  *)
(*    it puts the first one back nothing is left.                          *)
(***************************************************************************)
EXTENDS ChatQueue, FiniteSetTheorems, TLAPS

References ==
    /\ \A s \in Sessions : live[s] \/ s \in consumer.todo => queues[s] # <<>>
    /\ consumer.pc \in {"check", "get", "submit", "retire", "dead"} => consumer.session \in Sessions
    /\ consumer.pc \in {"check", "get"} => consumer.queue \in DOMAIN queues[consumer.session]
    /\ consumer.pc = "submit" => consumer.message \in Messages

Recollection ==
    /\ recall.phase # "none" => recall.message \in Recalls
    /\ recall.phase = "take" <=> lock = "recall"
    /\ recall.phase = "take" => queues[SessionOf[recall.message]] # <<>>
    /\ recall.phase # "take" => recall.kept = <<>>

Shapes == TypeOK /\ References /\ Recollection

Undispatched == {"new", "queued", "kept", "removed"}

InQueue ==
    \A s \in Sessions : \A k \in DOMAIN queues[s] : \A i \in DOMAIN queues[s][k] :
        stage[queues[s][k][i]] = "queued" /\ SessionOf[queues[s][k][i]] = s

Apart ==
    \A s \in Sessions : \A k, l \in DOMAIN queues[s] :
        \A i \in DOMAIN queues[s][k], j \in DOMAIN queues[s][l] :
            queues[s][k][i] = queues[s][l][j] => k = l /\ i = j

KeptOnes ==
    /\ \A i \in DOMAIN recall.kept :
          /\ stage[recall.kept[i]] = "kept"
          /\ SessionOf[recall.kept[i]] = SessionOf[recall.message]
    /\ \A i, j \in DOMAIN recall.kept : recall.kept[i] = recall.kept[j] => i = j

Placed ==
    /\ InQueue /\ Apart /\ KeptOnes
    /\ \A m \in Messages : taken[m] = IF stage[m] \in Undispatched THEN 0 ELSE 1

Balanced ==
    /\ \A s \in Sessions :
          /\ IsFiniteSet(Out(s))
          /\ live[s] => permits[s] + Cardinality(Out(s)) + (IF InHand(s) THEN 1 ELSE 0)
                           = Concurrency
          /\ ~live[s] => permits[s] = 0 /\ Out(s) = {} /\ ~InHand(s)
          /\ \A m \in FuturesOf(s) : SessionOf[m] = s /\ stage[m] \notin Undispatched
          /\ consumer.pc = "retire" /\ consumer.session = s => Out(s) = {}
    /\ consumer.pc = "submit" => /\ SessionOf[consumer.message] = consumer.session
                                 /\ stage[consumer.message] \notin Undispatched

Arrived ==
    /\ \A m \in Messages : stage[m] # "new" => \E i \in DOMAIN arrivals : arrivals[i] = m
    /\ \A i \in DOMAIN arrivals : stage[arrivals[i]] # "new"
    /\ \A i, j \in DOMAIN arrivals : arrivals[i] = arrivals[j] => i = j

\* At and Before with the history as an argument, so that a lemma can compare
\* the orders of two states
Rank(a, m) == CHOOSE i \in DOMAIN a : a[i] = m
Nearer(a, m, n) == IF n \in Urgent THEN m \in Urgent /\ Rank(a, n) < Rank(a, m)
                   ELSE m \in Urgent \/ Rank(a, m) < Rank(a, n)

Ascending(a, q) == \A i, j \in DOMAIN q : i < j => Nearer(a, q[i], q[j])
Precedes(a, p, q) == \A i \in DOMAIN p, j \in DOMAIN q : Nearer(a, p[i], q[j])

\* The session whose queue a recall takes apart
Recalled == SessionOf[recall.message]

Sorted ==
    /\ \A s \in Sessions : \A k \in DOMAIN queues[s] : Ascending(arrivals, queues[s][k])
    /\ recall.phase = "take" =>
         LET queue == queues[Recalled][Len(queues[Recalled])]
         IN /\ Ascending(arrivals, recall.kept)
            /\ recall.left > 0 =>
                 Precedes(arrivals, recall.kept, queue) /\ Len(queue) <= recall.left
            /\ recall.left = 0 => Precedes(arrivals, queue, recall.kept)

----------------------------------------------------------------------------
(* Sequences, and changes of one queue object.                             *)

\* What is left of a queue is what was behind its head.
LEMMA TailEntries ==
    ASSUME NEW q \in Seq(Messages), q # <<>>
    PROVE  /\ Head(q) \in Messages /\ Head(q) = q[1] /\ 1 \in DOMAIN q
           /\ Tail(q) \in Seq(Messages) /\ Len(Tail(q)) = Len(q) - 1
           /\ \A i \in DOMAIN Tail(q) : i + 1 \in DOMAIN q /\ Tail(q)[i] = q[i + 1]
  OBVIOUS

\* A message joins a sequence at its end.
LEMMA AppendEntries ==
    ASSUME NEW S, NEW q \in Seq(S), NEW m \in S
    PROVE  /\ Append(q, m) \in Seq(S) /\ Len(Append(q, m)) = Len(q) + 1
           /\ DOMAIN Append(q, m) = DOMAIN q \cup {Len(q) + 1}
           /\ Append(q, m)[Len(q) + 1] = m
           /\ \A i \in DOMAIN q : Append(q, m)[i] = q[i] /\ i < Len(q) + 1
  OBVIOUS

\* Put() adds the message at the head if it is urgent, else at the end.
LEMMA PutEntries ==
    ASSUME NEW q \in Seq(Messages), NEW m \in Messages
    PROVE  /\ Put(q, m) \in Seq(Messages)
           /\ m \notin Urgent => Put(q, m) = Append(q, m)
           /\ m \in Urgent =>
                /\ DOMAIN Put(q, m) = 1..(Len(q) + 1) /\ Put(q, m)[1] = m
                /\ \A i \in DOMAIN Put(q, m) :
                      i # 1 => i - 1 \in DOMAIN q /\ Put(q, m)[i] = q[i - 1]
  BY DEF Put

\* Queue object k of a session becomes q, which may be a new object; all the
\* other objects of the channel are as before.
Changed(s, k, q) ==
    /\ queues' \in [Sessions -> Seq(Seq(Messages))]
    /\ \A t \in Sessions : t # s => queues'[t] = queues[t]
    /\ k \in DOMAIN queues'[s] /\ queues'[s][k] = q
    /\ DOMAIN queues'[s] = DOMAIN queues[s] \cup {k}
    /\ \A l \in DOMAIN queues[s] : l # k => queues'[s][l] = queues[s][l]

\* Putting q in the place of an object, or behind the last one, is a change.
LEMMA ReplacedObject ==
    ASSUME TypeOK, NEW s \in Sessions, NEW k \in DOMAIN queues[s], NEW q \in Seq(Messages),
           queues' = [queues EXCEPT ![s] = [queues[s] EXCEPT ![k] = q]]
    PROVE  Changed(s, k, q)
  <1>1. queues \in [Sessions -> Seq(Seq(Messages))]
    BY DEF TypeOK
  <1>2. [queues[s] EXCEPT ![k] = q] \in Seq(Seq(Messages))
    BY <1>1
  <1>3. QED
    BY <1>1, <1>2 DEF Changed

\* So is a new object.
LEMMA AddedObject ==
    ASSUME TypeOK, NEW s \in Sessions, NEW q \in Seq(Messages),
           queues' = [queues EXCEPT ![s] = Append(queues[s], q)]
    PROVE  Changed(s, Len(queues[s]) + 1, q) /\ queues'[s] # <<>>
  <1>1. queues \in [Sessions -> Seq(Seq(Messages))]
    BY DEF TypeOK
  <1>2. /\ Append(queues[s], q) \in Seq(Seq(Messages))
        /\ Len(Append(queues[s], q)) = Len(queues[s]) + 1
        /\ DOMAIN Append(queues[s], q) = DOMAIN queues[s] \cup {Len(queues[s]) + 1}
        /\ Append(queues[s], q)[Len(queues[s]) + 1] = q
        /\ \A i \in DOMAIN queues[s] :
              Append(queues[s], q)[i] = queues[s][i] /\ i < Len(queues[s]) + 1
    BY <1>1, AppendEntries
  <1>3. queues'[s] = Append(queues[s], q) /\ queues'[s] # <<>>
    BY <1>1, <1>2
  <1>4. QED
    BY <1>1, <1>2, <1>3 DEF Changed

\* The last object of a session that has one
LEMMA LastObject ==
    ASSUME TypeOK, NEW s \in Sessions, queues[s] # <<>>
    PROVE  /\ Len(queues[s]) \in DOMAIN queues[s] /\ Queue(s) = queues[s][Len(queues[s])]
           /\ Queue(s) \in Seq(Messages)
           /\ \A q \in Seq(Messages) :
                 queues' = [queues EXCEPT ![s] = Replaced(s, q)] => Changed(s, Len(queues[s]), q)
  <1>1. queues[s] \in Seq(Seq(Messages))
    BY DEF TypeOK
  <1>2. Len(queues[s]) \in DOMAIN queues[s] /\ Queue(s) = queues[s][Len(queues[s])]
    BY <1>1 DEF Queue, Last
  <1>3. Queue(s) \in Seq(Messages)
    BY <1>1, <1>2
  <1>4. ASSUME NEW q \in Seq(Messages), queues' = [queues EXCEPT ![s] = Replaced(s, q)]
        PROVE  Changed(s, Len(queues[s]), q)
    <2>1. queues' = [queues EXCEPT ![s] = [queues[s] EXCEPT ![Len(queues[s])] = q]]
      BY <1>4 DEF Replaced
    <2>2. QED
      BY <1>2, <2>1, ReplacedObject
  <1>5. QED
    BY <1>2, <1>3, <1>4

\* No object disappears.
LEMMA ChangedKeeps ==
    ASSUME TypeOK, NEW s \in Sessions, NEW k, NEW q, Changed(s, k, q)
    PROVE  \A t \in Sessions : /\ queues[t] # <<>> => queues'[t] # <<>>
                               /\ DOMAIN queues[t] \subseteq DOMAIN queues'[t]
  <1> SUFFICES ASSUME NEW t \in Sessions
               PROVE  /\ queues[t] # <<>> => queues'[t] # <<>>
                      /\ DOMAIN queues[t] \subseteq DOMAIN queues'[t]
    OBVIOUS
  <1>1. queues[t] \in Seq(Seq(Messages)) /\ queues'[t] \in Seq(Seq(Messages))
    BY DEF TypeOK, Changed
  <1>2. DOMAIN queues[t] \subseteq DOMAIN queues'[t]
    BY DEF Changed
  <1>3. QED
    BY <1>1, <1>2

\* The consumer's get() and the two forms of produce()
LEMMA GetChanges ==
    ASSUME Shapes, Get
    PROVE  /\ consumer.session \in Sessions
           /\ consumer.queue \in DOMAIN queues[consumer.session]
           /\ Held = queues[consumer.session][consumer.queue] /\ Held \in Seq(Messages)
           /\ Changed(consumer.session, consumer.queue, Tail(Held))
  <1>1. /\ consumer.session \in Sessions
        /\ consumer.queue \in DOMAIN queues[consumer.session]
    BY DEF Shapes, References, Get
  <1>2. queues \in [Sessions -> Seq(Seq(Messages))]
    BY DEF Shapes, TypeOK
  <1>3. Held \in Seq(Messages) /\ Held = queues[consumer.session][consumer.queue]
    BY <1>1, <1>2 DEF Held
  <1>4. Tail(Held) \in Seq(Messages)
    BY <1>3, TailEntries DEF Get
  <1>5. queues' = [queues EXCEPT ![consumer.session] =
                     [queues[consumer.session] EXCEPT ![consumer.queue] = Tail(Held)]]
    BY DEF Get, Held
  <1>6. Changed(consumer.session, consumer.queue, Tail(Held))
    BY <1>1, <1>4, <1>5, ReplacedObject DEF Shapes
  <1>7. QED
    BY <1>1, <1>3, <1>6

\* A message opens a queue, or joins the one its session has.
LEMMA ProduceChanges ==
    ASSUME Shapes, NEW m \in Messages, Produce(m)
    PROVE  \/ /\ ~live[SessionOf[m]] /\ <<m>> \in Seq(Messages)
              /\ Changed(SessionOf[m], Len(queues[SessionOf[m]]) + 1, <<m>>)
              /\ queues'[SessionOf[m]] # <<>>
           \/ /\ live[SessionOf[m]] /\ queues[SessionOf[m]] # <<>>
              /\ Changed(SessionOf[m], Len(queues[SessionOf[m]]), Put(Queue(SessionOf[m]), m))
  <1> DEFINE s == SessionOf[m]
  <1>1. s \in Sessions
    BY MessagesAssumption
  <1>2. CASE ~live[s]
    <2>1. queues' = [queues EXCEPT ![s] = Append(queues[s], <<m>>)]
      BY <1>2 DEF Produce
    <2>2. <<m>> \in Seq(Messages)
      OBVIOUS
    <2>3. TypeOK
      BY DEF Shapes
    <2>4. Changed(s, Len(queues[s]) + 1, <<m>>) /\ queues'[s] # <<>>
      BY <1>1, <2>1, <2>2, <2>3, AddedObject
    <2>5. QED
      BY <1>2, <2>2, <2>4
  <1>3. CASE live[s]
    <2>1. queues[s] # <<>> /\ Queue(s) \in Seq(Messages)
      BY <1>1, <1>3, LastObject DEF Shapes, References
    <2>2. Put(Queue(s), m) \in Seq(Messages)
      BY <2>1, PutEntries
    <2>3. queues' = [queues EXCEPT ![s] = Replaced(s, Put(Queue(s), m))]
      BY <1>3 DEF Produce
    <2>4. QED
      BY <1>1, <1>3, <2>1, <2>2, <2>3, LastObject DEF Shapes
  <1>4. QED
    BY <1>2, <1>3

\* The session of a recall has the queue that is taken apart.
LEMMA RecalledQueue ==
    ASSUME Shapes, recall.phase = "take"
    PROVE  /\ Recalled \in Sessions /\ queues[Recalled] # <<>>
           /\ Len(queues[Recalled]) \in DOMAIN queues[Recalled]
           /\ Queue(Recalled) = queues[Recalled][Len(queues[Recalled])]
           /\ Queue(Recalled) \in Seq(Messages)
  <1>1. recall.message \in Messages
    BY MessagesAssumption DEF Shapes, Recollection
  <1>2. Recalled \in Sessions /\ queues[Recalled] # <<>>
    BY <1>1, MessagesAssumption DEF Recalled, Shapes, Recollection
  <1>3. QED
    BY <1>2, LastObject DEF Shapes

\* A recall takes the head of the queue ...
LEMMA RecallTakeChanges ==
    ASSUME Shapes, RecallTake, Queue(Recalled) # <<>>
    PROVE  Changed(Recalled, Len(queues[Recalled]), Tail(Queue(Recalled)))
  <1>1. recall.phase = "take"
    BY DEF RecallTake
  <1>2. Tail(Queue(Recalled)) \in Seq(Messages)
    BY <1>1, RecalledQueue, TailEntries
  <1>3. queues' = [queues EXCEPT ![Recalled] = Replaced(Recalled, Tail(Queue(Recalled)))]
    BY DEF RecallTake, Recalled
  <1>4. QED
    BY <1>1, <1>2, <1>3, RecalledQueue, LastObject DEF Shapes

\* ... and puts what it has kept at the end.
LEMMA RecallPutChanges ==
    ASSUME Shapes, RecallPut, recall.kept # <<>>
    PROVE  Changed(Recalled, Len(queues[Recalled]), Append(Queue(Recalled), Head(recall.kept)))
  <1>1. recall.phase = "take"
    BY DEF RecallPut
  <1>2. recall.kept \in Seq(Messages)
    BY DEF Shapes, TypeOK, Recallings
  <1>3. Append(Queue(Recalled), Head(recall.kept)) \in Seq(Messages)
    BY <1>1, <1>2, RecalledQueue, TailEntries, AppendEntries
  <1>4. queues' = [queues EXCEPT ![Recalled] =
                     Replaced(Recalled, Append(Queue(Recalled), Head(recall.kept)))]
    BY DEF RecallPut, Recalled
  <1>5. QED
    BY <1>1, <1>3, <1>4, RecalledQueue, LastObject DEF Shapes

\* A reset gives sessions a new object, the other ones stay.
Opened(s) ==
    /\ DOMAIN queues'[s] = DOMAIN queues[s] \cup {Len(queues[s]) + 1}
    /\ queues'[s][Len(queues[s]) + 1] = <<>>
    /\ \A l \in DOMAIN queues[s] : queues'[s][l] = queues[s][l]

\* What a reset does to the queues of every session
LEMMA ResetChanges ==
    ASSUME TypeOK, NEW m \in Messages, ResetSessions(m)
    PROVE  /\ queues' \in [Sessions -> Seq(Seq(Messages))]
           /\ \A s \in Sessions :
                 \/ queues'[s] = queues[s]
                 \/ Opened(s) /\ queues'[s] # <<>>
  <1> DEFINE hit == {s \in ResetsOf[m] : live[s]}
  <1>1. queues \in [Sessions -> Seq(Seq(Messages))]
    BY DEF TypeOK
  <1>2. CASE UNCHANGED queues
    BY <1>1, <1>2
  <1>3. CASE queues' = [s \in Sessions |-> IF s \in hit THEN Append(queues[s], <<>>) ELSE queues[s]]
    <2>1. ASSUME NEW s \in Sessions
          PROVE  /\ Append(queues[s], <<>>) \in Seq(Seq(Messages))
                 /\ DOMAIN Append(queues[s], <<>>) = DOMAIN queues[s] \cup {Len(queues[s]) + 1}
                 /\ Append(queues[s], <<>>)[Len(queues[s]) + 1] = <<>>
                 /\ Append(queues[s], <<>>) # <<>>
                 /\ \A i \in DOMAIN queues[s] : Append(queues[s], <<>>)[i] = queues[s][i]
      <3>1. <<>> \in Seq(Messages) /\ queues[s] \in Seq(Seq(Messages))
        BY <1>1
      <3>2. QED
        BY <3>1, AppendEntries
    <2>2. queues' \in [Sessions -> Seq(Seq(Messages))]
      BY <1>1, <1>3, <2>1
    <2>3. ASSUME NEW s \in Sessions, s \in hit
          PROVE  Opened(s) /\ queues'[s] # <<>>
      BY <1>3, <2>1, <2>3 DEF Opened
    <2>4. QED
      BY <1>3, <2>2, <2>3
  <1>4. QED
    BY <1>2, <1>3 DEF ResetSessions
----------------------------------------------------------------------------
(* Shapes.                                                                 *)

\* A list of futures holds messages.
LEMMA ListsOfFutures ==
    /\ NoFutures \in FutureLists /\ {} \in FutureLists
    /\ futures \in [Sessions -> FutureLists] =>
         \A s \in Sessions :
             /\ FuturesOf(s) \in SUBSET Messages
             /\ \A m \in Messages : FuturesOf(s) \cup {m} \in FutureLists
  <1>1. NoFutures \in FutureLists /\ {} \in FutureLists
    BY DEF FutureLists
  <1>2. ASSUME NEW list \in FutureLists, list # NoFutures
        PROVE  list \in SUBSET Messages
    BY <1>2 DEF FutureLists
  <1>3. ASSUME futures \in [Sessions -> FutureLists], NEW s \in Sessions
        PROVE  FuturesOf(s) \in SUBSET Messages
    <2>1. CASE futures[s] = NoFutures
      BY <2>1 DEF FuturesOf
    <2>2. CASE futures[s] # NoFutures
      BY <1>2, <1>3, <2>2 DEF FuturesOf
    <2>3. QED
      BY <2>1, <2>2
  <1>4. ASSUME futures \in [Sessions -> FutureLists], NEW s \in Sessions, NEW m \in Messages
        PROVE  FuturesOf(s) \cup {m} \in FutureLists
    <2>1. FuturesOf(s) \cup {m} \in SUBSET Messages
      BY <1>3, <1>4
    <2>2. QED
      BY <2>1 DEF FutureLists
  <1>5. QED
    BY <1>1, <1>3, <1>4

\* Where the consumer stands when it goes on
LEMMA NextSessionFields ==
    ASSUME consumer \in Consumers, NEW s \in Sessions
    PROVE  /\ NextSession(s) \in Consumers
           /\ NextSession(s).pc \in {"scan", "look"}
           /\ NextSession(s).todo \subseteq consumer.todo
           /\ NextSession(s).session = NoOne
  BY DEF NextSession, Idle, Consumers

\* No object disappears: whoever holds a reference still does.
NoneLost ==
    \A s \in Sessions : /\ queues[s] # <<>> => queues'[s] # <<>>
                        /\ DOMAIN queues[s] \subseteq DOMAIN queues'[s]

\* So references outlive a step that leaves their holder alone.
LEMMA ReferencesKeep ==
    ASSUME References, NoneLost, UNCHANGED <<live, consumer>>
    PROVE  References'
  BY DEF References, NoneLost

\* The same for a recall.
LEMMA RecollectionKeep ==
    ASSUME Recollection, NoneLost, UNCHANGED <<recall, lock>>
    PROVE  Recollection'
  <1>1. recall.phase = "take" => SessionOf[recall.message] \in Sessions
    BY MessagesAssumption DEF Recollection
  <1>2. QED
    BY <1>1 DEF Recollection, NoneLost

\* The consumer goes on to the next session.
LEMMA ReferencesNext ==
    ASSUME References, UNCHANGED queues, \A s \in Sessions : live'[s] => live[s],
           consumer \in Consumers, NEW s \in Sessions, consumer' = NextSession(s)
    PROVE  References'
  BY NextSessionFields DEF References

\* Shapes holds at first, and through the steps of the consumer ...
LEMMA InitShapes ==
    ASSUME Init
    PROVE  Shapes
  <1>1. Idle \in Consumers /\ NoRecall \in Recallings
    BY DEF Idle, NoRecall, Consumers, Recallings
  <1>2. <<>> \in Seq(Seq(Messages)) /\ <<>> \in Seq(Messages)
    OBVIOUS
  <1>3. /\ queues \in [Sessions -> Seq(Seq(Messages))] /\ live \in [Sessions -> BOOLEAN]
        /\ permits \in [Sessions -> Nat]
        /\ futures \in [Sessions -> FutureLists]
    BY <1>2, ListsOfFutures DEF Init
  <1>4. /\ stage \in [Messages -> Stages] /\ taken \in [Messages -> Nat]
        /\ runLock \in [Sessions -> Messages \cup {NoOne}]
    BY DEF Init, Stages
  <1>5. TypeOK
    BY <1>1, <1>2, <1>3, <1>4 DEF Init, TypeOK
  <1>6. References /\ Recollection
    BY DEF Init, References, Recollection, Idle, NoRecall
  <1>7. QED
    BY <1>5, <1>6 DEF Shapes

\* (Scan, Look, Check, Get, Submit, Retire)
LEMMA ConsumeShapes ==
    ASSUME Shapes, Consume
    PROVE  Shapes'
  <1>1. TypeOK /\ References /\ Recollection
    BY DEF Shapes
  <1>2. consumer \in Consumers
    BY DEF Shapes, TypeOK
  <1>3. CASE Scan
    <2>1. consumer' \in Consumers
      BY <1>3 DEF Scan, Idle, Consumers
    <2>2. TypeOK'
      BY <1>1, <1>3, <2>1 DEF Scan, TypeOK, channel, history, recalls, registry
    <2>3. References'
      BY <1>1, <1>3 DEF Scan, References, Idle, channel
    <2>4. Recollection'
      BY <1>1, <1>3 DEF Scan, Recollection, channel, recalls
    <2>5. QED
      BY <2>2, <2>3, <2>4 DEF Shapes
  <1>4. ASSUME NEW s \in Sessions, Look(s)
        PROVE  Shapes'
    <2>1. queues[s] # <<>>
      BY <1>1, <1>4 DEF Look, References
    <2>2. Len(queues[s]) \in DOMAIN queues[s] /\ Len(queues[s]) \in Nat
      BY <1>1, <2>1 DEF TypeOK
    <2>3. consumer' \in Consumers /\ References'
      <3>1. CASE consumer' = NextSession(s)
        BY <1>1, <1>2, <1>4, <3>1, NextSessionFields, ReferencesNext DEF Look
      <3>2. CASE consumer' = [consumer EXCEPT !.pc = "check", !.session = s,
                                              !.queue = Len(queues[s])]
        <4>1. consumer' \in Consumers
          BY <1>2, <2>2, <3>2 DEF Consumers
        <4>2. /\ consumer'.pc = "check" /\ consumer'.session = s
              /\ consumer'.queue = Len(queues[s]) /\ consumer'.todo = consumer.todo
          BY <1>2, <3>2 DEF Consumers
        <4>3. QED
          BY <1>1, <1>4, <2>2, <4>1, <4>2 DEF Look, References
      <3>3. QED
        BY <1>4, <3>1, <3>2 DEF Look
    <2>4. permits' \in [Sessions -> Nat]
      <3>1. permits[s] > 0 => permits[s] - 1 \in Nat
        BY <1>1 DEF TypeOK
      <3>2. QED
        BY <1>1, <1>4, <3>1 DEF Look, TypeOK
    <2>5. TypeOK'
      BY <1>1, <1>4, <2>3, <2>4 DEF Look, TypeOK, history, recalls, registry
    <2>6. Recollection'
      BY <1>1, <1>4 DEF Look, Recollection, recalls
    <2>7. QED
      BY <2>3, <2>5, <2>6 DEF Shapes
  <1>5. CASE Check
    <2>1. consumer.session \in Sessions
      BY <1>1, <1>5 DEF Check, References
    <2>2. consumer' \in Consumers /\ References'
      <3>1. CASE consumer' = NextSession(consumer.session)
        BY <1>1, <1>2, <1>5, <2>1, <3>1, NextSessionFields, ReferencesNext DEF Check
      <3>2. ASSUME NEW pc \in {"get", "retire"}, consumer' = [consumer EXCEPT !.pc = pc]
            PROVE  consumer' \in Consumers /\ References'
        <4>1. consumer' \in Consumers
          BY <1>2, <3>2 DEF Consumers
        <4>2. consumer'.pc = pc /\ \A f \in {"todo", "session", "queue", "message"} :
                                      consumer'[f] = consumer[f]
          BY <1>2, <3>2 DEF Consumers
        <4>3. QED
          BY <1>1, <1>5, <4>1, <4>2 DEF Check, References
      <3>3. QED
        BY <1>5, <3>1, <3>2 DEF Check
    <2>3. permits' \in [Sessions -> Nat]
      BY <1>1, <1>5 DEF Check, TypeOK
    <2>4. TypeOK'
      BY <1>1, <1>5, <2>2, <2>3 DEF Check, TypeOK, history, recalls, registry
    <2>5. Recollection'
      BY <1>1, <1>5 DEF Check, Recollection, recalls
    <2>6. QED
      BY <2>2, <2>4, <2>5 DEF Shapes
  <1>6. CASE Get
    <2>1. /\ consumer.session \in Sessions /\ Held \in Seq(Messages) /\ Held # <<>>
          /\ Changed(consumer.session, consumer.queue, Tail(Held))
      BY <1>6, GetChanges DEF Get
    <2>2. Head(Held) \in Messages
      BY <2>1, TailEntries
    <2>3. queues' \in [Sessions -> Seq(Seq(Messages))] /\ NoneLost
      BY <1>1, <2>1, ChangedKeeps DEF Changed, NoneLost
    <2>4. consumer' \in Consumers
      BY <1>2, <1>6, <2>2 DEF Get, Consumers
    <2>5. stage' \in [Messages -> Stages] /\ taken' \in [Messages -> Nat]
      BY <1>1, <1>6, <2>2 DEF Get, Move, TypeOK, Stages
    <2>6. TypeOK'
      BY <1>1, <1>6, <2>3, <2>4, <2>5 DEF Get, TypeOK, recalls, registry
    <2>7. References'
      <3>1. /\ consumer'.pc = "submit" /\ consumer'.message = Head(Held)
            /\ consumer'.session = consumer.session /\ consumer'.todo = consumer.todo
        BY <1>2, <1>6 DEF Get, Consumers
      <3>2. QED
        BY <1>1, <1>6, <2>1, <2>2, <2>3, <3>1 DEF Get, References, NoneLost
    <2>8. Recollection'
      BY <1>1, <1>6, <2>3, RecollectionKeep DEF Get, recalls
    <2>9. QED
      BY <2>6, <2>7, <2>8 DEF Shapes
  <1>7. CASE Submit
    <2>1. consumer.session \in Sessions /\ consumer.message \in Messages
      BY <1>1, <1>7 DEF Submit, References
    <2>2. FuturesOf(consumer.session) \cup {consumer.message} \in FutureLists
      BY <1>1, <2>1, ListsOfFutures DEF TypeOK
    <2>3. futures' \in [Sessions -> FutureLists]
      BY <1>1, <1>7, <2>1, <2>2 DEF Submit, TypeOK
    <2>4. consumer' \in Consumers /\ References'
      BY <1>1, <1>2, <1>7, <2>1, NextSessionFields, ReferencesNext DEF Submit
    <2>5. TypeOK'
      BY <1>1, <1>7, <2>3, <2>4 DEF Submit, TypeOK, history, recalls, registry
    <2>6. Recollection'
      BY <1>1, <1>7 DEF Submit, Recollection, recalls
    <2>7. QED
      BY <2>4, <2>5, <2>6 DEF Shapes
  <1>8. CASE Retire
    <2>1. consumer.session \in Sessions
      BY <1>1, <1>8 DEF Retire, References
    <2>2. consumer' \in Consumers /\ References'
      <3>1. CASE consumer' = NextSession(consumer.session)
        <4>1. \A s \in Sessions : live'[s] => live[s]
          BY <1>1, <1>8, <2>1 DEF Retire, TypeOK
        <4>2. QED
          BY <1>1, <1>2, <1>8, <2>1, <3>1, <4>1, NextSessionFields, ReferencesNext DEF Retire
      <3>2. CASE consumer' = [consumer EXCEPT !.pc = "dead"] /\ UNCHANGED live
        <4>1. consumer' \in Consumers
          BY <1>2, <3>2 DEF Consumers
        <4>2. consumer'.pc = "dead" /\ \A f \in {"todo", "session", "queue", "message"} :
                                          consumer'[f] = consumer[f]
          BY <1>2, <3>2 DEF Consumers
        <4>3. QED
          BY <1>1, <1>8, <2>1, <3>2, <4>1, <4>2 DEF Retire, References
      <3>3. QED
        BY <1>8, <3>1, <3>2 DEF Retire
    <2>3. /\ permits' \in [Sessions -> Nat] /\ live' \in [Sessions -> BOOLEAN]
          /\ futures' \in [Sessions -> FutureLists]
      <3>1. UNCHANGED <<futures, live, permits>>
            \/ /\ futures' = [futures EXCEPT ![consumer.session] = {}]
               /\ live' = [live EXCEPT ![consumer.session] = FALSE]
               /\ permits' = [permits EXCEPT ![consumer.session] = 0]
        BY <1>8 DEF Retire
      <3>2. {} \in FutureLists
        BY ListsOfFutures
      <3>3. permits' \in [Sessions -> Nat]
        BY <1>1, <3>1 DEF TypeOK
      <3>4. live' \in [Sessions -> BOOLEAN]
        BY <1>1, <3>1 DEF TypeOK
      <3>5. futures' \in [Sessions -> FutureLists]
        BY <1>1, <3>1, <3>2 DEF TypeOK
      <3>6. QED
        BY <3>3, <3>4, <3>5
    <2>4. TypeOK'
      BY <1>1, <1>8, <2>2, <2>3 DEF Retire, TypeOK, history, recalls, registry
    <2>5. Recollection'
      BY <1>1, <1>8 DEF Retire, Recollection, recalls
    <2>6. QED
      BY <2>2, <2>4, <2>5 DEF Shapes
  <1>9. QED
    BY <1>3, <1>4, <1>5, <1>6, <1>7, <1>8 DEF Consume


\* ... of a recall, ...
LEMMA RecallShapes ==
    ASSUME Shapes, Recalling \/ \E m \in Messages : Recall(m)
    PROVE  Shapes'
  <1>1. TypeOK /\ References /\ Recollection
    BY DEF Shapes
  <1>2. recall \in Recallings /\ NoRecall \in Recallings
    BY DEF Shapes, TypeOK, NoRecall, Recallings
  <1>3. ASSUME NEW m \in Messages, Recall(m)
        PROVE  Shapes'
    <2>1. m \in Recalls /\ SessionOf[m] \in Sessions
      BY <1>3, MessagesAssumption DEF Recall
    <2>2. CASE live[SessionOf[m]] /\ lock' = "recall"
               /\ recall' = [phase |-> "take", message |-> m,
                             left |-> Len(Queue(SessionOf[m])), kept |-> <<>>]
      <3>1. queues[SessionOf[m]] # <<>>
        BY <1>1, <2>1, <2>2 DEF References
      <3>2. Len(Queue(SessionOf[m])) \in Nat
        BY <1>1, <2>1, <3>1, LastObject
      <3>3. <<>> \in Seq(Messages)
        OBVIOUS
      <3>4. recall' \in Recallings
        BY <2>1, <2>2, <3>2, <3>3 DEF Recallings
      <3>5. TypeOK'
        BY <1>1, <1>3, <2>1, <2>2, <3>4 DEF Recall, TypeOK, history, registry
      <3>6. References' /\ Recollection'
        BY <1>1, <1>3, <2>1, <2>2, <3>1 DEF Recall, References, Recollection
      <3>7. QED
        BY <3>5, <3>6 DEF Shapes
    <2>3. CASE UNCHANGED lock /\ recall' = [NoRecall EXCEPT !.phase = "signal", !.message = m]
      <3>1. /\ recall' \in Recallings /\ recall'.phase = "signal" /\ recall'.message = m
            /\ recall'.kept = <<>>
        <4>1. <<>> \in Seq(Messages)
          OBVIOUS
        <4>2. QED
          BY <2>1, <2>3, <4>1 DEF NoRecall, Recallings
      <3>2. TypeOK'
        BY <1>1, <1>3, <2>1, <2>3, <3>1 DEF Recall, TypeOK, history, registry
      <3>3. References' /\ Recollection'
        BY <1>1, <1>3, <2>1, <2>3, <3>1 DEF Recall, References, Recollection, NoRecall
      <3>4. QED
        BY <3>2, <3>3 DEF Shapes
    <2>4. QED
      BY <1>3, <2>2, <2>3 DEF Recall
  <1>4. CASE RecallTake
    <2>1. /\ recall.phase = "take" /\ recall.left \in Nat /\ recall.left > 0
          /\ recall.kept \in Seq(Messages)
      BY <1>2, <1>4 DEF RecallTake, Recallings
    <2>2. CASE Queue(Recalled) = <<>>
      <3>1. recall' = NoRecall /\ lock' = "free" /\ UNCHANGED <<queues, stage>>
        BY <1>4, <2>2 DEF RecallTake, Recalled
      <3>2. TypeOK'
        BY <1>1, <1>2, <1>4, <3>1 DEF RecallTake, RecallStill, TypeOK, history, registry
      <3>3. References' /\ Recollection'
        BY <1>1, <1>4, <2>1, <3>1 DEF RecallTake, RecallStill, References, Recollection, NoRecall
      <3>4. QED
        BY <3>2, <3>3 DEF Shapes
    <2>3. CASE Queue(Recalled) # <<>>
      <3>1. Changed(Recalled, Len(queues[Recalled]), Tail(Queue(Recalled))) /\ Recalled \in Sessions
        BY <1>4, <2>1, <2>3, RecallTakeChanges, RecalledQueue
      <3>2. queues' \in [Sessions -> Seq(Seq(Messages))] /\ NoneLost
        BY <1>1, <3>1, ChangedKeeps DEF Changed, NoneLost
      <3>3. Head(Queue(Recalled)) \in Messages
        BY <2>1, <2>3, RecalledQueue, TailEntries
      <3> DEFINE next == Head(Queue(Recalled))
                 kept == IF next = recall.message THEN recall.kept ELSE Append(recall.kept, next)
      <3>4. /\ recall' = [recall EXCEPT !.left = recall.left - 1, !.kept = kept]
            /\ UNCHANGED lock
            /\ stage' = [stage EXCEPT ![next] = IF next = recall.message THEN "removed" ELSE "kept"]
        BY <1>4, <2>3 DEF RecallTake, Recalled, Move
      <3>5. kept \in Seq(Messages) /\ recall.left - 1 \in Nat
        BY <2>1, <3>3
      <3>6. stage' \in [Messages -> Stages]
        BY <1>1, <3>4 DEF TypeOK, Stages
      <3> HIDE DEF kept
      <3>7. recall' \in Recallings /\ recall'.phase = "take" /\ recall'.message = recall.message
        BY <1>2, <2>1, <3>4, <3>5 DEF Recallings
      <3>8. TypeOK'
        BY <1>1, <1>4, <3>2, <3>4, <3>6, <3>7 DEF RecallTake, RecallStill, TypeOK, history, registry
      <3>9. References'
        BY <1>1, <1>4, <3>2, ReferencesKeep DEF RecallTake, RecallStill
      <3>10. Recollection'
        BY <1>1, <2>1, <3>1, <3>2, <3>4, <3>7 DEF Recollection, NoneLost, Recalled
      <3>11. QED
        BY <3>8, <3>9, <3>10 DEF Shapes
    <2>4. QED
      BY <2>2, <2>3
  <1>5. CASE RecallPut
    <2>1. recall.phase = "take" /\ recall.left \in Nat /\ recall.kept \in Seq(Messages)
      BY <1>2, <1>5 DEF RecallPut, Recallings
    <2>2. CASE recall.kept # <<>>
      <3>1. Changed(Recalled, Len(queues[Recalled]), Append(Queue(Recalled), Head(recall.kept)))
            /\ Recalled \in Sessions
        BY <1>5, <2>1, <2>2, RecallPutChanges, RecalledQueue
      <3>2. queues' \in [Sessions -> Seq(Seq(Messages))] /\ NoneLost
        BY <1>1, <3>1, ChangedKeeps DEF Changed, NoneLost
      <3>3. Head(recall.kept) \in Messages /\ Tail(recall.kept) \in Seq(Messages)
        BY <2>1, <2>2, TailEntries
      <3>4. /\ recall' = [recall EXCEPT !.kept = Tail(recall.kept)] /\ UNCHANGED lock
            /\ stage' = [stage EXCEPT ![Head(recall.kept)] = "queued"]
        BY <1>5, <2>2 DEF RecallPut, Move
      <3>5. stage' \in [Messages -> Stages]
        BY <1>1, <3>3, <3>4 DEF TypeOK, Stages
      <3>6. recall' \in Recallings /\ recall'.phase = "take" /\ recall'.message = recall.message
        BY <1>2, <2>1, <3>3, <3>4 DEF Recallings
      <3>7. TypeOK'
        BY <1>1, <1>5, <3>2, <3>4, <3>5, <3>6 DEF RecallPut, RecallStill, TypeOK, history, registry
      <3>8. References'
        BY <1>1, <1>5, <3>2, ReferencesKeep DEF RecallPut, RecallStill
      <3>9. Recollection'
        BY <1>1, <2>1, <3>1, <3>2, <3>4, <3>6 DEF Recollection, NoneLost, Recalled
      <3>10. QED
        BY <3>7, <3>8, <3>9 DEF Shapes
    <2>3. CASE recall.kept = <<>>
      <3>1. /\ recall' = [recall EXCEPT !.phase = "signal"] /\ lock' = "free"
            /\ UNCHANGED <<queues, stage>>
        BY <1>5, <2>3 DEF RecallPut
      <3>2. /\ recall' \in Recallings /\ recall'.phase = "signal"
            /\ recall'.message = recall.message /\ recall'.kept = <<>>
        BY <1>2, <2>3, <3>1 DEF Recallings
      <3>3. TypeOK'
        BY <1>1, <1>5, <3>1, <3>2 DEF RecallPut, RecallStill, TypeOK, history, registry
      <3>4. References' /\ Recollection'
        BY <1>1, <1>5, <2>1, <3>1, <3>2 DEF RecallPut, RecallStill, References, Recollection
      <3>5. QED
        BY <3>3, <3>4 DEF Shapes
    <2>4. QED
      BY <2>2, <2>3
  <1>6. CASE RecallSignal
    <2>1. TypeOK'
      BY <1>1, <1>2, <1>6 DEF RecallSignal, TypeOK, channel, history
    <2>2. References' /\ Recollection'
      BY <1>1, <1>6 DEF RecallSignal, References, Recollection, NoRecall, channel
    <2>3. QED
      BY <2>1, <2>2 DEF Shapes
  <1>7. QED
    BY <1>3, <1>4, <1>5, <1>6 DEF Recalling

\* ... of the handlers, ...
LEMMA HandlerShapes ==
    ASSUME Shapes, NEW m \in Messages, Handle(m)
    PROVE  Shapes'
  <1>1. TypeOK /\ References /\ Recollection
    BY DEF Shapes
  <1>2. ASSUME NoneLost, UNCHANGED <<live, consumer, recall>>,
               lock' = lock \/ (lock = "free" /\ lock' = "stuck")
        PROVE  References' /\ Recollection'
    <2>1. recall.phase = "take" => SessionOf[recall.message] \in Sessions
      BY <1>1, MessagesAssumption DEF Recollection
    <2>2. QED
      BY <1>1, <1>2, <2>1, ReferencesKeep DEF Recollection, NoneLost
  <1>3. ASSUME Begin(m) \/ Register(m) \/ Enter(m) \/ Finish(m) \/ Release(m)
        PROVE  Shapes'
    <2>1. \E to \in Stages : Move(m, to)
      BY <1>3 DEF Begin, Register, Enter, Finish, Release, Stages
    <2>2. stage' \in [Messages -> Stages]
      BY <1>1, <2>1 DEF Move, TypeOK
    <2>3. permits' \in [Sessions -> Nat]
      <3>1. CASE UNCHANGED permits
        BY <1>1, <3>1 DEF TypeOK
      <3>2. CASE permits' = [permits EXCEPT ![SessionOf[m]] = @ + 1]
        BY <1>1, <3>2, MessagesAssumption DEF TypeOK
      <3>3. QED
        BY <1>3, <3>1, <3>2 DEF Begin, Register, Enter, Finish, Release
    <2>4. runLock' \in [Sessions -> Messages \cup {NoOne}]
      BY <1>1, <1>3 DEF Begin, Register, Enter, Finish, Release, TypeOK, registry
    <2>5. signalled' \subseteq tokens'
      BY <1>1, <1>3 DEF Begin, Register, Enter, Finish, Release, TypeOK, registry, Unregister
    <2>6. HandlerStill /\ UNCHANGED lock
      BY <1>3 DEF Begin, Register, Enter, Finish, Release
    <2>7. TypeOK'
      BY <1>1, <2>2, <2>3, <2>4, <2>5, <2>6 DEF HandlerStill, TypeOK, history, recalls
    <2>8. NoneLost /\ UNCHANGED <<live, consumer, recall, lock>>
      BY <2>6 DEF HandlerStill, recalls, NoneLost
    <2>9. QED
      BY <1>2, <2>7, <2>8 DEF Shapes
  <1>4. CASE ResetSessions(m)
    <2>1. /\ queues' \in [Sessions -> Seq(Seq(Messages))]
          /\ \A s \in Sessions :
                \/ queues'[s] = queues[s]
                \/ Opened(s) /\ queues'[s] # <<>>
      BY <1>1, <1>4, ResetChanges
    <2>2. NoneLost
      BY <2>1 DEF NoneLost, Opened
    <2>3. stage' \in [Messages -> Stages] /\ lock' \in {"free", "recall", "stuck"}
      BY <1>1, <1>4 DEF ResetSessions, Move, TypeOK, Stages
    <2>4. TypeOK'
      BY <1>1, <1>4, <2>1, <2>3 DEF ResetSessions, TypeOK, history, recalls, registry
    <2>5. UNCHANGED <<live, consumer, recall>> /\ (lock' = lock \/ (lock = "free" /\ lock' = "stuck"))
      BY <1>4 DEF ResetSessions, recalls
    <2>6. QED
      BY <1>2, <2>2, <2>4, <2>5 DEF Shapes
  <1>5. QED
    BY <1>3, <1>4 DEF Handle

\* ... and hence through every step.
LEMMA ShapesStep ==
    ASSUME Shapes, [Next]_vars
    PROVE  Shapes'
  <1>1. TypeOK /\ References /\ Recollection
    BY DEF Shapes
  <1>2. ASSUME NEW m \in Messages, Produce(m)
        PROVE  Shapes'
    <2>1. SessionOf[m] \in Sessions
      BY MessagesAssumption
    <2>2. PICK k, q : Changed(SessionOf[m], k, q) /\ queues'[SessionOf[m]] # <<>>
      <3>1. CASE live[SessionOf[m]]
        <4>1. /\ queues[SessionOf[m]] # <<>>
              /\ Changed(SessionOf[m], Len(queues[SessionOf[m]]), Put(Queue(SessionOf[m]), m))
          BY <1>2, <3>1, ProduceChanges
        <4>2. QED
          BY <1>1, <2>1, <4>1, ChangedKeeps
      <3>2. CASE ~live[SessionOf[m]]
        BY <1>2, <3>2, ProduceChanges
      <3>3. QED
        BY <3>1, <3>2
    <2>3. queues' \in [Sessions -> Seq(Seq(Messages))] /\ NoneLost
      BY <1>1, <2>1, <2>2, ChangedKeeps DEF Changed, NoneLost
    <2>4. /\ live' \in [Sessions -> BOOLEAN]
          /\ \A s \in Sessions : s # SessionOf[m] => live'[s] = live[s]
      BY <1>1, <1>2, <2>1 DEF Produce, TypeOK
    <2>5. permits' \in [Sessions -> Nat]
      BY <1>1, <1>2, <2>1, SizesAssumption DEF Produce, TypeOK
    <2>6. stage' \in [Messages -> Stages] /\ arrivals' \in Seq(Messages)
      BY <1>1, <1>2 DEF Produce, Move, TypeOK, Stages
    <2>7. TypeOK'
      BY <1>1, <1>2, <2>3, <2>4, <2>5, <2>6 DEF Produce, TypeOK, recalls, registry
    <2>8. References'
      BY <1>1, <1>2, <2>2, <2>3, <2>4 DEF Produce, References, NoneLost
    <2>9. Recollection'
      BY <1>1, <1>2, <2>3, RecollectionKeep DEF Produce, recalls
    <2>10. QED
      BY <2>7, <2>8, <2>9 DEF Shapes
  <1>3. ASSUME NEW s \in Sessions, CancelCommand(s)
        PROVE  Shapes'
    <2>1. TypeOK'
      BY <1>1, <1>3 DEF CancelCommand, TypeOK, channel, history, recalls
    <2>2. References' /\ Recollection'
      BY <1>1, <1>3 DEF CancelCommand, References, Recollection, channel, recalls
    <2>3. QED
      BY <2>1, <2>2 DEF Shapes
  <1>4. CASE UNCHANGED vars
    <2>1. TypeOK'
      BY <1>1, <1>4 DEF vars, TypeOK, channel, history, recalls, registry
    <2>2. References' /\ Recollection'
      BY <1>1, <1>4 DEF vars, References, Recollection, channel, recalls
    <2>3. QED
      BY <2>1, <2>2 DEF Shapes
  <1>5. QED
    BY <1>2, <1>3, <1>4, ConsumeShapes, RecallShapes, HandlerShapes DEF Next

----------------------------------------------------------------------------
(* Placed.                                                                 *)

Distinct(q) == \A i, j \in DOMAIN q : q[i] = q[j] => i = j

\* A new message leaves the messages of a queue distinct.
LEMMA AppendDistinct ==
    ASSUME NEW q \in Seq(Messages), Distinct(q),
           NEW m \in Messages, \A i \in DOMAIN q : q[i] # m
    PROVE  /\ Distinct(Append(q, m))
           /\ \A i \in DOMAIN Append(q, m) :
                 Append(q, m)[i] = m \/ \E j \in DOMAIN q : Append(q, m)[i] = q[j]
  BY AppendEntries DEF Distinct

\* The same of put(), which may add at the head.
LEMMA PutDistinct ==
    ASSUME NEW q \in Seq(Messages), Distinct(q),
           NEW m \in Messages, \A i \in DOMAIN q : q[i] # m
    PROVE  /\ Distinct(Put(q, m))
           /\ \A i \in DOMAIN Put(q, m) :
                 Put(q, m)[i] = m \/ \E j \in DOMAIN q : Put(q, m)[i] = q[j]
  <1>1. CASE m \notin Urgent
    <2>1. Put(q, m) = Append(q, m)
      BY <1>1, PutEntries
    <2>2. QED
      BY <2>1, AppendDistinct
  <1>2. CASE m \in Urgent
    <2>1. /\ DOMAIN Put(q, m) = 1..(Len(q) + 1) /\ Put(q, m)[1] = m
          /\ \A i \in DOMAIN Put(q, m) : i # 1 => i - 1 \in DOMAIN q /\ Put(q, m)[i] = q[i - 1]
      BY <1>2, PutEntries
    <2>2. ASSUME NEW i \in DOMAIN Put(q, m), NEW j \in DOMAIN Put(q, m), Put(q, m)[i] = Put(q, m)[j]
          PROVE  i = j
      <3>1. i \in Nat /\ j \in Nat
        BY <2>1
      <3>2. i = 1 <=> j = 1
        BY <2>1, <2>2
      <3>3. CASE i # 1
        <4>1. i - 1 = j - 1
          BY <2>1, <2>2, <3>2, <3>3 DEF Distinct
        <4>2. QED
          BY <3>1, <4>1
      <3>4. QED
        BY <3>2, <3>3
    <2>3. QED
      BY <2>1, <2>2 DEF Distinct
  <1>3. QED
    BY <1>1, <1>2

\* What is left behind the head is distinct from it.
LEMMA TailDistinct ==
    ASSUME NEW q \in Seq(Messages), q # <<>>, Distinct(q)
    PROVE  Distinct(Tail(q)) /\ \A i \in DOMAIN Tail(q) : Tail(q)[i] # Head(q)
  <1>1. /\ Head(q) = q[1] /\ 1 \in DOMAIN q /\ DOMAIN Tail(q) \subseteq Nat \ {0}
        /\ \A i \in DOMAIN Tail(q) : i + 1 \in DOMAIN q /\ Tail(q)[i] = q[i + 1]
    BY TailEntries
  <1>2. ASSUME NEW i \in DOMAIN Tail(q), NEW j \in DOMAIN Tail(q), Tail(q)[i] = Tail(q)[j]
        PROVE  i = j
    <2>1. i + 1 = j + 1
      BY <1>1, <1>2 DEF Distinct
    <2>2. QED
      BY <1>1, <2>1
  <1>3. ASSUME NEW i \in DOMAIN Tail(q)
        PROVE  Tail(q)[i] # Head(q)
    <2>1. i + 1 # 1
      BY <1>1
    <2>2. QED
      BY <1>1, <2>1 DEF Distinct
  <1>4. QED
    BY <1>2, <1>3 DEF Distinct

\* The head of a queue object leaves the queues.
LEMMA HeadLeaves ==
    ASSUME Shapes, InQueue, Apart, NEW s \in Sessions, NEW k \in DOMAIN queues[s],
           queues[s][k] # <<>>, Changed(s, k, Tail(queues[s][k])),
           NEW to \in Stages, Move(Head(queues[s][k]), to)
    PROVE  /\ Head(queues[s][k]) \in Messages /\ stage[Head(queues[s][k])] = "queued"
           /\ SessionOf[Head(queues[s][k])] = s
           /\ InQueue' /\ Apart'
  <1> DEFINE q == queues[s][k]
             m == Head(q)
  <1>1. q \in Seq(Messages) /\ \A t \in Sessions, l \in Nat : l \in DOMAIN queues[t] => queues[t][l] \in Seq(Messages)
    BY DEF Shapes, TypeOK
  <1>2. /\ m \in Messages /\ m = q[1] /\ 1 \in DOMAIN q
        /\ \A i \in DOMAIN Tail(q) : i + 1 \in DOMAIN q /\ Tail(q)[i] = q[i + 1]
    BY <1>1, TailEntries
  <1>3. stage[m] = "queued" /\ SessionOf[m] = s
    BY <1>2 DEF InQueue
  <1>4. Distinct(q)
    BY DEF Apart, Distinct
  <1>5. Distinct(Tail(q)) /\ \A i \in DOMAIN Tail(q) : Tail(q)[i] # m
    BY <1>1, <1>4, TailDistinct
  <1>6. \A n \in Messages : n # m => stage'[n] = stage[n]
    BY DEF Move, Shapes, TypeOK
  <1>7. InQueue'
    <2> SUFFICES ASSUME NEW t \in Sessions, NEW l \in DOMAIN queues'[t], NEW i \in DOMAIN queues'[t][l]
                 PROVE  stage'[queues'[t][l][i]] = "queued" /\ SessionOf[queues'[t][l][i]] = t
      BY DEF InQueue
    <2>1. CASE t = s /\ l = k
      <3>1. queues'[t][l] = Tail(q)
        BY <2>1 DEF Changed
      <3>2. i + 1 \in DOMAIN q /\ Tail(q)[i] = q[i + 1] /\ Tail(q)[i] # m
        BY <1>2, <1>5, <3>1
      <3>3. q[i + 1] \in Messages
        BY <1>1, <3>2
      <3>4. QED
        BY <1>6, <2>1, <3>1, <3>2, <3>3 DEF InQueue
    <2>2. CASE t # s \/ l # k
      <3>1. l \in DOMAIN queues[t] /\ queues'[t][l] = queues[t][l]
        BY <2>2 DEF Changed
      <3>2. /\ stage[queues[t][l][i]] = "queued" /\ SessionOf[queues[t][l][i]] = t
            /\ queues[t][l][i] \in Messages
        <4>1. queues[t] \in Seq(Seq(Messages))
          BY DEF Shapes, TypeOK
        <4>2. queues[t][l] \in Seq(Messages)
          BY <3>1, <4>1
        <4>3. QED
          BY <3>1, <4>2 DEF InQueue
      <3>3. queues[t][l][i] # m
        BY <1>2, <1>3, <2>2, <3>1, <3>2 DEF Apart
      <3>4. QED
        BY <1>6, <3>1, <3>2, <3>3
    <2>3. QED
      BY <2>1, <2>2
  <1>8. Apart'
    <2> SUFFICES ASSUME NEW t \in Sessions, NEW l \in DOMAIN queues'[t], NEW n \in DOMAIN queues'[t],
                        NEW i \in DOMAIN queues'[t][l], NEW j \in DOMAIN queues'[t][n],
                        queues'[t][l][i] = queues'[t][n][j]
                 PROVE  l = n /\ i = j
      BY DEF Apart
    <2>1. CASE t # s
      <3>1. queues'[t] = queues[t]
        BY <2>1 DEF Changed
      <3>2. QED
        BY <3>1 DEF Apart
    <2>2. CASE t = s /\ l = k /\ n = k
      BY <1>5, <2>2 DEF Changed, Distinct
    <2>3. CASE t = s /\ l = k /\ n # k
      <3>1. queues'[t][l] = Tail(q) /\ n \in DOMAIN queues[s] /\ queues'[t][n] = queues[s][n]
        BY <2>3 DEF Changed
      <3>2. QED
        BY <1>2, <2>3, <3>1 DEF Apart
    <2>4. CASE t = s /\ l # k /\ n = k
      <3>1. queues'[t][n] = Tail(q) /\ l \in DOMAIN queues[s] /\ queues'[t][l] = queues[s][l]
        BY <2>4 DEF Changed
      <3>2. QED
        BY <1>2, <2>4, <3>1 DEF Apart
    <2>5. CASE t = s /\ l # k /\ n # k
      BY <2>5 DEF Changed, Apart
    <2>6. QED
      BY <2>1, <2>2, <2>3, <2>4, <2>5
  <1>9. QED
    BY <1>2, <1>3, <1>7, <1>8

\* A message that is in no queue joins one.
LEMMA MessageJoins ==
    ASSUME Shapes, InQueue, Apart, NEW s \in Sessions, NEW k, NEW q, Changed(s, k, q),
           NEW m \in Messages, SessionOf[m] = s, stage[m] # "queued", Move(m, "queued"),
           Distinct(q),
           \A i \in DOMAIN q :
               q[i] = m \/ (k \in DOMAIN queues[s] /\ \E j \in DOMAIN queues[s][k] : q[i] = queues[s][k][j])
    PROVE  InQueue' /\ Apart'
  <1>1. \A n \in Messages : stage'[n] = IF n = m THEN "queued" ELSE stage[n]
    BY DEF Move, Shapes, TypeOK
  <1>2. ASSUME NEW t \in Sessions, NEW l \in DOMAIN queues[t], NEW i \in DOMAIN queues[t][l]
        PROVE  /\ queues[t][l][i] \in Messages /\ queues[t][l][i] # m
               /\ stage'[queues[t][l][i]] = "queued" /\ SessionOf[queues[t][l][i]] = t
    <2>1. queues[t] \in Seq(Seq(Messages))
      BY DEF Shapes, TypeOK
    <2>2. queues[t][l] \in Seq(Messages)
      BY <2>1
    <2>3. queues[t][l][i] \in Messages
      BY <2>2
    <2>4. QED
      BY <1>1, <2>3 DEF InQueue
  <1>3. InQueue'
    <2> SUFFICES ASSUME NEW t \in Sessions, NEW l \in DOMAIN queues'[t], NEW i \in DOMAIN queues'[t][l]
                 PROVE  stage'[queues'[t][l][i]] = "queued" /\ SessionOf[queues'[t][l][i]] = t
      BY DEF InQueue
    <2>1. CASE t = s /\ l = k
      BY <1>1, <1>2, <2>1 DEF Changed
    <2>2. CASE t # s \/ l # k
      <3>1. l \in DOMAIN queues[t] /\ queues'[t][l] = queues[t][l]
        BY <2>2 DEF Changed
      <3>2. QED
        BY <1>2, <3>1
    <2>3. QED
      BY <2>1, <2>2
  <1>4. Apart'
    <2> SUFFICES ASSUME NEW t \in Sessions, NEW l \in DOMAIN queues'[t], NEW n \in DOMAIN queues'[t],
                        NEW i \in DOMAIN queues'[t][l], NEW j \in DOMAIN queues'[t][n],
                        queues'[t][l][i] = queues'[t][n][j]
                 PROVE  l = n /\ i = j
      BY DEF Apart
    <2>1. CASE t # s
      <3>1. queues'[t] = queues[t]
        BY <2>1 DEF Changed
      <3>2. QED
        BY <3>1 DEF Apart
    <2>2. CASE t = s /\ l = k /\ n = k
      BY <2>2 DEF Changed, Distinct
    <2>3. CASE t = s /\ l = k /\ n # k
      <3>1. queues'[t][l] = q /\ n \in DOMAIN queues[s] /\ queues'[t][n] = queues[s][n]
        BY <2>3 DEF Changed
      <3>2. QED
        BY <1>2, <2>3, <3>1 DEF Apart
    <2>4. CASE t = s /\ l # k /\ n = k
      <3>1. queues'[t][n] = q /\ l \in DOMAIN queues[s] /\ queues'[t][l] = queues[s][l]
        BY <2>4 DEF Changed
      <3>2. QED
        BY <1>2, <2>4, <3>1 DEF Apart
    <2>5. CASE t = s /\ l # k /\ n # k
      BY <2>5 DEF Changed, Apart
    <2>6. QED
      BY <2>1, <2>2, <2>3, <2>4, <2>5
  <1>5. QED
    BY <1>3, <1>4

\* Steps that leave all queues and all messages in them alone
LEMMA PlacedCalm ==
    ASSUME Shapes, Placed, UNCHANGED <<queues, taken>>,
           recall' = recall \/ recall'.kept = <<>>,
           \A m \in Messages : stage[m] \in Undispatched \/ stage'[m] \in Undispatched
                                  => stage'[m] = stage[m]
    PROVE  Placed'
  <1>1. ASSUME NEW s \in Sessions, NEW k \in DOMAIN queues[s], NEW i \in DOMAIN queues[s][k]
        PROVE  queues[s][k][i] \in Messages
    <2>1. queues[s] \in Seq(Seq(Messages))
      BY DEF Shapes, TypeOK
    <2>2. QED
      BY <2>1
  <1>2. InQueue'
    BY <1>1 DEF Placed, InQueue, Undispatched
  <1>3. Apart'
    BY DEF Placed, Apart
  <1>4. KeptOnes'
    <2>1. CASE recall'.kept = <<>>
      <3>1. DOMAIN recall'.kept = {}
        BY <2>1
      <3>2. QED
        BY <3>1 DEF KeptOnes
    <2>2. CASE recall' = recall
      <3>1. \A i \in DOMAIN recall.kept : recall.kept[i] \in Messages
        BY DEF Shapes, TypeOK, Recallings
      <3>2. QED
        BY <2>2, <3>1 DEF Placed, KeptOnes, Undispatched
    <2>3. QED
      BY <2>1, <2>2
  <1>5. \A m \in Messages : taken'[m] = IF stage'[m] \in Undispatched THEN 0 ELSE 1
    BY DEF Placed
  <1>6. QED
    BY <1>2, <1>3, <1>4, <1>5 DEF Placed

\* What a recall has kept is kept, as long as others are moved.
LEMMA KeptCalm ==
    ASSUME Shapes, KeptOnes, UNCHANGED recall, NEW m \in Messages, NEW to,
           Move(m, to), stage[m] # "kept"
    PROVE  KeptOnes'
  <1>1. \A i \in DOMAIN recall.kept : recall.kept[i] \in Messages
    BY DEF Shapes, TypeOK, Recallings
  <1>2. \A n \in Messages : n # m => stage'[n] = stage[n]
    BY DEF Move, Shapes, TypeOK
  <1>3. QED
    BY <1>1, <1>2 DEF KeptOnes

\* Nothing is anywhere at first.
LEMMA InitPlaced ==
    ASSUME Init
    PROVE  Placed
  <1>1. DOMAIN recall.kept = {} /\ \A s \in Sessions : DOMAIN queues[s] = {}
    BY DEF Init, NoRecall
  <1>2. QED
    BY <1>1 DEF Init, Placed, InQueue, Apart, KeptOnes, Undispatched

\* A message that moves, with what this says about the number of its dispatches
LEMMA CountedMove ==
    ASSUME Shapes, Placed, NEW m \in Messages, NEW to \in Stages, Move(m, to),
           \/ UNCHANGED taken /\ (to \in Undispatched <=> stage[m] \in Undispatched)
           \/ /\ taken' = [taken EXCEPT ![m] = @ + 1]
              /\ stage[m] \in Undispatched /\ to \notin Undispatched
    PROVE  \A n \in Messages : taken'[n] = IF stage'[n] \in Undispatched THEN 0 ELSE 1
  BY DEF Move, Shapes, TypeOK, Placed

\* Each action keeps every message at one place.
LEMMA ProducePlaced ==
    ASSUME Shapes, Placed, NEW m \in Messages, Produce(m)
    PROVE  Placed'
  <1> DEFINE s == SessionOf[m]
  <1>1. s \in Sessions /\ stage[m] = "new" /\ Move(m, "queued") /\ UNCHANGED <<taken, recall>>
    BY MessagesAssumption DEF Produce, recalls
  <1>2. InQueue /\ Apart /\ KeptOnes
    BY DEF Placed
  <1>3. InQueue' /\ Apart'
    <2>1. CASE ~live[s]
      <3>1. Changed(s, Len(queues[s]) + 1, <<m>>)
        BY <2>1, ProduceChanges
      <3>2. DOMAIN <<m>> = {1} /\ <<m>>[1] = m
        OBVIOUS
      <3>3. Distinct(<<m>>) /\ \A i \in DOMAIN <<m>> : <<m>>[i] = m
        BY <3>2 DEF Distinct
      <3>4. QED
        BY <1>1, <1>2, <3>1, <3>3, MessageJoins
    <2>2. CASE live[s]
      <3>1. queues[s] # <<>> /\ Changed(s, Len(queues[s]), Put(Queue(s), m))
        BY <2>2, ProduceChanges
      <3>2. /\ Len(queues[s]) \in DOMAIN queues[s] /\ Queue(s) = queues[s][Len(queues[s])]
            /\ Queue(s) \in Seq(Messages)
        BY <1>1, <3>1, LastObject DEF Shapes
      <3>3. Distinct(Queue(s)) /\ \A i \in DOMAIN Queue(s) : Queue(s)[i] # m
        BY <1>1, <1>2, <3>2 DEF Apart, InQueue, Distinct
      <3>4. /\ Distinct(Put(Queue(s), m))
            /\ \A i \in DOMAIN Put(Queue(s), m) :
                  Put(Queue(s), m)[i] = m \/ \E j \in DOMAIN Queue(s) : Put(Queue(s), m)[i] = Queue(s)[j]
        BY <3>2, <3>3, PutDistinct
      <3> HIDE DEF s
      <3>5. \A i \in DOMAIN Put(Queue(s), m) :
               Put(Queue(s), m)[i] = m \/ \E j \in DOMAIN queues[s][Len(queues[s])] :
                                             Put(Queue(s), m)[i] = queues[s][Len(queues[s])][j]
        BY <3>2, <3>4
      <3>6. SessionOf[m] = s /\ stage[m] # "queued"
        BY <1>1 DEF s
      <3>7. QED
        BY <1>1, <1>2, <3>1, <3>2, <3>4, <3>5, <3>6, MessageJoins
    <2>3. QED
      BY <2>1, <2>2
  <1>4. KeptOnes'
    BY <1>1, <1>2, KeptCalm
  <1>5. \A n \in Messages : taken'[n] = IF stage'[n] \in Undispatched THEN 0 ELSE 1
    BY <1>1, CountedMove DEF Undispatched, Stages
  <1>6. QED
    BY <1>3, <1>4, <1>5 DEF Placed

\* What the consumer gets was queued in the session it looked at.
LEMMA GetPlaced ==
    ASSUME Shapes, Placed, Get
    PROVE  /\ Placed'
           /\ Head(Held) \in Messages /\ SessionOf[Head(Held)] = consumer.session
           /\ stage[Head(Held)] = "queued"
  <1>1. /\ consumer.session \in Sessions
        /\ consumer.queue \in DOMAIN queues[consumer.session]
        /\ Held = queues[consumer.session][consumer.queue]
        /\ Changed(consumer.session, consumer.queue, Tail(Held))
    BY GetChanges
  <1>2. /\ Held # <<>> /\ Move(Head(Held), "pending") /\ UNCHANGED recall
        /\ taken' = [taken EXCEPT ![Head(Held)] = @ + 1]
    BY DEF Get, recalls
  <1>3. InQueue /\ Apart /\ KeptOnes /\ "pending" \in Stages
    BY DEF Placed, Stages
  <1>4. /\ Head(Held) \in Messages /\ stage[Head(Held)] = "queued"
        /\ SessionOf[Head(Held)] = consumer.session /\ InQueue' /\ Apart'
    BY <1>1, <1>2, <1>3, HeadLeaves
  <1>5. KeptOnes'
    BY <1>2, <1>3, <1>4, KeptCalm
  <1>6. \A n \in Messages : taken'[n] = IF stage'[n] \in Undispatched THEN 0 ELSE 1
    BY <1>2, <1>4, CountedMove DEF Undispatched, Stages
  <1>7. QED
    BY <1>4, <1>5, <1>6 DEF Placed

\* What a recall takes is queued, and kept by nobody yet ...
LEMMA RecallTakePlaced ==
    ASSUME Shapes, Placed, RecallTake
    PROVE  Placed'
  <1>1. recall \in Recallings /\ recall.phase = "take" /\ recall.kept \in Seq(Messages)
    BY DEF Shapes, TypeOK, RecallTake, Recallings
  <1>2. CASE Queue(Recalled) = <<>>
    <2>1. recall' = NoRecall /\ UNCHANGED <<queues, stage, taken>>
      BY <1>2 DEF RecallTake, Recalled, RecallStill, history
    <2>2. QED
      BY <2>1, PlacedCalm DEF NoRecall
  <1>3. CASE Queue(Recalled) # <<>>
    <2> DEFINE next == Head(Queue(Recalled))
               to == IF next = recall.message THEN "removed" ELSE "kept"
               kept == IF next = recall.message THEN recall.kept ELSE Append(recall.kept, next)
    <2>1. /\ recall' = [recall EXCEPT !.left = recall.left - 1, !.kept = kept]
          /\ Move(next, to) /\ UNCHANGED taken
      BY <1>3 DEF RecallTake, Recalled, RecallStill, history
    <2>2. /\ Recalled \in Sessions /\ Len(queues[Recalled]) \in DOMAIN queues[Recalled]
          /\ Queue(Recalled) = queues[Recalled][Len(queues[Recalled])]
          /\ Changed(Recalled, Len(queues[Recalled]), Tail(Queue(Recalled)))
      BY <1>1, <1>3, RecalledQueue, RecallTakeChanges
    <2>3. InQueue /\ Apart /\ KeptOnes /\ to \in Stages
      BY DEF Placed, Stages
    <2> HIDE DEF to
    <2>4. /\ next \in Messages /\ stage[next] = "queued" /\ SessionOf[next] = Recalled
          /\ InQueue' /\ Apart'
      BY <1>3, <2>1, <2>2, <2>3, HeadLeaves
    <2>5. \A i \in DOMAIN recall.kept : recall.kept[i] # next /\ recall.kept[i] \in Messages
      BY <1>1, <2>3, <2>4 DEF KeptOnes
    <2>6. Distinct(recall.kept)
      BY <2>3 DEF KeptOnes, Distinct
    <2>7. /\ Distinct(kept)
          /\ \A i \in DOMAIN kept : \/ kept[i] = next /\ next # recall.message
                                    \/ \E j \in DOMAIN recall.kept : kept[i] = recall.kept[j]
      <3>1. CASE next = recall.message
        BY <2>6, <3>1
      <3>2. CASE next # recall.message
        BY <1>1, <2>4, <2>5, <2>6, <3>2, AppendDistinct
      <3>3. QED
        BY <3>1, <3>2
    <2>8. \A n \in Messages : stage'[n] = IF n = next THEN to ELSE stage[n]
      BY <2>1, <2>4 DEF Move, Shapes, TypeOK
    <2> HIDE DEF kept, next
    <2>9. recall'.kept = kept /\ recall'.message = recall.message
      BY <1>1, <2>1 DEF Recallings
    <2>10. next # recall.message => to = "kept"
      BY DEF to
    <2>11. KeptOnes'
      BY <2>3, <2>4, <2>5, <2>7, <2>8, <2>9, <2>10 DEF KeptOnes, Recalled, Distinct
    <2>12. \A n \in Messages : taken'[n] = IF stage'[n] \in Undispatched THEN 0 ELSE 1
      BY <2>1, <2>3, <2>4, CountedMove DEF Undispatched, to
    <2>13. QED
      BY <2>4, <2>11, <2>12 DEF Placed
  <1>4. QED
    BY <1>2, <1>3

\* ... and what it puts back is in no queue.
LEMMA RecallPutPlaced ==
    ASSUME Shapes, Placed, RecallPut
    PROVE  Placed'
  <1>1. recall \in Recallings /\ recall.phase = "take" /\ recall.kept \in Seq(Messages)
    BY DEF Shapes, TypeOK, RecallPut, Recallings
  <1>2. CASE recall.kept = <<>>
    <2>1. recall' = [recall EXCEPT !.phase = "signal"] /\ UNCHANGED <<queues, stage, taken>>
      BY <1>2 DEF RecallPut, RecallStill, history
    <2>2. recall'.kept = <<>>
      BY <1>1, <1>2, <2>1 DEF Recallings
    <2>3. QED
      BY <2>1, <2>2, PlacedCalm
  <1>3. CASE recall.kept # <<>>
    <2> DEFINE next == Head(recall.kept)
               q == Append(Queue(Recalled), next)
    <2>1. /\ recall' = [recall EXCEPT !.kept = Tail(recall.kept)]
          /\ Move(next, "queued") /\ UNCHANGED taken
      BY <1>3 DEF RecallPut, RecallStill, history
    <2>2. /\ Recalled \in Sessions /\ Len(queues[Recalled]) \in DOMAIN queues[Recalled]
          /\ Queue(Recalled) = queues[Recalled][Len(queues[Recalled])]
          /\ Queue(Recalled) \in Seq(Messages)
          /\ Changed(Recalled, Len(queues[Recalled]), q)
      BY <1>1, <1>3, RecalledQueue, RecallPutChanges
    <2>3. InQueue /\ Apart /\ KeptOnes /\ Distinct(recall.kept)
      BY DEF Placed, KeptOnes, Distinct
    <2>4. next \in Messages /\ next = recall.kept[1] /\ 1 \in DOMAIN recall.kept
      BY <1>1, <1>3, TailEntries
    <2>5. stage[next] = "kept" /\ SessionOf[next] = Recalled
      BY <2>3, <2>4 DEF KeptOnes, Recalled
    <2>6. Distinct(Queue(Recalled)) /\ \A i \in DOMAIN Queue(Recalled) : Queue(Recalled)[i] # next
      BY <2>2, <2>3, <2>5 DEF Apart, InQueue, Distinct
    <2>7. /\ Distinct(q)
          /\ \A i \in DOMAIN q : q[i] = next \/ \E j \in DOMAIN Queue(Recalled) : q[i] = Queue(Recalled)[j]
      BY <2>2, <2>4, <2>6, AppendDistinct
    <2>8. /\ Distinct(Tail(recall.kept))
          /\ \A i \in DOMAIN Tail(recall.kept) : /\ Tail(recall.kept)[i] # next
                                                 /\ i + 1 \in DOMAIN recall.kept
                                                 /\ Tail(recall.kept)[i] = recall.kept[i + 1]
                                                 /\ recall.kept[i + 1] \in Messages
      BY <1>1, <1>3, <2>3, TailDistinct, TailEntries
    <2>9. \A n \in Messages : n # next => stage'[n] = stage[n]
      BY <2>1 DEF Move, Shapes, TypeOK
    <2> HIDE DEF q, next
    <2>10. InQueue' /\ Apart'
      BY <2>1, <2>2, <2>3, <2>4, <2>5, <2>7, MessageJoins
    <2>11. recall'.kept = Tail(recall.kept) /\ recall'.message = recall.message
      BY <1>1, <2>1 DEF Recallings
    <2>12. KeptOnes'
      BY <2>3, <2>8, <2>9, <2>11 DEF KeptOnes, Distinct
    <2>13. \A n \in Messages : taken'[n] = IF stage'[n] \in Undispatched THEN 0 ELSE 1
      BY <2>1, <2>4, <2>5, CountedMove DEF Undispatched, Stages
    <2>14. QED
      BY <2>10, <2>12, <2>13 DEF Placed
  <1>4. QED
    BY <1>2, <1>3

\* The handlers move messages that were dispatched; a reset only adds objects,
\* which are empty.
LEMMA HandlerMoves ==
    ASSUME Shapes, NEW m \in Messages, Handle(m)
    PROVE  /\ \A n \in Messages : stage[n] \in Undispatched \/ stage'[n] \in Undispatched
                                     => stage'[n] = stage[n]
           /\ UNCHANGED <<taken, recall, consumer, arrivals, live>>
  <1>1. stage \in [Messages -> Stages]
    BY DEF Shapes, TypeOK
  <1>2. CASE Begin(m) \/ Register(m) \/ Enter(m) \/ Finish(m) \/ Release(m)
    <2>1. HandlerStill /\ \E to \in Stages \ Undispatched : Move(m, to)
      BY <1>2 DEF Begin, Register, Enter, Finish, Release, Stages, Undispatched
    <2>2. stage[m] \notin Undispatched
      BY <1>2 DEF Begin, Register, Enter, Finish, Release, Undispatched
    <2>3. QED
      BY <1>1, <2>1, <2>2 DEF Move, HandlerStill, history, recalls
  <1>3. CASE ResetSessions(m)
    BY <1>1, <1>3 DEF ResetSessions, Move, Undispatched, history, recalls
  <1>4. QED
    BY <1>2, <1>3 DEF Handle

\* A reset adds an empty object, the other handlers no object.
LEMMA HandlerPlaced ==
    ASSUME Shapes, Placed, NEW m \in Messages, Handle(m)
    PROVE  Placed'
  <1>1. /\ \A n \in Messages : stage[n] \in Undispatched \/ stage'[n] \in Undispatched
                                  => stage'[n] = stage[n]
        /\ UNCHANGED <<taken, recall>>
    BY HandlerMoves
  <1>2. CASE UNCHANGED queues
    BY <1>1, <1>2, PlacedCalm
  <1>3. CASE ResetSessions(m)
    <2>1. \A s \in Sessions : queues'[s] = queues[s] \/ Opened(s)
      BY <1>3, ResetChanges DEF Shapes
    <2>2. ASSUME NEW s \in Sessions, NEW k \in DOMAIN queues'[s], NEW i \in DOMAIN queues'[s][k]
          PROVE  /\ k \in DOMAIN queues[s] /\ queues'[s][k] = queues[s][k]
                 /\ queues[s][k][i] \in Messages
      <3>1. queues[s] \in Seq(Seq(Messages))
        BY DEF Shapes, TypeOK
      <3>2. k \in DOMAIN queues[s] /\ queues'[s][k] = queues[s][k]
        <4>1. DOMAIN <<>> = {}
          OBVIOUS
        <4>2. QED
          BY <2>1, <2>2, <4>1 DEF Opened
      <3>3. queues[s][k] \in Seq(Messages)
        BY <3>1, <3>2
      <3>4. QED
        BY <2>2, <3>2, <3>3
    <2>3. InQueue'
      BY <1>1, <2>2 DEF Placed, InQueue, Undispatched
    <2>4. Apart'
      <3> SUFFICES ASSUME NEW t \in Sessions, NEW l \in DOMAIN queues'[t], NEW n \in DOMAIN queues'[t],
                          NEW i \in DOMAIN queues'[t][l], NEW j \in DOMAIN queues'[t][n],
                          queues'[t][l][i] = queues'[t][n][j]
                   PROVE  l = n /\ i = j
        BY DEF Apart
      <3>1. /\ l \in DOMAIN queues[t] /\ queues'[t][l] = queues[t][l]
            /\ n \in DOMAIN queues[t] /\ queues'[t][n] = queues[t][n]
        BY <2>2
      <3>2. QED
        BY <3>1 DEF Placed, Apart
    <2>5. KeptOnes'
      <3>1. \A i \in DOMAIN recall.kept : recall.kept[i] \in Messages
        BY DEF Shapes, TypeOK, Recallings
      <3>2. QED
        BY <1>1, <3>1 DEF Placed, KeptOnes, Undispatched
    <2>6. QED
      BY <1>1, <2>3, <2>4, <2>5 DEF Placed
  <1>4. QED
    BY <1>2, <1>3 DEF Handle, HandlerStill, Begin, Register, Enter, Finish, Release

\* Placed is kept by every step.
LEMMA PlacedStep ==
    ASSUME Shapes, Placed, [Next]_vars
    PROVE  Placed'
  <1>1. ASSUME NEW m \in Messages, Recall(m)
        PROVE  Placed'
    <2>1. recall'.kept = <<>> /\ UNCHANGED <<queues, taken, stage>>
      <3>1. \/ recall'.kept = <<>>
            \/ recall' = [NoRecall EXCEPT !.phase = "signal", !.message = m]
        BY <1>1 DEF Recall
      <3>2. [NoRecall EXCEPT !.phase = "signal", !.message = m].kept = <<>>
        BY DEF NoRecall
      <3>3. QED
        BY <1>1, <3>1, <3>2 DEF Recall, history
    <2>2. QED
      BY <2>1, PlacedCalm
  <1>2. ASSUME NEW s \in Sessions, CancelCommand(s)
        PROVE  Placed'
    BY <1>2, PlacedCalm DEF CancelCommand, channel, history, recalls
  <1>3. CASE Scan \/ (\E s \in Sessions : Look(s)) \/ Check \/ Submit \/ Retire
    <2>1. UNCHANGED <<queues, taken, recall, stage>>
      BY <1>3 DEF Scan, Look, Check, Submit, Retire, channel, history, recalls
    <2>2. QED
      BY <2>1, PlacedCalm
  <1>4. CASE RecallSignal
    BY <1>4, PlacedCalm DEF RecallSignal, NoRecall, channel, history
  <1>5. CASE UNCHANGED vars
    BY <1>5, PlacedCalm DEF vars, channel, history, recalls
  <1>6. QED
    BY <1>1, <1>2, <1>3, <1>4, <1>5, ProducePlaced, GetPlaced, RecallTakePlaced,
       RecallPutPlaced, HandlerPlaced DEF Next, Consume, Recalling

----------------------------------------------------------------------------
(* Balanced.                                                               *)

OutStages == Working \cup {"pending", "done", "dropped"}

\* Steps that neither take nor give a permit
LEMMA BalancedCalm ==
    ASSUME Shapes, Balanced, UNCHANGED <<permits, live, futures>>,
           \A s \in Sessions : InHand(s)' <=> InHand(s),
           consumer' = consumer \/ consumer'.pc \notin {"submit", "retire"},
           \A m \in Messages : /\ stage'[m] \in OutStages <=> stage[m] \in OutStages
                               /\ stage[m] \notin Undispatched => stage'[m] \notin Undispatched
    PROVE  Balanced'
  <1>1. \A s \in Sessions : Out(s)' = Out(s)
    BY DEF Out, OutStages
  <1>2. \A s \in Sessions : FuturesOf(s) \in SUBSET Messages /\ FuturesOf(s)' = FuturesOf(s)
    <2>1. \A s \in Sessions : FuturesOf(s)' = FuturesOf(s)
      BY DEF FuturesOf
    <2>2. ASSUME NEW s \in Sessions, NEW m \in FuturesOf(s)
          PROVE  m \in Messages
      BY <2>2, ListsOfFutures DEF Shapes, TypeOK, FuturesOf, FutureLists
    <2>3. QED
      BY <2>1, <2>2
  <1>3. consumer.pc \in {"submit", "retire"} => consumer.session \in Sessions
    BY DEF Shapes, References
  <1>4. consumer.pc = "submit" => consumer.message \in Messages
    BY DEF Shapes, References
  <1>5. ASSUME NEW s \in Sessions
        PROVE  /\ IsFiniteSet(Out(s)')
               /\ live'[s] => permits'[s] + Cardinality(Out(s)') + (IF InHand(s)' THEN 1 ELSE 0)
                               = Concurrency
               /\ ~live'[s] => permits'[s] = 0 /\ Out(s)' = {} /\ ~InHand(s)'
               /\ \A m \in FuturesOf(s)' : SessionOf[m] = s /\ stage'[m] \notin Undispatched
               /\ consumer'.pc = "retire" /\ consumer'.session = s => Out(s)' = {}
    BY <1>1, <1>2 DEF Balanced
  <1>6. consumer'.pc = "submit" => /\ SessionOf[consumer'.message] = consumer'.session
                                   /\ stage'[consumer'.message] \notin Undispatched
    BY <1>4 DEF Balanced
  <1>7. QED
    BY <1>5, <1>6 DEF Balanced

\* The members of a list of futures are messages.
LEMMA FuturesTyped ==
    ASSUME TypeOK, NEW s \in Sessions
    PROVE  FuturesOf(s) \in SUBSET Messages
  BY ListsOfFutures DEF TypeOK

\* The clauses of Balanced about one session
BalancedOf(s) ==
    /\ IsFiniteSet(Out(s))
    /\ live[s] => permits[s] + Cardinality(Out(s)) + (IF InHand(s) THEN 1 ELSE 0) = Concurrency
    /\ ~live[s] => permits[s] = 0 /\ Out(s) = {} /\ ~InHand(s)
    /\ \A m \in FuturesOf(s) : SessionOf[m] = s /\ stage[m] \notin Undispatched
    /\ consumer.pc = "retire" /\ consumer.session = s => Out(s) = {}

\* A session the step does not touch
LEMMA BalancedElsewhere ==
    ASSUME Shapes, NEW s \in Sessions, BalancedOf(s),
           UNCHANGED <<permits[s], live[s], futures[s], Out(s)>>, InHand(s)' <=> InHand(s),
           consumer'.pc = "retire" /\ consumer'.session = s =>
               consumer.pc = "retire" /\ consumer.session = s,
           \A m \in Messages : stage[m] \notin Undispatched => stage'[m] \notin Undispatched
    PROVE  BalancedOf(s)'
  <1>1. FuturesOf(s)' = FuturesOf(s) /\ FuturesOf(s) \in SUBSET Messages
    BY FuturesTyped DEF FuturesOf, Shapes
  <1>2. QED
    BY <1>1 DEF BalancedOf

\* No permit is out at first.
LEMMA InitBalanced ==
    ASSUME Init
    PROVE  Balanced
  <1>1. ASSUME NEW s \in Sessions
        PROVE  Out(s) = {} /\ ~live[s] /\ permits[s] = 0 /\ FuturesOf(s) = {} /\ ~InHand(s)
    BY DEF Init, Out, Working, FuturesOf, InHand, Idle
  <1>2. consumer.pc = "scan"
    BY DEF Init, Idle
  <1>3. QED
    BY <1>1, <1>2, FS_EmptySet DEF Balanced

\* A session that starts again starts with all its permits.
LEMMA ProduceBalanced ==
    ASSUME Shapes, Balanced, NEW m \in Messages, Produce(m)
    PROVE  Balanced'
  <1> DEFINE s == SessionOf[m]
  <1>1. s \in Sessions /\ stage[m] = "new" /\ Move(m, "queued") /\ UNCHANGED <<futures, consumer>>
    BY MessagesAssumption DEF Produce
  <1>2. \A n \in Messages : /\ stage'[n] \in OutStages <=> stage[n] \in OutStages
                            /\ stage[n] \notin Undispatched => stage'[n] \notin Undispatched
    BY <1>1 DEF Move, Shapes, TypeOK, OutStages, Working, Undispatched
  <1>3. CASE live[s]
    <2>1. UNCHANGED <<permits, live>>
      BY <1>3 DEF Produce
    <2>2. QED
      <3>1. \A t \in Sessions : InHand(t)' <=> InHand(t)
        BY <1>1 DEF InHand
      <3>2. QED
        BY <1>1, <1>2, <2>1, <3>1, BalancedCalm
  <1>4. CASE ~live[s]
    <2>1. live' = [live EXCEPT ![s] = TRUE] /\ permits' = [permits EXCEPT ![s] = Concurrency]
      BY <1>4 DEF Produce
    <2>2. \A t \in Sessions : Out(t)' = Out(t) /\ (InHand(t)' <=> InHand(t))
      <3>1. \A t \in Sessions : Out(t)' = Out(t)
        BY <1>2 DEF Out, OutStages
      <3>2. QED
        BY <1>1, <3>1 DEF InHand
    <2>3. ASSUME NEW t \in Sessions
          PROVE  BalancedOf(t)'
      <3>1. BalancedOf(t)
        BY DEF Balanced, BalancedOf
      <3>2. CASE t # s
        <4>1. UNCHANGED <<permits[t], live[t], futures[t]>>
          BY <1>1, <2>1, <3>2 DEF Shapes, TypeOK
        <4>2. QED
          BY <1>1, <1>2, <2>2, <3>1, <4>1, BalancedElsewhere
      <3>3. CASE t = s
        <4>1. Out(s) = {} /\ ~InHand(s) /\ live'[s] /\ permits'[s] = Concurrency
          BY <1>1, <1>4, <2>1, <3>1, <3>3 DEF BalancedOf, Shapes, TypeOK
        <4>2. Cardinality(Out(s)') = 0 /\ IsFiniteSet(Out(s)') /\ Out(s)' = {} /\ ~InHand(s)'
          BY <1>1, <2>2, <4>1, FS_EmptySet
        <4>3. FuturesOf(s)' = FuturesOf(s) /\ FuturesOf(s) \in SUBSET Messages
          BY <1>1, FuturesTyped DEF FuturesOf, Shapes
        <4>4. \A n \in FuturesOf(s)' : SessionOf[n] = s /\ stage'[n] \notin Undispatched
          BY <1>2, <3>1, <3>3, <4>3 DEF BalancedOf
        <4>5. QED
          BY <3>3, <4>1, <4>2, <4>4, SizesAssumption DEF BalancedOf
      <3>4. QED
        BY <3>2, <3>3
    <2>4. consumer'.pc = "submit" => /\ SessionOf[consumer'.message] = consumer'.session
                                     /\ stage'[consumer'.message] \notin Undispatched
      BY <1>1, <1>2 DEF Balanced, Shapes, References
    <2>5. QED
      BY <2>3, <2>4 DEF Balanced, BalancedOf
  <1>5. QED
    BY <1>3, <1>4

\* A step about one session: its clauses, and a list of futures that is due
LEMMA BalancedStepOf ==
    ASSUME Shapes, Balanced, NEW s \in Sessions, BalancedOf(s)',
           \A t \in Sessions : t # s =>
              /\ UNCHANGED <<permits[t], live[t], futures[t], Out(t)>>
              /\ ~InHand(t) /\ ~InHand(t)',
           \A m \in Messages : stage[m] \notin Undispatched => stage'[m] \notin Undispatched,
           consumer'.pc = "submit" => /\ SessionOf[consumer'.message] = consumer'.session
                                      /\ stage'[consumer'.message] \notin Undispatched
    PROVE  Balanced'
  <1>1. ASSUME NEW t \in Sessions, t # s
        PROVE  BalancedOf(t)'
    <2>1. BalancedOf(t)
      BY DEF Balanced, BalancedOf
    <2>2. ~(consumer'.pc = "retire" /\ consumer'.session = t)
      BY <1>1 DEF InHand
    <2>3. UNCHANGED <<permits[t], live[t], futures[t], Out(t)>> /\ (InHand(t)' <=> InHand(t))
      BY <1>1
    <2>4. QED
      BY <2>1, <2>2, <2>3, BalancedElsewhere
  <1>2. QED
    BY <1>1 DEF Balanced, BalancedOf

\* What the consumer does without the queues
LEMMA LookBalanced ==
    ASSUME Shapes, Balanced, NEW s \in Sessions, Look(s)
    PROVE  Balanced'
  <1>1. /\ TypeOK /\ consumer \in Consumers /\ consumer.pc = "look"
        /\ UNCHANGED <<live, futures, stage>>
    BY DEF Shapes, TypeOK, Look
  <1>2. \A t \in Sessions : ~InHand(t) /\ Out(t)' = Out(t) /\ FuturesOf(t)' = FuturesOf(t)
    BY <1>1 DEF InHand, Out, FuturesOf
  <1>3. CASE permits[s] = 0 /\ consumer' = NextSession(s) /\ UNCHANGED permits
    <2>1. consumer'.pc \in {"scan", "look"} /\ \A t \in Sessions : ~InHand(t)'
      BY <1>1, <1>3, NextSessionFields DEF InHand
    <2>2. QED
      BY <1>1, <1>2, <1>3, <2>1, BalancedCalm
  <1>4. CASE /\ permits[s] > 0 /\ permits' = [permits EXCEPT ![s] = @ - 1]
             /\ consumer' = [consumer EXCEPT !.pc = "check", !.session = s,
                                             !.queue = Len(queues[s])]
    <2>1. consumer'.pc = "check" /\ consumer'.session = s
      BY <1>1, <1>4 DEF Consumers
    <2>2. InHand(s)' /\ \A t \in Sessions : t # s => ~InHand(t)'
      BY <2>1 DEF InHand
    <2>3. \A t \in Sessions : t # s => permits'[t] = permits[t]
      BY <1>1, <1>4 DEF TypeOK
    <2>4. permits[s] \in Nat /\ permits'[s] = permits[s] - 1
      BY <1>1, <1>4 DEF TypeOK
    <2>5. /\ live[s] /\ IsFiniteSet(Out(s))
          /\ permits[s] + Cardinality(Out(s)) + (IF InHand(s) THEN 1 ELSE 0) = Concurrency
          /\ \A m \in FuturesOf(s) : SessionOf[m] = s /\ stage[m] \notin Undispatched
      BY <1>4, <2>4 DEF Balanced
    <2>6. Cardinality(Out(s)) \in Nat
      BY <2>5, FS_CardinalityType
    <2>7. permits'[s] + Cardinality(Out(s)') + 1 = Concurrency
      BY <1>2, <2>4, <2>5, <2>6
    <2>8. BalancedOf(s)'
      BY <1>1, <1>2, <2>1, <2>2, <2>5, <2>7 DEF BalancedOf
    <2>9. QED
      BY <1>1, <1>2, <2>1, <2>2, <2>3, <2>8, BalancedStepOf
  <1>5. QED
    BY <1>3, <1>4 DEF Look

\* All permits but the one in hand are free: then no message is out.
LEMMA CheckBalanced ==
    ASSUME Shapes, Balanced, Check, NEW s \in Sessions, s = consumer.session
    PROVE  Balanced'
  <1>1. /\ TypeOK /\ consumer \in Consumers /\ consumer.pc = "check"
        /\ UNCHANGED <<live, futures, stage>>
    BY DEF Shapes, TypeOK, Check
  <1>2. \A t \in Sessions : /\ InHand(t) <=> t = s
                            /\ Out(t)' = Out(t) /\ FuturesOf(t)' = FuturesOf(t)
    BY <1>1 DEF InHand, Out, FuturesOf
  <1>3. /\ live[s] /\ IsFiniteSet(Out(s)) /\ permits[s] + Cardinality(Out(s)) + 1 = Concurrency
        /\ \A m \in FuturesOf(s) : SessionOf[m] = s /\ stage[m] \notin Undispatched
    BY <1>1, <1>2 DEF Balanced
  <1>4. permits[s] \in Nat /\ Cardinality(Out(s)) \in Nat /\ Concurrency \in Nat
    BY <1>1, <1>3, FS_CardinalityType, SizesAssumption DEF TypeOK
  <1>5. CASE consumer' = [consumer EXCEPT !.pc = "get"] /\ UNCHANGED permits
    <2>1. consumer'.pc = "get" /\ consumer'.session = s
      BY <1>1, <1>5 DEF Consumers
    <2>2. \A t \in Sessions : InHand(t)' <=> InHand(t)
      BY <1>1, <2>1 DEF InHand
    <2>3. QED
      BY <1>1, <1>5, <2>1, <2>2, BalancedCalm
  <1>6. CASE /\ permits[s] + 1 = Concurrency
             /\ consumer' = [consumer EXCEPT !.pc = "retire"] /\ UNCHANGED permits
    <2>1. consumer'.pc = "retire" /\ consumer'.session = s
      BY <1>1, <1>6 DEF Consumers
    <2>2. \A t \in Sessions : InHand(t)' <=> t = s
      BY <2>1 DEF InHand
    <2>3. Cardinality(Out(s)) = 0
      BY <1>3, <1>4, <1>6
    <2>4. Out(s) = {}
      BY <1>3, <2>3, FS_EmptySet
    <2>5. BalancedOf(s)'
      BY <1>1, <1>2, <1>3, <1>6, <2>2, <2>4 DEF BalancedOf
    <2>6. QED
      BY <1>1, <1>2, <1>6, <2>1, <2>2, <2>5, BalancedStepOf
  <1>7. CASE consumer' = NextSession(s) /\ permits' = [permits EXCEPT ![s] = @ + 1]
    <2>1. consumer'.pc \in {"scan", "look"} /\ \A t \in Sessions : ~InHand(t)'
      BY <1>1, <1>7, NextSessionFields DEF InHand
    <2>2. \A t \in Sessions : t # s => permits'[t] = permits[t]
      BY <1>1, <1>7 DEF TypeOK
    <2>3. permits'[s] = permits[s] + 1
      BY <1>1, <1>7 DEF TypeOK
    <2>4. permits'[s] + Cardinality(Out(s)') = Concurrency
      BY <1>1, <1>2, <1>3, <1>4, <2>3
    <2>5. BalancedOf(s)'
      BY <1>1, <1>2, <1>3, <1>4, <2>1, <2>3, <2>4 DEF BalancedOf
    <2>6. QED
      BY <1>1, <1>2, <2>1, <2>2, <2>5, BalancedStepOf
  <1>8. QED
    BY <1>5, <1>6, <1>7 DEF Check

\* The permit in hand goes to the message.
LEMMA GetBalanced ==
    ASSUME Shapes, Placed, Balanced, Get, NEW s \in Sessions, s = consumer.session,
           NEW m \in Messages, m = Head(Held)
    PROVE  Balanced'
  <1>1. /\ TypeOK /\ consumer \in Consumers /\ consumer.pc = "get"
        /\ UNCHANGED <<live, futures, permits>>
    BY DEF Shapes, TypeOK, Get
  <1>2. SessionOf[m] = s /\ stage[m] = "queued" /\ Move(m, "pending")
    BY GetPlaced DEF Get
  <1>3. consumer'.pc = "submit" /\ consumer'.session = s /\ consumer'.message = m
    BY <1>1 DEF Get, Consumers
  <1>4. \A n \in Messages : stage'[n] = IF n = m THEN "pending" ELSE stage[n]
    BY <1>1, <1>2 DEF Move, TypeOK
  <1>5. /\ Out(s)' = Out(s) \cup {m} /\ m \notin Out(s)
        /\ \A t \in Sessions : t # s => Out(t)' = Out(t)
    BY <1>2, <1>4 DEF Out, Working
  <1>6. \A t \in Sessions : (InHand(t) <=> t = s) /\ ~InHand(t)'
    BY <1>1, <1>3 DEF InHand
  <1>7. /\ live[s] /\ IsFiniteSet(Out(s)) /\ permits[s] + Cardinality(Out(s)) + 1 = Concurrency
        /\ \A n \in FuturesOf(s) : SessionOf[n] = s /\ stage[n] \notin Undispatched
    BY <1>1, <1>6 DEF Balanced
  <1>8. permits[s] \in Nat /\ Cardinality(Out(s)) \in Nat
    BY <1>1, <1>7, FS_CardinalityType DEF TypeOK
  <1>9. IsFiniteSet(Out(s)') /\ Cardinality(Out(s)') = Cardinality(Out(s)) + 1
    <2>1. IsFiniteSet(Out(s) \cup {m}) /\ Cardinality(Out(s) \cup {m}) = Cardinality(Out(s)) + 1
      BY <1>5, <1>7, FS_AddElement
    <2>2. QED
      BY <1>5, <2>1
  <1>10. \A n \in Messages : stage[n] \notin Undispatched => stage'[n] \notin Undispatched
    BY <1>4 DEF Undispatched
  <1>11. BalancedOf(s)'
    <2>1. FuturesOf(s)' = FuturesOf(s) /\ FuturesOf(s) \in SUBSET Messages
      BY <1>1, FuturesTyped DEF FuturesOf
    <2>2. \A n \in FuturesOf(s)' : SessionOf[n] = s /\ stage'[n] \notin Undispatched
      BY <1>7, <1>10, <2>1
    <2>3. permits'[s] + Cardinality(Out(s)') = Concurrency
      BY <1>1, <1>7, <1>8, <1>9
    <2>4. ~InHand(s)' /\ live'[s] /\ consumer'.pc # "retire"
      BY <1>1, <1>3, <1>6, <1>7
    <2>5. permits'[s] + Cardinality(Out(s)') + (IF InHand(s)' THEN 1 ELSE 0) = Concurrency
      BY <2>3, <2>4, SizesAssumption
    <2>6. QED
      BY <1>9, <2>2, <2>4, <2>5 DEF BalancedOf
  <1>12. stage'[m] \notin Undispatched
    BY <1>2, <1>4 DEF Undispatched
  <1>13. QED
    BY <1>1, <1>2, <1>3, <1>5, <1>6, <1>10, <1>11, <1>12, BalancedStepOf

\* The future of the message joins the list of its own session.
LEMMA SubmitBalanced ==
    ASSUME Shapes, Balanced, Submit, NEW s \in Sessions, s = consumer.session,
           NEW m \in Messages, m = consumer.message
    PROVE  Balanced'
  <1>1. /\ TypeOK /\ consumer \in Consumers /\ consumer.pc = "submit"
        /\ UNCHANGED <<live, permits, stage>>
    BY DEF Shapes, TypeOK, Submit
  <1>2. /\ futures' = [futures EXCEPT ![s] = FuturesOf(s) \cup {m}]
        /\ consumer' = NextSession(s)
    BY DEF Submit
  <1>3. consumer'.pc \in {"scan", "look"} /\ \A t \in Sessions : ~InHand(t)' /\ ~InHand(t)
    BY <1>1, <1>2, NextSessionFields DEF InHand
  <1>4. \A t \in Sessions : Out(t)' = Out(t)
    BY <1>1 DEF Out
  <1>5. \A t \in Sessions : t # s => futures'[t] = futures[t]
    BY <1>1, <1>2 DEF TypeOK
  <1>6. SessionOf[m] = s /\ stage[m] \notin Undispatched /\ BalancedOf(s)
    BY <1>1 DEF Balanced, BalancedOf
  <1>7. FuturesOf(s)' \subseteq FuturesOf(s) \cup {m}
    <2>1. futures'[s] = FuturesOf(s) \cup {m}
      BY <1>1, <1>2 DEF TypeOK
    <2>2. QED
      BY <2>1 DEF FuturesOf
  <1>8. \A n \in FuturesOf(s)' : SessionOf[n] = s /\ stage'[n] \notin Undispatched
    BY <1>1, <1>6, <1>7 DEF BalancedOf
  <1>9. BalancedOf(s)'
    BY <1>1, <1>3, <1>4, <1>6, <1>8 DEF BalancedOf
  <1>10. QED
    BY <1>1, <1>3, <1>4, <1>5, <1>9, BalancedStepOf

\* A session that is retired has nothing out.
LEMMA RetireBalanced ==
    ASSUME Shapes, Balanced, Retire, NEW s \in Sessions, s = consumer.session
    PROVE  Balanced'
  <1>1. /\ TypeOK /\ consumer \in Consumers /\ consumer.pc = "retire" /\ UNCHANGED stage
    BY DEF Shapes, TypeOK, Retire
  <1>2. \A t \in Sessions : Out(t)' = Out(t) /\ (InHand(t) <=> t = s)
    BY <1>1 DEF Out, InHand
  <1>3. Out(s) = {}
    BY <1>1 DEF Balanced
  <1>4. CASE /\ futures' = [futures EXCEPT ![s] = {}] /\ live' = [live EXCEPT ![s] = FALSE]
             /\ permits' = [permits EXCEPT ![s] = 0] /\ consumer' = NextSession(s)
    <2>1. consumer'.pc \in {"scan", "look"} /\ \A t \in Sessions : ~InHand(t)'
      BY <1>1, <1>4, NextSessionFields DEF InHand
    <2>2. \A t \in Sessions : t # s =>
             futures'[t] = futures[t] /\ live'[t] = live[t] /\ permits'[t] = permits[t]
      BY <1>1, <1>4 DEF TypeOK
    <2>3. futures'[s] = {} /\ ~live'[s] /\ permits'[s] = 0
      BY <1>1, <1>4 DEF TypeOK
    <2>4. FuturesOf(s)' = {} /\ IsFiniteSet(Out(s)')
      BY <1>1, <1>2, <1>3, <2>3, FS_EmptySet DEF FuturesOf
    <2>5. BalancedOf(s)'
      BY <1>1, <1>2, <1>3, <2>1, <2>3, <2>4 DEF BalancedOf
    <2>6. QED
      BY <1>1, <1>2, <2>1, <2>2, <2>5, BalancedStepOf
  <1>5. CASE consumer' = [consumer EXCEPT !.pc = "dead"] /\ UNCHANGED <<futures, live, permits>>
    <2>1. consumer'.pc = "dead" /\ consumer'.session = s
      BY <1>1, <1>5 DEF Consumers
    <2>2. \A t \in Sessions : InHand(t)' <=> InHand(t)
      BY <1>1, <2>1 DEF InHand
    <2>3. QED
      BY <1>1, <1>5, <2>1, <2>2, BalancedCalm
  <1>6. QED
    BY <1>4, <1>5 DEF Retire

\* A permit comes back while its message is out, so its session is live.
LEMMA ReleaseBalanced ==
    ASSUME Shapes, Balanced, NEW m \in Messages, Release(m)
    PROVE  Balanced'
  <1> DEFINE s == SessionOf[m]
  <1>1. /\ TypeOK /\ s \in Sessions /\ stage[m] = "done" /\ Move(m, "released")
        /\ permits' = [permits EXCEPT ![s] = @ + 1]
        /\ UNCHANGED <<live, futures, consumer>>
    BY MessagesAssumption DEF Shapes, Release, HandlerStill
  <1>2. \A n \in Messages : stage'[n] = IF n = m THEN "released" ELSE stage[n]
    BY <1>1 DEF Move, TypeOK
  <1>3. Out(s)' = Out(s) \ {m} /\ m \in Out(s) /\ \A t \in Sessions : t # s => Out(t)' = Out(t)
    BY <1>1, <1>2 DEF Out, Working
  <1>4. \A n \in Messages : stage[n] \notin Undispatched => stage'[n] \notin Undispatched
    BY <1>2 DEF Undispatched
  <1>5. live[s] /\ BalancedOf(s) /\ consumer.pc = "submit" => stage[consumer.message] \notin Undispatched
    BY <1>1, <1>3 DEF Balanced, BalancedOf
  <1>6. \A t \in Sessions : (InHand(t)' <=> InHand(t)) /\ FuturesOf(t)' = FuturesOf(t)
    BY <1>1 DEF InHand, FuturesOf
  <1>7. ASSUME NEW t \in Sessions
        PROVE  BalancedOf(t)'
    <2>1. BalancedOf(t)
      BY DEF Balanced, BalancedOf
    <2>2. CASE t # s
      <3>1. UNCHANGED <<permits[t], live[t], futures[t], Out(t)>> /\ (InHand(t)' <=> InHand(t))
        BY <1>1, <1>3, <1>6, <2>2 DEF TypeOK
      <3>2. QED
        BY <1>1, <1>4, <2>1, <3>1, BalancedElsewhere
    <2>3. CASE t = s
      <3>1. live[s] /\ IsFiniteSet(Out(s))
        BY <1>3, <2>1, <2>3 DEF BalancedOf
      <3>2. /\ IsFiniteSet(Out(s)') /\ Cardinality(Out(s)') = Cardinality(Out(s)) - 1
        BY <1>3, <3>1, FS_RemoveElement
      <3>3. Cardinality(Out(s)) \in Nat /\ permits[s] \in Nat /\ permits'[s] = permits[s] + 1
        BY <1>1, <3>1, FS_CardinalityType DEF TypeOK
      <3>4. permits'[s] + Cardinality(Out(s)') = permits[s] + Cardinality(Out(s))
        BY <3>2, <3>3
      <3>5. permits'[s] + Cardinality(Out(s)') + (IF InHand(s)' THEN 1 ELSE 0) = Concurrency
        BY <1>1, <1>6, <2>1, <2>3, <3>1, <3>4 DEF BalancedOf
      <3>6. FuturesOf(s) \in SUBSET Messages
        BY <1>1, FuturesTyped
      <3>7. \A n \in FuturesOf(s)' : SessionOf[n] = s /\ stage'[n] \notin Undispatched
        BY <1>1, <1>4, <1>6, <2>1, <2>3, <3>6 DEF BalancedOf
      <3>8. ~(consumer'.pc = "retire" /\ consumer'.session = s)
        BY <1>1, <1>3, <2>1, <2>3 DEF BalancedOf
      <3>9. QED
        BY <1>1, <2>3, <3>1, <3>2, <3>5, <3>7, <3>8 DEF BalancedOf
    <2>4. QED
      BY <2>2, <2>3
  <1>8. consumer'.pc = "submit" => /\ SessionOf[consumer'.message] = consumer'.session
                                   /\ stage'[consumer'.message] \notin Undispatched
    BY <1>1, <1>4 DEF Balanced, Shapes, References
  <1>9. QED
    BY <1>7, <1>8 DEF Balanced, BalancedOf

\* The other handlers, resets among them, and recalls
LEMMA HandlerBalanced ==
    ASSUME Shapes, Balanced, NEW m \in Messages, Handle(m)
    PROVE  Balanced'
  <1>1. CASE Release(m)
    BY <1>1, ReleaseBalanced
  <1>2. CASE Begin(m) \/ Register(m) \/ Enter(m) \/ Finish(m) \/ ResetSessions(m)
    <2>1. UNCHANGED <<permits, live, futures, consumer>> /\ stage \in [Messages -> Stages]
      BY <1>2 DEF Begin, Register, Enter, Finish, ResetSessions, HandlerStill, Shapes, TypeOK
    <2>2. \A n \in Messages : stage'[n] \in OutStages <=> stage[n] \in OutStages
      BY <1>2, <2>1 DEF Begin, Register, Enter, Finish, ResetSessions, Move, OutStages, Working
    <2>3. \A n \in Messages : stage[n] \notin Undispatched => stage'[n] \notin Undispatched
      BY <1>2, HandlerMoves DEF Handle
    <2>4. \A t \in Sessions : InHand(t)' <=> InHand(t)
      BY <2>1 DEF InHand
    <2>5. QED
      BY <2>1, <2>2, <2>3, <2>4, BalancedCalm
  <1>3. QED
    BY <1>1, <1>2 DEF Handle

\* A recall moves messages that have no permit.
LEMMA RecallBalanced ==
    ASSUME Shapes, Placed, Balanced, Recalling \/ \E m \in Messages : Recall(m)
    PROVE  Balanced'
  <1>1. UNCHANGED <<permits, live, futures, consumer>>
    BY DEF Recalling, Recall, RecallTake, RecallPut, RecallSignal, RecallStill, channel
  <1>2. \A n \in Messages : /\ stage'[n] \in OutStages <=> stage[n] \in OutStages
                            /\ stage[n] \notin Undispatched => stage'[n] \notin Undispatched
    <2>1. CASE UNCHANGED stage
      BY <2>1
    <2>2. ASSUME RecallTake, Queue(Recalled) # <<>>
          PROVE  \E n \in Messages, to \in {"removed", "kept"} : stage[n] = "queued" /\ Move(n, to)
      <3>1. recall.phase = "take"
        BY <2>2 DEF RecallTake
      <3>2. /\ Head(Queue(Recalled)) \in Messages /\ Head(Queue(Recalled)) = Queue(Recalled)[1]
            /\ 1 \in DOMAIN Queue(Recalled)
        BY <2>2, <3>1, RecalledQueue, TailEntries
      <3>3. stage[Head(Queue(Recalled))] = "queued"
        BY <3>1, <3>2, RecalledQueue DEF Placed, InQueue
      <3>4. QED
        BY <2>2, <3>2, <3>3 DEF RecallTake, Recalled
    <2>3. ASSUME RecallPut, recall.kept # <<>>
          PROVE  \E n \in Messages : stage[n] = "kept" /\ Move(n, "queued")
      <3>1. recall.kept \in Seq(Messages)
        BY DEF Shapes, TypeOK, Recallings
      <3>2. Head(recall.kept) \in Messages /\ Head(recall.kept) = recall.kept[1] /\ 1 \in DOMAIN recall.kept
        BY <2>3, <3>1, TailEntries
      <3>3. QED
        BY <2>3, <3>2 DEF RecallPut, Placed, KeptOnes
    <2>4. CASE \E n \in Messages, from, to \in {"removed", "kept", "queued"} :
                  stage[n] = from /\ Move(n, to)
      BY <2>4 DEF Move, Shapes, TypeOK, OutStages, Working, Undispatched
    <2>5. QED
      BY <2>1, <2>2, <2>3, <2>4
      DEF Recalling, Recall, RecallTake, RecallPut, RecallSignal, Recalled
  <1>3. \A t \in Sessions : InHand(t)' <=> InHand(t)
    BY <1>1 DEF InHand
  <1>4. QED
    BY <1>1, <1>2, <1>3, BalancedCalm

\* Balanced is kept by every step.
LEMMA BalancedStep ==
    ASSUME Shapes, Placed, Balanced, [Next]_vars
    PROVE  Balanced'
  <1>1. CASE Scan
    <2>1. consumer.pc = "scan" /\ consumer'.pc = "look" /\ UNCHANGED <<permits, live, futures, stage>>
      BY <1>1 DEF Scan, Idle, channel
    <2>2. \A t \in Sessions : ~InHand(t) /\ ~InHand(t)'
      BY <2>1 DEF InHand
    <2>3. QED
      BY <2>1, <2>2, BalancedCalm
  <1>2. CASE UNCHANGED vars \/ \E s \in Sessions : CancelCommand(s)
    <2>1. UNCHANGED <<permits, live, futures, stage, consumer>>
      BY <1>2 DEF vars, CancelCommand, channel
    <2>2. \A t \in Sessions : InHand(t)' <=> InHand(t)
      BY <2>1 DEF InHand
    <2>3. QED
      BY <2>1, <2>2, BalancedCalm
  <1>3. CASE Check \/ Get \/ Submit \/ Retire
    <2>1. PICK s \in Sessions : s = consumer.session
      BY <1>3 DEF Check, Get, Submit, Retire, Shapes, References
    <2>2. Submit => \E m \in Messages : m = consumer.message
      BY DEF Submit, Shapes, References
    <2>3. Get => \E m \in Messages : m = Head(Held)
      BY GetPlaced
    <2>4. QED
      BY <1>3, <2>1, <2>2, <2>3, CheckBalanced, GetBalanced, SubmitBalanced, RetireBalanced
  <1>4. QED
    BY <1>1, <1>2, <1>3, ProduceBalanced, LookBalanced, HandlerBalanced, RecallBalanced
    DEF Next, Consume

----------------------------------------------------------------------------
(* Sorted.                                                                 *)

\* The rank of a message is its place among the arrivals.
LEMMA RankOfArrived ==
    ASSUME Arrived, NEW i \in DOMAIN arrivals
    PROVE  Rank(arrivals, arrivals[i]) = i
  BY DEF Rank, Arrived

\* The history has every message that was produced, once.
LEMMA ArrivedStep ==
    ASSUME Shapes, Placed, Arrived, [Next]_vars
    PROVE  Arrived'
  <1>1. ASSUME UNCHANGED arrivals, \A m \in Messages : stage'[m] = "new" <=> stage[m] = "new"
        PROVE  Arrived'
    <2>1. \A i \in DOMAIN arrivals : arrivals[i] \in Messages
      BY DEF Shapes, TypeOK
    <2>2. QED
      BY <1>1, <2>1 DEF Arrived
  <1>2. ASSUME NEW m \in Messages, Produce(m)
        PROVE  Arrived'
    <2>1. /\ arrivals \in Seq(Messages) /\ arrivals' = Append(arrivals, m)
          /\ \A n \in Messages : stage'[n] = IF n = m THEN "queued" ELSE stage[n]
          /\ stage[m] = "new"
      BY <1>2 DEF Produce, Move, Shapes, TypeOK
    <2>2. /\ DOMAIN arrivals' = DOMAIN arrivals \cup {Len(arrivals) + 1}
          /\ arrivals'[Len(arrivals) + 1] = m
          /\ \A i \in DOMAIN arrivals : arrivals'[i] = arrivals[i] /\ arrivals[i] \in Messages
      BY <2>1, AppendEntries
    <2>3. \A i \in DOMAIN arrivals : arrivals[i] # m
      BY <2>1 DEF Arrived
    <2>4. QED
      BY <2>1, <2>2, <2>3 DEF Arrived
  <1>3. ASSUME NEW m \in Messages, Recall(m)
        PROVE  Arrived'
    BY <1>1, <1>3 DEF Recall, history
  <1>4. ASSUME NEW s \in Sessions, CancelCommand(s)
        PROVE  Arrived'
    BY <1>1, <1>4 DEF CancelCommand, history
  <1>5. ASSUME NEW n \in Messages, stage[n] # "new", NEW to, to # "new", Move(n, to), UNCHANGED arrivals
        PROVE  Arrived'
    <2>1. \A m \in Messages : stage'[m] = IF m = n THEN to ELSE stage[m]
      BY <1>5 DEF Move, Shapes, TypeOK
    <2>2. QED
      BY <1>1, <1>5, <2>1
  <1>6. CASE Consume
    <2>1. CASE Get
      BY <1>5, <2>1, GetPlaced DEF Get
    <2>2. CASE UNCHANGED <<stage, arrivals>>
      BY <1>1, <2>2
    <2>3. QED
      BY <1>6, <2>1, <2>2
      DEF Consume, Scan, Look, Check, Submit, Retire, history
  <1>7. CASE Recalling
    <2>1. CASE UNCHANGED <<stage, arrivals>>
      BY <1>1, <2>1
    <2>2. ASSUME RecallTake, Queue(Recalled) # <<>>
          PROVE  Arrived'
      <3>1. recall.phase = "take"
        BY <2>2 DEF RecallTake
      <3>2. /\ Head(Queue(Recalled)) \in Messages /\ Head(Queue(Recalled)) = Queue(Recalled)[1]
            /\ 1 \in DOMAIN Queue(Recalled)
        BY <2>2, <3>1, RecalledQueue, TailEntries
      <3>3. stage[Head(Queue(Recalled))] = "queued"
        BY <3>1, <3>2, RecalledQueue DEF Placed, InQueue
      <3>4. \E to \in {"removed", "kept"} : Move(Head(Queue(Recalled)), to)
        BY <2>2 DEF RecallTake, Recalled
      <3>5. QED
        BY <1>5, <2>2, <3>2, <3>3, <3>4 DEF RecallTake, RecallStill, history
    <2>3. ASSUME RecallPut, recall.kept # <<>>
          PROVE  Arrived'
      <3>1. recall.kept \in Seq(Messages)
        BY DEF Shapes, TypeOK, Recallings
      <3>2. Head(recall.kept) \in Messages /\ Head(recall.kept) = recall.kept[1] /\ 1 \in DOMAIN recall.kept
        BY <2>3, <3>1, TailEntries
      <3>3. stage[Head(recall.kept)] = "kept" /\ Move(Head(recall.kept), "queued")
        BY <2>3, <3>2 DEF RecallPut, Placed, KeptOnes
      <3>4. QED
        BY <1>5, <2>3, <3>2, <3>3 DEF RecallPut, RecallStill, history
    <2>4. QED
      BY <1>7, <2>1, <2>2, <2>3
      DEF Recalling, RecallTake, RecallPut, RecallSignal, RecallStill, Recalled, history
  <1>8. ASSUME NEW m \in Messages, Handle(m)
        PROVE  Arrived'
    <2>1. \A n \in Messages : stage[n] = "new" \/ stage'[n] = "new" => stage'[n] = stage[n]
      BY <1>8, HandlerMoves DEF Undispatched
    <2>2. QED
      BY <1>1, <1>8, <2>1, HandlerMoves
  <1>9. CASE UNCHANGED vars
    BY <1>1, <1>9 DEF vars, history
  <1>10. QED
    BY <1>2, <1>3, <1>4, <1>6, <1>7, <1>8, <1>9 DEF Next

\* Removing the head and adding at the end keep the order.
LEMMA TailAscends ==
    ASSUME NEW a, NEW q \in Seq(Messages), q # <<>>, Ascending(a, q)
    PROVE  /\ Ascending(a, Tail(q))
           /\ \A i \in DOMAIN Tail(q) : Nearer(a, Head(q), Tail(q)[i])
           /\ \A p : Precedes(a, p, q) => Precedes(a, p, Tail(q))
           /\ \A p : Precedes(a, q, p) => Precedes(a, Tail(q), p)
  <1>1. /\ Head(q) = q[1] /\ 1 \in DOMAIN q /\ DOMAIN Tail(q) \subseteq Nat \ {0}
        /\ \A i \in DOMAIN Tail(q) : i + 1 \in DOMAIN q /\ Tail(q)[i] = q[i + 1]
    BY TailEntries
  <1>2. ASSUME NEW i \in DOMAIN Tail(q), NEW j \in DOMAIN Tail(q), i < j
        PROVE  Nearer(a, Tail(q)[i], Tail(q)[j])
    <2>1. i + 1 < j + 1
      BY <1>1, <1>2
    <2>2. QED
      BY <1>1, <2>1 DEF Ascending
  <1>3. ASSUME NEW i \in DOMAIN Tail(q)
        PROVE  Nearer(a, Head(q), Tail(q)[i])
    <2>1. 1 < i + 1
      BY <1>1
    <2>2. QED
      BY <1>1, <2>1 DEF Ascending
  <1>4. ASSUME NEW p
        PROVE  /\ Precedes(a, p, q) => Precedes(a, p, Tail(q))
               /\ Precedes(a, q, p) => Precedes(a, Tail(q), p)
    BY <1>1 DEF Precedes
  <1>5. QED
    BY <1>2, <1>3, <1>4 DEF Ascending

\* A message behind all others keeps the order.
LEMMA AppendAscends ==
    ASSUME NEW a, NEW q \in Seq(Messages), NEW m \in Messages, Ascending(a, q),
           \A i \in DOMAIN q : Nearer(a, q[i], m)
    PROVE  /\ Ascending(a, Append(q, m))
           /\ \A p : Precedes(a, q, p) /\ (\A j \in DOMAIN p : Nearer(a, m, p[j]))
                        => Precedes(a, Append(q, m), p)
           /\ \A p : Precedes(a, p, q) /\ (\A j \in DOMAIN p : Nearer(a, p[j], m))
                        => Precedes(a, p, Append(q, m))
  <1>1. /\ DOMAIN Append(q, m) = DOMAIN q \cup {Len(q) + 1}
        /\ Append(q, m)[Len(q) + 1] = m
        /\ \A i \in DOMAIN q : Append(q, m)[i] = q[i] /\ i < Len(q) + 1
    BY AppendEntries
  <1>2. ASSUME NEW i \in DOMAIN Append(q, m), NEW j \in DOMAIN Append(q, m), i < j
        PROVE  Nearer(a, Append(q, m)[i], Append(q, m)[j])
    <2>1. i \in DOMAIN q
      <3>1. CASE i = Len(q) + 1
        <4>1. j \in Nat /\ j <= Len(q) + 1
          BY <1>1
        <4>2. QED
          BY <1>2, <3>1, <4>1
      <3>2. QED
        BY <1>1, <3>1
    <2>2. QED
      BY <1>1, <1>2, <2>1 DEF Ascending
  <1>3. ASSUME NEW p
        PROVE  /\ Precedes(a, q, p) /\ (\A j \in DOMAIN p : Nearer(a, m, p[j]))
                    => Precedes(a, Append(q, m), p)
               /\ Precedes(a, p, q) /\ (\A j \in DOMAIN p : Nearer(a, p[j], m))
                    => Precedes(a, p, Append(q, m))
    BY <1>1 DEF Precedes
  <1>4. QED
    BY <1>2, <1>3 DEF Ascending

\* Nothing before or after nothing is out of order.
LEMMA EmptyAscends ==
    ASSUME NEW a
    PROVE  /\ Ascending(a, <<>>)
           /\ \A p : Precedes(a, <<>>, p) /\ Precedes(a, p, <<>>)
  <1>1. DOMAIN <<>> = {}
    OBVIOUS
  <1>2. QED
    BY <1>1 DEF Ascending, Precedes

\* The step changes no queue and no recall, or ends it.
LEMMA SortedCalm ==
    ASSUME Sorted, UNCHANGED <<queues, arrivals>>, UNCHANGED recall \/ recall'.phase # "take"
    PROVE  Sorted'
  BY DEF Sorted, Recalled

\* The newest message is nearer to the head than all if it is urgent, else
\* farther than all.
LEMMA ProduceSorted ==
    ASSUME Shapes, Placed, Arrived, Sorted, NEW m \in Messages, Produce(m)
    PROVE  Sorted'
  <1> DEFINE s == SessionOf[m]
  <1>1. /\ s \in Sessions /\ stage[m] = "new" /\ lock = "free" /\ UNCHANGED recall
        /\ arrivals \in Seq(Messages) /\ arrivals' = Append(arrivals, m)
    BY MessagesAssumption DEF Produce, recalls, Shapes, TypeOK
  <1>2. recall'.phase # "take"
    BY <1>1 DEF Shapes, Recollection
  <1>3. /\ DOMAIN arrivals' = DOMAIN arrivals \cup {Len(arrivals) + 1}
        /\ arrivals'[Len(arrivals) + 1] = m
        /\ \A i \in DOMAIN arrivals : arrivals'[i] = arrivals[i] /\ i < Len(arrivals) + 1
    BY <1>1, AppendEntries
  <1>4. Arrived'
    BY ArrivedStep DEF Next
  <1>5. /\ Rank(arrivals', m) = Len(arrivals) + 1
        /\ \A i \in DOMAIN arrivals : /\ Rank(arrivals', arrivals[i]) = i
                                      /\ Rank(arrivals, arrivals[i]) = i
    <2>1. \A i \in DOMAIN arrivals' : Rank(arrivals', arrivals'[i]) = i
      BY <1>4 DEF Rank, Arrived
    <2>2. \A i \in DOMAIN arrivals : Rank(arrivals, arrivals[i]) = i
      BY RankOfArrived
    <2>3. QED
      BY <1>3, <2>1, <2>2
  <1> DEFINE Known(n) == n \in Messages /\ stage[n] # "new"
  <1>6. \A n : Known(n) => \E i \in DOMAIN arrivals : arrivals[i] = n
    BY DEF Arrived
  <1>7. \A n, o : Known(n) /\ Known(o) => (Nearer(arrivals, n, o) <=> Nearer(arrivals', n, o))
    BY <1>5, <1>6 DEF Nearer
  <1>8. \A n : Known(n) => IF m \in Urgent THEN Nearer(arrivals', m, n) ELSE Nearer(arrivals', n, m)
    <2> SUFFICES ASSUME NEW n, Known(n)
                 PROVE  IF m \in Urgent THEN Nearer(arrivals', m, n) ELSE Nearer(arrivals', n, m)
      OBVIOUS
    <2>1. PICK i \in DOMAIN arrivals : arrivals[i] = n
      BY <1>6
    <2>2. Rank(arrivals', n) < Rank(arrivals', m)
      BY <1>3, <1>5, <2>1
    <2>3. QED
      BY <2>2 DEF Nearer
  <1>9. ASSUME NEW t \in Sessions, NEW k \in DOMAIN queues[t]
        PROVE  /\ queues[t][k] \in Seq(Messages) /\ Ascending(arrivals', queues[t][k])
               /\ \A i \in DOMAIN queues[t][k] : Known(queues[t][k][i])
    <2>1. queues[t] \in Seq(Seq(Messages))
      BY DEF Shapes, TypeOK
    <2>2. queues[t][k] \in Seq(Messages)
      BY <2>1
    <2>3. \A i \in DOMAIN queues[t][k] : Known(queues[t][k][i])
      BY <2>2 DEF Placed, InQueue
    <2>4. Ascending(arrivals, queues[t][k])
      BY DEF Sorted
    <2> HIDE DEF Known
    <2>5. QED
      BY <1>7, <2>2, <2>3, <2>4 DEF Ascending
  <1> HIDE DEF Known
  <1>10. PICK k, q : Changed(s, k, q) /\ Ascending(arrivals', q)
    <2>1. CASE ~live[s]
      <3>1. Changed(s, Len(queues[s]) + 1, <<m>>)
        BY <2>1, ProduceChanges
      <3>2. Ascending(arrivals', <<m>>)
        <4>1. DOMAIN <<m>> = {1}
          OBVIOUS
        <4>2. QED
          BY <4>1 DEF Ascending
      <3>3. QED
        BY <3>1, <3>2
    <2>2. CASE live[s]
      <3> DEFINE q == Queue(s)
      <3>1. queues[s] # <<>> /\ Changed(s, Len(queues[s]), Put(q, m))
        BY <2>2, ProduceChanges
      <3>2. /\ q \in Seq(Messages) /\ Ascending(arrivals', q)
            /\ \A i \in DOMAIN q : Known(q[i])
        BY <1>1, <1>9, <3>1, LastObject DEF Shapes
      <3>3. CASE m \notin Urgent
        <4>1. \A i \in DOMAIN q : Nearer(arrivals', q[i], m)
          BY <1>8, <3>2, <3>3
        <4>2. Ascending(arrivals', Append(q, m))
          BY <3>2, <4>1, AppendAscends
        <4>3. Put(q, m) = Append(q, m)
          BY <3>2, <3>3, PutEntries
        <4>4. QED
          BY <3>1, <4>2, <4>3
      <3>4. CASE m \in Urgent
        <4> HIDE DEF q
        <4>1. /\ DOMAIN Put(q, m) = 1..(Len(q) + 1) /\ Put(q, m)[1] = m
              /\ \A i \in DOMAIN Put(q, m) :
                    i # 1 => i - 1 \in DOMAIN q /\ Put(q, m)[i] = q[i - 1]
          BY <3>2, <3>4, PutEntries
        <4>2. ASSUME NEW i \in DOMAIN Put(q, m), NEW j \in DOMAIN Put(q, m), i < j
              PROVE  Nearer(arrivals', Put(q, m)[i], Put(q, m)[j])
          <5>1. i \in Nat /\ j \in Nat /\ j # 1 /\ i >= 1
            BY <3>2, <4>1, <4>2
          <5>2. CASE i = 1
            BY <1>8, <3>2, <3>4, <4>1, <5>1, <5>2
          <5>3. CASE i # 1
            <6>1. i - 1 < j - 1
              BY <4>2, <5>1
            <6>2. QED
              BY <3>2, <4>1, <5>1, <5>3, <6>1 DEF Ascending
          <5>4. QED
            BY <5>2, <5>3
        <4>3. Ascending(arrivals', Put(q, m))
          BY <4>2 DEF Ascending
        <4>4. QED
          BY <3>1, <4>3
      <3>5. QED
        BY <3>3, <3>4
    <2>3. QED
      BY <2>1, <2>2
  <1>11. ASSUME NEW t \in Sessions, NEW l \in DOMAIN queues'[t]
         PROVE  Ascending(arrivals', queues'[t][l])
    <2>1. CASE t = s /\ l = k
      BY <1>10, <2>1 DEF Changed
    <2>2. CASE t # s \/ l # k
      <3>1. l \in DOMAIN queues[t] /\ queues'[t][l] = queues[t][l]
        BY <1>10, <2>2 DEF Changed
      <3>2. QED
        BY <1>9, <3>1
    <2>3. QED
      BY <2>1, <2>2
  <1>12. QED
    BY <1>2, <1>11 DEF Sorted

\* An object is replaced by one that is in order, the others stay.
LEMMA ChangedSorted ==
    ASSUME Sorted, UNCHANGED arrivals, NEW s \in Sessions, NEW k, NEW q, Changed(s, k, q),
           Ascending(arrivals, q)
    PROVE  \A t \in Sessions : \A l \in DOMAIN queues'[t] : Ascending(arrivals', queues'[t][l])
  <1> SUFFICES ASSUME NEW t \in Sessions, NEW l \in DOMAIN queues'[t]
               PROVE  Ascending(arrivals', queues'[t][l])
    OBVIOUS
  <1>1. CASE t = s /\ l = k
    BY <1>1 DEF Changed
  <1>2. CASE t # s \/ l # k
    <2>1. l \in DOMAIN queues[t] /\ queues'[t][l] = queues[t][l]
      BY <1>2 DEF Changed
    <2>2. QED
      BY <2>1 DEF Sorted
  <1>3. QED
    BY <1>1, <1>2

\* A change of a queue leaves their number, unless it adds one.
LEMMA ChangedLength ==
    ASSUME TypeOK, NEW s \in Sessions, NEW k \in DOMAIN queues[s], NEW q, Changed(s, k, q)
    PROVE  \A t \in Sessions : Len(queues'[t]) = Len(queues[t])
  <1>1. \A t \in Sessions : t # s => queues'[t] = queues[t]
    BY DEF Changed
  <1>2. queues[s] \in Seq(Seq(Messages)) /\ queues'[s] \in Seq(Seq(Messages))
    BY DEF TypeOK, Changed
  <1>3. DOMAIN queues'[s] = DOMAIN queues[s]
    BY DEF Changed
  <1>4. Len(queues'[s]) = Len(queues[s])
    BY <1>2, <1>3
  <1>5. QED
    BY <1>1, <1>4

\* Also of the queue a recall is taking apart the consumer takes the head only.
LEMMA GetSorted ==
    ASSUME Shapes, Sorted, Get
    PROVE  Sorted'
  <1>1. PICK s, k : /\ s \in Sessions /\ k \in DOMAIN queues[s]
                    /\ s = consumer.session /\ k = consumer.queue
    BY GetChanges
  <1>2. /\ Held = queues[s][k] /\ Held \in Seq(Messages) /\ Held # <<>>
        /\ Changed(s, k, Tail(Held)) /\ UNCHANGED <<arrivals, recall>>
    BY <1>1, GetChanges DEF Get, recalls
  <1>3. PICK held \in Seq(Messages) :
           /\ held = queues[s][k] /\ held # <<>> /\ Changed(s, k, Tail(held))
           /\ Ascending(arrivals, held)
    BY <1>1, <1>2 DEF Sorted
  <1>4. /\ Ascending(arrivals, Tail(held)) /\ Len(Tail(held)) <= Len(held)
        /\ \A p : Precedes(arrivals, p, held) => Precedes(arrivals, p, Tail(held))
        /\ \A p : Precedes(arrivals, held, p) => Precedes(arrivals, Tail(held), p)
    <2>1. Len(Tail(held)) = Len(held) - 1 /\ Len(held) \in Nat
      BY <1>3, TailEntries
    <2>2. Len(Tail(held)) <= Len(held)
      BY <2>1
    <2>3. QED
      BY <1>3, <2>2, TailAscends
  <1>5. \A t \in Sessions : \A l \in DOMAIN queues'[t] : Ascending(arrivals', queues'[t][l])
    BY <1>1, <1>2, <1>3, <1>4, ChangedSorted
  <1>6. CASE recall.phase # "take"
    BY <1>2, <1>5, <1>6 DEF Sorted
  <1>7. CASE recall.phase = "take"
    <2> DEFINE last == Len(queues[Recalled])
               queue == queues[Recalled][last]
    <2>1. /\ Recalled \in Sessions /\ last \in DOMAIN queues[Recalled] /\ queue \in Seq(Messages)
      BY <1>7, RecalledQueue
    <2>2. Len(queues'[Recalled]) = last /\ Recalled' = Recalled
      BY <1>1, <1>2, <1>3, <2>1, ChangedLength DEF Shapes, Recalled
    <2>3. /\ Ascending(arrivals, recall.kept)
          /\ recall.left > 0 => Precedes(arrivals, recall.kept, queue) /\ Len(queue) <= recall.left
          /\ recall.left = 0 => Precedes(arrivals, queue, recall.kept)
      BY <1>7 DEF Sorted
    <2>4. recall.left \in Nat
      BY DEF Shapes, TypeOK, Recallings
    <2> HIDE DEF last
    <2>5. /\ recall.left > 0 => /\ Precedes(arrivals, recall.kept, queues'[Recalled][last])
                                /\ Len(queues'[Recalled][last]) <= recall.left
          /\ recall.left = 0 => Precedes(arrivals, queues'[Recalled][last], recall.kept)
      <3>1. CASE Recalled = s /\ last = k
        <4>1. queue = held /\ queues'[Recalled][last] = Tail(held)
          BY <1>3, <3>1 DEF Changed
        <4>2. Len(Tail(held)) \in Nat /\ Len(held) \in Nat
          BY <1>3, TailEntries
        <4>3. QED
          BY <1>4, <2>3, <2>4, <4>1, <4>2
      <3>2. CASE Recalled # s \/ last # k
        <4>1. queues'[Recalled][last] = queue
          BY <1>3, <2>1, <3>2 DEF Changed
        <4>2. QED
          BY <2>3, <4>1
      <3>3. QED
        BY <3>1, <3>2
    <2>6. QED
      BY <1>2, <1>5, <2>2, <2>3, <2>5 DEF Sorted, Recalled
  <1>8. QED
    BY <1>6, <1>7

\* The head comes before what is left, and behind what was kept before.
LEMMA RecallTakeSorted ==
    ASSUME Shapes, Sorted, RecallTake
    PROVE  Sorted'
  <1>1. /\ recall \in Recallings /\ recall.phase = "take" /\ recall.kept \in Seq(Messages)
        /\ recall.left \in Nat /\ recall.left > 0 /\ UNCHANGED arrivals
    BY DEF Shapes, TypeOK, RecallTake, Recallings, RecallStill, history
  <1>2. CASE Queue(Recalled) = <<>>
    <2>1. recall' = NoRecall /\ UNCHANGED queues
      BY <1>2 DEF RecallTake, Recalled
    <2>2. recall'.phase # "take"
      BY <2>1 DEF NoRecall
    <2>3. QED
      BY <1>1, <2>1, <2>2, SortedCalm
  <1>3. CASE Queue(Recalled) # <<>>
    <2>1. PICK s, k : /\ s \in Sessions /\ k \in DOMAIN queues[s]
                      /\ s = Recalled /\ k = Len(queues[s])
      BY <1>1, RecalledQueue
    <2>2. PICK queue \in Seq(Messages) : queue = queues[s][k] /\ queue = Queue(s)
      BY <1>1, <2>1, RecalledQueue
    <2>3. queue # <<>> /\ Changed(s, k, Tail(queue))
      BY <1>3, <2>1, <2>2, RecallTakeChanges
    <2>4. /\ Ascending(arrivals, recall.kept) /\ Ascending(arrivals, queue)
          /\ Precedes(arrivals, recall.kept, queue) /\ Len(queue) <= recall.left
      BY <1>1, <2>1, <2>2 DEF Sorted
    <2>5. /\ Head(queue) \in Messages /\ Head(queue) = queue[1] /\ 1 \in DOMAIN queue
          /\ Tail(queue) \in Seq(Messages) /\ Len(Tail(queue)) = Len(queue) - 1
          /\ Len(queue) \in Nat
      BY <2>3, TailEntries
    <2>6. /\ Ascending(arrivals, Tail(queue))
          /\ \A i \in DOMAIN Tail(queue) : Nearer(arrivals, Head(queue), Tail(queue)[i])
          /\ Precedes(arrivals, recall.kept, Tail(queue))
      BY <2>3, <2>4, TailAscends
    <2>7. PICK kept : /\ kept = IF Head(queue) = recall.message THEN recall.kept
                                ELSE Append(recall.kept, Head(queue))
                      /\ recall' = [recall EXCEPT !.left = recall.left - 1, !.kept = kept]
      BY <1>3, <2>1, <2>2 DEF RecallTake, Recalled
    <2>8. Ascending(arrivals, kept) /\ Precedes(arrivals, kept, Tail(queue))
      <3>1. CASE Head(queue) = recall.message
        BY <2>4, <2>6, <2>7, <3>1
      <3>2. CASE Head(queue) # recall.message
        <4>1. \A i \in DOMAIN recall.kept : Nearer(arrivals, recall.kept[i], Head(queue))
          BY <2>4, <2>5 DEF Precedes
        <4>2. QED
          BY <1>1, <2>4, <2>5, <2>6, <2>7, <3>2, <4>1, AppendAscends
      <3>3. QED
        BY <3>1, <3>2
    <2>9. /\ recall'.phase = "take" /\ recall'.kept = kept /\ recall'.left = recall.left - 1
          /\ recall'.message = recall.message
      BY <1>1, <2>7 DEF Recallings
    <2>10. /\ Recalled' = s /\ Len(queues'[s]) = k /\ queues'[s][k] = Tail(queue)
      BY <2>1, <2>3, <2>9, ChangedLength DEF Changed, Shapes, Recalled
    <2>11. \A t \in Sessions : \A l \in DOMAIN queues'[t] : Ascending(arrivals', queues'[t][l])
      BY <1>1, <2>1, <2>3, <2>6, ChangedSorted
    <2>12. recall'.left = 0 => Precedes(arrivals, Tail(queue), kept)
      <3>1. recall'.left = 0 => Tail(queue) = <<>>
        BY <1>1, <2>4, <2>5, <2>9
      <3>2. QED
        BY <3>1, EmptyAscends
    <2>13. Len(Tail(queue)) <= recall'.left
      BY <1>1, <2>4, <2>5, <2>9
    <2>14. QED
      BY <1>1, <2>8, <2>9, <2>10, <2>11, <2>12, <2>13 DEF Sorted
  <1>4. QED
    BY <1>2, <1>3

\* Nothing is left but what was put back, and that comes before the rest.
LEMMA RecallPutSorted ==
    ASSUME Shapes, Sorted, RecallPut
    PROVE  Sorted'
  <1>1. /\ recall \in Recallings /\ recall.phase = "take" /\ recall.kept \in Seq(Messages)
        /\ recall.left = 0 /\ UNCHANGED arrivals
    BY DEF Shapes, TypeOK, RecallPut, Recallings, RecallStill, history
  <1>2. CASE recall.kept = <<>>
    <2>1. recall' = [recall EXCEPT !.phase = "signal"] /\ UNCHANGED queues
      BY <1>2 DEF RecallPut
    <2>2. recall'.phase # "take"
      BY <1>1, <2>1 DEF Recallings
    <2>3. QED
      BY <1>1, <2>1, <2>2, SortedCalm
  <1>3. CASE recall.kept # <<>>
    <2>1. PICK s, k : /\ s \in Sessions /\ k \in DOMAIN queues[s]
                      /\ s = Recalled /\ k = Len(queues[s])
      BY <1>1, RecalledQueue
    <2>2. PICK queue \in Seq(Messages) : queue = queues[s][k] /\ queue = Queue(s)
      BY <1>1, <2>1, RecalledQueue
    <2>3. PICK kept \in Seq(Messages) : kept = recall.kept
      BY <1>1
    <2>4. Changed(s, k, Append(queue, Head(kept)))
      BY <1>3, <2>1, <2>2, <2>3, RecallPutChanges
    <2>5. /\ Ascending(arrivals, kept) /\ Ascending(arrivals, queue)
          /\ Precedes(arrivals, queue, kept)
      BY <1>1, <2>1, <2>2, <2>3 DEF Sorted
    <2>6. /\ kept # <<>> /\ Head(kept) \in Messages /\ Head(kept) = kept[1] /\ 1 \in DOMAIN kept
          /\ Tail(kept) \in Seq(Messages)
      BY <1>3, <2>3, TailEntries
    <2>7. /\ Ascending(arrivals, Tail(kept))
          /\ \A i \in DOMAIN Tail(kept) : Nearer(arrivals, Head(kept), Tail(kept)[i])
          /\ Precedes(arrivals, queue, Tail(kept))
      BY <2>5, <2>6, TailAscends
    <2>8. \A i \in DOMAIN queue : Nearer(arrivals, queue[i], Head(kept))
      BY <2>5, <2>6 DEF Precedes
    <2>9. /\ Ascending(arrivals, Append(queue, Head(kept)))
          /\ Precedes(arrivals, Append(queue, Head(kept)), Tail(kept))
      BY <2>5, <2>6, <2>7, <2>8, AppendAscends
    <2>10. /\ recall'.phase = "take" /\ recall'.kept = Tail(kept) /\ recall'.left = 0
           /\ recall'.message = recall.message
      <3>1. recall' = [recall EXCEPT !.kept = Tail(recall.kept)]
        BY <1>3 DEF RecallPut
      <3>2. QED
        BY <1>1, <2>3, <3>1 DEF Recallings
    <2>11. /\ Recalled' = s /\ Len(queues'[s]) = k /\ queues'[s][k] = Append(queue, Head(kept))
      BY <2>1, <2>4, <2>10, ChangedLength DEF Changed, Shapes, Recalled
    <2>12. \A t \in Sessions : \A l \in DOMAIN queues'[t] : Ascending(arrivals', queues'[t][l])
      BY <1>1, <2>1, <2>4, <2>9, ChangedSorted
    <2>13. QED
      BY <1>1, <2>7, <2>9, <2>10, <2>11, <2>12 DEF Sorted
  <1>4. QED
    BY <1>2, <1>3

\* A recall begins with nothing kept and all that is in the queue to take.
LEMMA RecallSorted ==
    ASSUME Shapes, Sorted, NEW m \in Messages, Recall(m)
    PROVE  Sorted'
  <1>1. UNCHANGED <<queues, arrivals>> /\ recall = NoRecall
    BY DEF Recall, history
  <1>2. CASE live[SessionOf[m]]
    <2>1. recall' = [phase |-> "take", message |-> m,
                     left |-> Len(Queue(SessionOf[m])), kept |-> <<>>]
      BY <1>2 DEF Recall
    <2>2. /\ SessionOf[m] \in Sessions /\ queues[SessionOf[m]] # <<>>
      BY <1>2, MessagesAssumption DEF Shapes, References
    <2>3. PICK queue \in Seq(Messages) :
             queue = Queue(SessionOf[m]) /\ queue = queues[SessionOf[m]][Len(queues[SessionOf[m]])]
      BY <2>2, LastObject DEF Shapes
    <2>4. /\ recall'.phase = "take" /\ Recalled' = SessionOf[m]
          /\ recall'.left = Len(queue) /\ recall'.kept = <<>>
      BY <2>1, <2>3 DEF Recalled
    <2>5. Len(queue) <= Len(queue)
      OBVIOUS
    <2>6. QED
      BY <1>1, <2>3, <2>4, <2>5, EmptyAscends DEF Sorted
  <1>3. CASE ~live[SessionOf[m]]
    <2>1. recall' = [NoRecall EXCEPT !.phase = "signal", !.message = m]
      BY <1>3 DEF Recall
    <2>2. recall'.phase # "take"
      BY <2>1 DEF NoRecall
    <2>3. QED
      BY <1>1, <2>2, SortedCalm
  <1>4. QED
    BY <1>2, <1>3

\* An empty object is in order.
LEMMA ResetSorted ==
    ASSUME Shapes, Sorted, NEW m \in Messages, ResetSessions(m)
    PROVE  Sorted'
  <1>1. UNCHANGED <<arrivals, recall>> /\ lock = "free"
    BY DEF ResetSessions, history, recalls
  <1>2. recall'.phase # "take"
    BY <1>1 DEF Shapes, Recollection
  <1>3. \A s \in Sessions : queues'[s] = queues[s] \/ Opened(s)
    BY ResetChanges DEF Shapes
  <1>4. ASSUME NEW s \in Sessions, NEW k \in DOMAIN queues'[s]
        PROVE  Ascending(arrivals', queues'[s][k])
    <2>1. CASE k \in DOMAIN queues[s] /\ queues'[s][k] = queues[s][k]
      BY <1>1, <2>1 DEF Sorted
    <2>2. CASE queues'[s][k] = <<>>
      BY <2>2, EmptyAscends
    <2>3. QED
      BY <1>3, <2>1, <2>2 DEF Opened
  <1>5. QED
    BY <1>2, <1>4 DEF Sorted

\* Sorted is kept by every step.
LEMMA SortedStep ==
    ASSUME Shapes, Placed, Arrived, Sorted, [Next]_vars
    PROVE  Sorted'
  <1>1. CASE Scan \/ (\E s \in Sessions : Look(s)) \/ Check \/ Submit \/ Retire
    <2>1. UNCHANGED <<queues, arrivals, recall>>
      BY <1>1 DEF Scan, Look, Check, Submit, Retire, channel, history, recalls
    <2>2. QED
      BY <2>1, SortedCalm
  <1>2. CASE RecallSignal
    <2>1. UNCHANGED <<queues, arrivals>> /\ recall'.phase # "take"
      BY <1>2 DEF RecallSignal, NoRecall, channel, history
    <2>2. QED
      BY <2>1, SortedCalm
  <1>3. ASSUME NEW m \in Messages, Handle(m)
        PROVE  Sorted'
    <2>1. CASE ResetSessions(m)
      BY <2>1, ResetSorted
    <2>2. CASE HandlerStill
      BY <2>2, SortedCalm DEF HandlerStill, history, recalls
    <2>3. QED
      BY <1>3, <2>1, <2>2 DEF Handle, Begin, Register, Enter, Finish, Release
  <1>4. CASE UNCHANGED vars \/ \E s \in Sessions : CancelCommand(s)
    BY <1>4, SortedCalm DEF vars, CancelCommand, channel, history, recalls
  <1>5. QED
    BY <1>1, <1>2, <1>3, <1>4, ProduceSorted, GetSorted, RecallSorted, RecallTakeSorted,
       RecallPutSorted DEF Next, Consume, Recalling

----------------------------------------------------------------------------
(* The theorems.                                                           *)

IInv == Shapes /\ Placed /\ Balanced /\ Arrived /\ Sorted

\* The four parts and the history together are inductive.
LEMMA Invariance == Spec => []IInv
  <1>1. Init => IInv
    <2>1. Init => Arrived /\ Sorted
      BY DEF Init, Arrived, Sorted, NoRecall
    <2>2. QED
      BY <2>1, InitShapes, InitPlaced, InitBalanced DEF IInv
  <1>2. IInv /\ [Next]_vars => IInv'
    BY ShapesStep, PlacedStep, BalancedStep, ArrivedStep, SortedStep DEF IInv
  <1>3. QED
    BY <1>1, <1>2, PTL DEF Spec

\* For any number of permits: the permits of a live session are free, in the
\* consumer's hand, or with a message that is handled, and a session is only
\* retired when all its futures are done, whatever the consumer's looks without
\* the lock have missed.  Hence the assertion in consume() never fails.
THEOREM PermitsAlwaysBalance == Spec => []PermitsBalance
  <1>1. IInv => PermitsBalance
    <2> SUFFICES ASSUME IInv
                 PROVE  PermitsBalance
      OBVIOUS
    <2>1. TypeOK /\ References
      BY DEF IInv, Shapes
    <2>2. ASSUME consumer.pc = "retire", NEW m \in FuturesOf(consumer.session)
          PROVE  FutureDone(m)
      <3>1. consumer.session \in Sessions
        BY <2>1, <2>2 DEF References
      <3>2. m \in Messages
        BY <2>1, <2>2, <3>1, FuturesTyped
      <3>3. /\ Out(consumer.session) = {} /\ SessionOf[m] = consumer.session
            /\ stage[m] \notin Undispatched
        BY <2>2, <3>1 DEF IInv, Balanced
      <3>4. stage[m] \notin OutStages /\ stage[m] \in Stages
        BY <2>1, <3>2, <3>3 DEF Out, OutStages, TypeOK
      <3>5. QED
        BY <3>3, <3>4 DEF FutureDone, OutStages, Working, Stages, Undispatched
    <2>3. QED
      BY <2>1, <2>2 DEF PermitsBalance, IInv, Balanced
  <1>2. QED
    BY <1>1, Invariance, PTL

\* No message is handed to the pool twice, although recalls take queues apart,
\* resets replace them and the consumer may hold a replaced one.
THEOREM EveryDispatchIsOnce == Spec => []DispatchedOnce
  <1>1. IInv => DispatchedOnce
    BY DEF IInv, Placed, DispatchedOnce
  <1>2. QED
    BY <1>1, Invariance, PTL

\* Every queue is in order of arrival, urgent messages first and the latest of
\* them at the head, also after a recall has put it together again while the
\* consumer was taking from it.
THEOREM OrderIsKept == Spec => []QueuesKeepOrder
  <1>1. IInv => QueuesKeepOrder
    <2> SUFFICES ASSUME IInv, NEW s \in Sessions, live[s],
                        NEW i \in DOMAIN Queue(s), NEW j \in DOMAIN Queue(s), i < j
                 PROVE  Before(Queue(s)[i], Queue(s)[j])
      BY DEF QueuesKeepOrder
    <2>1. Len(queues[s]) \in DOMAIN queues[s] /\ Queue(s) = queues[s][Len(queues[s])]
      BY LastObject DEF IInv, Shapes, References
    <2>2. Nearer(arrivals, Queue(s)[i], Queue(s)[j])
      BY <2>1 DEF IInv, Sorted, Ascending
    <2>3. QED
      BY <2>2 DEF Nearer, Rank, Before, At
  <1>2. QED
    BY <1>1, Invariance, PTL

\* A run that waits for its session, or has it, has a token in the registry:
\* runs of one session that end do not take each other's away.
THEOREM RunsStayCancellable == Spec => []EveryRunIsCancellable
  <1>1. Init => EveryRunIsCancellable
    BY DEF Init, EveryRunIsCancellable
  <1>2. IInv /\ IInv' /\ EveryRunIsCancellable /\ [Next]_vars => EveryRunIsCancellable'
    <2> SUFFICES ASSUME IInv, IInv', EveryRunIsCancellable, [Next]_vars
                 PROVE  EveryRunIsCancellable'
      OBVIOUS
    <2>1. stage \in [Messages -> Stages]
      BY DEF IInv, Shapes, TypeOK
    <2>2. ASSUME UNCHANGED tokens,
                 \A n \in Messages : stage'[n] \in {"waiting", "running"} => stage'[n] = stage[n]
          PROVE  EveryRunIsCancellable'
      BY <2>2 DEF EveryRunIsCancellable, TokenOf
    <2>3. ASSUME NEW m \in Messages, Handle(m)
          PROVE  EveryRunIsCancellable'
      <3>1. CASE Begin(m) \/ Release(m)
        BY <2>1, <2>2, <3>1 DEF Begin, Release, Move, registry
      <3>2. CASE Register(m) \/ Enter(m) \/ Finish(m)
        BY <2>1, <3>2 DEF Register, Enter, Finish, Move, Unregister, TokenOf, EveryRunIsCancellable
      <3>3. CASE ResetSessions(m)
        BY <2>1, <2>2, <3>3 DEF ResetSessions, Move, registry
      <3>4. QED
        BY <2>3, <3>1, <3>2, <3>3 DEF Handle
    <2>4. ASSUME UNCHANGED tokens, UNCHANGED stage \/ \E n, to :
                    to \notin {"waiting", "running"} /\ Move(n, to)
          PROVE  EveryRunIsCancellable'
      BY <2>1, <2>2, <2>4 DEF Move
    <2>5. ASSUME NEW m \in Messages, Produce(m) \/ Recall(m)
          PROVE  EveryRunIsCancellable'
      BY <2>4, <2>5 DEF Produce, Recall, registry
    <2>6. CASE Consume
      BY <2>4, <2>6 DEF Consume, Scan, Look, Check, Get, Submit, Retire, registry
    <2>7. CASE Recalling
      BY <2>4, <2>7 DEF Recalling, RecallTake, RecallPut, RecallSignal, RecallStill, registry
    <2>8. CASE UNCHANGED vars \/ \E s \in Sessions : CancelCommand(s)
      BY <2>4, <2>8 DEF vars, CancelCommand, registry
    <2>9. QED
      BY <2>3, <2>5, <2>6, <2>7, <2>8 DEF Next
  <1>3. QED
    BY <1>1, <1>2, Invariance, PTL DEF Spec

=============================================================================
