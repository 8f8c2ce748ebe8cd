----------------------- MODULE ResponseStreamProofs -----------------------
(***************************************************************************)
(* Proofs about ResponseStream, for any processes, capacity, number of     *)
(* events and faults: ShownIsDurable, DoneIsTrueAndComplete and            *)
(* NothingAfterClear, that is all its properties but liveness.             *)
(*                                                                         *)
(*  - Shapes: the types, who works on what, and that a journal nobody      *)
(*    refers to is empty.  One that is installed is such a journal, so the *)
(*    worker's journal is never found where another was.                   *)
(*  - Sound: whatever a journal, a generator or the client holds as event  *)
(*    i may be said of event i (SoundAt): it is the database's, or made up *)
(*    by a process; outcomes are those of the run.  It lasts, since the    *)
(*    database only grows and outcomes are final.                          *)
(*  - Seen: the client has the events 1, 2, 3... without a gap, and        *)
(*    nothing after an error.                                              *)
(*  - Complete: while the worker's journal takes events, the database has  *)
(*    all that were emitted; so "done" comes after all of them or never.   *)
(***************************************************************************)
EXTENDS ResponseStream, FiniteSetTheorems, TLAPS

----------------------------------------------------------------------------
(* The invariant.                                                          *)

Placed ==
    /\ worker.pc \in {"agent", "settled", "sent"} => worker.proc = Home
    /\ worker.pc \in {"none", "over"} => worker.proc = None
    /\ exec = "queued" => worker.pc = "none" /\ events = <<>> /\ worker.emitted = 0
    /\ stream.pc # "idle" => stream.proc \in Procs
    /\ stream.pc \in {"top", "read", "pass"} => stream.q \in JournalIds
    /\ stream.pc = "pass" => stream.held \in Items /\ stream.cursor > 0
    /\ \A j \in JournalIds : j \notin Referenced(queues, stream) => journal[j] = Unused

Shapes == TypeOK /\ Placed

\* What may be said of an item that is the i-th of a log, or was sent as such,
\* when the database holds es, the run's state is x, and the worker has strayed.
SoundAt(item, i, es, x, lost) ==
    /\ item.kind = "done" => x = "completed"
    /\ item.kind = "cancelled" => x = "cancelled"
    /\ item.kind = "withheld" => x = "failed"
    /\ item.kind = "unavailable" <=> i = 0
    /\ \/ lost \/ i = 0 \/ item.kind \in LocalOnly
       \/ i \in DOMAIN es /\ es[i] = item

SoundLog(log, es, x, lost) == \A i \in DOMAIN log : SoundAt(log[i], i, es, x, lost)

Sound ==
    /\ SoundLog(events, events, exec, strayed)
    /\ \A j \in JournalIds : SoundLog(journal[j].log, events, exec, strayed)
    /\ SoundLog(stream.read, events, exec, strayed)
    /\ stream.pc = "pass" => SoundAt(stream.held, stream.cursor, events, exec, strayed)
    /\ \A i \in DOMAIN shown : SoundAt(shown[i].item, shown[i].id, events, exec, strayed)

Seen ==
    /\ \A i \in DOMAIN shown :
          /\ shown[i].id \in {0, i}
          /\ shown[i].item.kind \in Failures \cup {"unavailable"} => i = Len(shown) /\ ~live
    /\ live => /\ stream.pc # "idle"
               /\ stream.cursor = IF stream.pc = "pass" THEN Len(shown) + 1 ELSE Len(shown)

Emitted(n) == [i \in 1..n |-> Progress(i)]

Writable(jr) == jr.writer /\ ~jr.stopped /\ ~jr.invalid

Fresh ==
    /\ worker.pc \in {"agent", "settled"}
    /\ queues[Home] \in JournalIds /\ Writable(journal[queues[Home]])
    /\ status = "current" /\ ~EndsDelivery(events)

HasDone(es) == \E i \in DOMAIN es : es[i].kind = "done"

Complete ==
    ~strayed =>
      /\ Fresh => events = Emitted(worker.emitted)
      /\ HasDone(events) => /\ worker.pc \in {"sent", "over"}
                            /\ events = Append(Emitted(worker.emitted), Note("done"))

IInv == Shapes /\ Sound /\ Seen /\ Complete

----------------------------------------------------------------------------
(* Journals.                                                               *)

\* There is always a journal that nobody refers to.
LEMMA FreeIsFree ==
    ASSUME TypeOK
    PROVE  FreeJournal \in JournalIds /\ FreeJournal \notin Referenced(queues, stream)
<1> DEFINE R == {queues[p] : p \in Procs}
           F == JournalIds \ Referenced(queues, stream)
<1>1. IsFiniteSet(R) /\ Cardinality(R) <= Cardinality(Procs)
  <2>1. queues \in Surjection(Procs, R)
    BY DEF TypeOK, Surjection
  <2> QED BY <2>1, HomeAssumption, FS_Surjection
<1>2. Cardinality(Procs) \in Nat
  BY HomeAssumption, FS_CardinalityType
<1>3. /\ IsFiniteSet(Referenced(queues, stream))
      /\ Cardinality(Referenced(queues, stream)) <= Cardinality(Procs) + 1
  <2>1. Referenced(queues, stream) = R \cup {stream.q}
    BY DEF Referenced
  <2>2. Cardinality(R) \in Nat
    BY <1>1, FS_CardinalityType
  <2> QED BY <2>1, <2>2, <1>1, <1>2, FS_AddElement
<1>4. Cardinality(JournalIds) = Cardinality(Procs) + 2
  BY <1>2, FS_Interval DEF JournalIds
<1>5. F # {}
  <2> SUFFICES ASSUME F = {} PROVE FALSE
    OBVIOUS
  <2>1. JournalIds \in SUBSET Referenced(queues, stream)
    OBVIOUS
  <2>2. Cardinality(JournalIds) <= Cardinality(Referenced(queues, stream))
    BY <2>1, <1>3, FS_Subset
  <2>3. Cardinality(Referenced(queues, stream)) \in Nat
    BY <1>3, FS_CardinalityType
  <2> QED BY <2>2, <2>3, <1>2, <1>3, <1>4
<1> QED BY <1>5 DEF FreeJournal

\* What is collected is empty, the rest stays.
LEMMA KeptAt ==
    ASSUME NEW js \in [JournalIds -> Journals], NEW qs, NEW st
    PROVE  /\ Kept(js, qs, st) \in [JournalIds -> Journals]
           /\ \A j \in JournalIds :
                /\ j \in Referenced(qs, st) => Kept(js, qs, st)[j] = js[j]
                /\ j \notin Referenced(qs, st) => Kept(js, qs, st)[j] = Unused
           /\ Unused \in Journals /\ DOMAIN Unused.log = {}
<1>1. Unused \in Journals
  BY DEF Unused, Journals
<1> QED BY <1>1 DEF Kept, Unused

\* The locals of a generator that begins.
LEMMA EnterFields ==
    ASSUME NEW p, NEW j
    PROVE  /\ DOMAIN Enter(p, j) = {"pc", "proc", "q", "cursor", "post", "held", "read"}
           /\ Enter(p, j).pc = "top" /\ Enter(p, j).proc = p /\ Enter(p, j).q = j
           /\ Enter(p, j).cursor = LastSeen /\ Enter(p, j).read = <<>>
BY DEF Enter, Idle

\* Items are made by Note and Progress.
LEMMA ItemTypes ==
    /\ \A k \in Kinds : Note(k) \in Items /\ Note(k).kind = k
    /\ \A n \in Nat : Progress(n) \in Items /\ Progress(n).kind = "progress"
BY DEF Items, Note, Progress, Kinds

\* An event more in a journal.
LEMMA LoggedType ==
    ASSUME NEW jr \in Journals, NEW item \in Items, NEW last \in BOOLEAN
    PROVE  /\ Logged(jr, item, last) \in Journals
           /\ Logged(jr, item, last).log = Append(jr.log, item)
           /\ Logged(jr, item, last).writer = jr.writer
           /\ Logged(jr, item, last).stopped = last
           /\ Logged(jr, item, last).invalid = jr.invalid
<1>1. Append(jr.log, item) \in Seq(Items)
  BY DEF Journals
<1> HIDE DEF Items
<1> QED BY <1>1 DEF Logged, Journals

\* hydrate() changes the log only, to the longer one.
LEMMA HydratedType ==
    ASSUME NEW jr \in Journals, NEW es \in Seq(Items)
    PROVE  /\ Hydrated(jr, es) \in Journals
           /\ Hydrated(jr, es).log \in {jr.log, es}
           /\ Hydrated(jr, es).writer = jr.writer
           /\ Hydrated(jr, es).stopped = jr.stopped
           /\ Hydrated(jr, es).invalid = jr.invalid
BY DEF Hydrated, Journals

\* What put() may do to journal j and to the database.
Stored(j, item) ==
    \/ ~Writable(journal[j]) /\ UNCHANGED <<journal, events, faults>>
    \/ \E what \in {item, Note("overflow")}, last \in BOOLEAN :
         /\ Writable(journal[j]) \/ (~journal[j].writer /\ UNCHANGED events)
         /\ journal[j].writer => /\ Accepts(journal[j].log, what)
                                 /\ events' = Append(events, what)
         /\ what # item => last
         /\ journal' = [journal EXCEPT ![j] = Logged(@, what, last)]
         /\ UNCHANGED faults
    \/ /\ Writable(journal[j])
       /\ journal' = [journal EXCEPT ![j] = Logged(@, Note("unconfirmed"), TRUE)]
       /\ \/ events' = events
          \/ /\ Accepts(journal[j].log, Note("unconfirmed"))
             /\ events' = Append(events, Note("unconfirmed"))
       /\ UNCHANGED faults \/ Fault

\* put() does what Stored says.
LEMMA PutStores ==
    ASSUME TypeOK, NEW j \in JournalIds, NEW item \in Items, Put(j, item)
    PROVE  Stored(j, item)
<1> DEFINE full == Len(journal[j].log) >= Capacity
<1>1. journal[j] \in Journals
  BY DEF TypeOK
<1>2. full \in BOOLEAN
  OBVIOUS
<1> QED BY <1>1, <1>2 DEF Put, Stored, Writable, Journals

\* So does a write, unless the worker finds no journal and has strayed.
LEMMA WriteStores ==
    ASSUME TypeOK, worker.proc \in Procs, NEW item \in Items, Write(item)
    PROVE  /\ strayed' \in BOOLEAN /\ (strayed => strayed')
           /\ \/ strayed' /\ UNCHANGED <<journal, events, faults>>
              \/ /\ queues[worker.proc] \in JournalIds
                 /\ Stored(queues[worker.proc], item)
                 /\ ~strayed' => journal[queues[worker.proc]].writer
<1>1. queues[worker.proc] \in JournalIds \cup {None}
  BY DEF TypeOK
<1>2. strayed' \in BOOLEAN /\ (strayed => strayed')
  BY DEF Write, TypeOK
<1>3. CASE queues[worker.proc] = None
  BY <1>2, <1>3 DEF Write, TypeOK
<1>4. CASE queues[worker.proc] # None
  <2>1. queues[worker.proc] \in JournalIds /\ Put(queues[worker.proc], item)
    BY <1>1, <1>4 DEF Write
  <2>2. Stored(queues[worker.proc], item)
    BY <2>1, PutStores
  <2>3. ~strayed' => journal[queues[worker.proc]].writer
    BY <1>4, <1>2 DEF Write
  <2> QED BY <1>2, <2>1, <2>2, <2>3
<1> QED BY <1>3, <1>4

\* A write changes one journal, keeps its flags but one, and the database grows.
LEMMA StoredTypes ==
    ASSUME TypeOK, NEW j \in JournalIds, NEW item \in Items, Stored(j, item)
    PROVE  /\ journal' \in [JournalIds -> Journals]
           /\ events' \in Seq(Items)
           /\ faults' \in 0..MaxFaults
           /\ events' = events \/ \E e \in Items : events' = Append(events, e)
           /\ \A k \in JournalIds \ {j} : journal'[k] = journal[k]
           /\ journal'[j].writer = journal[j].writer
           /\ journal'[j].invalid = journal[j].invalid
<1>1. journal[j] \in Journals /\ journal \in [JournalIds -> Journals]
  BY DEF TypeOK
<1>2. Note("overflow") \in Items /\ Note("unconfirmed") \in Items
  BY ItemTypes DEF Kinds, LocalOnly
<1>3. \A what \in Items, last \in BOOLEAN :
        LET js == [journal EXCEPT ![j] = Logged(@, what, last)]
        IN /\ js \in [JournalIds -> Journals]
           /\ \A k \in JournalIds \ {j} : js[k] = journal[k]
           /\ js[j].writer = journal[j].writer /\ js[j].invalid = journal[j].invalid
  BY <1>1, LoggedType
<1>4. faults' = faults \/ Fault => faults' \in 0..MaxFaults
  BY BoundsAssumption DEF Fault, TypeOK
<1>5. events' = events \/ \E e \in Items : events' = Append(events, e)
  BY <1>2 DEF Stored, Writable
<1>6. events' \in Seq(Items)
  <2> HIDE DEF Items
  <2> QED BY <1>5 DEF TypeOK
<1>7. CASE UNCHANGED <<journal, events, faults>>
  BY <1>1, <1>4, <1>5, <1>6, <1>7
<1>8. ASSUME NEW what \in Items, NEW last \in BOOLEAN, faults' = faults \/ Fault,
             journal' = [journal EXCEPT ![j] = Logged(@, what, last)]
      PROVE  /\ journal' \in [JournalIds -> Journals] /\ faults' \in 0..MaxFaults
             /\ \A k \in JournalIds \ {j} : journal'[k] = journal[k]
             /\ journal'[j].writer = journal[j].writer
             /\ journal'[j].invalid = journal[j].invalid
  BY <1>3, <1>4, <1>8
<1> QED BY <1>2, <1>5, <1>6, <1>7, <1>8 DEF Stored

\* A marker is appended once.
LEMMA MarkerType ==
    ASSUME events \in Seq(Items)
    PROVE  /\ WithMarker(events, "cancelled") \in Seq(Items)
           /\ \/ WithMarker(events, "cancelled") = events
              \/ WithMarker(events, "cancelled") = Append(events, Note("cancelled"))
           /\ EndsDelivery(WithMarker(events, "cancelled"))
<1>1. Note("cancelled") \in Items /\ Note("cancelled").kind = "cancelled"
  BY ItemTypes DEF Kinds, Terminal
<1> HIDE DEF Items
<1>2. CASE EndsDelivery(events)
  BY <1>2 DEF WithMarker
<1>3. CASE ~EndsDelivery(events)
  <2> DEFINE es == Append(events, Note("cancelled"))
  <2> HIDE DEF Note
  <2>1. es \in Seq(Items) /\ es # <<>>
    BY <1>1
  <2>2. Len(es) = Len(events) + 1 /\ es[Len(events) + 1] = Note("cancelled")
    BY <1>1
  <2> QED BY <1>1, <1>3, <2>1, <2>2 DEF WithMarker, EndsDelivery, Terminal
<1> QED BY <1>2, <1>3

----------------------------------------------------------------------------
(* Types.                                                                  *)

\* The end of a generator, and what it may say last.
LEMMA EndTypes ==
    ASSUME TypeOK, NEW drop \in BOOLEAN, End(drop), stream.pc # "idle" => stream.proc \in Procs
    PROVE  /\ stream' \in Generators /\ stream' = Idle
           /\ queues' \in [Procs -> JournalIds \cup {None}]
           /\ \A p \in Procs : queues'[p] \in {queues[p], None}
           /\ journal' \in [JournalIds -> Journals]
           /\ \A j \in JournalIds : journal'[j] \in {journal[j], Unused}
           /\ live' = FALSE
<1>1. Idle \in Generators
  BY DEF Idle, Generators
<1>2. /\ queues' \in [Procs -> JournalIds \cup {None}]
      /\ \A p \in Procs : queues'[p] \in {queues[p], None}
  BY DEF End, TypeOK
<1>3. /\ journal' \in [JournalIds -> Journals]
      /\ \A j \in JournalIds : journal'[j] \in {journal[j], Unused}
  BY KeptAt DEF End, TypeOK
<1> QED BY <1>1, <1>2, <1>3 DEF End

\* The client receives an item with an id.
LEMMA YieldTypes ==
    ASSUME TypeOK, NEW id \in Nat, NEW item \in Items, Yield(id, item)
    PROVE  /\ shown' \in Seq(Entries)
           /\ shown' = shown \/ (live /\ shown' = Append(shown, [id |-> id, item |-> item]))
<1>1. [id |-> id, item |-> item] \in Entries
  BY DEF Entries
<1> QED BY <1>1 DEF Yield, TypeOK

\* The worker's steps keep the types.
LEMMA TypesWorker ==
    ASSUME Shapes, Worker
    PROVE  TypeOK'
<1> USE DEF TypeOK, ledger, client
<1>1. CASE Claim
  <2>1. FreeJournal \in JournalIds
    BY FreeIsFree DEF Shapes
  <2>2. [Unused EXCEPT !.log = events, !.writer = TRUE] \in Journals
    <3> HIDE DEF Items
    <3> QED BY DEF Shapes, Unused, Journals
  <2>3. journal' \in [JournalIds -> Journals]
    BY <1>1, <2>1, <2>2, KeptAt DEF Claim, Shapes
  <2>4. queues' \in [Procs -> JournalIds \cup {None}]
    BY <1>1, <2>1 DEF Claim, Shapes
  <2>5. worker' \in [pc : {"none", "agent", "settled", "sent", "over"},
                     proc : Procs \cup {None}, emitted : 0..MaxProgress]
    BY <1>1, HomeAssumption DEF Claim, Shapes
  <2> QED BY <1>1, <2>3, <2>4, <2>5 DEF Claim, Shapes
<1>2. CASE Emit
  <2>1. worker.proc \in Procs
    BY <1>2, HomeAssumption DEF Emit, Shapes, Placed
  <2>2. worker.emitted \in Nat /\ worker.emitted + 1 \in 0..MaxProgress
    BY <1>2, BoundsAssumption DEF Emit, Shapes
  <2>3. Progress(worker.emitted + 1) \in Items
    BY <2>2, ItemTypes
  <2>4. /\ strayed' \in BOOLEAN /\ journal' \in [JournalIds -> Journals]
        /\ events' \in Seq(Items) /\ faults' \in 0..MaxFaults
    BY <1>2, <2>1, <2>3, WriteStores, StoredTypes DEF Emit, Shapes
  <2>5. worker' \in [pc : {"none", "agent", "settled", "sent", "over"},
                     proc : Procs \cup {None}, emitted : 0..MaxProgress]
    BY <1>2, <2>2 DEF Emit, Shapes
  <2> QED BY <1>2, <2>4, <2>5 DEF Emit, Shapes
<1>3. CASE Settle
  <2>1. events' \in Seq(Items)
    <3>1. WithMarker(events, "cancelled") \in Seq(Items)
      BY MarkerType DEF Shapes
    <3> QED BY <1>3, <3>1 DEF Settle, Shapes
  <2>2. worker' \in [pc : {"none", "agent", "settled", "sent", "over"},
                     proc : Procs \cup {None}, emitted : 0..MaxProgress]
    BY <1>3 DEF Settle, Shapes
  <2> QED BY <1>3, <2>1, <2>2 DEF Settle, Shapes
<1>4. CASE Send
  <2>1. worker.proc \in Procs
    BY <1>4, HomeAssumption DEF Send, Shapes, Placed
  <2>2. worker' \in [pc : {"none", "agent", "settled", "sent", "over"},
                     proc : Procs \cup {None}, emitted : 0..MaxProgress]
    BY <1>4 DEF Send, Shapes
  <2>3. CASE exec = "cancelled"
    <3>1. queues[worker.proc] # None => queues[worker.proc] \in JournalIds
      BY <2>1 DEF Shapes
    <3>2. \A j \in JournalIds : Hydrated(journal[j], events) \in Journals
      BY HydratedType DEF Shapes
    <3>3. journal' \in [JournalIds -> Journals]
      BY <1>4, <2>3, <3>1, <3>2 DEF Send, Shapes
    <3> QED BY <1>4, <2>2, <2>3, <3>3 DEF Send, Shapes
  <2>4. CASE exec # "cancelled"
    <3>1. PICK kind \in Verdict : Write(Note(kind))
      BY <1>4, <2>4 DEF Send
    <3>2. Note(kind) \in Items
      BY ItemTypes DEF Verdict, Kinds, Terminal, Failures
    <3>3. /\ strayed' \in BOOLEAN /\ journal' \in [JournalIds -> Journals]
          /\ events' \in Seq(Items) /\ faults' \in 0..MaxFaults
      BY <3>1, <3>2, <2>1, WriteStores, StoredTypes DEF Shapes
    <3> QED BY <1>4, <2>2, <3>3 DEF Send, Shapes
  <2> QED BY <2>3, <2>4
<1>5. CASE Speak
  <2>1. worker.proc \in Procs
    BY <1>5, HomeAssumption DEF Speak, Shapes, Placed
  <2>2. Note("voice_attach") \in Items
    BY ItemTypes DEF Kinds
  <2>3. worker' \in [pc : {"none", "agent", "settled", "sent", "over"},
                     proc : Procs \cup {None}, emitted : 0..MaxProgress]
    BY <1>5 DEF Speak, Shapes
  <2>4. /\ strayed' \in BOOLEAN /\ journal' \in [JournalIds -> Journals]
        /\ events' \in Seq(Items) /\ faults' \in 0..MaxFaults
    BY <1>5, <2>1, <2>2, WriteStores, StoredTypes DEF Speak, Shapes
  <2> QED BY <1>5, <2>3, <2>4 DEF Speak, Shapes
<1> QED BY <1>1, <1>2, <1>3, <1>4, <1>5 DEF Worker

\* The ledger and the client keep the types.
LEMMA TypesLedger ==
    ASSUME Shapes, Ledger \/ Leave
    PROVE  TypeOK'
<1> USE DEF TypeOK, ledger, client
<1>1. CASE Expire
  BY <1>1 DEF Expire, Shapes
<1>2. WithMarker(events, "cancelled") \in Seq(Items)
  BY MarkerType DEF Shapes
<1>3. CASE CancelQueued
  BY <1>2, <1>3 DEF CancelQueued, Shapes
<1>4. CASE BeginMutation
  <2>1. events' \in Seq(Items)
    BY <1>2, <1>4 DEF BeginMutation, Shapes
  <2>2. exec' \in {"queued", "running", "completed", "cancelled", "failed"}
    BY <1>4 DEF BeginMutation, Shapes
  <2> QED BY <1>4, <2>1, <2>2 DEF BeginMutation, Shapes
<1>5. CASE Leave
  <2>1. faults' \in 0..MaxFaults
    BY <1>5, BoundsAssumption DEF Leave, Fault, Shapes
  <2> QED BY <1>5, <2>1 DEF Leave, Shapes
<1> QED BY <1>1, <1>3, <1>4, <1>5 DEF Ledger

\* What is recovered from the database is what the database has, but for
\* what is made up: withheld and closing errors.
LEMMA RecoveredSound ==
    ASSUME Shapes, SoundLog(events, events, exec, strayed)
    PROVE  /\ Recovered(events) \in Seq(Items)
           /\ SoundLog(Recovered(events), events, exec, strayed)
<1> DEFINE kept == Withheld(events)
<1>1. events \in Seq(Items) /\ DOMAIN events = 1..Len(events) /\ Len(events) \in Nat
  BY DEF Shapes, TypeOK
<1>2. \A kind \in {"withheld", "recovered", "overflow"} : 
         Note(kind) \in Items /\ Note(kind).kind = kind
  BY ItemTypes DEF Kinds, LocalOnly
<1>3. /\ kept \in Seq(Items) /\ Len(kept) = Len(events)
      /\ \A i \in 1..Len(events) :
            kept[i] = events[i] \/ kept[i] = Note("withheld")
  <2>1. kept \in [1..Len(events) -> Items]
    BY <1>1, <1>2 DEF Withheld
  <2>2. kept \in Seq(Items)
    BY <1>1, <2>1
  <2> QED BY <1>1, <2>1, <2>2 DEF Withheld
<1>4. ASSUME NEW es \in Seq(Items), Len(es) = Len(events)
      PROVE  /\ Closed(es) \in Seq(Items) /\ Len(Closed(es)) = Len(es) + 1
             /\ \A i \in 1..Len(es) : Closed(es)[i] = es[i]
             /\ Closed(es)[Len(es) + 1].kind \in {"recovered", "overflow"}
  <2>1. PICK kind \in {"recovered", "overflow"} : Closed(es) = Append(es, Note(kind))
    BY DEF Closed
  <2> HIDE DEF Items
  <2> QED BY <1>2, <1>4, <2>1
<1>5. \A i \in 1..Len(events) : SoundAt(events[i], i, events, exec, strayed)
  BY <1>1 DEF SoundLog
<1> HIDE DEF kept
<1>6. CASE exec = "failed"
  <2>1. Recovered(events) = Closed(kept)
    BY <1>6 DEF Recovered, kept
  <2>2. /\ Closed(kept) \in Seq(Items) /\ Len(Closed(kept)) = Len(events) + 1
        /\ \A i \in 1..Len(events) : Closed(kept)[i] = kept[i]
        /\ Closed(kept)[Len(events) + 1].kind \in {"recovered", "overflow"}
    BY <1>3, <1>4
  <2> SUFFICES ASSUME NEW i \in DOMAIN Closed(kept)
               PROVE  SoundAt(Closed(kept)[i], i, events, exec, strayed)
    BY <2>1, <2>2 DEF SoundLog
  <2>3. CASE i \in 1..Len(events)
    <3>1. CASE kept[i] = events[i]
      BY <1>5, <2>2, <2>3, <3>1
    <3>2. CASE kept[i] = Note("withheld")
      BY <1>2, <1>6, <2>2, <2>3, <3>2 DEF SoundAt, LocalOnly
    <3> QED BY <1>3, <2>3, <3>1, <3>2
  <2>4. CASE i = Len(events) + 1
    BY <1>1, <2>2, <2>4 DEF SoundAt, LocalOnly
  <2> QED BY <1>1, <2>2, <2>3, <2>4
<1>7. CASE exec \in {"completed", "cancelled"} /\ ~EndsDelivery(events)
  <2>1. Recovered(events) = Closed(events)
    BY <1>7 DEF Recovered
  <2>2. /\ Closed(events) \in Seq(Items) /\ Len(Closed(events)) = Len(events) + 1
        /\ \A i \in 1..Len(events) : Closed(events)[i] = events[i]
        /\ Closed(events)[Len(events) + 1].kind \in {"recovered", "overflow"}
    BY <1>1, <1>4
  <2> SUFFICES ASSUME NEW i \in DOMAIN Closed(events)
               PROVE  SoundAt(Closed(events)[i], i, events, exec, strayed)
    BY <2>1, <2>2 DEF SoundLog
  <2>3. CASE i \in 1..Len(events)
    BY <1>5, <2>2, <2>3
  <2>4. CASE i = Len(events) + 1
    BY <1>1, <2>2, <2>4 DEF SoundAt, LocalOnly
  <2> QED BY <1>1, <2>2, <2>3, <2>4
<1>8. CASE /\ exec # "failed"
           /\ ~(exec \in {"completed", "cancelled"} /\ ~EndsDelivery(events))
  <2>1. Recovered(events) = events
    BY <1>8 DEF Recovered
  <2> QED BY <1>1, <2>1
<1> QED BY <1>6, <1>7, <1>8

\* What the client has seen last is a number.
LEMMA LastSeenType ==
    ASSUME TypeOK, Sound, Seen, ~Told
    PROVE  LastSeen = Len(shown)
<1> DEFINE ids == {shown[i].id : i \in DOMAIN shown}
<1>1. shown \in Seq(Entries)
  BY DEF TypeOK
<1>2. \A i \in DOMAIN shown : shown[i].id = i
  <2> SUFFICES ASSUME NEW i \in DOMAIN shown PROVE shown[i].id = i
    OBVIOUS
  <2>1. SoundAt(shown[i].item, shown[i].id, events, exec, strayed)
    BY DEF Sound
  <2>2. shown[i].item.kind # "unavailable"
    BY DEF Told
  <2> QED BY <2>1, <2>2 DEF Seen, SoundAt
<1>3. ids = 1..Len(shown)
  BY <1>1, <1>2
<1>4. CASE shown = <<>>
  BY <1>3, <1>4, <1>1 DEF LastSeen
<1>5. CASE shown # <<>>
  <2>0. Len(shown) \in Nat \ {0}
    BY <1>1, <1>5
  <2>1. Len(shown) \in ids /\ \A m \in ids : m <= Len(shown)
    BY <1>3, <2>0
  <2>2. ids # {}
    BY <2>1
  <2> HIDE DEF ids
  <2>3. \A n \in ids : (\A m \in ids : m <= n) => n = Len(shown)
    BY <2>1, <1>3, <1>1
  <2> QED BY <2>1, <2>2, <2>3 DEF LastSeen, ids
<1> QED BY <1>4, <1>5

\* So do generators,
LEMMA TypesGenerator ==
    ASSUME Shapes, Generator
    PROVE  TypeOK'
<1> USE DEF TypeOK, ledger, client
<1>1. /\ live \in BOOLEAN /\ stream.post \in BOOLEAN /\ stream \in Generators
      /\ (live \/ stream.post) \in BOOLEAN
      /\ stream.pc # "idle" => stream.proc \in Procs
      /\ shown \in Seq(Entries) /\ events \in Seq(Items)
      /\ journal \in [JournalIds -> Journals] /\ stream.cursor \in Nat
  BY DEF Shapes, Placed, Generators
<1>2. Fault => faults' \in 0..MaxFaults
  BY BoundsAssumption DEF Fault, Shapes
<1>3. NotCurrent \/ Current => faults' \in 0..MaxFaults
  BY <1>2 DEF NotCurrent, Current, Shapes
<1>4. ASSUME NEW drop \in BOOLEAN, End(drop), UNCHANGED shown
      PROVE  /\ stream' \in Generators /\ queues' \in [Procs -> JournalIds \cup {None}]
             /\ journal' \in [JournalIds -> Journals] /\ live' \in BOOLEAN
             /\ shown' \in Seq(Entries)
  BY <1>1, <1>4, EndTypes DEF Shapes
<1>5. ASSUME NEW drop \in BOOLEAN, Refuse(drop)
      PROVE  /\ stream' \in Generators /\ queues' \in [Procs -> JournalIds \cup {None}]
             /\ journal' \in [JournalIds -> Journals] /\ live' \in BOOLEAN
             /\ shown' \in Seq(Entries)
  <2>1. Note("unavailable") \in Items
    BY ItemTypes DEF Kinds
  <2> QED BY <1>1, <1>5, <2>1, EndTypes, YieldTypes DEF Shapes, Refuse
<1>6. CASE Top
  <2>1. CASE Current /\ stream' = [stream EXCEPT !.pc = "read"]
             /\ UNCHANGED <<queues, journal, client>>
    <3>1. stream' \in Generators
      BY <2>1, <1>1 DEF Generators
    <3> QED BY <1>3, <1>6, <2>1, <3>1 DEF Top, Shapes
  <2>2. CASE NotCurrent /\ Refuse(live \/ stream.post)
    BY <1>1, <1>3, <1>5, <1>6, <2>2 DEF Top, Shapes
  <2> QED BY <1>6, <2>1, <2>2 DEF Top
<1>7. CASE Read
  <2> DEFINE log == journal[stream.q].log
             more == log \o SubSeq(events, stream.cursor + 1, Len(events))
  <2>0. stream.q \in JournalIds /\ stream.pc = "read"
    BY <1>7 DEF Read, Shapes, Placed
  <2>1. log \in Seq(Items)
    BY <1>1, <2>0 DEF Journals
  <2>2. CASE /\ Len(log) > stream.cursor
             /\ stream' = [stream EXCEPT !.pc = "pass", !.cursor = @ + 1,
                                         !.held = log[stream.cursor + 1]]
             /\ UNCHANGED <<queues, journal, client, faults>>
    <3>1. log[stream.cursor + 1] \in Items
      BY <2>1, <2>2, <1>1
    <3> HIDE DEF log
    <3>2. PICK held \in Items : stream' = [stream EXCEPT !.pc = "pass", !.cursor = @ + 1,
                                                         !.held = held]
      BY <3>1, <2>2
    <3>3. stream.cursor + 1 \in Nat
      BY <1>1
    <3>4. stream' \in Generators
      BY <3>2, <3>3, <1>1 DEF Generators
    <3> QED BY <1>7, <2>2, <3>4 DEF Read, Shapes
  <2>3. CASE /\ journal' = [journal EXCEPT ![stream.q] = Hydrated(@, more)]
             /\ stream' = [stream EXCEPT !.pc = "top"]
             /\ UNCHANGED <<queues, client, faults>>
    <3>1. more \in Seq(Items)
      <4> HIDE DEF Items, log
      <4>1. SubSeq(events, stream.cursor + 1, Len(events)) \in Seq(Items)
        BY <1>1
      <4> QED BY <4>1, <2>1
    <3> HIDE DEF more
    <3>2. journal' \in [JournalIds -> Journals]
      BY <3>1, <2>3, <2>0, <1>1, HydratedType
    <3>3. stream' \in Generators
      BY <2>3, <1>1 DEF Generators
    <3> QED BY <1>7, <2>3, <3>2, <3>3 DEF Read, Shapes
  <2>4. CASE Refuse(stream.post) /\ (Fault \/ UNCHANGED faults)
    BY <1>1, <1>2, <1>5, <1>7, <2>4 DEF Read, Shapes
  <2>5. CASE stream' = [stream EXCEPT !.pc = "top"] /\ UNCHANGED <<queues, client, journal, faults>>
    <3>1. stream' \in Generators
      BY <2>5, <1>1 DEF Generators
    <3> QED BY <1>7, <2>5, <3>1 DEF Read, Shapes
  <2>6. CASE End(TRUE) /\ UNCHANGED <<shown, faults>>
    BY <1>4, <1>7, <2>6 DEF Read, Shapes
  <2> QED BY <1>7, <2>2, <2>3, <2>4, <2>5, <2>6 DEF Read
<1>8. CASE Pass
  <2>1. CASE /\ Current /\ Yield(stream.cursor, stream.held)
             /\ stream' = [stream EXCEPT !.pc = "top", !.held = None,
                               !.post = @ \/ stream.held.kind \in Terminal \cup {"voice_attach"}]
             /\ live' = (stream.held.kind \notin Failures)
             /\ UNCHANGED <<queues, journal>>
    <3>1. stream.held \in Items
      BY <1>8 DEF Pass, Shapes, Placed
    <3>2. shown' \in Seq(Entries)
      BY <2>1, <3>1, <1>1, YieldTypes DEF Shapes
    <3>3. (stream.post \/ stream.held.kind \in Terminal \cup {"voice_attach"}) \in BOOLEAN
      OBVIOUS
    <3>4. stream' \in Generators
      BY <2>1, <3>3, <1>1 DEF Generators
    <3> QED BY <1>3, <1>8, <2>1, <3>2, <3>4 DEF Pass, Shapes
  <2>2. CASE Current /\ End(stream.post) /\ UNCHANGED shown
    BY <1>1, <1>3, <1>4, <1>8, <2>2 DEF Pass, Shapes
  <2>3. CASE NotCurrent /\ Refuse(live \/ stream.post)
    BY <1>1, <1>3, <1>5, <1>8, <2>3 DEF Pass, Shapes
  <2> QED BY <1>8, <2>1, <2>2, <2>3 DEF Pass
<1>9. CASE Install
  <2> DEFINE full == \E i \in DOMAIN stream.read : stream.read[i].kind = "overflow"
             copy == [Unused EXCEPT !.log = stream.read, !.stopped = full]
  <2>0. full \in BOOLEAN /\ FreeJournal \in JournalIds /\ stream.proc \in Procs
    BY <1>9, FreeIsFree DEF Shapes, Placed, Install
  <2>1. copy \in Journals
    <3> HIDE DEF full, Items
    <3> QED BY <2>0, <1>1 DEF Unused, Journals, Generators
  <2>2. journal' \in [JournalIds -> Journals]
    <3>1. journal' = Kept([journal EXCEPT ![FreeJournal] = copy], queues', stream')
      BY <1>9 DEF Install
    <3> HIDE DEF copy
    <3> QED BY <2>0, <2>1, <3>1, <1>1, KeptAt
  <2>3. stream' \in Generators
    <3>1. <<>> \in Seq(Items)
      OBVIOUS
    <3> HIDE DEF Items
    <3> QED BY <1>9, <2>0, <1>1, <3>1 DEF Install, Generators
  <2>4. queues' \in [Procs -> JournalIds \cup {None}]
    BY <1>9, <2>0 DEF Install, Shapes
  <2> QED BY <1>9, <2>2, <2>3, <2>4 DEF Install, Shapes
<1>10. CASE Notice
  BY <1>1, <1>4, <1>10 DEF Notice, Shapes
<1> QED BY <1>6, <1>7, <1>8, <1>9, <1>10 DEF Generator

\* connections,
LEMMA TypesReconnect ==
    ASSUME Shapes, Sound, Seen, NEW p \in Procs, Connect(p) \/ Recover(p)
    PROVE  TypeOK'
<1> USE DEF TypeOK, ledger, client
<1>1. /\ shown \in Seq(Entries) /\ journal \in [JournalIds -> Journals]
      /\ queues[p] \in JournalIds \cup {None}
  BY DEF Shapes
<1>2. LastSeen \in Nat
  <2>1. ~Told
    BY DEF Connect, Recover
  <2> QED BY <2>1, <1>1, LastSeenType DEF Shapes
<1>3. \A q \in JournalIds \cup {None} : Enter(p, q) \in Generators
  <2> TAKE q \in JournalIds \cup {None}
  <2>1. Idle \in Generators
    BY DEF Idle, Generators
  <2>2. Enter(p, q) = [Idle EXCEPT !.pc = "top", !.proc = p, !.q = q, !.cursor = LastSeen]
    BY DEF Enter
  <2> HIDE DEF Items
  <2> QED BY <1>2, <2>1, <2>2 DEF Generators
<1>4. CASE Connect(p)
  <2>1. stream' \in Generators
    BY <1>1, <1>3, <1>4 DEF Connect
  <2>2. journal' \in [JournalIds -> Journals]
    BY <1>1, <1>4, KeptAt DEF Connect
  <2> QED BY <1>4, <2>1, <2>2 DEF Connect, Shapes
<1>5. CASE Recover(p)
  <2>0. Recovered(events) \in Seq(Items)
    BY RecoveredSound DEF Sound
  <2>1. stream' \in Generators
    <3>1. Idle \in Generators
      BY DEF Idle, Generators
    <3>2. [Enter(p, None) EXCEPT !.pc = "recover", !.read = Recovered(events)] \in Generators
      <4>1. PICK g \in Generators : g = Enter(p, None)
        BY <1>3
      <4>2. PICK read \in Seq(Items) : read = Recovered(events)
        BY <2>0
      <4>3. [g EXCEPT !.pc = "recover", !.read = read] \in Generators
        <5> HIDE DEF Items
        <5> QED BY DEF Generators
      <4> QED BY <4>1, <4>2, <4>3
    <3> QED BY <1>5, <3>1, <3>2 DEF Recover
  <2>2. journal' \in [JournalIds -> Journals]
    BY <1>1, <1>5, KeptAt DEF Recover
  <2>3. shown' \in Seq(Entries)
    <3>1. [id |-> 0, item |-> Note("unavailable")] \in Entries
      BY ItemTypes DEF Entries, Kinds
    <3> HIDE DEF Entries
    <3> QED BY <1>1, <1>5, <3>1 DEF Recover
  <2>4. faults' \in 0..MaxFaults
    BY <1>5, BoundsAssumption DEF Recover, Current, NotCurrent, Fault, Shapes
  <2>5. live' \in BOOLEAN
    BY <1>5 DEF Recover, Shapes
  <2> QED BY <1>5, <2>1, <2>2, <2>3, <2>4, <2>5 DEF Recover, Shapes
<1> QED BY <1>4, <1>5

\* and what happens to a process.
LEMMA TypesProcess ==
    ASSUME Shapes, NEW p \in Procs, Attach(p) \/ Invalidate(p) \/ Sweep(p) \/ Crash(p)
    PROVE  TypeOK'
<1> USE DEF TypeOK, ledger, client
<1>1. /\ journal \in [JournalIds -> Journals] /\ events \in Seq(Items)
      /\ queues \in [Procs -> JournalIds \cup {None}]
      /\ FreeJournal \in JournalIds
  BY FreeIsFree DEF Shapes
<1>2. CASE Attach(p)
  <2>1. [Unused EXCEPT !.log = events] \in Journals
    <3> HIDE DEF Items
    <3> QED BY <1>1 DEF Unused, Journals
  <2>2. journal' \in [JournalIds -> Journals]
    <3>1. queues[p] \in JournalIds => Hydrated(journal[queues[p]], events) \in Journals
      BY <1>1, HydratedType
    <3> QED BY <1>1, <1>2, <2>1, <3>1 DEF Attach
  <2>3. queues' \in [Procs -> JournalIds \cup {None}]
    BY <1>1, <1>2 DEF Attach
  <2> QED BY <1>2, <2>2, <2>3 DEF Attach, Shapes
<1>3. CASE Invalidate(p)
  <2>1. queues[p] \in JournalIds
    BY <1>1, <1>3 DEF Invalidate
  <2>2. [journal[queues[p]] EXCEPT !.log = <<>>, !.invalid = TRUE] \in Journals
    <3>1. <<>> \in Seq(Items)
      OBVIOUS
    <3> HIDE DEF Items
    <3> QED BY <1>1, <2>1, <3>1 DEF Journals
  <2>3. journal' \in [JournalIds -> Journals]
    BY <1>1, <1>3, <2>1, <2>2 DEF Invalidate
  <2> QED BY <1>3, <2>3 DEF Invalidate, Shapes
<1>4. CASE Sweep(p)
  <2>1. journal' \in [JournalIds -> Journals]
    BY <1>1, <1>4, KeptAt DEF Sweep
  <2>2. queues' \in [Procs -> JournalIds \cup {None}]
    BY <1>1, <1>4 DEF Sweep
  <2> QED BY <1>4, <2>1, <2>2 DEF Sweep, Shapes
<1>5. CASE Crash(p)
  <2>1. journal' \in [JournalIds -> Journals]
    BY <1>1, <1>5, KeptAt DEF Crash
  <2>2. queues' \in [Procs -> JournalIds \cup {None}]
    BY <1>1, <1>5 DEF Crash
  <2>3. stream' \in Generators
    <3>1. Idle \in Generators
      BY DEF Idle, Generators
    <3> QED BY <1>5, <3>1 DEF Crash, Shapes
  <2>4. worker' \in [pc : {"none", "agent", "settled", "sent", "over"},
                     proc : Procs \cup {None}, emitted : 0..MaxProgress]
    BY <1>5 DEF Crash, Shapes
  <2>5. faults' \in 0..MaxFaults /\ live' \in BOOLEAN
    BY <1>5, BoundsAssumption DEF Crash, Fault, Shapes
  <2> QED BY <1>5, <2>1, <2>2, <2>3, <2>4, <2>5 DEF Crash, Shapes
<1> QED BY <1>2, <1>3, <1>4, <1>5

----------------------------------------------------------------------------
(* Who works on what, and that nothing is left in a free journal.          *)

Collected == \A j \in JournalIds : j \notin Referenced(queues, stream) => journal[j] = Unused

\* A step that keeps what is referred to leaves free journals empty.
LEMMA KeptCollected ==
    ASSUME NEW js \in [JournalIds -> Journals], journal' = Kept(js, queues', stream')
    PROVE  Collected'
BY KeptAt DEF Collected

\* So does a step that writes into a journal somebody refers to.
LEMMA ReferredCollected ==
    ASSUME Collected, NEW j \in Referenced(queues, stream),
           UNCHANGED queues, stream'.q = stream.q,
           \A k \in JournalIds \ {j} : journal'[k] = journal[k]
    PROVE  Collected'
BY DEF Collected, Referenced

\* The worker is where it was claimed, and writes where somebody refers to.
LEMMA PlacedWorker ==
    ASSUME Shapes, Worker
    PROVE  Placed'
<1>0. Collected /\ TypeOK
  BY DEF Shapes, Placed, Collected
<1>1. journal \in [JournalIds -> Journals] /\ queues \in [Procs -> JournalIds \cup {None}]
  BY <1>0 DEF TypeOK
<1>2. CASE Claim
  <2>1. FreeJournal \in JournalIds
    BY FreeIsFree DEF Shapes
  <2>2. [Unused EXCEPT !.log = events, !.writer = TRUE] \in Journals
    <3> HIDE DEF Items
    <3> QED BY <1>0 DEF TypeOK, Unused, Journals
  <2>3. Collected'
    <3>1. journal' = Kept([journal EXCEPT ![FreeJournal] = [Unused EXCEPT !.log = events,
                                                                !.writer = TRUE]],
                          queues', stream')
      BY <1>2 DEF Claim
    <3>2. [journal EXCEPT ![FreeJournal] = [Unused EXCEPT !.log = events, !.writer = TRUE]]
             \in [JournalIds -> Journals]
      BY <1>1, <2>1, <2>2
    <3> QED BY <3>1, <3>2, KeptCollected
  <2>4. worker'.pc = "agent" /\ worker'.proc = Home
    BY <1>0, <1>2 DEF Claim, TypeOK
  <2> QED BY <1>2, <2>3, <2>4 DEF Claim, Shapes, Placed, Collected
<1>3. ASSUME NEW item \in Items, Write(item), UNCHANGED <<queues, stream>>, worker.proc \in Procs
      PROVE  Collected'
  <2>1. CASE UNCHANGED <<journal, events, faults>>
    BY <1>0, <1>3, <2>1 DEF Collected
  <2>2. CASE queues[worker.proc] \in JournalIds /\ Stored(queues[worker.proc], item)
    <3>1. queues[worker.proc] \in Referenced(queues, stream)
      BY <1>3 DEF Referenced
    <3>2. \A k \in JournalIds \ {queues[worker.proc]} : journal'[k] = journal[k]
      BY <1>0, <1>3, <2>2, StoredTypes
    <3> QED BY <1>0, <1>3, <3>1, <3>2, ReferredCollected
  <2> QED BY <1>0, <1>3, <2>1, <2>2, WriteStores
<1>4. CASE Emit
  <2>1. worker.proc \in Procs /\ Progress(worker.emitted + 1) \in Items
    BY <1>0, <1>4, HomeAssumption, ItemTypes DEF Emit, Shapes, Placed, TypeOK
  <2>2. Collected'
    BY <1>3, <1>4, <2>1 DEF Emit
  <2>3. worker'.pc = worker.pc /\ worker'.proc = worker.proc
    BY <1>0, <1>4 DEF Emit, TypeOK
  <2> QED BY <1>4, <2>2, <2>3 DEF Emit, ledger, Shapes, Placed, Collected
<1>5. CASE Settle
  <2>1. worker'.pc = "settled" /\ worker'.proc = worker.proc
    BY <1>0, <1>5 DEF Settle, TypeOK
  <2>2. exec' # "queued"
    BY <1>5 DEF Settle, Shapes, Placed
  <2> QED BY <1>5, <2>1, <2>2 DEF Settle, Shapes, Placed
<1>6. CASE Send
  <2>1. worker.proc \in Procs /\ exec # "queued"
    BY <1>6, HomeAssumption DEF Send, Shapes, Placed
  <2>2. worker'.pc = "sent" /\ worker'.proc = worker.proc
    BY <1>0, <1>6 DEF Send, TypeOK
  <2>3. Collected'
    <3>1. CASE exec = "cancelled"
      <4>1. queues[worker.proc] \in Referenced(queues, stream)
        BY <2>1 DEF Referenced
      <4>2. \A k \in JournalIds \ {queues[worker.proc]} : journal'[k] = journal[k]
        BY <1>1, <1>6, <3>1 DEF Send
      <4> QED BY <1>0, <1>6, <4>1, <4>2, ReferredCollected DEF Send
    <3>2. CASE exec # "cancelled"
      <4>1. PICK kind \in Verdict : Write(Note(kind))
        BY <1>6, <3>2 DEF Send
      <4>2. Note(kind) \in Items
        BY ItemTypes DEF Verdict, Kinds, Terminal, Failures
      <4> QED BY <1>3, <1>6, <2>1, <4>1, <4>2 DEF Send
    <3> QED BY <3>1, <3>2
  <2> QED BY <1>6, <2>1, <2>2, <2>3 DEF Send, ledger, Shapes, Placed, Collected
<1>7. CASE Speak
  <2>1. worker.proc \in Procs /\ Note("voice_attach") \in Items
    BY <1>7, HomeAssumption, ItemTypes DEF Speak, Kinds, Shapes, Placed
  <2>2. worker'.pc = "over" /\ worker'.proc = None
    BY <1>0, <1>7 DEF Speak, TypeOK
  <2>3. Collected'
    BY <1>3, <1>7, <2>1 DEF Speak
  <2> QED BY <1>7, <2>2, <2>3 DEF Speak, ledger, Shapes, Placed, Collected
<1> QED BY <1>2, <1>4, <1>5, <1>6, <1>7 DEF Worker

\* The ledger and the client touch no journal.
LEMMA PlacedLedger ==
    ASSUME Shapes, Ledger \/ Leave
    PROVE  Placed'
BY DEF Ledger, Leave, Expire, CancelQueued, BeginMutation, Shapes, Placed, ledger, client

\* A process installs a free journal or drops its own.
LEMMA PlacedProcess ==
    ASSUME Shapes, NEW p \in Procs, Attach(p) \/ Invalidate(p) \/ Sweep(p) \/ Crash(p)
    PROVE  Placed'
<1>0. Collected /\ TypeOK
  BY DEF Shapes, Placed, Collected
<1>1. /\ journal \in [JournalIds -> Journals] /\ queues \in [Procs -> JournalIds \cup {None}]
      /\ FreeJournal \in JournalIds
  BY <1>0, FreeIsFree DEF TypeOK
<1>2. CASE Attach(p)
  <2>1. CASE queues[p] = None
    <3>1. queues'[p] = FreeJournal /\ \A r \in Procs \ {p} : queues'[r] = queues[r]
      BY <1>1, <1>2, <2>1 DEF Attach
    <3>2. \A j \in JournalIds \ {FreeJournal} : journal'[j] = journal[j]
      BY <1>1, <1>2, <2>1 DEF Attach
    <3>3. None \notin JournalIds
      BY NoneAssumption, HomeAssumption, FS_CardinalityType DEF JournalIds
    <3>4. \A j \in JournalIds : j \notin Referenced(queues', stream') =>
             j # FreeJournal /\ j \notin Referenced(queues, stream)
      BY <1>2, <2>1, <3>1, <3>3 DEF Attach, Referenced
    <3>5. Collected'
      BY <1>0, <3>2, <3>4 DEF Collected
    <3> QED BY <1>2, <3>5 DEF Attach, ledger, Shapes, Placed, Collected
  <2>2. CASE queues[p] # None
    <3>1. queues[p] \in Referenced(queues, stream)
      BY DEF Referenced
    <3>2. \A k \in JournalIds \ {queues[p]} : journal'[k] = journal[k]
      BY <1>1, <1>2, <2>2 DEF Attach
    <3>3. Collected'
      BY <1>0, <1>2, <2>2, <3>1, <3>2, ReferredCollected DEF Attach
    <3> QED BY <1>2, <3>3 DEF Attach, ledger, Shapes, Placed, Collected
  <2> QED BY <2>1, <2>2
<1>3. CASE Invalidate(p)
  <2>1. queues[p] \in Referenced(queues, stream)
    BY DEF Referenced
  <2>2. \A k \in JournalIds \ {queues[p]} : journal'[k] = journal[k]
    BY <1>1, <1>3 DEF Invalidate
  <2>3. Collected'
    BY <1>0, <1>3, <2>1, <2>2, ReferredCollected DEF Invalidate
  <2> QED BY <1>3, <2>3 DEF Invalidate, ledger, Shapes, Placed, Collected
<1>4. CASE Sweep(p)
  <2>1. Collected'
    <3>1. journal' = Kept(journal, queues', stream')
      BY <1>4 DEF Sweep
    <3> QED BY <1>1, <3>1, KeptCollected
  <2> QED BY <1>4, <2>1 DEF Sweep, ledger, Shapes, Placed, Collected
<1>5. CASE Crash(p)
  <2>1. Collected'
    BY <1>1, <1>5, KeptCollected DEF Crash
  <2>2. worker' = worker \/ (worker'.pc = "over" /\ worker'.proc = None)
    BY <1>0, <1>5 DEF Crash, TypeOK
  <2>3. stream' = stream \/ stream'.pc = "idle"
    BY <1>5 DEF Crash, Idle
  <2>4. exec # "queued" \/ worker' = worker
    BY <1>5, NoneAssumption DEF Crash, Shapes, Placed
  <2> QED BY <1>5, <2>1, <2>2, <2>3, <2>4 DEF Crash, ledger, Shapes, Placed, Collected
<1> QED BY <1>2, <1>3, <1>4, <1>5

\* A generator that begins has the journal of its process, or none yet.
LEMMA PlacedReconnect ==
    ASSUME Shapes, NEW p \in Procs, Connect(p) \/ Recover(p)
    PROVE  Placed'
<1>0. journal \in [JournalIds -> Journals] /\ queues[p] \in JournalIds \cup {None}
  BY DEF Shapes, TypeOK
<1>1. Collected'
  BY <1>0, KeptCollected DEF Connect, Recover
<1>2. /\ stream'.pc # "idle" => stream'.proc \in Procs
      /\ stream'.pc = "top" => stream'.q \in JournalIds
      /\ stream'.pc \in {"idle", "top", "recover"}
  <2>1. CASE Connect(p)
    BY <1>0, <2>1, EnterFields DEF Connect
  <2>2. CASE Recover(p)
    <3>1. DOMAIN Enter(p, None) = {"pc", "proc", "q", "cursor", "post", "held", "read"}
      BY EnterFields
    <3>2. stream' = Idle \/ stream' = [Enter(p, None) EXCEPT !.pc = "recover",
                                                           !.read = Recovered(events)]
      BY <2>2 DEF Recover
    <3>3. CASE stream' = Idle
      BY <3>3 DEF Idle
    <3>4. CASE stream' = [Enter(p, None) EXCEPT !.pc = "recover", !.read = Recovered(events)]
      BY <3>1, <3>4, EnterFields
    <3> QED BY <3>2, <3>3, <3>4
  <2> QED BY <2>1, <2>2
<1> QED BY <1>1, <1>2 DEF Connect, Recover, ledger, Shapes, Placed, Collected

\* A generator keeps its journal until it ends.
LEMMA PlacedGenerator ==
    ASSUME Shapes, Generator
    PROVE  Placed'
<1>0. Collected /\ TypeOK
  BY DEF Shapes, Placed, Collected
<1>1. /\ journal \in [JournalIds -> Journals] /\ queues \in [Procs -> JournalIds \cup {None}]
      /\ stream \in Generators
      /\ FreeJournal \in JournalIds
  BY <1>0, FreeIsFree DEF TypeOK
<1>2. UNCHANGED <<worker, exec, events>>
  BY DEF Generator, Top, Read, Pass, Install, Notice, ledger
<1> DEFINE Rest == /\ stream'.pc # "idle" => stream'.proc \in Procs
                   /\ stream'.pc \in {"top", "read", "pass"} => stream'.q \in JournalIds
                   /\ stream'.pc = "pass" => stream'.held \in Items /\ stream'.cursor > 0
                   /\ Collected'
<1>3. SUFFICES Rest
  BY <1>2 DEF Shapes, Placed, Collected
<1>4. ASSUME NEW drop, End(drop)
      PROVE  Rest
  <2>1. stream'.pc = "idle"
    BY <1>4 DEF End, Idle
  <2>2. Collected'
    BY <1>1, <1>4, KeptCollected DEF End
  <2> QED BY <2>1, <2>2
<1>5. ASSUME NEW drop, Refuse(drop)
      PROVE  Rest
  BY <1>4, <1>5 DEF Refuse
<1>6. ASSUME stream.pc # "idle", stream.pc # "recover", NEW pc \in {"top", "read"},
             stream'.pc = pc, stream'.q = stream.q, stream'.proc = stream.proc,
             UNCHANGED <<queues, journal>>
      PROVE  Rest
  <2>1. Collected'
    BY <1>0, <1>6 DEF Collected, Referenced
  <2> QED BY <1>6, <2>1, <1>1 DEF Shapes, Placed, Generators
<1>7. CASE Top
  <2>1. CASE stream' = [stream EXCEPT !.pc = "read"] /\ UNCHANGED <<queues, journal>>
    BY <1>1, <1>6, <1>7, <2>1 DEF Top, Generators
  <2> QED BY <1>5, <1>7, <2>1 DEF Top
<1>8. CASE Read
  <2> DEFINE log == journal[stream.q].log
             more == log \o SubSeq(events, stream.cursor + 1, Len(events))
  <2>0. stream.q \in JournalIds /\ stream.pc = "read" /\ stream.proc \in Procs
    BY <1>8 DEF Read, Shapes, Placed
  <2>1. CASE /\ Len(log) > stream.cursor
             /\ stream' = [stream EXCEPT !.pc = "pass", !.cursor = @ + 1,
                                         !.held = log[stream.cursor + 1]]
             /\ UNCHANGED <<queues, journal, client, faults>>
    <3>1. log[stream.cursor + 1] \in Items
      BY <1>1, <2>0, <2>1 DEF Journals, Generators
    <3>2. /\ stream'.pc = "pass" /\ stream'.q = stream.q /\ stream'.proc = stream.proc
          /\ stream'.held \in Items /\ stream'.cursor > 0
      BY <1>1, <2>1, <3>1 DEF Generators
    <3>3. Collected'
      BY <1>0, <2>1, <3>2 DEF Collected, Referenced
    <3> QED BY <2>0, <3>2, <3>3
  <2>2. CASE /\ journal' = [journal EXCEPT ![stream.q] = Hydrated(@, more)]
             /\ stream' = [stream EXCEPT !.pc = "top"]
             /\ UNCHANGED <<queues, client, faults>>
    <3>1. stream.q \in Referenced(queues, stream)
      BY DEF Referenced
    <3>2. \A k \in JournalIds \ {stream.q} : journal'[k] = journal[k]
      BY <1>1, <2>2
    <3>3. stream'.pc = "top" /\ stream'.q = stream.q /\ stream'.proc = stream.proc
      BY <1>1, <2>2 DEF Generators
    <3>4. Collected'
      BY <1>0, <2>2, <3>1, <3>2, <3>3, ReferredCollected
    <3> QED BY <2>0, <3>3, <3>4
  <2>3. CASE stream' = [stream EXCEPT !.pc = "top"] /\ UNCHANGED <<queues, client, journal, faults>>
    BY <1>1, <1>6, <2>0, <2>3 DEF Generators
  <2> QED BY <1>4, <1>5, <1>8, <2>1, <2>2, <2>3 DEF Read
<1>9. CASE Pass
  <2>1. CASE /\ stream' = [stream EXCEPT !.pc = "top", !.held = None,
                               !.post = @ \/ stream.held.kind \in Terminal \cup {"voice_attach"}]
             /\ UNCHANGED <<queues, journal>>
    BY <1>1, <1>6, <1>9, <2>1 DEF Pass, Generators
  <2> QED BY <1>4, <1>5, <1>9, <2>1 DEF Pass
<1>10. CASE Install
  <2> DEFINE full == \E i \in DOMAIN stream.read : stream.read[i].kind = "overflow"
             copy == [Unused EXCEPT !.log = stream.read, !.stopped = full]
             js == [journal EXCEPT ![FreeJournal] = copy]
  <2>1. copy \in Journals
    <3>1. full \in BOOLEAN
      OBVIOUS
    <3> HIDE DEF full, Items
    <3> QED BY <3>1, <1>1 DEF Unused, Journals, Generators
  <2>2. js \in [JournalIds -> Journals]
    <3> HIDE DEF copy
    <3> QED BY <1>1, <2>1
  <2>3. journal' = Kept(js, queues', stream')
    BY <1>10 DEF Install
  <2>4. Collected'
    <3> HIDE DEF js
    <3> QED BY <2>2, <2>3, KeptCollected
  <2>5. stream'.pc = "top" /\ stream'.q = FreeJournal /\ stream'.proc = stream.proc
    BY <1>1, <1>10 DEF Install, Generators
  <2>6. stream.proc \in Procs
    BY <1>10 DEF Install, Shapes, Placed
  <2> QED BY <1>1, <2>4, <2>5, <2>6
<1>11. CASE Notice
  BY <1>4, <1>11 DEF Notice
<1> QED BY <1>7, <1>8, <1>9, <1>10, <1>11 DEF Generator

\* All steps together.
LEMMA ShapesStep ==
    ASSUME Shapes, Sound, Seen, [Next]_vars
    PROVE  Shapes'
<1>1. CASE UNCHANGED vars
  BY <1>1 DEF vars, ledger, client, Shapes, TypeOK, Placed
<1>2. CASE Worker
  BY <1>2, TypesWorker, PlacedWorker DEF Shapes
<1>3. CASE Ledger \/ Leave
  BY <1>3, TypesLedger, PlacedLedger DEF Shapes
<1>4. CASE Generator
  BY <1>4, TypesGenerator, PlacedGenerator DEF Shapes
<1>5. CASE Reconnect
  BY <1>5, TypesReconnect, PlacedReconnect DEF Reconnect, Shapes
<1>6. ASSUME NEW p \in Procs, Attach(p) \/ Invalidate(p) \/ Sweep(p) \/ Crash(p)
      PROVE  Shapes'
  BY <1>6, TypesProcess, PlacedProcess DEF Shapes
<1> QED BY <1>1, <1>2, <1>3, <1>4, <1>5, <1>6 DEF Next

----------------------------------------------------------------------------
(* What logs, generators and the client hold is sound, and stays so: the   *)
(* database only grows, and an outcome is final.                           *)

Forward ==
    /\ events' = events \/ \E e \in Items : events' = Append(events, e)
    /\ exec' = exec \/ exec \in {"queued", "running"}
    /\ strayed => strayed'

\* Every step goes forward.
LEMMA ForwardStep ==
    ASSUME Shapes, [Next]_vars
    PROVE  Forward
<1> USE DEF Forward, ledger, client
<1>0. TypeOK /\ events \in Seq(Items)
  BY DEF Shapes, TypeOK
<1>1. CASE UNCHANGED vars
  BY <1>1 DEF vars
<1>2. ASSUME NEW item \in Items, Write(item), worker.proc \in Procs, UNCHANGED ledger
      PROVE  Forward
  BY <1>0, <1>2, WriteStores, StoredTypes
<1>3. CASE Worker
  <2>1. CASE Claim
    BY <2>1 DEF Claim
  <2>2. CASE Emit
    <3>1. worker.proc \in Procs /\ Progress(worker.emitted + 1) \in Items
      BY <1>0, <2>2, HomeAssumption, ItemTypes DEF Emit, Shapes, Placed, TypeOK
    <3> QED BY <1>2, <2>2, <3>1 DEF Emit
  <2>3. CASE Settle
    <3>1. Note("cancelled") \in Items
      BY ItemTypes DEF Kinds, Terminal
    <3> QED BY <1>0, <2>3, <3>1, MarkerType DEF Settle
  <2>4. CASE Send
    <3>1. worker.proc \in Procs /\ \A kind \in Verdict : Note(kind) \in Items
      BY <2>4, HomeAssumption, ItemTypes
         DEF Send, Shapes, Placed, Verdict, Kinds, Terminal, Failures
    <3> QED BY <1>2, <2>4, <3>1 DEF Send
  <2>5. CASE Speak
    <3>1. worker.proc \in Procs /\ Note("voice_attach") \in Items
      BY <2>5, HomeAssumption, ItemTypes DEF Speak, Kinds, Shapes, Placed
    <3> QED BY <1>2, <2>5, <3>1 DEF Speak
  <2> QED BY <1>3, <2>1, <2>2, <2>3, <2>4, <2>5 DEF Worker
<1>4. CASE Ledger
  <2>1. Note("cancelled") \in Items
    BY ItemTypes DEF Kinds, Terminal
  <2> QED BY <1>0, <1>4, <2>1, MarkerType DEF Ledger, Expire, CancelQueued, BeginMutation
<1>5. CASE Leave
  BY <1>5 DEF Leave
<1>6. CASE Generator
  <2>1. UNCHANGED <<ledger, events, strayed>>
    <3>1. CASE Top
      BY <3>1 DEF Top
    <3>2. CASE Read
      BY <3>2 DEF Read
    <3>3. CASE Pass
      BY <3>3 DEF Pass
    <3>4. CASE Install
      BY <3>4 DEF Install
    <3>5. CASE Notice
      BY <3>5 DEF Notice
    <3> QED BY <1>6, <3>1, <3>2, <3>3, <3>4, <3>5 DEF Generator
  <2> QED BY <2>1
<1>7. CASE Reconnect
  BY <1>7 DEF Reconnect, Connect, Recover
<1>8. ASSUME NEW p \in Procs, Attach(p) \/ Invalidate(p) \/ Sweep(p) \/ Crash(p)
      PROVE  Forward
  BY <1>8 DEF Attach, Invalidate, Sweep, Crash
<1> QED BY <1>1, <1>3, <1>4, <1>5, <1>6, <1>7, <1>8 DEF Next

\* What may be said of an event may be said of it later.
LEMMA SoundLasts ==
    ASSUME Shapes, Forward, NEW item, NEW i, SoundAt(item, i, events, exec, strayed)
    PROVE  SoundAt(item, i, events', exec', strayed')
<1>1. events \in Seq(Items)
  BY DEF Shapes, TypeOK
<1>2. i \in DOMAIN events => i \in DOMAIN events' /\ events'[i] = events[i]
  <2> HIDE DEF Items
  <2> QED BY <1>1 DEF Forward
<1> QED BY <1>2 DEF SoundAt, Forward

\* Whatever is not touched stays sound.
LEMMA SoundAsBefore ==
    ASSUME Shapes, Sound, Forward
    PROVE  /\ \A j \in JournalIds : SoundLog(journal[j].log, events', exec', strayed')
           /\ SoundLog(stream.read, events', exec', strayed')
           /\ SoundLog(events, events', exec', strayed')
           /\ stream.pc = "pass" =>
                 SoundAt(stream.held, stream.cursor, events', exec', strayed')
           /\ \A i \in DOMAIN shown :
                 SoundAt(shown[i].item, shown[i].id, events', exec', strayed')
BY SoundLasts DEF Sound, SoundLog

\* A log stays sound when a sound item is added.
LEMMA AppendSound ==
    ASSUME NEW log \in Seq(Items), NEW item \in Items, NEW es, NEW x, NEW lost,
           SoundLog(log, es, x, lost), SoundAt(item, Len(log) + 1, es, x, lost)
    PROVE  SoundLog(Append(log, item), es, x, lost)
<1> HIDE DEF Items
<1> SUFFICES ASSUME NEW i \in DOMAIN Append(log, item)
             PROVE  SoundAt(Append(log, item)[i], i, es, x, lost)
  BY DEF SoundLog
<1>1. CASE i \in DOMAIN log
  <2>1. Append(log, item)[i] = log[i]
    BY <1>1
  <2> QED BY <1>1, <2>1 DEF SoundLog
<1>2. CASE i = Len(log) + 1
  <2>1. Append(log, item)[i] = item
    BY <1>2
  <2> QED BY <1>2, <2>1
<1> QED BY <1>1, <1>2

\* put() adds the item or an error, to the journal and, unless the worker has
\* strayed, at the same place to the database.
LEMMA WriteSound ==
    ASSUME Shapes, Sound, Forward, UNCHANGED exec, worker.proc \in Procs,
           NEW item \in Items, Write(item),
           item.kind \notin {"cancelled", "withheld", "unavailable"},
           item.kind = "done" => exec = "completed"
    PROVE  /\ SoundLog(events', events', exec', strayed')
           /\ \A j \in JournalIds : SoundLog(journal'[j].log, events', exec', strayed')
<1>0. TypeOK /\ events \in Seq(Items) /\ Len(events) \in Nat
  BY DEF Shapes, TypeOK
<1>1. CASE UNCHANGED <<journal, events, faults>>
  BY <1>1, SoundAsBefore
<1>2. CASE /\ queues[worker.proc] \in JournalIds
           /\ Stored(queues[worker.proc], item)
           /\ ~strayed' => journal[queues[worker.proc]].writer
  <2> DEFINE j == queues[worker.proc]
             log == journal[j].log
  <2>1. j \in JournalIds /\ journal[j] \in Journals /\ log \in Seq(Items) /\ Len(log) \in Nat
    BY <1>0, <1>2 DEF TypeOK, Journals
  <2>2. \A k \in JournalIds \ {j} : journal'[k] = journal[k]
    BY <1>0, <1>2, StoredTypes
  <2>3. \A w \in {item, Note("overflow"), Note("unconfirmed")} :
          /\ w \in Items
          /\ w.kind \notin {"cancelled", "withheld", "unavailable"}
          /\ w.kind = "done" => exec = "completed"
    BY ItemTypes DEF Kinds, LocalOnly
  <2>4. ASSUME NEW w \in {item, Note("overflow"), Note("unconfirmed")},
               events' = Append(events, w)
        PROVE  /\ SoundAt(w, Len(events) + 1, events', exec', strayed')
               /\ SoundLog(events', events', exec', strayed')
    <3>1. Len(events) + 1 \in DOMAIN events' /\ events'[Len(events) + 1] = w
      <4> HIDE DEF Items
      <4> QED BY <1>0, <2>4
    <3>2. SoundAt(w, Len(events) + 1, events', exec', strayed')
      <4>1. Len(events) + 1 # 0
        BY <1>0
      <4> QED BY <2>3, <3>1, <4>1 DEF SoundAt
    <3>3. SoundLog(Append(events, w), events', exec', strayed')
      BY <1>0, <2>3, <3>2, AppendSound, SoundAsBefore
    <3> QED BY <2>4, <3>2, <3>3
  <2>5. CASE UNCHANGED <<journal, events, faults>>
    BY <2>5, SoundAsBefore
  <2>6. ASSUME NEW w \in {item, Note("overflow"), Note("unconfirmed")}, NEW last \in BOOLEAN,
               journal' = [journal EXCEPT ![j] = Logged(@, w, last)],
               SoundAt(w, Len(log) + 1, events', exec', strayed'),
               events' = events \/ events' = Append(events, w)
        PROVE  /\ SoundLog(events', events', exec', strayed')
               /\ \A k \in JournalIds : SoundLog(journal'[k].log, events', exec', strayed')
    <3>1. journal'[j].log = Append(log, w)
      <4>1. journal'[j] = Logged(journal[j], w, last)
        BY <1>0, <2>1, <2>6 DEF TypeOK
      <4>2. w \in Items /\ journal[j] \in Journals
        BY <2>1, <2>3
      <4>3. Logged(journal[j], w, last).log = Append(journal[j].log, w)
        <5> HIDE DEF j
        <5> QED BY <4>2, LoggedType
      <4> QED BY <4>1, <4>3
    <3>2. SoundLog(Append(log, w), events', exec', strayed')
      BY <2>1, <2>3, <2>6, AppendSound, SoundAsBefore
    <3>3. SoundLog(events', events', exec', strayed')
      BY <2>4, <2>6, SoundAsBefore
    <3> HIDE DEF log, j
    <3> QED BY <2>1, <2>2, <3>1, <3>2, <3>3, SoundAsBefore
  <2>7. ASSUME NEW w \in {item, Note("overflow")}, NEW last \in BOOLEAN,
               /\ Writable(journal[j]) \/ (~journal[j].writer /\ UNCHANGED events)
               /\ journal[j].writer => /\ Accepts(log, w)
                                       /\ events' = Append(events, w)
               /\ journal' = [journal EXCEPT ![j] = Logged(@, w, last)]
        PROVE  /\ SoundLog(events', events', exec', strayed')
               /\ \A k \in JournalIds : SoundLog(journal'[k].log, events', exec', strayed')
    <3>1. CASE journal[j].writer
      <4>1. Len(log) = Len(events) /\ events' = Append(events, w)
        BY <2>7, <3>1 DEF Accepts
      <4>2. SoundAt(w, Len(log) + 1, events', exec', strayed')
        BY <2>4, <4>1
      <4> HIDE DEF log, j
      <4> QED BY <2>6, <2>7, <4>1, <4>2
    <3>2. CASE ~journal[j].writer
      <4>1. strayed' /\ UNCHANGED events
        BY <1>2, <2>7, <3>2 DEF Writable
      <4>2. SoundAt(w, Len(log) + 1, events', exec', strayed')
        <5>1. Len(log) + 1 # 0
          BY <2>1
        <5> QED BY <2>3, <4>1, <5>1 DEF SoundAt
      <4> HIDE DEF log, j
      <4> QED BY <2>6, <2>7, <4>1, <4>2
    <3> QED BY <3>1, <3>2
  <2>8. CASE /\ journal' = [journal EXCEPT ![j] = Logged(@, Note("unconfirmed"), TRUE)]
             /\ events' = events \/ events' = Append(events, Note("unconfirmed"))
    <3>1. SoundAt(Note("unconfirmed"), Len(log) + 1, events', exec', strayed')
      <4>1. Note("unconfirmed").kind = "unconfirmed"
        BY ItemTypes DEF Kinds, LocalOnly
      <4>2. Len(log) + 1 # 0
        BY <2>1
      <4> QED BY <4>1, <4>2 DEF SoundAt, LocalOnly
    <3> HIDE DEF log, j
    <3> QED BY <2>6, <2>8, <3>1
  <2> QED BY <1>2, <2>5, <2>7, <2>8 DEF Stored
<1> QED BY <1>0, <1>1, <1>2, WriteStores

\* Nothing is said of an empty log.
LEMMA EmptySound ==
    \A es, x, lost : SoundLog(<<>>, es, x, lost) /\ SoundLog(Unused.log, es, x, lost)
BY DEF SoundLog, Unused

\* Collection leaves what is sound.
LEMMA KeptSound ==
    ASSUME NEW js \in [JournalIds -> Journals], NEW qs, NEW st, NEW es, NEW x, NEW lost,
           \A j \in JournalIds : SoundLog(js[j].log, es, x, lost)
    PROVE  \A j \in JournalIds : SoundLog(Kept(js, qs, st)[j].log, es, x, lost)
<1> SUFFICES ASSUME NEW j \in JournalIds
             PROVE  SoundLog(Kept(js, qs, st)[j].log, es, x, lost)
  OBVIOUS
<1>1. CASE j \in Referenced(qs, st)
  <2>1. Kept(js, qs, st)[j] = js[j]
    BY <1>1, KeptAt
  <2> QED BY <2>1
<1>2. CASE j \notin Referenced(qs, st)
  <2>1. Kept(js, qs, st)[j] = Unused
    BY <1>2, KeptAt
  <2> QED BY <2>1, EmptySound
<1> QED BY <1>1, <1>2

\* The marker of a cancelled run is sound.
LEMMA MarkerSound ==
    ASSUME Shapes, Sound, Forward, exec' = "cancelled",
           events' = WithMarker(events, "cancelled")
    PROVE  SoundLog(events', events', exec', strayed')
<1>0. events \in Seq(Items) /\ Len(events) \in Nat
  BY DEF Shapes, TypeOK
<1>1. CASE events' = events
  BY <1>1, SoundAsBefore
<1>2. CASE events' = Append(events, Note("cancelled"))
  <2>1. Note("cancelled") \in Items /\ Note("cancelled").kind = "cancelled"
    BY ItemTypes DEF Kinds, Terminal
  <2>2. Len(events) + 1 \in DOMAIN events' /\ events'[Len(events) + 1] = Note("cancelled")
    <3> HIDE DEF Items
    <3> QED BY <1>0, <1>2, <2>1
  <2>3. SoundAt(Note("cancelled"), Len(events) + 1, events', exec', strayed')
    <3>1. Len(events) + 1 # 0
      BY <1>0
    <3> QED BY <2>1, <2>2, <3>1 DEF SoundAt
  <2>4. SoundLog(Append(events, Note("cancelled")), events', exec', strayed')
    BY <1>0, <2>1, <2>3, AppendSound, SoundAsBefore
  <2> QED BY <1>2, <2>4
<1> QED BY <1>0, <1>1, <1>2, MarkerType

\* What has been hydrated is sound, since the database is.
LEMMA HydratedSound ==
    ASSUME NEW jr \in Journals, NEW es \in Seq(Items), NEW all, NEW x, NEW lost,
           SoundLog(jr.log, all, x, lost), SoundLog(es, all, x, lost)
    PROVE  SoundLog(Hydrated(jr, es).log, all, x, lost)
BY HydratedType

\* The worker keeps everything sound,
LEMMA SoundWorker ==
    ASSUME Shapes, Sound, Forward, Worker
    PROVE  Sound'
<1>0. /\ TypeOK /\ events \in Seq(Items) /\ journal \in [JournalIds -> Journals]
      /\ queues \in [Procs -> JournalIds \cup {None}]
  BY DEF Shapes, TypeOK
<1>1. UNCHANGED <<stream, shown>>
  BY DEF Worker, Claim, Emit, Settle, Send, Speak, client
<1>2. SUFFICES /\ SoundLog(events', events', exec', strayed')
               /\ \A j \in JournalIds : SoundLog(journal'[j].log, events', exec', strayed')
  BY <1>1, SoundAsBefore DEF Sound
<1>3. CASE Claim
  <2> DEFINE new == [Unused EXCEPT !.log = events, !.writer = TRUE]
             js == [journal EXCEPT ![FreeJournal] = new]
  <2>1. FreeJournal \in JournalIds
    BY FreeIsFree DEF Shapes
  <2>2. new \in Journals /\ new.log = events
    <3> HIDE DEF Items
    <3> QED BY <1>0 DEF Unused, Journals
  <2>3. /\ js \in [JournalIds -> Journals]
        /\ \A j \in JournalIds : js[j].log \in {journal[j].log, events}
    <3> HIDE DEF new
    <3> QED BY <1>0, <2>1, <2>2
  <2>4. journal' = Kept(js, queues', stream) /\ events' = events
    BY <1>3 DEF Claim
  <2> HIDE DEF js
  <2>5. \A j \in JournalIds : SoundLog(js[j].log, events', exec', strayed')
    BY <2>3, SoundAsBefore
  <2> QED BY <2>3, <2>4, <2>5, KeptSound, SoundAsBefore
<1>4. CASE Emit
  <2>1. /\ worker.proc \in Procs /\ worker.emitted + 1 \in Nat
    BY <1>0, <1>4, HomeAssumption DEF Emit, Shapes, Placed, TypeOK
  <2>2. /\ Progress(worker.emitted + 1) \in Items
        /\ Progress(worker.emitted + 1).kind = "progress"
    BY <2>1, ItemTypes
  <2> QED BY <1>4, <2>1, <2>2, WriteSound DEF Emit, ledger
<1>5. CASE Settle
  <2>1. UNCHANGED journal
    BY <1>5 DEF Settle
  <2>2. SoundLog(events', events', exec', strayed')
    BY <1>5, SoundAsBefore, MarkerSound DEF Settle
  <2> QED BY <2>1, <2>2, SoundAsBefore
<1>6. CASE Send
  <2>1. worker.proc \in Procs
    BY <1>6, HomeAssumption DEF Send, Shapes, Placed
  <2>2. CASE exec = "cancelled"
    <3>1. UNCHANGED events
      BY <1>6, <2>2 DEF Send
    <3>2. queues[worker.proc] \in JournalIds \cup {None}
      BY <1>0, <2>1
    <3>3. CASE journal' = journal
      BY <3>1, <3>3, SoundAsBefore
    <3>4. CASE /\ queues[worker.proc] \in JournalIds
               /\ journal' = [journal EXCEPT ![queues[worker.proc]] = Hydrated(@, events)]
      <4>1. \A j \in JournalIds : journal'[j] \in {journal[j], Hydrated(journal[j], events)}
        BY <1>0, <3>4
      <4> QED BY <1>0, <3>1, <4>1, HydratedSound, SoundAsBefore
    <3> QED BY <1>6, <2>2, <3>2, <3>3, <3>4 DEF Send
  <2>3. CASE exec # "cancelled"
    <3>1. PICK kind \in Verdict : Write(Note(kind))
      BY <1>6, <2>3 DEF Send
    <3>2. Note(kind) \in Items /\ Note(kind).kind = kind
      BY ItemTypes DEF Verdict, Kinds, Terminal, Failures
    <3>3. /\ kind \notin {"cancelled", "withheld", "unavailable"}
          /\ kind = "done" => exec = "completed"
      BY DEF Verdict
    <3> QED BY <1>6, <2>1, <3>1, <3>2, <3>3, WriteSound DEF Send, ledger
  <2> QED BY <2>2, <2>3
<1>7. CASE Speak
  <2>1. /\ worker.proc \in Procs
        /\ Note("voice_attach") \in Items /\ Note("voice_attach").kind = "voice_attach"
    BY <1>7, HomeAssumption, ItemTypes DEF Speak, Kinds, Shapes, Placed
  <2> QED BY <1>7, <2>1, WriteSound DEF Speak, ledger
<1> QED BY <1>3, <1>4, <1>5, <1>6, <1>7 DEF Worker

\* so do the ledger and the client,
LEMMA SoundLedger ==
    ASSUME Shapes, Sound, Forward, Ledger \/ Leave
    PROVE  Sound'
<1>1. UNCHANGED <<journal, stream, shown, strayed>>
  BY DEF Ledger, Leave, Expire, CancelQueued, BeginMutation, client
<1>2. SoundLog(events', events', exec', strayed')
  <2>1. UNCHANGED events \/ (exec' = "cancelled" /\ events' = WithMarker(events, "cancelled"))
    BY DEF Ledger, Leave, Expire, CancelQueued, BeginMutation
  <2> QED BY <2>1, MarkerSound, SoundAsBefore
<1> QED BY <1>1, <1>2, SoundAsBefore DEF Sound

\* what happens to a process,
LEMMA SoundProcess ==
    ASSUME Shapes, Sound, Forward, NEW p \in Procs,
           Attach(p) \/ Invalidate(p) \/ Sweep(p) \/ Crash(p)
    PROVE  Sound'
<1>0. /\ TypeOK /\ events \in Seq(Items) /\ journal \in [JournalIds -> Journals]
      /\ queues \in [Procs -> JournalIds \cup {None}] /\ FreeJournal \in JournalIds
  BY FreeIsFree DEF Shapes, TypeOK
<1>1. /\ UNCHANGED <<events, shown>>
      /\ stream' = stream \/ stream' = Idle
  BY DEF Attach, Invalidate, Sweep, Crash, client
<1>2. Idle.pc = "idle" /\ Idle.read = <<>>
  BY DEF Idle
<1>3. SUFFICES \A j \in JournalIds : SoundLog(journal'[j].log, events', exec', strayed')
  BY <1>1, <1>2, SoundAsBefore, EmptySound DEF Sound
<1>4. CASE Attach(p)
  <2> DEFINE new == [Unused EXCEPT !.log = events]
  <2>1. new.log = events
    BY DEF Unused
  <2>2. CASE journal' = [journal EXCEPT ![FreeJournal] = new]
    <3> HIDE DEF new
    <3>1. \A j \in JournalIds : journal'[j] \in {journal[j], new}
      BY <1>0, <2>2
    <3> QED BY <1>1, <2>1, <3>1, SoundAsBefore
  <2>3. CASE queues[p] # None /\ journal' = [journal EXCEPT ![queues[p]] = Hydrated(@, events)]
    <3>1. \A j \in JournalIds : journal'[j] \in {journal[j], Hydrated(journal[j], events)}
      BY <1>0, <2>3
    <3> QED BY <1>0, <3>1, HydratedSound, SoundAsBefore
  <2> QED BY <1>4, <2>2, <2>3 DEF Attach
<1>5. CASE Invalidate(p)
  <2>1. \A j \in JournalIds : journal'[j].log \in {journal[j].log, <<>>}
    <3>1. queues[p] \in JournalIds
      BY <1>0, <1>5 DEF Invalidate
    <3>2. [journal[queues[p]] EXCEPT !.log = <<>>, !.invalid = TRUE].log = <<>>
      BY <1>0, <3>1 DEF Journals
    <3> QED BY <1>0, <1>5, <3>1, <3>2 DEF Invalidate
  <2> QED BY <2>1, EmptySound, SoundAsBefore
<1>6. CASE Sweep(p) \/ Crash(p)
  <2>1. journal' = Kept(journal, queues', stream')
    BY <1>6 DEF Sweep, Crash
  <2> QED BY <1>0, <2>1, KeptSound, SoundAsBefore
<1> QED BY <1>4, <1>5, <1>6

\* What the client receives is as sound as what was read for it.
LEMMA ShownSound ==
    ASSUME Shapes, Sound, Forward, NEW id \in Nat, NEW item \in Items,
           SoundAt(item, id, events', exec', strayed'),
           shown' = shown \/ shown' = Append(shown, [id |-> id, item |-> item])
    PROVE  \A i \in DOMAIN shown' : SoundAt(shown'[i].item, shown'[i].id, events', exec', strayed')
<1>1. shown \in Seq(Entries)
  BY DEF Shapes, TypeOK
<1>2. CASE shown' = shown
  BY <1>2, SoundAsBefore
<1>3. CASE shown' = Append(shown, [id |-> id, item |-> item])
  <2> SUFFICES ASSUME NEW i \in DOMAIN shown'
               PROVE  SoundAt(shown'[i].item, shown'[i].id, events', exec', strayed')
    OBVIOUS
  <2>1. CASE i \in DOMAIN shown
    <3>1. shown'[i] = shown[i]
      BY <1>1, <1>3, <2>1
    <3> QED BY <2>1, <3>1, SoundAsBefore
  <2>2. CASE i \notin DOMAIN shown
    <3>1. shown'[i] = [id |-> id, item |-> item]
      BY <1>1, <1>3, <2>2
    <3> QED BY <3>1
  <2> QED BY <2>1, <2>2
<1> QED BY <1>2, <1>3

\* "unavailable" has no id.
LEMMA RefusalSound ==
    /\ Note("unavailable") \in Items
    /\ \A es, x, lost : SoundAt(Note("unavailable"), 0, es, x, lost)
<1>1. Note("unavailable") \in Items /\ Note("unavailable").kind = "unavailable"
  BY ItemTypes DEF Kinds
<1> QED BY <1>1 DEF SoundAt

\* connections and recoveries,
LEMMA SoundReconnect ==
    ASSUME Shapes, Sound, Forward, NEW p \in Procs, Connect(p) \/ Recover(p)
    PROVE  Sound'
<1>0. TypeOK /\ journal \in [JournalIds -> Journals]
  BY DEF Shapes, TypeOK
<1>1. /\ UNCHANGED <<ledger, events, strayed>>
      /\ journal' = Kept(journal, queues', stream')
  BY DEF Connect, Recover
<1>2. \A j \in JournalIds : SoundLog(journal'[j].log, events', exec', strayed')
  BY <1>0, <1>1, KeptSound, SoundAsBefore
<1>3. stream'.pc # "pass" /\ SoundLog(stream'.read, events', exec', strayed')
  <2>1. CASE Connect(p)
    BY <2>1, EnterFields, EmptySound DEF Connect
  <2>2. CASE Recover(p)
    <3>1. stream' = Idle \/ stream' = [Enter(p, None) EXCEPT !.pc = "recover",
                                                           !.read = Recovered(events)]
      BY <2>2 DEF Recover
    <3>2. CASE stream' = Idle
      BY <3>2, EmptySound DEF Idle
    <3>3. CASE stream' = [Enter(p, None) EXCEPT !.pc = "recover", !.read = Recovered(events)]
      <4>1. stream'.pc = "recover" /\ stream'.read = Recovered(events)
        BY <3>3, EnterFields
      <4>2. SoundLog(Recovered(events), events, exec, strayed)
        BY RecoveredSound DEF Sound
      <4> QED BY <1>1, <4>1, <4>2 DEF ledger
    <3> QED BY <3>1, <3>2, <3>3
  <2> QED BY <2>1, <2>2
<1>4. \A i \in DOMAIN shown' : SoundAt(shown'[i].item, shown'[i].id, events', exec', strayed')
  <2>1. shown' = shown \/ shown' = Append(shown, [id |-> 0, item |-> Note("unavailable")])
    BY DEF Connect, Recover
  <2> QED BY <2>1, ShownSound, RefusalSound
<1> QED BY <1>1, <1>2, <1>3, <1>4, SoundAsBefore DEF Sound

\* and generators.
LEMMA SoundGenerator ==
    ASSUME Shapes, Sound, Forward, Generator
    PROVE  Sound'
<1>0. /\ TypeOK /\ journal \in [JournalIds -> Journals] /\ stream \in Generators
      /\ events \in Seq(Items) /\ Len(events) \in Nat /\ stream.cursor \in Nat
      /\ FreeJournal \in JournalIds
  BY FreeIsFree DEF Shapes, TypeOK, Generators
<1>1. UNCHANGED <<ledger, events, strayed>>
  <2>1. CASE Top
    BY <2>1 DEF Top
  <2>2. CASE Read
    BY <2>2 DEF Read
  <2>3. CASE Pass
    BY <2>3 DEF Pass
  <2>4. CASE Install
    BY <2>4 DEF Install
  <2>5. CASE Notice
    BY <2>5 DEF Notice
  <2> QED BY <2>1, <2>2, <2>3, <2>4, <2>5 DEF Generator
<1> DEFINE JS == \A j \in JournalIds : SoundLog(journal'[j].log, events', exec', strayed')
           ST == /\ SoundLog(stream'.read, events', exec', strayed')
                 /\ stream'.pc = "pass" =>
                       SoundAt(stream'.held, stream'.cursor, events', exec', strayed')
           SH == \A i \in DOMAIN shown' :
                    SoundAt(shown'[i].item, shown'[i].id, events', exec', strayed')
<1>2. SUFFICES JS /\ ST /\ SH
  BY <1>1, SoundAsBefore DEF Sound
<1>3. UNCHANGED shown => SH
  BY SoundAsBefore
<1>4. UNCHANGED journal => JS
  BY SoundAsBefore
<1>5. stream'.read = stream.read /\ stream'.pc # "pass" => ST
  BY SoundAsBefore
<1>6. ASSUME NEW drop, End(drop)
      PROVE  JS /\ ST
  <2>1. journal' = Kept(journal, queues', stream') /\ stream' = Idle
    BY <1>6 DEF End
  <2>2. JS
    BY <1>0, <2>1, KeptSound, SoundAsBefore
  <2>3. stream'.pc # "pass" /\ stream'.read = <<>>
    BY <2>1 DEF Idle
  <2> QED BY <2>2, <2>3, EmptySound
<1>7. ASSUME NEW drop, Refuse(drop)
      PROVE  JS /\ ST /\ SH
  <2>1. shown' = shown \/ shown' = Append(shown, [id |-> 0, item |-> Note("unavailable")])
    BY <1>7 DEF Refuse, Yield
  <2>2. SH
    BY <2>1, ShownSound, RefusalSound
  <2> QED BY <1>6, <1>7, <2>2 DEF Refuse
<1> HIDE DEF JS, ST, SH
<1>8. CASE Top
  <2>1. CASE stream' = [stream EXCEPT !.pc = "read"] /\ UNCHANGED <<queues, journal, client>>
    <3>1. stream'.read = stream.read /\ stream'.pc # "pass"
      BY <1>0, <2>1 DEF Generators
    <3> QED BY <1>3, <1>4, <1>5, <2>1, <3>1 DEF client
  <2> QED BY <1>7, <1>8, <2>1 DEF Top
<1>9. CASE Read
  <2> DEFINE log == journal[stream.q].log
             more == log \o SubSeq(events, stream.cursor + 1, Len(events))
  <2>0. stream.q \in JournalIds /\ stream.pc = "read"
    BY <1>9 DEF Read, Shapes, Placed
  <2>1. log \in Seq(Items) /\ Len(log) \in Nat /\ SoundLog(log, events', exec', strayed')
    BY <1>0, <2>0, SoundAsBefore DEF Journals
  <2>2. CASE /\ Len(log) > stream.cursor
             /\ stream' = [stream EXCEPT !.pc = "pass", !.cursor = @ + 1,
                                         !.held = log[stream.cursor + 1]]
             /\ UNCHANGED <<queues, journal, client, faults>>
    <3>1. SoundAt(log[stream.cursor + 1], stream.cursor + 1, events', exec', strayed')
      <4>1. stream.cursor + 1 \in DOMAIN log
        BY <1>0, <2>1, <2>2
      <4> QED BY <2>1, <4>1 DEF SoundLog
    <3> HIDE DEF log
    <3>2. /\ stream'.held = log[stream.cursor + 1] /\ stream'.cursor = stream.cursor + 1
          /\ stream'.read = stream.read
      BY <1>0, <2>2 DEF Generators
    <3>3. ST
      BY <3>1, <3>2, SoundAsBefore DEF ST
    <3> QED BY <1>3, <1>4, <2>2, <3>3 DEF client
  <2>3. CASE /\ Len(log) = stream.cursor
             /\ journal' = [journal EXCEPT ![stream.q] = Hydrated(@, more)]
             /\ stream' = [stream EXCEPT !.pc = "top"]
             /\ UNCHANGED <<queues, client, faults>>
    <3> DEFINE rest == SubSeq(events, stream.cursor + 1, Len(events))
    <3>1. /\ rest \in Seq(Items)
          /\ \A i \in DOMAIN rest : stream.cursor + i \in DOMAIN events
                                     /\ rest[i] = events[stream.cursor + i]
      <4> HIDE DEF Items
      <4> QED BY <1>0
    <3> HIDE DEF rest, Items
    <3>2. /\ more \in Seq(Items)
          /\ \A i \in DOMAIN more : \/ i \in DOMAIN log /\ more[i] = log[i]
                                    \/ /\ i - Len(log) \in DOMAIN rest
                                       /\ more[i] = rest[i - Len(log)]
      <4>1. more = log \o rest
        BY DEF rest
      <4> HIDE DEF more, log
      <4> QED BY <2>1, <3>1, <4>1
    <3>3. SoundLog(more, events', exec', strayed')
      <4> SUFFICES ASSUME NEW i \in DOMAIN more
                   PROVE  SoundAt(more[i], i, events', exec', strayed')
        BY DEF SoundLog
      <4>1. CASE i \in DOMAIN log /\ more[i] = log[i]
        BY <2>1, <4>1 DEF SoundLog
      <4>2. CASE i - Len(log) \in DOMAIN rest /\ more[i] = rest[i - Len(log)]
        <5>1. i \in Nat
          BY <3>2
        <5>2. stream.cursor + (i - Len(log)) = i
          BY <1>0, <2>1, <2>3, <5>1
        <5>3. i \in DOMAIN events /\ more[i] = events[i]
          BY <3>1, <4>2, <5>2
        <5> QED BY <5>3, SoundAsBefore DEF SoundLog
      <4> QED BY <3>2, <4>1, <4>2
    <3> HIDE DEF more
    <3>4. JS
      <4>1. \A j \in JournalIds : journal'[j] \in {journal[j], Hydrated(journal[j], more)}
        BY <1>0, <2>0, <2>3
      <4> QED BY <1>0, <3>2, <3>3, <4>1, HydratedSound, SoundAsBefore DEF JS
    <3>5. stream'.read = stream.read /\ stream'.pc # "pass"
      BY <1>0, <2>3 DEF Generators
    <3> QED BY <1>3, <1>5, <2>3, <3>4, <3>5 DEF client
  <2>4. CASE stream' = [stream EXCEPT !.pc = "top"] /\ UNCHANGED <<queues, client, journal, faults>>
    <3>1. stream'.read = stream.read /\ stream'.pc # "pass"
      BY <1>0, <2>4 DEF Generators
    <3> QED BY <1>3, <1>4, <1>5, <2>4, <3>1 DEF client
  <2> QED BY <1>3, <1>6, <1>7, <1>9, <2>2, <2>3, <2>4 DEF Read
<1>10. CASE Pass
  <2>1. CASE /\ Yield(stream.cursor, stream.held)
             /\ stream' = [stream EXCEPT !.pc = "top", !.held = None,
                               !.post = @ \/ stream.held.kind \in Terminal \cup {"voice_attach"}]
             /\ UNCHANGED <<queues, journal>>
    <3>1. stream.pc = "pass" /\ stream.held \in Items
      BY <1>10 DEF Pass, Shapes, Placed
    <3>2. SoundAt(stream.held, stream.cursor, events', exec', strayed')
      BY <3>1, SoundAsBefore
    <3>3. SH
      BY <1>0, <2>1, <3>1, <3>2, ShownSound DEF Yield, SH
    <3>4. stream'.read = stream.read /\ stream'.pc # "pass"
      BY <1>0, <2>1 DEF Generators
    <3> QED BY <1>4, <1>5, <2>1, <3>3, <3>4
  <2> QED BY <1>3, <1>6, <1>7, <1>10, <2>1 DEF Pass
<1>11. CASE Install
  <2> DEFINE full == \E i \in DOMAIN stream.read : stream.read[i].kind = "overflow"
             copy == [Unused EXCEPT !.log = stream.read, !.stopped = full]
             js == [journal EXCEPT ![FreeJournal] = copy]
  <2>1. copy \in Journals /\ copy.log = stream.read
    <3>1. full \in BOOLEAN
      OBVIOUS
    <3> HIDE DEF full, Items
    <3> QED BY <3>1, <1>0 DEF Unused, Journals, Generators
  <2>2. journal' = Kept(js, queues', stream')
    BY <1>11 DEF Install
  <2>3. js \in [JournalIds -> Journals] /\ \A j \in JournalIds : js[j] \in {journal[j], copy}
    <3> HIDE DEF copy
    <3> QED BY <1>0, <2>1
  <2> HIDE DEF copy, js
  <2>4. \A j \in JournalIds : SoundLog(js[j].log, events', exec', strayed')
    BY <2>1, <2>3, SoundAsBefore
  <2>5. JS
    BY <2>2, <2>3, <2>4, KeptSound DEF JS
  <2>6. stream'.pc = "top" /\ stream'.read = <<>>
    BY <1>0, <1>11 DEF Install, Generators
  <2>7. ST
    BY <2>6, EmptySound DEF ST
  <2> QED BY <1>3, <1>11, <2>5, <2>7 DEF Install, client
<1>12. CASE Notice
  BY <1>3, <1>6, <1>12 DEF Notice
<1> QED BY <1>8, <1>9, <1>10, <1>11, <1>12 DEF Generator

\* All steps together.
LEMMA SoundStep ==
    ASSUME Shapes, Sound, [Next]_vars
    PROVE  Sound'
<1>0. Forward
  BY ForwardStep
<1>1. CASE UNCHANGED vars
  BY <1>1 DEF vars, ledger, client, Sound, SoundLog, SoundAt
<1>2. CASE Worker
  BY <1>0, <1>2, SoundWorker
<1>3. CASE Ledger \/ Leave
  BY <1>0, <1>3, SoundLedger
<1>4. CASE Generator
  BY <1>0, <1>4, SoundGenerator
<1>5. CASE Reconnect
  BY <1>0, <1>5, SoundReconnect DEF Reconnect
<1>6. ASSUME NEW p \in Procs, Attach(p) \/ Invalidate(p) \/ Sweep(p) \/ Crash(p)
      PROVE  Sound'
  BY <1>0, <1>6, SoundProcess
<1> QED BY <1>1, <1>2, <1>3, <1>4, <1>5, <1>6 DEF Next

----------------------------------------------------------------------------
(* What the client has seen: one event after the other, an error last.     *)

\* A client that is not yet told has seen no error, and every id so far.
LEMMA UntoldSeen ==
    ASSUME Shapes, Sound, Seen, ~Told
    PROVE  \A i \in DOMAIN shown : /\ shown[i].id = i
                                  /\ shown[i].item.kind \notin Failures \cup {"unavailable"}
BY DEF Told, Terminal, Sound, SoundAt, Seen

\* A new connection goes on after the last event seen.
LEMMA SeenReconnect ==
    ASSUME Shapes, Sound, Seen, NEW p \in Procs, Connect(p) \/ Recover(p)
    PROVE  Seen'
<1>0. ~Told /\ ~live /\ shown \in Seq(Entries)
  BY DEF Connect, Recover, Shapes, TypeOK
<1>1. LastSeen = Len(shown)
  BY <1>0, LastSeenType DEF Shapes
<1>2. CASE Connect(p)
  <2>1. stream'.pc = "top" /\ stream'.cursor = Len(shown)
    BY <1>1, <1>2, EnterFields DEF Connect
  <2> QED BY <1>0, <1>2, <2>1, UntoldSeen DEF Connect, Seen
<1>3. CASE Recover(p)
  <2>1. CASE /\ live' = TRUE /\ UNCHANGED shown
             /\ stream' = [Enter(p, None) EXCEPT !.pc = "recover", !.read = Recovered(events)]
    <3>1. stream'.pc = "recover" /\ stream'.cursor = Len(shown)
      BY <1>1, <2>1, EnterFields
    <3> QED BY <1>0, <2>1, <3>1, UntoldSeen DEF Seen
  <2>2. CASE /\ shown' = Append(shown, [id |-> 0, item |-> Note("unavailable")])
             /\ UNCHANGED live
    <3>1. Len(shown') = Len(shown) + 1 /\ DOMAIN shown' = 1..(Len(shown) + 1)
          /\ shown'[Len(shown) + 1] = [id |-> 0, item |-> Note("unavailable")]
          /\ \A i \in 1..Len(shown) : i \in DOMAIN shown /\ shown'[i] = shown[i]
      BY <1>0, <2>2
    <3>2. \A i \in 1..Len(shown) : /\ shown'[i].id = i
                                  /\ shown'[i].item.kind \notin Failures \cup {"unavailable"}
      BY <1>0, <3>1, UntoldSeen
    <3>3. Len(shown) \in Nat
      BY <1>0
    <3> SUFFICES ASSUME NEW i \in 1..(Len(shown) + 1)
                 PROVE  /\ shown'[i].id \in {0, i}
                        /\ shown'[i].item.kind \in Failures \cup {"unavailable"} =>
                              i = Len(shown') /\ ~live'
      BY <1>0, <2>2, <3>1 DEF Seen
    <3>4. CASE i \in 1..Len(shown)
      BY <3>2, <3>4
    <3>5. CASE i = Len(shown) + 1
      BY <1>0, <2>2, <3>1, <3>5
    <3> QED BY <3>3, <3>4, <3>5
  <2> QED BY <1>3, <2>1, <2>2 DEF Recover
<1> QED BY <1>2, <1>3

\* One more event for a client that is there.
LEMMA SeenMore ==
    ASSUME Shapes, Seen, live, NEW id \in {0, Len(shown) + 1}, NEW item,
           shown' = Append(shown, [id |-> id, item |-> item]),
           item.kind \in Failures \cup {"unavailable"} => ~live',
           live' => /\ stream'.pc \notin {"idle", "pass"}
                    /\ stream'.cursor = Len(shown) + 1
    PROVE  Seen'
<1>0. shown \in Seq(Entries) /\ Len(shown) \in Nat
  BY DEF Shapes, TypeOK
<1>1. Len(shown') = Len(shown) + 1 /\ DOMAIN shown' = 1..(Len(shown) + 1)
      /\ shown'[Len(shown) + 1] = [id |-> id, item |-> item]
      /\ \A i \in 1..Len(shown) : i \in DOMAIN shown /\ shown'[i] = shown[i]
  BY <1>0
<1>2. \A i \in 1..Len(shown) : /\ shown'[i].id \in {0, i}
                              /\ shown'[i].item.kind \notin Failures \cup {"unavailable"}
  BY <1>1 DEF Seen
<1>3. ASSUME NEW i \in 1..(Len(shown) + 1)
      PROVE  /\ shown'[i].id \in {0, i}
             /\ shown'[i].item.kind \in Failures \cup {"unavailable"} =>
                   i = Len(shown') /\ ~live'
  <2>1. CASE i \in 1..Len(shown)
    BY <1>2, <2>1
  <2>2. CASE i = Len(shown) + 1
    BY <1>1, <2>2
  <2> QED BY <1>0, <2>1, <2>2
<1> QED BY <1>1, <1>3 DEF Seen

\* A generator sends the next event, or an error and then nothing.
LEMMA SeenGenerator ==
    ASSUME Shapes, Sound, Seen, Generator
    PROVE  Seen'
<1>0. /\ shown \in Seq(Entries) /\ Len(shown) \in Nat /\ live \in BOOLEAN
      /\ stream \in Generators /\ stream.cursor \in Nat
  BY DEF Shapes, TypeOK, Generators
<1>1. ASSUME NEW drop, End(drop), UNCHANGED shown
      PROVE  Seen'
  BY <1>1 DEF End, Seen
<1>2. ASSUME NEW drop, Refuse(drop)
      PROVE  Seen'
  <2>1. live' = FALSE
    BY <1>2 DEF Refuse, End
  <2>2. CASE live
    <3>1. shown' = Append(shown, [id |-> 0, item |-> Note("unavailable")])
      BY <1>2, <2>2 DEF Refuse, Yield
    <3> QED BY <2>1, <2>2, <3>1, SeenMore
  <2>3. CASE ~live
    BY <1>1, <1>2, <2>3 DEF Refuse, Yield
  <2> QED BY <2>2, <2>3
<1>3. ASSUME stream.pc \notin {"idle", "pass"}, stream'.pc \in {"top", "read"},
             stream'.cursor = stream.cursor, UNCHANGED client
      PROVE  Seen'
  BY <1>3 DEF Seen, client
<1>4. CASE Top
  <2>1. CASE stream' = [stream EXCEPT !.pc = "read"] /\ UNCHANGED <<queues, journal, client>>
    BY <1>0, <1>3, <1>4, <2>1 DEF Top, Generators
  <2> QED BY <1>2, <1>4, <2>1 DEF Top
<1>5. CASE Read
  <2> DEFINE log == journal[stream.q].log
  <2>0. stream.pc = "read"
    BY <1>5 DEF Read
  <2>1. CASE /\ stream' = [stream EXCEPT !.pc = "pass", !.cursor = @ + 1,
                                         !.held = log[stream.cursor + 1]]
             /\ UNCHANGED <<queues, journal, client, faults>>
    <3>1. stream'.pc = "pass" /\ stream'.cursor = stream.cursor + 1
      BY <1>0, <2>1 DEF Generators
    <3> QED BY <2>0, <2>1, <3>1 DEF Seen, client
  <2>2. CASE stream' = [stream EXCEPT !.pc = "top"] /\ UNCHANGED <<queues, client>>
    BY <1>0, <1>3, <2>0, <2>2 DEF Generators
  <2> QED BY <1>1, <1>2, <1>5, <2>1, <2>2 DEF Read
<1>6. CASE Pass
  <2>0. /\ stream.pc = "pass" /\ stream.held \in Items /\ stream.cursor > 0
        /\ SoundAt(stream.held, stream.cursor, events, exec, strayed)
    BY <1>6 DEF Pass, Shapes, Placed, Sound
  <2>1. CASE /\ live
             /\ Yield(stream.cursor, stream.held)
             /\ stream' = [stream EXCEPT !.pc = "top", !.held = None,
                               !.post = @ \/ stream.held.kind \in Terminal \cup {"voice_attach"}]
             /\ live' = (stream.held.kind \notin Failures)
    <3>1. stream.cursor = Len(shown) + 1
      BY <2>0, <2>1 DEF Seen
    <3>2. shown' = Append(shown, [id |-> stream.cursor, item |-> stream.held])
      BY <2>1 DEF Yield
    <3>3. stream'.pc = "top" /\ stream'.cursor = stream.cursor
      BY <1>0, <2>1 DEF Generators
    <3>4. stream.held.kind # "unavailable"
      BY <1>0, <2>0 DEF SoundAt
    <3> QED BY <2>1, <3>1, <3>2, <3>3, <3>4, SeenMore
  <2> QED BY <1>1, <1>2, <1>6, <2>1 DEF Pass
<1>7. CASE Install
  <2>1. stream.pc = "recover" /\ stream'.pc = "top" /\ stream'.cursor = stream.cursor
    BY <1>0, <1>7 DEF Install, Generators
  <2> QED BY <1>3, <1>7, <2>1 DEF Install
<1>8. CASE Notice
  BY <1>1, <1>8 DEF Notice
<1> QED BY <1>4, <1>5, <1>6, <1>7, <1>8 DEF Generator

\* All steps together.
LEMMA SeenStep ==
    ASSUME Shapes, Sound, Seen, [Next]_vars
    PROVE  Seen'
<1>1. CASE UNCHANGED <<stream, live, shown>>
  BY <1>1 DEF Seen
<1>2. CASE Generator
  BY <1>2, SeenGenerator
<1>3. CASE Reconnect
  BY <1>3, SeenReconnect DEF Reconnect
<1>4. CASE UNCHANGED vars \/ Worker \/ Ledger
  <2>1. UNCHANGED <<stream, live, shown>>
    BY <1>4 DEF vars, client, Worker, Claim, Emit, Settle, Send, Speak,
                Ledger, Expire, CancelQueued, BeginMutation
  <2> QED BY <1>1, <2>1
<1>5. CASE Leave
  BY <1>5 DEF Leave, Seen
<1>6. ASSUME NEW p \in Procs, Attach(p) \/ Invalidate(p) \/ Sweep(p)
      PROVE  Seen'
  <2>1. UNCHANGED <<stream, live, shown>>
    BY <1>6 DEF client, Attach, Invalidate, Sweep
  <2> QED BY <1>1, <2>1
<1>7. ASSUME NEW p \in Procs, Crash(p)
      PROVE  Seen'
  <2>1. UNCHANGED shown /\ (live' => live /\ UNCHANGED stream)
    BY <1>7 DEF Crash
  <2> QED BY <2>1 DEF Seen
<1> QED BY <1>2, <1>3, <1>4, <1>5, <1>6, <1>7 DEF Next

----------------------------------------------------------------------------
(* As long as the journal of the worker takes events, the database has all *)
(* of them; "done" closes it.                                              *)

\* Steps that neither write nor open a journal for the worker.
LEMMA CompleteCalm ==
    ASSUME Complete, strayed' = strayed, UNCHANGED events,
           worker' = worker \/ (worker'.pc = "over" /\ worker'.emitted = worker.emitted),
           status' = "current" => status = "current",
           queues'[Home] \in JournalIds /\ Writable(journal'[queues'[Home]]) =>
               queues[Home] = queues'[Home] /\ Writable(journal[queues[Home]])
    PROVE  Complete'
BY DEF Complete, Fresh

\* A collected journal is not written.
LEMMA KeptWritable ==
    ASSUME NEW js \in [JournalIds -> Journals], NEW qs, NEW st, NEW j \in JournalIds,
           Writable(Kept(js, qs, st)[j])
    PROVE  Writable(js[j])
<1>1. ~Writable(Unused)
  BY DEF Writable, Unused
<1> QED BY <1>1, KeptAt

\* All that was emitted, and one more.
LEMMA EmittedSeq ==
    ASSUME NEW n \in Nat
    PROVE  /\ Emitted(n) \in Seq(Items) /\ Len(Emitted(n)) = n
           /\ Emitted(0) = <<>>
           /\ Append(Emitted(n), Progress(n + 1)) = Emitted(n + 1)
<1>1. \A m \in Nat : Emitted(m) \in Seq(Items) /\ Len(Emitted(m)) = m
  <2> TAKE m \in Nat
  <2>1. Emitted(m) \in [1..m -> Items]
    BY ItemTypes DEF Emitted
  <2> HIDE DEF Items
  <2> QED BY <2>1 DEF Emitted
<1>2. Emitted(0) = <<>>
  BY <1>1
<1>3. Append(Emitted(n), Progress(n + 1)) = Emitted(n + 1)
  <2>1. Progress(n + 1) \in Items
    BY ItemTypes
  <2>2. /\ Append(Emitted(n), Progress(n + 1)) \in Seq(Items)
        /\ Len(Append(Emitted(n), Progress(n + 1))) = n + 1
        /\ \A i \in 1..n : Append(Emitted(n), Progress(n + 1))[i] = Emitted(n)[i]
        /\ Append(Emitted(n), Progress(n + 1))[n + 1] = Progress(n + 1)
    <3> HIDE DEF Items, Emitted
    <3> QED BY <1>1, <2>1
  <2>3. \A i \in 1..(n + 1) : Append(Emitted(n), Progress(n + 1))[i] = Emitted(n + 1)[i]
    BY <2>2 DEF Emitted
  <2>4. Emitted(n + 1) \in Seq(Items) /\ Len(Emitted(n + 1)) = n + 1
    BY <1>1
  <2> DEFINE a == Append(Emitted(n), Progress(n + 1))
             b == Emitted(n + 1)
  <2>5. /\ a \in Seq(Items) /\ Len(a) = n + 1 /\ b \in Seq(Items) /\ Len(b) = n + 1
        /\ \A i \in 1..(n + 1) : a[i] = b[i]
    BY <2>2, <2>3, <2>4
  <2> HIDE DEF a, b, Items
  <2>6. a = b
    BY <2>5
  <2> QED BY <2>6 DEF a, b
<1> QED BY <1>1, <1>2, <1>3

\* What an append adds to what is done.
LEMMA DoneAppended ==
    ASSUME NEW es \in Seq(Items), NEW item \in Items, HasDone(Append(es, item))
    PROVE  HasDone(es) \/ item.kind = "done"
<1> HIDE DEF Items
<1>1. PICK i \in DOMAIN Append(es, item) : Append(es, item)[i].kind = "done"
  BY DEF HasDone
<1>2. CASE i \in DOMAIN es
  <2>1. Append(es, item)[i] = es[i]
    BY <1>2
  <2> QED BY <1>1, <1>2, <2>1 DEF HasDone
<1>3. CASE i = Len(es) + 1
  <2>1. Append(es, item)[i] = item
    BY <1>3
  <2> QED BY <1>1, <2>1
<1> QED BY <1>2, <1>3

\* "done" ends a delivery.
LEMMA DoneEnds ==
    ASSUME NEW es \in Seq(Items)
    PROVE  EndsDelivery(Append(es, Note("done")))
<1>1. Note("done") \in Items /\ Note("done").kind = "done"
  BY ItemTypes DEF Kinds, Terminal
<1>2. /\ Append(es, Note("done")) # <<>>
      /\ Append(es, Note("done"))[Len(Append(es, Note("done")))] = Note("done")
  <2> HIDE DEF Items, Note
  <2>1. /\ Len(Append(es, Note("done"))) = Len(es) + 1
        /\ Append(es, Note("done"))[Len(es) + 1] = Note("done")
    BY <1>1
  <2> QED BY <1>1, <2>1
<1> QED BY <1>1, <1>2 DEF EndsDelivery, Terminal

\* What a worker that has not strayed has added to the database: the item, to
\* all that was emitted, or an error; and only the item leaves its journal open.
LEMMA WriteFresh ==
    ASSUME Shapes, worker.proc = Home, NEW item \in Items, Write(item), ~strayed',
           status = "current" \/ UNCHANGED status
    PROVE  LET j == queues[Home] IN
           /\ j \in JournalIds
           /\ Writable(journal'[j]) =>
                 /\ Writable(journal[j]) /\ ~EndsDelivery(events) /\ status = "current"
                 /\ events' = Append(events, item)
           /\ \/ UNCHANGED events
              \/ /\ ~EndsDelivery(events)
                 /\ \/ events' = Append(events, Note("overflow"))
                    \/ events' = Append(events, Note("unconfirmed"))
                    \/ /\ events' = Append(events, item)
                       /\ Writable(journal[j]) /\ status = "current"
<1> DEFINE j == queues[Home]
<1>1. j \in JournalIds /\ Stored(j, item) /\ journal[j].writer
  BY HomeAssumption, WriteStores DEF Shapes
<1>2. journal \in [JournalIds -> Journals] /\ journal[j] \in Journals
  BY <1>1 DEF Shapes, TypeOK
<1>3. Note("overflow") \in Items /\ Note("unconfirmed") \in Items
  BY ItemTypes DEF Kinds, LocalOnly
<1> HIDE DEF j
<1>4. CASE ~Writable(journal[j]) /\ UNCHANGED <<journal, events, faults>>
  BY <1>1, <1>4 DEF j
<1>5. ASSUME NEW w \in Items, NEW last \in BOOLEAN,
             journal' = [journal EXCEPT ![j] = Logged(@, w, last)]
      PROVE  Writable(journal'[j]) => ~last
  <2>1. journal'[j] = Logged(journal[j], w, last)
    BY <1>1, <1>2, <1>5
  <2>2. Logged(journal[j], w, last).stopped = last
    BY <1>2, LoggedType
  <2> QED BY <2>1, <2>2 DEF Writable
<1>6. ASSUME NEW w \in {item, Note("overflow")}, NEW last \in BOOLEAN,
             Writable(journal[j]) \/ (~journal[j].writer /\ UNCHANGED events),
             Accepts(journal[j].log, w), events' = Append(events, w),
             w # item => last,
             journal' = [journal EXCEPT ![j] = Logged(@, w, last)]
      PROVE  /\ Writable(journal'[j]) =>
                  /\ Writable(journal[j]) /\ ~EndsDelivery(events) /\ status = "current"
                  /\ events' = Append(events, item)
             /\ ~EndsDelivery(events)
             /\ \/ events' = Append(events, Note("overflow"))
                \/ /\ events' = Append(events, item)
                   /\ Writable(journal[j]) /\ status = "current"
  <2>1. Writable(journal[j]) /\ ~EndsDelivery(events) /\ status = "current"
    BY <1>1, <1>6 DEF Accepts
  <2>2. Writable(journal'[j]) => w = item
    BY <1>3, <1>5, <1>6
  <2> QED BY <1>6, <2>1, <2>2
<1>7. CASE /\ Writable(journal[j])
           /\ journal' = [journal EXCEPT ![j] = Logged(@, Note("unconfirmed"), TRUE)]
           /\ \/ events' = events
              \/ /\ Accepts(journal[j].log, Note("unconfirmed"))
                 /\ events' = Append(events, Note("unconfirmed"))
  <2>1. ~Writable(journal'[j])
    BY <1>3, <1>5, <1>7
  <2> QED BY <1>1, <1>7, <2>1 DEF Accepts, j
<1>8. CASE \E w \in {item, Note("overflow")}, last \in BOOLEAN :
              /\ Writable(journal[j]) \/ (~journal[j].writer /\ UNCHANGED events)
              /\ Accepts(journal[j].log, w) /\ events' = Append(events, w)
              /\ w # item => last
              /\ journal' = [journal EXCEPT ![j] = Logged(@, w, last)]
  BY <1>1, <1>6, <1>8 DEF j
<1> QED BY <1>1, <1>4, <1>7, <1>8 DEF Stored

\* The worker adds what it emits, and "done" last.
LEMMA CompleteWorker ==
    ASSUME Shapes, Complete, Worker
    PROVE  Complete'
<1>0. /\ TypeOK /\ events \in Seq(Items) /\ worker.emitted \in Nat
      /\ worker \in [pc : {"none", "agent", "settled", "sent", "over"},
                     proc : Procs \cup {None}, emitted : 0..MaxProgress]
  BY BoundsAssumption DEF Shapes, TypeOK
<1>1. \A kind \in {"overflow", "unconfirmed", "voice_attach", "cancelled", "done", "reply_error"} :
          Note(kind) \in Items /\ Note(kind).kind = kind
  BY ItemTypes DEF Kinds, Terminal, LocalOnly, Failures
<1> DEFINE Adds(w) == events' = Append(events, w) /\ HasDone(events') =>
                        HasDone(events) \/ w.kind = "done"
<1>7. \A w \in Items : Adds(w)
  <2> TAKE w \in Items
  <2> SUFFICES ASSUME events' = Append(events, w), HasDone(events')
               PROVE  HasDone(events) \/ w.kind = "done"
    OBVIOUS
  <2>1. HasDone(Append(events, w))
    OBVIOUS
  <2> QED BY <1>0, <2>1, DoneAppended
<1>2. CASE Claim
  <2>1. events' = <<>> /\ worker'.emitted = 0
    BY <1>0, <1>2 DEF Claim, Shapes, Placed
  <2>2. ~HasDone(events')
    BY <2>1 DEF HasDone
  <2>3. Emitted(0) = <<>>
    BY EmittedSeq
  <2> QED BY <2>1, <2>2, <2>3 DEF Complete
<1>3. CASE Emit
  <2> SUFFICES ASSUME ~strayed' PROVE Complete'
    BY DEF Complete
  <2>1. /\ worker.pc = "agent" /\ worker.proc = Home /\ Write(Progress(worker.emitted + 1))
        /\ UNCHANGED <<ledger, queues>>
    BY <1>3 DEF Emit, Shapes, Placed
  <2>2. /\ Progress(worker.emitted + 1) \in Items
        /\ Progress(worker.emitted + 1).kind = "progress"
    BY <1>0, ItemTypes
  <2>3. worker'.pc = "agent" /\ worker'.emitted = worker.emitted + 1
    BY <1>0, <1>3, <2>1 DEF Emit
  <2>4. ~strayed
    BY <2>1, <2>2, HomeAssumption, WriteStores DEF Shapes
  <2>5. ~HasDone(events)
    BY <2>1, <2>4 DEF Complete
  <2>6. /\ Writable(journal'[queues[Home]]) =>
              /\ Writable(journal[queues[Home]]) /\ ~EndsDelivery(events) /\ status = "current"
              /\ events' = Append(events, Progress(worker.emitted + 1))
        /\ queues[Home] \in JournalIds
        /\ \/ UNCHANGED events
           \/ \E w \in {Progress(worker.emitted + 1), Note("overflow"), Note("unconfirmed")} :
                 events' = Append(events, w)
    BY <2>1, <2>2, WriteFresh DEF ledger
  <2>7. ~HasDone(events')
    BY <1>1, <1>7, <2>2, <2>5, <2>6
  <2>8. Fresh' => events' = Emitted(worker'.emitted)
    <3> SUFFICES ASSUME Fresh' PROVE events' = Emitted(worker'.emitted)
      OBVIOUS
    <3>1. Fresh /\ events' = Append(events, Progress(worker.emitted + 1))
      BY <2>1, <2>6 DEF Fresh
    <3>2. events = Emitted(worker.emitted)
      BY <2>4, <3>1 DEF Complete
    <3> QED BY <1>0, <2>3, <3>1, <3>2, EmittedSeq
  <2> QED BY <2>7, <2>8 DEF Complete
<1>4. CASE Settle
  <2> SUFFICES ASSUME ~strayed' PROVE Complete'
    BY DEF Complete
  <2>1. /\ worker.pc = "agent" /\ worker'.pc = "settled" /\ worker'.emitted = worker.emitted
        /\ UNCHANGED <<status, journal, queues>> /\ ~strayed
    BY <1>0, <1>4 DEF Settle
  <2>2. ~HasDone(events)
    BY <2>1 DEF Complete
  <2>3. CASE UNCHANGED events
    BY <2>1, <2>2, <2>3 DEF Complete, Fresh
  <2>4. CASE events' = WithMarker(events, "cancelled")
    <3>1. EndsDelivery(events')
      BY <1>0, <2>4, MarkerType
    <3>2. ~HasDone(events')
      BY <1>0, <1>1, <1>7, <2>2, <2>4, MarkerType
    <3> QED BY <3>1, <3>2 DEF Complete, Fresh
  <2> QED BY <1>4, <2>3, <2>4 DEF Settle
<1>5. CASE Send
  <2> SUFFICES ASSUME ~strayed' PROVE Complete'
    BY DEF Complete
  <2>1. /\ worker.pc = "settled" /\ worker'.pc = "sent" /\ worker'.emitted = worker.emitted
        /\ worker.proc = Home /\ UNCHANGED <<ledger, queues>>
    BY <1>0, <1>5 DEF Send, Shapes, Placed
  <2>2. ~Fresh'
    BY <2>1 DEF Fresh
  <2>3. CASE exec = "cancelled"
    <3>1. UNCHANGED <<events, strayed>>
      BY <1>5, <2>3 DEF Send
    <3> QED BY <2>1, <2>2, <3>1 DEF Complete
  <2>4. CASE exec # "cancelled"
    <3>1. PICK kind \in {"done", "reply_error"} : Write(Note(kind))
      BY <1>5, <2>4 DEF Send, Verdict
    <3>2. ~strayed
      BY <1>1, <2>1, <3>1, HomeAssumption, WriteStores DEF Shapes
    <3>3. ~HasDone(events)
      BY <2>1, <3>2 DEF Complete
    <3>4. /\ queues[Home] \in JournalIds
          /\ \/ UNCHANGED events
             \/ /\ ~EndsDelivery(events)
                /\ \/ events' = Append(events, Note("overflow"))
                   \/ events' = Append(events, Note("unconfirmed"))
                   \/ /\ events' = Append(events, Note(kind))
                      /\ Writable(journal[queues[Home]]) /\ status = "current"
      BY <1>1, <2>1, <3>1, WriteFresh DEF ledger
    <3> SUFFICES ASSUME HasDone(events')
                 PROVE  events' = Append(Emitted(worker.emitted), Note("done"))
      BY <2>1, <2>2 DEF Complete
    <3>5. /\ events' = Append(events, Note(kind)) /\ kind = "done"
          /\ Writable(journal[queues[Home]]) /\ status = "current" /\ ~EndsDelivery(events)
      BY <1>1, <1>7, <3>3, <3>4
    <3>6. events = Emitted(worker.emitted)
      BY <2>1, <3>2, <3>4, <3>5 DEF Complete, Fresh
    <3> QED BY <3>5, <3>6
  <2> QED BY <2>3, <2>4
<1>6. CASE Speak
  <2> SUFFICES ASSUME ~strayed' PROVE Complete'
    BY DEF Complete
  <2>1. /\ worker.pc = "sent" /\ worker'.pc = "over" /\ worker'.emitted = worker.emitted
        /\ worker.proc = Home /\ UNCHANGED <<ledger, queues>> /\ Write(Note("voice_attach"))
    BY <1>0, <1>6 DEF Speak, Shapes, Placed
  <2>2. ~strayed
    BY <1>1, <2>1, HomeAssumption, WriteStores DEF Shapes
  <2>3. \/ UNCHANGED events
        \/ /\ ~EndsDelivery(events)
           /\ \E w \in {Note("voice_attach"), Note("overflow"), Note("unconfirmed")} :
                 events' = Append(events, w)
    BY <1>1, <2>1, WriteFresh DEF ledger
  <2>4. HasDone(events) => EndsDelivery(events)
    <3>1. HasDone(events) => events = Append(Emitted(worker.emitted), Note("done"))
      BY <2>2 DEF Complete
    <3> QED BY <1>0, <3>1, DoneEnds, EmittedSeq
  <2>5. HasDone(events') => UNCHANGED events
    BY <1>1, <1>7, <2>3, <2>4
  <2> QED BY <2>1, <2>2, <2>5 DEF Complete, Fresh
<1> QED BY <1>2, <1>3, <1>4, <1>5, <1>6 DEF Worker

\* The ledger adds a marker to a run that was never claimed.
LEMMA CompleteLedger ==
    ASSUME Shapes, Complete, Ledger \/ Leave
    PROVE  Complete'
<1>0. events \in Seq(Items)
  BY DEF Shapes, TypeOK
<1>1. UNCHANGED <<worker, journal, queues, strayed>>
  BY DEF Ledger, Leave, Expire, CancelQueued, BeginMutation
<1>2. CASE UNCHANGED events /\ (status' = "current" => status = "current")
  BY <1>1, <1>2, CompleteCalm
<1>3. CASE exec = "queued" /\ events' = WithMarker(events, "cancelled")
  <2>1. events = <<>> /\ worker.pc = "none"
    BY <1>3 DEF Shapes, Placed
  <2>2. events' = Append(<<>>, Note("cancelled"))
    BY <1>3, <2>1 DEF WithMarker, EndsDelivery
  <2>3. Note("cancelled") \in Items /\ Note("cancelled").kind = "cancelled"
    BY ItemTypes DEF Kinds, Terminal
  <2>4. ~HasDone(<<>>)
    BY DEF HasDone
  <2>5. ~HasDone(Append(<<>>, Note("cancelled")))
    BY <1>0, <2>1, <2>3, <2>4, DoneAppended
  <2> QED BY <1>1, <2>1, <2>2, <2>5 DEF Complete, Fresh
<1> QED BY <1>2, <1>3 DEF Ledger, Leave, Expire, CancelQueued, BeginMutation, ledger

\* A process never gives the worker another journal to write.
LEMMA CompleteProcess ==
    ASSUME Shapes, Complete, NEW p \in Procs,
           Attach(p) \/ Invalidate(p) \/ Sweep(p) \/ Crash(p)
    PROVE  Complete'
<1>0. /\ journal \in [JournalIds -> Journals] /\ events \in Seq(Items)
      /\ queues \in [Procs -> JournalIds \cup {None}] /\ FreeJournal \in JournalIds
      /\ None \notin JournalIds /\ Home \in Procs
  BY FreeIsFree, NoneAssumption, HomeAssumption, FS_CardinalityType
     DEF Shapes, TypeOK, JournalIds
<1>1. /\ UNCHANGED <<events, strayed, status>>
      /\ worker' = worker \/ (worker'.pc = "over" /\ worker'.emitted = worker.emitted)
  BY DEF Attach, Invalidate, Sweep, Crash, ledger, Shapes, TypeOK
<1>2. CASE Attach(p)
  <2> DEFINE new == [Unused EXCEPT !.log = events]
  <2>1. new \in Journals /\ ~Writable(new)
    <3> HIDE DEF Items
    <3> QED BY <1>0 DEF Unused, Journals, Writable
  <2> HIDE DEF new
  <2>2. CASE /\ queues[p] = None
             /\ queues' = [queues EXCEPT ![p] = FreeJournal]
             /\ journal' = [journal EXCEPT ![FreeJournal] = new]
    <3>1. queues'[Home] \in JournalIds /\ Writable(journal'[queues'[Home]]) =>
             queues[Home] = queues'[Home] /\ Writable(journal[queues[Home]])
      BY <1>0, <2>1, <2>2
    <3> QED BY <1>1, <3>1, CompleteCalm
  <2>3. CASE /\ queues[p] # None /\ UNCHANGED queues
             /\ journal' = [journal EXCEPT ![queues[p]] = Hydrated(@, events)]
    <3>1. \A j \in JournalIds : Writable(Hydrated(journal[j], events)) => Writable(journal[j])
      BY <1>0, HydratedType DEF Writable
    <3>2. \A j \in JournalIds : journal'[j] \in {journal[j], Hydrated(journal[j], events)}
      BY <1>0, <2>3
    <3> QED BY <1>1, <2>3, <3>1, <3>2, CompleteCalm
  <2> QED BY <1>2, <2>2, <2>3 DEF Attach, new
<1>3. CASE Invalidate(p)
  BY <1>1, <1>3 DEF Invalidate, Complete, Fresh, ledger
<1>4. CASE Sweep(p) \/ Crash(p)
  <2>1. /\ journal' = Kept(journal, queues', stream')
        /\ queues' = [queues EXCEPT ![p] = None]
    BY <1>4 DEF Sweep, Crash
  <2>2. queues'[Home] \in {queues[Home], None}
    BY <1>0, <2>1
  <2>3. \A j \in JournalIds : Writable(journal'[j]) => Writable(journal[j])
    BY <1>0, <2>1, KeptWritable
  <2> QED BY <1>0, <1>1, <2>2, <2>3, CompleteCalm
<1> QED BY <1>2, <1>3, <1>4

\* Nor does a generator.
LEMMA CompleteStreams ==
    ASSUME Shapes, Complete, Generator \/ Reconnect
    PROVE  Complete'
<1>0. /\ journal \in [JournalIds -> Journals] /\ events \in Seq(Items)
      /\ queues \in [Procs -> JournalIds \cup {None}] /\ FreeJournal \in JournalIds
      /\ None \notin JournalIds /\ Home \in Procs /\ stream \in Generators
  BY FreeIsFree, NoneAssumption, HomeAssumption, FS_CardinalityType
     DEF Shapes, TypeOK, JournalIds
<1>1. ASSUME UNCHANGED <<ledger, events, worker, strayed>>,
             queues'[Home] \in {queues[Home], None},
             \A j \in JournalIds : Writable(journal'[j]) => Writable(journal[j])
      PROVE  Complete'
  BY <1>0, <1>1, CompleteCalm DEF ledger
<1>2. ASSUME NEW drop, End(drop), UNCHANGED <<ledger, events, worker, strayed>>
      PROVE  Complete'
  <2>1. \A j \in JournalIds : Writable(journal'[j]) => Writable(journal[j])
    BY <1>0, <1>2, KeptWritable DEF End
  <2>2. queues'[Home] \in {queues[Home], None}
    BY <1>0, <1>2 DEF End
  <2> QED BY <1>1, <1>2, <2>1, <2>2
<1>3. CASE Top
  BY <1>1, <1>2, <1>3 DEF Top, Refuse
<1>4. CASE Read
  <2> DEFINE log == journal[stream.q].log
             more == log \o SubSeq(events, stream.cursor + 1, Len(events))
  <2>0. /\ stream.q \in JournalIds /\ UNCHANGED <<ledger, events, worker, strayed>>
    BY <1>4 DEF Read, Shapes, Placed
  <2>1. CASE UNCHANGED <<queues, journal>>
    BY <1>1, <2>0, <2>1
  <2>2. CASE journal' = [journal EXCEPT ![stream.q] = Hydrated(@, more)] /\ UNCHANGED queues
    <3>1. more \in Seq(Items)
      <4>1. log \in Seq(Items)
        BY <1>0, <2>0 DEF Journals
      <4>2. SubSeq(events, stream.cursor + 1, Len(events)) \in Seq(Items)
        <5>1. stream.cursor \in Nat
          BY <1>0 DEF Generators
        <5> HIDE DEF Items
        <5> QED BY <1>0, <5>1
      <4> HIDE DEF Items, log
      <4> QED BY <4>1, <4>2
    <3> HIDE DEF more
    <3>2. \A j \in JournalIds : Writable(Hydrated(journal[j], more)) => Writable(journal[j])
      BY <1>0, <3>1, HydratedType DEF Writable
    <3>3. \A j \in JournalIds : journal'[j] \in {journal[j], Hydrated(journal[j], more)}
      BY <1>0, <2>0, <2>2
    <3> QED BY <1>1, <2>0, <2>2, <3>2, <3>3
  <2> QED BY <1>2, <1>4, <2>0, <2>1, <2>2 DEF Read, Refuse, client
<1>5. CASE Pass
  BY <1>1, <1>2, <1>5 DEF Pass, Refuse
<1>6. CASE Install
  <2> DEFINE full == \E i \in DOMAIN stream.read : stream.read[i].kind = "overflow"
             copy == [Unused EXCEPT !.log = stream.read, !.stopped = full]
             js == [journal EXCEPT ![FreeJournal] = copy]
  <2>1. copy \in Journals /\ ~Writable(copy)
    <3>1. full \in BOOLEAN
      OBVIOUS
    <3> HIDE DEF full, Items
    <3> QED BY <3>1, <1>0 DEF Unused, Journals, Generators, Writable
  <2>2. /\ journal' = Kept(js, queues', stream')
        /\ queues' = [queues EXCEPT ![stream.proc] = FreeJournal]
        /\ UNCHANGED <<ledger, events, worker, strayed>>
    BY <1>6 DEF Install
  <2>3. js \in [JournalIds -> Journals] /\ \A j \in JournalIds : Writable(js[j]) =>
            j # FreeJournal /\ Writable(journal[j])
    <3> HIDE DEF copy
    <3> QED BY <1>0, <2>1
  <2> HIDE DEF js
  <2>4. \A j \in JournalIds : Writable(journal'[j]) => j # FreeJournal /\ Writable(journal[j])
    BY <2>2, <2>3, KeptWritable
  <2>5. queues'[Home] \in {queues[Home], FreeJournal}
    BY <1>0, <2>2
  <2> QED BY <2>2, <2>4, <2>5, CompleteCalm DEF ledger
<1>7. CASE Notice
  BY <1>2, <1>7 DEF Notice
<1>8. CASE Reconnect
  <2>1. PICK p \in Procs : Connect(p) \/ Recover(p)
    BY <1>8 DEF Reconnect
  <2>2. /\ UNCHANGED <<ledger, events, worker, strayed, queues>>
        /\ journal' = Kept(journal, queues', stream')
    BY <2>1 DEF Connect, Recover
  <2>3. \A j \in JournalIds : Writable(journal'[j]) => Writable(journal[j])
    BY <1>0, <2>2, KeptWritable
  <2> QED BY <1>1, <2>2, <2>3
<1> QED BY <1>3, <1>4, <1>5, <1>6, <1>7, <1>8 DEF Generator

\* All steps together.
LEMMA CompleteStep ==
    ASSUME Shapes, Complete, [Next]_vars
    PROVE  Complete'
<1>1. CASE UNCHANGED vars
  BY <1>1 DEF vars, ledger, client, Complete, Fresh
<1>2. CASE Worker
  BY <1>2, CompleteWorker
<1>3. CASE Ledger \/ Leave
  BY <1>3, CompleteLedger
<1>4. CASE Generator \/ Reconnect
  BY <1>4, CompleteStreams
<1>5. ASSUME NEW p \in Procs, Attach(p) \/ Invalidate(p) \/ Sweep(p) \/ Crash(p)
      PROVE  Complete'
  BY <1>5, CompleteProcess
<1> QED BY <1>1, <1>2, <1>3, <1>4, <1>5 DEF Next

----------------------------------------------------------------------------
(* The theorems.                                                           *)

\* The invariant holds at first,
LEMMA InitIInv == Init => IInv
<1> SUFFICES ASSUME Init PROVE IInv
  OBVIOUS
<1> USE DEF Init
<1>1. Unused \in Journals /\ Idle \in Generators /\ Idle.pc = "idle" /\ Idle.read = <<>>
  BY DEF Unused, Idle, Journals, Generators
<1>2. TypeOK
  <2>1. worker \in [pc : {"none", "agent", "settled", "sent", "over"},
                   proc : Procs \cup {None}, emitted : 0..MaxProgress]
    BY BoundsAssumption
  <2>2. shown \in Seq(Entries) /\ events \in Seq(Items)
    OBVIOUS
  <2>3. queues \in [Procs -> JournalIds \cup {None}] /\ journal \in [JournalIds -> Journals]
    BY <1>1
  <2>4. stream \in Generators /\ live \in BOOLEAN /\ strayed \in BOOLEAN
    BY <1>1
  <2>5. faults \in 0..MaxFaults
    BY BoundsAssumption
  <2> QED BY <2>1, <2>2, <2>3, <2>4, <2>5 DEF TypeOK
<1>3. Shapes
  BY <1>1, <1>2 DEF Shapes, Placed
<1>4. Sound
  BY <1>1, EmptySound DEF Sound
<1>5. Seen
  BY DEF Seen
<1>6. Complete
  BY DEF Complete, Fresh, HasDone
<1> QED BY <1>3, <1>4, <1>5, <1>6 DEF IInv

\* is kept by every step,
LEMMA IInvStep == IInv /\ [Next]_vars => IInv'
BY ShapesStep, SoundStep, SeenStep, CompleteStep DEF IInv

\* and so holds always.
LEMMA StreamSafety == Spec => []IInv
BY InitIInv, IInvStep, PTL DEF Spec

\* For any processes, capacity and faults: what a client has been sent as event n,
\* by whatever process, is the database's event n, unless it is an error that
\* the process made up itself.
THEOREM WhatIsShownIsDurable == Spec => []ShownIsDurable
<1>1. IInv => ShownIsDurable
  <2> SUFFICES ASSUME IInv, ~strayed, NEW i \in DOMAIN shown, shown[i].id > 0,
                      shown[i].item.kind \notin LocalOnly
               PROVE  shown[i].id <= Len(events) /\ events[shown[i].id] = shown[i].item
    BY DEF ShownIsDurable
  <2>1. SoundAt(shown[i].item, shown[i].id, events, exec, strayed)
    BY DEF IInv, Sound
  <2>2. events \in Seq(Items) /\ shown[i] \in Entries
    BY DEF IInv, Shapes, TypeOK
  <2>3. shown[i].id \in DOMAIN events /\ events[shown[i].id] = shown[i].item
    BY <2>1, <2>2 DEF SoundAt, Entries
  <2> QED BY <2>2, <2>3 DEF Entries
<1> QED BY <1>1, StreamSafety, PTL

\* "done" and "cancelled" are sent of runs with that outcome only, and a client
\* that reads "done" has read every event of the agent, each once and in order.
THEOREM DoneMeansComplete == Spec => []DoneIsTrueAndComplete
<1>1. IInv => OutcomeShownIsTrue
  BY DEF IInv, Shapes, Sound, SoundAt, OutcomeShownIsTrue, Received
<1>2. ASSUME IInv, Received("done"), ~strayed
      PROVE  LET told == {i \in DOMAIN shown : shown[i].item.kind = "progress"}
             IN /\ told = 1..worker.emitted
                /\ \A n \in told : shown[n] = [id |-> n, item |-> Progress(n)]
  <2> DEFINE em == worker.emitted
             told == {i \in DOMAIN shown : shown[i].item.kind = "progress"}
  <2>1. /\ events \in Seq(Items) /\ shown \in Seq(Entries) /\ em \in Nat
        /\ Len(shown) \in Nat /\ DOMAIN shown = 1..Len(shown)
    BY <1>2, BoundsAssumption DEF IInv, Shapes, TypeOK
  <2>2. \A i \in DOMAIN shown :
          /\ SoundAt(shown[i].item, shown[i].id, events, exec, strayed)
          /\ shown[i].id \in {0, i}
          /\ shown[i].item.kind \in Failures \cup {"unavailable"} => i = Len(shown)
          /\ shown[i] = [id |-> shown[i].id, item |-> shown[i].item]
    <3> TAKE i \in DOMAIN shown
    <3>1. shown[i] \in Entries
      BY <2>1
    <3> QED BY <1>2, <3>1 DEF IInv, Sound, Seen, Entries
  <2>3. exec = "completed"
    BY <1>1, <1>2 DEF OutcomeShownIsTrue
  <2>4. PICK d \in DOMAIN shown : shown[d].item.kind = "done"
    BY <1>2 DEF Received
  <2>5. shown[d].id = d /\ d \in DOMAIN events /\ events[d].kind = "done"
    BY <1>2, <2>1, <2>2, <2>4 DEF SoundAt, LocalOnly
  <2>6. events = Append(Emitted(em), Note("done"))
    BY <1>2, <2>5 DEF IInv, Complete, HasDone
  <2>7. /\ DOMAIN events = 1..(em + 1)
        /\ \A i \in 1..em : events[i] = Progress(i)
        /\ events[em + 1].kind = "done"
    <3>1. Note("done") \in Items /\ Note("done").kind = "done"
      BY ItemTypes DEF Kinds, Terminal
    <3>2. /\ Len(events) = em + 1
          /\ \A i \in 1..em : events[i] = Emitted(em)[i]
          /\ events[em + 1] = Note("done")
      <4> HIDE DEF Items, Emitted, Note, em
      <4>1. Emitted(em) \in Seq(Items) /\ Len(Emitted(em)) = em
        BY <2>1, EmittedSeq
      <4>2. PICK e \in Seq(Items) : e = Emitted(em)
        BY <4>1
      <4>3. events = Append(e, Note("done")) /\ Len(e) = em
        BY <2>6, <4>1, <4>2
      <4> QED BY <2>1, <3>1, <4>2, <4>3
    <3> HIDE DEF em
    <3>3. DOMAIN events = 1..(em + 1)
      BY <2>1, <3>2
    <3> QED BY <2>1, <3>1, <3>2, <3>3 DEF Emitted
  <2>8. \A n \in Nat : Progress(n).kind = "progress"
    BY ItemTypes
  <2>9. d = em + 1
    BY <2>1, <2>5, <2>7, <2>8
  <2> HIDE DEF em
  <2>10. ASSUME NEW n \in 1..em
         PROVE  n \in told /\ shown[n] = [id |-> n, item |-> Progress(n)]
    <3>0. em + 1 \in 1..Len(shown)
      BY <2>1, <2>4, <2>9
    <3>1. n \in DOMAIN shown /\ n # Len(shown)
      <4>1. n \in Nat /\ 1 <= n /\ n <= em
        BY <2>1
      <4>2. em + 1 <= Len(shown)
        BY <3>0
      <4>3. \A a, b, c \in Nat : 1 <= a /\ a <= b /\ b + 1 <= c => a \in 1..c /\ a # c
        OBVIOUS
      <4>5. n \in 1..Len(shown) /\ n # Len(shown)
        BY <2>1, <4>1, <4>2, <4>3
      <4> QED BY <2>1, <4>5
    <3>2. shown[n].item.kind \notin Failures \cup {"unavailable"}
      BY <2>2, <3>1
    <3>3. shown[n].id = n
      BY <2>1, <2>2, <3>1, <3>2 DEF SoundAt
    <3>4. shown[n].item.kind \notin LocalOnly
      BY <2>2, <2>3, <3>1, <3>2 DEF SoundAt, LocalOnly, Failures
    <3>5. events[n] = shown[n].item
      BY <1>2, <2>1, <2>2, <3>1, <3>3, <3>4 DEF SoundAt
    <3>6. shown[n].item = Progress(n)
      BY <2>7, <3>5
    <3>7. shown[n] = [id |-> n, item |-> Progress(n)]
      BY <2>2, <3>1, <3>3, <3>6
    <3>8. n \in Nat /\ shown[n].item.kind = "progress"
      BY <2>1, <2>8, <3>6
    <3> QED BY <3>1, <3>7, <3>8
  <2>11. ASSUME NEW n \in told
         PROVE  n \in 1..em
    <3>1. n \in DOMAIN shown /\ shown[n].item.kind = "progress"
      OBVIOUS
    <3>2. shown[n].id = n
      BY <2>2, <3>1 DEF SoundAt
    <3>3. n \in DOMAIN events /\ events[n].kind = "progress"
      BY <1>2, <2>1, <2>2, <3>1, <3>2 DEF SoundAt, LocalOnly
    <3> QED BY <2>1, <2>7, <3>3
  <2>12. told = 1..em /\ \A n \in told : shown[n] = [id |-> n, item |-> Progress(n)]
    BY <2>10, <2>11
  <2> QED BY <2>12 DEF em
<1>3. IInv => DoneIsTrueAndComplete
  BY <1>1, <1>2 DEF DoneIsTrueAndComplete
<1> QED BY <1>3, StreamSafety, PTL

\* From the moment a clear or delete begins, no event is sent any more.
THEOREM ClearIsSilent == Spec => NothingAfterClear
<1> DEFINE Quiet == (Len(shown') > Len(shown) /\ shown'[Len(shown')].id > 0) => status = "current"
<1>1. IInv /\ [Next]_vars => [Quiet]_vars
  <2> SUFFICES ASSUME IInv, Next, status # "current" PROVE Quiet
    OBVIOUS
  <2>0. shown \in Seq(Entries) /\ Len(shown) \in Nat
    BY DEF IInv, Shapes, TypeOK
  <2>1. UNCHANGED shown \/ shown' = Append(shown, [id |-> 0, item |-> Note("unavailable")])
    <3>1. CASE Worker \/ Ledger \/ Leave
      BY <3>1 DEF Worker, Claim, Emit, Settle, Send, Speak, Ledger, Expire, CancelQueued,
                  BeginMutation, Leave, client
    <3>2. CASE Generator
      <4>1. CASE Top
        BY <4>1 DEF Top, Refuse, Yield, client
      <4>2. CASE Read
        BY <4>2 DEF Read, Refuse, Yield, client
      <4>3. CASE Pass
        BY <4>3 DEF Pass, Current, Refuse, Yield
      <4>4. CASE Install \/ Notice
        BY <4>4 DEF Install, Notice, client
      <4> QED BY <3>2, <4>1, <4>2, <4>3, <4>4 DEF Generator
    <3>3. CASE Reconnect
      BY <3>3 DEF Reconnect, Connect, Recover
    <3>4. ASSUME NEW p \in Procs, Attach(p) \/ Invalidate(p) \/ Sweep(p) \/ Crash(p)
          PROVE  UNCHANGED shown
      BY <3>4 DEF Attach, Invalidate, Sweep, Crash, client
    <3> QED BY <3>1, <3>2, <3>3, <3>4 DEF Next
  <2>2. CASE UNCHANGED shown
    BY <2>0, <2>2
  <2>3. CASE shown' = Append(shown, [id |-> 0, item |-> Note("unavailable")])
    <3>1. shown'[Len(shown')] = [id |-> 0, item |-> Note("unavailable")]
      BY <2>0, <2>3
    <3> QED BY <3>1
  <2> QED BY <2>1, <2>2, <2>3
<1> QED BY <1>1, StreamSafety, PTL DEF Spec, NothingAfterClear
=============================================================================
