--------------------------- MODULE ResponseStream ---------------------------
(***************************************************************************)
(* How the answer of one Web request reaches its client: the durable event *)
(* journal (DurableSSEJournalStore), the journals that Web processes keep  *)
(* in memory (_SSEEventJournal), the worker that writes them and the SSE   *)
(* generators that read them (WebChannel.stream_response).                 *)
(*                                                                         *)
(* A process finds its journal by request id, in sse_queues.  The journal  *)
(* that the worker's claim installs there is the only one that appends to  *)
(* the database; any other is a copy that a stream has recovered.          *)
(*                                                                         *)
(* Abstractions.                                                           *)
(*  - One request and one client, which keeps reconnecting, with the id of *)
(*    the last event it has seen, to any process.  A generator whose       *)
(*    client has left goes on until it next yields.                        *)
(*  - The ledger's part (claims, fences, outcomes, mutations) is reduced   *)
(*    to what the streams read: ExecutionLedger has it in full.            *)
(*  - A payload is its kind; the agent's own events are numbered.          *)
(*  - Time: the deadlines of a stream may pass whenever it has nothing to  *)
(*    deliver, except that a pending run extends the idle one.             *)
(***************************************************************************)
EXTENDS Integers, Sequences, FiniteSets

CONSTANTS
    Procs,          \* Web processes
    Home,           \* the process whose dispatcher claims the run
    Capacity,       \* _SSE_EVENT_JOURNAL_MAX_EVENTS
    MaxProgress,    \* bound: events the agent emits
    MaxFaults,      \* bound: failing database calls, crashes, lost connections
    None

ASSUME CapacityAssumption == Capacity \in Nat \ {0}
ASSUME BoundsAssumption ==
    MaxProgress \in Nat /\ MaxFaults \in Nat
ASSUME HomeAssumption == Home \in Procs /\ IsFiniteSet(Procs)
ASSUME NoneAssumption == None \notin Procs \cup Nat

----------------------------------------------------------------------------

Failures == {"reply_error", "unconfirmed", "overflow", "recovered"}
Terminal == Failures \cup {"done", "cancelled"}
\* Made up by one process, and never in the database.
LocalOnly == {"recovered", "withheld", "unconfirmed", "overflow"}

Kinds == Terminal \cup LocalOnly \cup {"progress", "voice_attach", "unavailable"}

Items == [kind : Kinds, n : Nat]
Progress(n) == [kind |-> "progress", n |-> n]
Note(kind) == [kind |-> kind, n |-> 0]

\* One journal for each process and the generator, and one being made.
JournalIds == 1..(Cardinality(Procs) + 2)

Unused == [log |-> <<>>, writer |-> FALSE, stopped |-> FALSE, invalid |-> FALSE]
Idle == [pc |-> "idle", proc |-> None, q |-> None, cursor |-> 0,
         post |-> FALSE, held |-> None, read |-> <<>>]

VARIABLES
    exec,      \* execution_state of the run; failed_safe and in_doubt, which
               \* streams treat alike, are one state "failed"
    status,    \* execution_delivery_status: "current", and "closed" from the
               \* start of a clear or delete (mutation_pending) for ever
               \* (stale_context)
    events,    \* web_sse_events: the payloads, by event id
    worker,    \* [pc, proc, emitted]: the holder of the claim
    journal,   \* [JournalIds -> contents of an _SSEEventJournal]
    queues,    \* [Procs -> JournalIds or None]: sse_queues[request_id]
    stream,    \* the locals of the newest stream_response generator
    live,      \* whether the client is still connected to it
    shown,     \* what the client has received: a sequence of [id, item]
    strayed,   \* history: the worker wrote past its own journal
    faults

ledger == <<exec, status>>
client == <<live, shown>>
vars == <<ledger, events, worker, journal, queues, stream, client, strayed, faults>>

Init ==
    /\ exec = "queued" /\ status = "current" /\ events = <<>>
    /\ worker = [pc |-> "none", proc |-> None, emitted |-> 0]
    /\ journal = [j \in JournalIds |-> Unused]
    /\ queues = [p \in Procs |-> None]
    /\ stream = Idle
    /\ live = FALSE /\ shown = <<>>
    /\ strayed = FALSE
    /\ faults = 0

Fault == faults < MaxFaults /\ faults' = faults + 1

----------------------------------------------------------------------------
(* Journals.                                                               *)

Referenced(qs, st) == {qs[p] : p \in Procs} \cup {st.q}
\* Journals that nobody refers to are collected.
Kept(js, qs, st) == [j \in JournalIds |-> IF j \in Referenced(qs, st) THEN js[j] ELSE Unused]
FreeJournal == CHOOSE j \in JournalIds : j \notin Referenced(queues, stream)

EndsDelivery(es) == es # <<>> /\ es[Len(es)].kind \in Terminal

\* What append() lets the holder of the claim write in each state.
Permits(kind) ==
    CASE exec = "running"   -> kind # "done"
      [] exec = "completed" -> kind \in Failures \cup {"done", "voice_attach"}
      [] exec = "cancelled" -> kind = "cancelled"
      [] exec = "failed" -> kind \in Failures
      [] OTHER -> FALSE

\* DurableSSEJournalStore.append(): the next event of an open delivery.
Accepts(log, item) ==
    /\ status = "current"
    /\ Permits(item.kind)
    /\ Len(log) = Len(events)
    /\ ~EndsDelivery(events)

Logged(jr, item, last) == [jr EXCEPT !.log = Append(@, item), !.stopped = last]

\* Mutant: a refused or failed append is only logged.
Put_Swallows(j, item) ==
    LET log == journal[j].log
        full == Len(log) >= Capacity
        what == IF full THEN Note("overflow") ELSE item
        closed == journal[j].invalid \/ journal[j].stopped
    IN \/ closed /\ UNCHANGED <<journal, events, faults>>
       \/ /\ ~closed /\ (journal[j].writer => Accepts(log, what))
          /\ events' = IF journal[j].writer THEN Append(events, what) ELSE events
          /\ journal' = [journal EXCEPT ![j] = Logged(@, what, full)]
          /\ UNCHANGED faults
       \/ /\ ~closed /\ journal[j].writer
          /\ (~Accepts(log, what) /\ UNCHANGED faults) \/ Fault
          /\ UNCHANGED <<journal, events>>

\* Mutant: the event is shown whether or not it could be stored.
Put_ShowsAnyway(j, item) ==
    LET log == journal[j].log
        full == Len(log) >= Capacity
        what == IF full THEN Note("overflow") ELSE item
        closed == journal[j].invalid \/ journal[j].stopped
        stored == journal[j].writer /\ Accepts(log, what)
    IN \/ closed /\ UNCHANGED <<journal, events, faults>>
       \/ /\ ~closed
          /\ journal' = [journal EXCEPT ![j] = Logged(@, what, full)]
          /\ \/ stored /\ events' = Append(events, what) /\ UNCHANGED faults
             \/ ~stored /\ UNCHANGED <<events, faults>>
             \/ stored /\ events' = events /\ Fault

\* put(): durable first.  An event that cannot be stored is replaced by an
\* error, itself stored if that is possible, and the journal takes no more;
\* so is an event that does not fit.
Put(j, item) ==
    LET log == journal[j].log
        full == Len(log) >= Capacity
        what == IF full THEN Note("overflow") ELSE item
        lost == Note("unconfirmed")
        closed == journal[j].invalid \/ journal[j].stopped
    IN \/ closed /\ UNCHANGED <<journal, events, faults>>
       \/ /\ ~closed /\ (journal[j].writer => Accepts(log, what))
          /\ events' = IF journal[j].writer THEN Append(events, what) ELSE events
          /\ journal' = [journal EXCEPT ![j] = Logged(@, what, full)]
          /\ UNCHANGED faults
       \/ /\ ~closed /\ journal[j].writer
          /\ \/ ~Accepts(log, what) /\ UNCHANGED faults
             \/ Fault
          /\ journal' = [journal EXCEPT ![j] = Logged(@, lost, TRUE)]
          /\ \/ events' = events
             \/ Accepts(log, lost) /\ events' = Append(events, lost)

\* hydrate(): the common part must agree, the rest is added.
Agrees(log, es) == \A i \in DOMAIN log \cap DOMAIN es : log[i] = es[i]
Hydrated(jr, es) ==
    IF jr.invalid \/ Len(es) <= Len(jr.log) THEN jr ELSE [jr EXCEPT !.log = es]

----------------------------------------------------------------------------
(* The worker.                                                             *)

Writing == worker.pc \in {"agent", "settled"}

\* The dispatcher claims the run and installs the writing journal.
Claim ==
    /\ exec = "queued" /\ status = "current"
    /\ exec' = "running"
    /\ worker' = [worker EXCEPT !.pc = "agent", !.proc = Home]
    /\ queues' = [queues EXCEPT ![Home] = FreeJournal]
    /\ journal' = Kept([journal EXCEPT ![FreeJournal] = [Unused EXCEPT !.log = events,
                                                                       !.writer = TRUE]],
                       queues', stream)
    /\ UNCHANGED <<status, events, stream, client, strayed, faults>>

\* Whatever journal the process now has for the request gets the event; with
\* none there the event is dropped.
Write(item) ==
    LET j == queues[worker.proc]
    IN /\ strayed' = (strayed \/ (j # None => ~journal[j].writer))
       /\ IF j = None THEN UNCHANGED <<journal, events, faults>> ELSE Put(j, item)

\* on_event(): a delta, a tool call, a tool result...
Emit ==
    /\ worker.pc = "agent" /\ worker.emitted < MaxProgress
    /\ worker' = [worker EXCEPT !.emitted = @ + 1]
    /\ Write(Progress(worker.emitted + 1))
    /\ UNCHANGED <<ledger, queues, stream, client>>

WithMarker(es, kind) == IF EndsDelivery(es) THEN es ELSE Append(es, Note(kind))

\* AgentBridge settles the run, or fails to.
Settle ==
    /\ worker.pc = "agent"
    /\ worker' = [worker EXCEPT !.pc = "settled"]
    /\ \/ UNCHANGED <<exec, events>>
       \/ /\ exec = "running"
          /\ exec' \in {"completed", "cancelled", "failed"}
          /\ events' = IF exec' = "cancelled" THEN WithMarker(events, "cancelled") ELSE events
    /\ UNCHANGED <<status, journal, queues, stream, client, strayed, faults>>

\* What send() makes of the reply, after _web_execution_state_for_terminal_
\* delivery(): anything but a settled success is an error.
Verdict == IF exec = "completed" THEN {"done", "reply_error"} ELSE {"reply_error"}

\* send(): a cancelled run already has its marker, which is copied.
Send ==
    /\ worker.pc = "settled"
    /\ worker' = [worker EXCEPT !.pc = "sent"]
    /\ \/ /\ exec = "cancelled"
          /\ LET j == queues[worker.proc]
             IN journal' = IF j = None \/ status # "current" \/ ~Agrees(journal[j].log, events)
                           THEN journal ELSE [journal EXCEPT ![j] = Hydrated(@, events)]
          /\ UNCHANGED <<events, faults, strayed>>
       \/ /\ exec # "cancelled"
          /\ \E kind \in Verdict : Write(Note(kind))
    /\ UNCHANGED <<ledger, queues, stream, client>>

\* _synthesize_tts_async() hands over the spoken reply, some time later.
Speak ==
    /\ worker.pc = "sent" /\ exec = "completed"
    /\ worker' = [worker EXCEPT !.pc = "over", !.proc = None]
    /\ Write(Note("voice_attach"))
    /\ UNCHANGED <<ledger, queues, stream, client>>

\* A sweep of any process: the lease of a dead or paused worker has run out.
Expire ==
    /\ exec = "running"
    /\ exec' = "failed"
    /\ UNCHANGED <<status, events, worker, journal, queues, stream, client,
                   strayed, faults>>

----------------------------------------------------------------------------
(* Cancellation, clear and delete, as far as streams see them: of the      *)
(* markers a mutation appends nothing is read any more.                    *)

\* A queued run is cancelled on the spot; a running one by its own worker.
CancelQueued ==
    /\ exec = "queued"
    /\ exec' = "cancelled" /\ events' = WithMarker(events, "cancelled")
    /\ UNCHANGED <<status, worker, journal, queues, stream, client, strayed, faults>>

BeginMutation ==
    /\ status = "current"
    /\ status' = "closed"
    /\ exec' = IF exec = "queued" THEN "cancelled" ELSE exec
    /\ events' = IF exec = "queued" THEN WithMarker(events, "cancelled") ELSE events
    /\ UNCHANGED <<worker, journal, queues, stream, client, strayed, faults>>

\* _invalidate_durable_session_sse(), in the process of the clear or delete.
Invalidate(p) ==
    /\ status # "current" /\ queues[p] # None /\ ~journal[queues[p]].invalid
    /\ journal' = [journal EXCEPT ![queues[p]] = [@ EXCEPT !.log = <<>>, !.invalid = TRUE]]
    /\ UNCHANGED <<ledger, events, worker, queues, stream, client, strayed, faults>>

----------------------------------------------------------------------------
(* stream_response().  A new connection in a process supersedes a generator *)
(* whose client has left: the old one ends at its next look at the stream   *)
(* generation, without a trace, and the model ends it there and then.       *)

Told == \E i \in DOMAIN shown : shown[i].item.kind \in Terminal \cup {"unavailable"}
LastSeen == LET ids == {shown[i].id : i \in DOMAIN shown}
            IN IF ids = {} THEN 0 ELSE CHOOSE n \in ids : \A m \in ids : m <= n

\* What the client receives when generator g yields; a client that has left
\* receives nothing.
Yield(id, item) ==
    shown' = IF live THEN Append(shown, [id |-> id, item |-> item]) ELSE shown

\* The generator ends and the client notices; when the reply is over for it,
\* or its deadline has passed, it also drops the journal of its process.
End(drop) ==
    /\ stream' = Idle
    /\ queues' = IF drop THEN [queues EXCEPT ![stream.proc] = None] ELSE queues
    /\ journal' = Kept(journal, queues', stream')
    /\ live' = FALSE

\* The end of a generator that has something last to say, without an id.
Refuse(drop) == End(drop) /\ Yield(0, Note("unavailable"))

Enter(p, j) == [Idle EXCEPT !.pc = "top", !.proc = p, !.q = j, !.cursor = LastSeen]

\* The client opens a stream in a process that has a journal for it.
Connect(p) ==
    /\ ~live /\ ~Told
    /\ queues[p] # None
    /\ stream' = Enter(p, queues[p])
    /\ live' = TRUE
    /\ journal' = Kept(journal, queues, stream')
    /\ UNCHANGED <<ledger, events, worker, queues, shown, strayed, faults>>

Withheld(es) ==
    [i \in DOMAIN es |-> IF es[i].kind \in Terminal \cup {"voice_attach"}
                         THEN Note("withheld") ELSE es[i]]
Closed(es) == Append(es, Note(IF Len(es) < Capacity THEN "recovered" ELSE "overflow"))

\* Mutant: what the database has is restored as it is.
Recovered_AsStored(es) == IF exec = "failed" THEN Withheld(es) ELSE es

\* The events _recover_sse_request() restores: the durable ones, and an error
\* if the run is over and they do not say how.
Recovered(es) ==
    CASE exec = "failed" -> Closed(Withheld(es))
      [] exec \in {"completed", "cancelled"} /\ ~EndsDelivery(es) -> Closed(es)
      [] OTHER -> es

\* What the generator finds when it looks up the delivery status.
Current == status = "current" /\ UNCHANGED faults
NotCurrent == Fault \/ (status # "current" /\ UNCHANGED faults)

\* In a process that has no journal it first reads the database (an overdue
\* lease is swept by then: Expire),
Recover(p) ==
    /\ ~live /\ ~Told
    /\ queues[p] = None
    /\ \/ /\ Current
          /\ live' = TRUE
          /\ stream' = [Enter(p, None) EXCEPT !.pc = "recover", !.read = Recovered(events)]
          /\ UNCHANGED shown
       \/ /\ NotCurrent
          /\ shown' = Append(shown, [id |-> 0, item |-> Note("unavailable")])
          /\ stream' = Idle /\ UNCHANGED live
    /\ journal' = Kept(journal, queues, stream')
    /\ UNCHANGED <<ledger, events, worker, queues, strayed>>

\* then it installs what it has built, whatever is there by now.
Install ==
    LET p == stream.proc
        j == FreeJournal
        copy == [Unused EXCEPT !.log = stream.read,
                               !.stopped = \E i \in DOMAIN stream.read :
                                                 stream.read[i].kind = "overflow"]
    IN /\ stream.pc = "recover"
       /\ queues' = [queues EXCEPT ![p] = j]
       /\ stream' = [stream EXCEPT !.pc = "top", !.q = j, !.read = <<>>]
       /\ journal' = Kept([journal EXCEPT ![j] = copy], queues', stream')
       /\ UNCHANGED <<ledger, events, worker, client, strayed, faults>>

\* _attach_durable_sse_observer(): a post of the request, before its client
\* opens a stream, makes its process ready for one.
Attach(p) ==
    /\ ~live /\ shown = <<>>
    /\ status = "current" /\ exec \in {"queued", "running"}
    /\ \/ /\ queues[p] = None
          /\ queues' = [queues EXCEPT ![p] = FreeJournal]
          /\ journal' = [journal EXCEPT ![FreeJournal] = [Unused EXCEPT !.log = events]]
       \/ /\ queues[p] # None
          /\ Agrees(journal[queues[p]].log, events)
          /\ journal' = [journal EXCEPT ![queues[p]] = Hydrated(@, events)]
          /\ UNCHANGED queues
    /\ UNCHANGED <<ledger, events, worker, stream, client, strayed, faults>>

\* The head of the loop: refused, or on to the journal.
Top ==
    /\ stream.pc = "top"
    /\ \/ /\ Current
          /\ stream' = [stream EXCEPT !.pc = "read"]
          /\ UNCHANGED <<queues, journal, client>>
       \/ NotCurrent /\ Refuse(live \/ stream.post)
    /\ UNCHANGED <<ledger, events, worker, strayed>>

\* read_after(): the next event of the journal, or else of the database; with
\* neither, a deadline may pass, unless the run extends it.
Read ==
    LET me == stream
        log == journal[me.q].log
        fresh == status = "current" /\ Len(events) > me.cursor
        Again == stream' = [stream EXCEPT !.pc = "top"] /\ UNCHANGED <<queues, client>>
    IN /\ me.pc = "read"
       /\ \/ /\ Len(log) > me.cursor
             /\ stream' = [stream EXCEPT !.pc = "pass", !.cursor = @ + 1,
                                         !.held = log[me.cursor + 1]]
             /\ UNCHANGED <<queues, journal, client, faults>>
          \/ /\ Len(log) <= me.cursor
             /\ \/ /\ fresh /\ Len(log) = me.cursor
                   /\ journal' = [journal EXCEPT ![me.q] = Hydrated(@,
                                      log \o SubSeq(events, me.cursor + 1, Len(events)))]
                   /\ Again /\ UNCHANGED faults
                \/ /\ fresh /\ Len(log) < me.cursor
                   /\ Refuse(me.post) /\ UNCHANGED faults
                \/ Fault /\ Refuse(me.post)
                \/ /\ ~fresh /\ status # "current"
                   /\ Again /\ UNCHANGED <<journal, faults>>
                \/ /\ ~fresh /\ (me.post \/ exec \notin {"queued", "running"})
                   /\ End(TRUE) /\ UNCHANGED <<shown, faults>>
       /\ UNCHANGED <<ledger, events, worker, strayed>>

\* Mutant: the event that was read is sent without another look.
Pass_AsRead ==
    LET me == stream
    IN /\ me.pc = "pass"
       /\ \/ /\ live /\ UNCHANGED faults
             /\ Yield(me.cursor, me.held)
             /\ stream' = [stream EXCEPT !.pc = "top", !.held = None,
                               !.post = @ \/ me.held.kind \in Terminal \cup {"voice_attach"}]
             /\ live' = (me.held.kind \notin Failures)
             /\ UNCHANGED <<queues, journal>>
          \/ ~live /\ End(me.post) /\ UNCHANGED <<shown, faults>>
       /\ UNCHANGED <<ledger, events, worker, strayed>>

\* The event is sent if the run is still current; a client that has left is
\* noticed here, and a client that is told of an error leaves.
Pass ==
    LET me == stream
    IN /\ me.pc = "pass"
       /\ \/ /\ Current /\ live
             /\ Yield(me.cursor, me.held)
             /\ stream' = [stream EXCEPT !.pc = "top", !.held = None,
                               !.post = @ \/ me.held.kind \in Terminal \cup {"voice_attach"}]
             /\ live' = (me.held.kind \notin Failures)
             /\ UNCHANGED <<queues, journal>>
          \/ Current /\ ~live /\ End(me.post) /\ UNCHANGED shown
          \/ NotCurrent /\ Refuse(live \/ me.post)
       /\ UNCHANGED <<ledger, events, worker, strayed>>

\* GeneratorExit, at a keepalive or after an event.
Notice ==
    /\ stream.pc \in {"top", "read"} /\ ~live
    /\ End(stream.post)
    /\ UNCHANGED <<ledger, events, worker, shown, strayed, faults>>

----------------------------------------------------------------------------
(* The client leaves, the janitor sweeps, a process ends.                  *)

Leave ==
    /\ live
    /\ live' = FALSE
    /\ \/ Told /\ UNCHANGED faults
       \/ ~Told /\ Fault
    /\ UNCHANGED <<ledger, events, worker, journal, queues, stream, shown, strayed>>

\* No stream has refreshed sse_last_active for half an hour.
Sweep(p) ==
    /\ queues[p] # None
    /\ stream.proc = p => stream.pc = "recover"
    /\ queues' = [queues EXCEPT ![p] = None]
    /\ journal' = Kept(journal, queues', stream)
    /\ UNCHANGED <<ledger, events, worker, stream, client, strayed, faults>>

Crash(p) ==
    /\ Fault
    /\ queues' = [queues EXCEPT ![p] = None]
    /\ stream' = IF stream.proc = p THEN Idle ELSE stream
    /\ journal' = Kept(journal, queues', stream')
    /\ live' = (live /\ stream.proc # p)
    /\ worker' = IF worker.proc = p THEN [worker EXCEPT !.pc = "over", !.proc = None] ELSE worker
    /\ UNCHANGED <<ledger, events, shown, strayed>>

----------------------------------------------------------------------------

\* Bound: the model ends when its client has been told and has left.
Open == ~Told \/ live

Generator == Open /\ (Top \/ Read \/ Pass \/ Install \/ Notice)
\* Bound: a generator that was left in another process, where the new one
\* shares nothing with it, has noticed before.
Reconnect == \E p \in Procs : /\ stream.proc \in {None, p}
                             /\ (Connect(p) \/ Recover(p))
Worker == Claim \/ Emit \/ Settle \/ Send \/ Speak
Ledger == Expire \/ CancelQueued \/ BeginMutation

Next ==
    \/ /\ Open
       /\ \/ \E p \in Procs : Attach(p) \/ Invalidate(p) \/ Sweep(p) \/ Crash(p)
          \/ Worker \/ Ledger \/ Leave
    \/ Generator \/ Reconnect

Spec == Init /\ [][Next]_vars

\* Generators run, and the client keeps asking.
FairSpec == Spec /\ WF_vars(Generator) /\ WF_vars(Reconnect)

----------------------------------------------------------------------------

Entries == [id : Nat, item : Items]
Journals == [log : Seq(Items), writer : BOOLEAN, stopped : BOOLEAN, invalid : BOOLEAN]
Generators ==
    [pc : {"idle", "recover", "top", "read", "pass"}, proc : Procs \cup {None},
     q : JournalIds \cup {None}, cursor : Nat, post : BOOLEAN,
     held : Items \cup {None}, read : Seq(Items)]

\* The types of the variables.
TypeOK ==
    /\ exec \in {"queued", "running", "completed", "cancelled", "failed"}
    /\ status \in {"current", "closed"}
    /\ events \in Seq(Items)
    /\ worker \in [pc : {"none", "agent", "settled", "sent", "over"},
                   proc : Procs \cup {None}, emitted : 0..MaxProgress]
    /\ journal \in [JournalIds -> Journals]
    /\ queues \in [Procs -> JournalIds \cup {None}]
    /\ stream \in Generators
    /\ live \in BOOLEAN /\ strayed \in BOOLEAN
    /\ shown \in Seq(Entries)
    /\ faults \in 0..MaxFaults

Received(kind) == \E i \in DOMAIN shown : shown[i].item.kind = kind

\* As long as the worker has written to its own journal only, every event a
\* client has seen is the database's event of that id, unless it is an error
\* or a withheld terminal that the process itself had to make up: after a
\* crash or in another process the client goes on where it was.
ShownIsDurable ==
    ~strayed => \A i \in DOMAIN shown :
        (shown[i].id > 0 /\ shown[i].item.kind \notin LocalOnly)
        => shown[i].id <= Len(events) /\ events[shown[i].id] = shown[i].item

\* Whatever happened to connections, processes and appends in between, a
\* client that reads "done" belongs to a run recorded as completed, and one
\* that reads "cancelled" to a run recorded as cancelled (with the types).
OutcomeShownIsTrue ==
    /\ TypeOK
    /\ Received("done") => exec = "completed"
    /\ Received("cancelled") => exec = "cancelled"

\* A client that reads "done" has read before it every event the agent emitted,
\* once and in order, and no other: none was lost to a full journal, to a failed
\* append or between two connections without the client being told of an error
\* instead.
DoneIsTrueAndComplete ==
    /\ OutcomeShownIsTrue
    /\ (Received("done") /\ ~strayed) =>
          LET told == {i \in DOMAIN shown : shown[i].item.kind = "progress"}
          IN /\ told = 1..worker.emitted
             /\ \A n \in told : shown[n] = [id |-> n, item |-> Progress(n)]

\* From the moment a clear or delete begins, no event of the run is sent, by
\* any process, not even one that was already read from a journal.
NothingAfterClear ==
    [][(Len(shown') > Len(shown) /\ shown'[Len(shown')].id > 0) => status = "current"]_vars

\* When the run is over, with or without an outcome, a client that keeps
\* asking is told how it ended, or that this is not known.
EveryClientIsTold ==
    exec \notin {"queued", "running"} ~> (Told \/ strayed)

=============================================================================
