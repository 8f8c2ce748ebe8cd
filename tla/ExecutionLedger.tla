-------------------------- MODULE ExecutionLedger --------------------------
(***************************************************************************)
(* The durable Web execution ledger: DurableSSEJournalStore of             *)
(* channel/web/sse_persistence.py, one SQLite database shared by every     *)
(* process of an installation.                                             *)
(*                                                                         *)
(* Each public method is one SQLite transaction (BEGIN IMMEDIATE ..        *)
(* COMMIT), so each is one action here.  Its callers are the most general  *)
(* ones: whoever was ever handed a claim or a mutation token may present   *)
(* it again at any later moment, which covers crashed, paused, slow and    *)
(* retrying workers and handlers.                                          *)
(*                                                                         *)
(* Abstractions.                                                           *)
(*  - A session is an (owner, session) pair.  A request id is a fresh uuid *)
(*    that WebChannel posts with one session and one idempotency key, so   *)
(*    SessionOf and KeyOf are parameters; retries of a key are other       *)
(*    requests with the same key.                                          *)
(*  - The lease, runner and fence tokens that one claim draws are always   *)
(*    compared together and never drawn again: the fence epoch of the      *)
(*    session, bumped by that claim, stands for the triple.                *)
(*  - Time is relative.  A fence stores how long its lease still runs; the *)
(*    transaction's `now`, read before the write lock is granted and off   *)
(*    another machine's clock, is up to MaxLag behind.                     *)
(*  - A run's age matters only to reap(): the field old says that its      *)
(*    updated_at lies more than the 24 h retention in the past.            *)
(*  - A call that raises and rolls back changes nothing and is a stutter   *)
(*    (a key reused with another digest, a missing or stale token).        *)
(***************************************************************************)
EXTENDS Integers, Sequences, FiniteSets

CONSTANTS
    Sessions,       \* (owner_id, session_id) pairs
    Requests,       \* request ids
    Keys,           \* idempotency keys
    SessionOf,      \* the session a request is posted to
    KeyOf,          \* the idempotency key it is posted with
    LegacyRequests, \* requests created by begin(), which carry no key
    Lease,          \* _EXECUTION_LEASE_SECONDS, in ticks
    MaxLag,         \* how far a transaction's clock may be behind, in ticks
    MaxEvents,      \* bound: events a request's workers append
    MaxMutations,   \* bound: destructive mutations opened per session
    NoFence, NoMutation

ASSUME SessionsAssumption ==
    /\ SessionOf \in [Requests -> Sessions]
    /\ KeyOf \in [Requests -> Keys]
    /\ LegacyRequests \subseteq Requests

\* A lease must outlast the clock difference ("comfortably", says the class).
ASSUME LeaseAssumption ==
    /\ Lease \in Nat
    /\ MaxLag \in Nat
    /\ MaxLag < Lease

ASSUME BoundsAssumption ==
    /\ MaxEvents \in Nat
    /\ MaxMutations \in Nat

----------------------------------------------------------------------------
(* Rows of the tables.                                                     *)

Settled == {"completed", "failed_safe", "cancelled"}
Pending == {"queued", "running", "in_doubt"}
\* "absent": no row yet; "reaped": the row was deleted by reap().
ExecutionStates == {"absent", "reaped"} \cup Settled \cup Pending

Terminal == {"done", "error", "cancelled"}
EventTypes == Terminal \cup {"progress", "voice_attach"}

\* web_sse_runs: execution_state, the epoch standing for the row's tokens,
\* cancel_requested_at, session_context_generation, state = 'completed', age.
Run == [exec: ExecutionStates, epoch: Nat, cancel: BOOLEAN,
        gen: Nat, closed: BOOLEAN, old: BOOLEAN]
\* web_session_execution_fences: at most one row per session.
Fence == [request: Requests, epoch: Nat, rem: Int]
\* web_session_execution_mutations; after = -1 is context_generation_after NULL.
Mutation == [token: Nat, kind: {"clear_context", "delete_session"},
             before: Nat, after: Int, completed: BOOLEAN]
\* What a claim hands to a worker.
Claim == [request: Requests, epoch: Nat]

ASSUME NullAssumption == NoFence \notin Fence /\ NoMutation \notin Mutation

NoRun(state) == [exec |-> state, epoch |-> 0, cancel |-> FALSE,
                 gen |-> 0, closed |-> FALSE, old |-> FALSE]

VARIABLES
    runs,          \* [Requests -> Run]
    events,        \* [Requests -> Seq(EventTypes)], web_sse_events
    fences,        \* [Sessions -> Fence or NoFence]
    waiting,       \* requests with a row in web_session_execution_queue
    queueId,       \* [Requests -> Nat], the queue_id drawn (kept as history)
    lastQueueId,   \* AUTOINCREMENT counter of the queue
    lastEpoch,     \* [Sessions -> Nat], last_fence_epoch
    generation,    \* [Sessions -> Nat], context_generation
    mutations,     \* [Sessions -> Mutation or NoMutation]
    opened,        \* [Sessions -> Nat], mutation tokens drawn so far
    issued         \* history: every claim ever handed to a worker

queueVars == <<waiting, queueId, lastQueueId>>
mutationVars == <<generation, mutations, opened>>
claimVars == <<lastEpoch, issued>>
vars == <<runs, events, fences, queueVars, mutationVars, claimVars>>

TypeOK ==
    /\ runs \in [Requests -> Run]
    /\ events \in [Requests -> Seq(EventTypes)]
    /\ fences \in [Sessions -> Fence \cup {NoFence}]
    /\ waiting \subseteq Requests
    /\ queueId \in [Requests -> Nat]
    /\ lastQueueId \in Nat
    /\ lastEpoch \in [Sessions -> Nat]
    /\ generation \in [Sessions -> Nat]
    /\ mutations \in [Sessions -> Mutation \cup {NoMutation}]
    /\ opened \in [Sessions -> Nat]
    /\ issued \subseteq Claim

Init ==
    /\ runs = [r \in Requests |-> NoRun("absent")]
    /\ events = [r \in Requests |-> <<>>]
    /\ fences = [s \in Sessions |-> NoFence]
    /\ waiting = {}
    /\ queueId = [r \in Requests |-> 0]
    /\ lastQueueId = 0
    /\ lastEpoch = [s \in Sessions |-> 0]
    /\ generation = [s \in Sessions |-> 0]
    /\ mutations = [s \in Sessions |-> NoMutation]
    /\ opened = [s \in Sessions |-> 0]
    /\ issued = {}

----------------------------------------------------------------------------
(* Reading the ledger.                                                     *)

Lags == 0..MaxLag
Keyed(r) == r \notin LegacyRequests
HasRow(r) == runs[r].exec \notin {"absent", "reaped"}
Of(s) == {r \in Requests : SessionOf[r] = s}

\* Mutant: the clock difference is added instead of tolerated.
Expired_Early(s, lag) == fences[s] # NoFence /\ fences[s].rem <= lag

\* lease_expires_at <= now, for a transaction whose clock is lag behind.
Expired(s, lag) == fences[s] # NoFence /\ fences[s].rem <= -lag

\* The claim is the one of the fence row.
Owns(fs, c) == /\ fs[SessionOf[c.request]] # NoFence
               /\ fs[SessionOf[c.request]].request = c.request
               /\ fs[SessionOf[c.request]].epoch = c.epoch

\* A running row with an exactly matching fence that has not expired.
HoldsLiveFence(r, lag) ==
    /\ Owns(fences, [request |-> r, epoch |-> runs[r].epoch])
    /\ ~Expired(SessionOf[r], lag)

\* Mutant: delivery looks at the generation only.
Current_GenerationOnly(r) == runs[r].gen = generation[SessionOf[r]]

\* Whether a response may still reach its session.
Current(r) == /\ mutations[SessionOf[r]] = NoMutation
              /\ runs[r].gen = generation[SessionOf[r]]

\* Mutant: an unresolved run does not hold a mutation back.
Quiet_IgnoresDoubt(rs, s) == \A r \in Of(s) : rs[r].exec \notin {"queued", "running"}

\* An execution that forbids a destructive mutation of its session.
Quiet(rs, s) == \A r \in Of(s) : rs[r].exec \notin Pending

----------------------------------------------------------------------------
(* Steps shared by the transactions.                                       *)

\* Mutant: the run is swept and its fence row is left behind.
FencesAfterExpiry_Kept(scope, lag) == fences

\* Expired fences are dropped; every running row left without its own live
\* fence, expired or orphaned, becomes in_doubt.
FencesAfterExpiry(scope, lag) ==
    [s \in Sessions |-> IF s \in scope /\ Expired(s, lag) THEN NoFence ELSE fences[s]]

RunsAfterExpiry(scope, lag) ==
    [r \in Requests |->
        IF /\ SessionOf[r] \in scope
           /\ runs[r].exec = "running"
           /\ ~HoldsLiveFence(r, lag)
        THEN [runs[r] EXCEPT !.exec = "in_doubt", !.old = FALSE]
        ELSE runs[r]]

ExpireOnly(scope, lag) ==
    /\ runs' = RunsAfterExpiry(scope, lag)
    /\ fences' = FencesAfterExpiry(scope, lag)
    /\ UNCHANGED <<events, queueVars, mutationVars, claimVars>>

\* Queue heads that may be claimed: no mutation closes the session and no
\* fence, live or not yet swept, holds it.
Claimable(rs, fs, queue, scope) ==
    {r \in queue : /\ SessionOf[r] \in scope
                   /\ rs[r].exec = "queued"
                   /\ mutations[SessionOf[r]] = NoMutation
                   /\ fs[SessionOf[r]] = NoFence}

\* Mutant: ORDER BY queue_id DESC.
IsHead_Newest(r, ready, ids) == \A other \in ready : ids[r] >= ids[other]

\* ORDER BY queue_id LIMIT 1
IsHead(r, ready, ids) == \A other \in ready : ids[r] <= ids[other]

\* Mutant: the epoch row is written for a first claim only.
NextEpoch_Stuck(s) == IF lastEpoch[s] = 0 THEN 1 ELSE lastEpoch[s]

\* Every claim draws a new epoch, the first one of a session included.
NextEpoch(s) == lastEpoch[s] + 1

\* r becomes running: fresh tokens, off the queue, a full lease.
ClaimEntry(r, rs, fs, queue, lag) ==
    LET s == SessionOf[r]
        epoch == NextEpoch(s)
    IN /\ runs' = [rs EXCEPT ![r] = [@ EXCEPT !.exec = "running", !.epoch = epoch,
                                              !.old = FALSE]]
       /\ fences' = [fs EXCEPT ![s] = [request |-> r, epoch |-> epoch, rem |-> Lease - lag]]
       /\ waiting' = queue \ {r}
       /\ lastEpoch' = [lastEpoch EXCEPT ![s] = epoch]
       /\ issued' = issued \cup {[request |-> r, epoch |-> epoch]}

\* _claim_next_queued_locked(): the oldest claimable entry, if there is one;
\* rs, fs, queue and ids are the tables as the transaction has left them so far.
ClaimNextQueued(rs, fs, queue, ids, scope, lag) ==
    LET ready == Claimable(rs, fs, queue, scope)
    IN \/ /\ ready = {}
          /\ runs' = rs /\ fences' = fs /\ waiting' = queue
          /\ UNCHANGED claimVars
       \/ \E r \in ready : IsHead(r, ready, ids) /\ ClaimEntry(r, rs, fs, queue, lag)

\* Append one terminal marker, unless a terminal event is already the last.
EndsDelivery(es) == es # <<>> /\ es[Len(es)] \in Terminal
WithMarker(es, type) == IF EndsDelivery(es) THEN es ELSE Append(es, type)

----------------------------------------------------------------------------
(* Admission and claims.                                                   *)

\* begin(): a keyless run, running without a fence.
BeginLegacy(r) ==
    /\ r \in LegacyRequests /\ runs[r].exec = "absent"
    /\ runs' = [runs EXCEPT ![r] = NoRun("running")]
    /\ UNCHANGED <<events, fences, queueVars, mutationVars, claimVars>>

\* Mutant: only an execution still pending answers for its key.
Twins_Pending(r) ==
    {q \in Of(SessionOf[r]) : Keyed(q) /\ KeyOf[q] = KeyOf[r] /\ runs[q].exec \in Pending}

\* The rows of r's session that answer for r's idempotency key.
Twins(r) == {q \in Of(SessionOf[r]) : Keyed(q) /\ KeyOf[q] = KeyOf[r] /\ HasRow(q)}

\* claim_execution(): a known key only helps its session's queue along, and
\* not even that when its response is no longer current; a new key is
\* enqueued unless a mutation closes the session.
ClaimExecution(r, lag) ==
    /\ Keyed(r) /\ runs[r].exec # "reaped"
    /\ LET s == SessionOf[r]
           rs == RunsAfterExpiry({s}, lag)
           fs == FencesAfterExpiry({s}, lag)
       IN \/ /\ \E q \in Twins(r) : Current(q)
             /\ ClaimNextQueued(rs, fs, waiting, queueId, {s}, lag)
             /\ UNCHANGED <<queueId, lastQueueId>>
          \/ /\ Twins(r) = {}
             /\ mutations[s] = NoMutation
             /\ lastQueueId' = lastQueueId + 1
             /\ LET row == [NoRun("queued") EXCEPT !.gen = generation[s]]
                    ids == [queueId EXCEPT ![r] = lastQueueId + 1]
                    rows == [q \in Requests |-> IF q = r THEN row ELSE rs[q]]
                IN /\ queueId' = ids
                   /\ ClaimNextQueued(rows, fs, waiting \cup {r}, ids, {s}, lag)
    /\ UNCHANGED <<events, mutationVars>>

\* claim_next_queued_execution(): for one session, or for all of them when a
\* worker's dispatcher looks for work.
ClaimNextQueuedExecution(scope, lag) ==
    /\ ClaimNextQueued(RunsAfterExpiry(scope, lag), FencesAfterExpiry(scope, lag),
                       waiting, queueId, scope, lag)
    /\ UNCHANGED <<events, queueId, lastQueueId, mutationVars>>

\* verify_session_execution_fence(): the heartbeat.  Only the exact holder of
\* a live fence renews it; the sweep commits either way.
VerifySessionFence(c, lag) ==
    LET r == c.request
        s == SessionOf[r]
        rs == RunsAfterExpiry({s}, lag)
        fs == FencesAfterExpiry({s}, lag)
    IN /\ runs' = rs
       /\ fences' = IF /\ Owns(fs, c)
                       /\ rs[r].exec = "running"
                       /\ rs[r].epoch = c.epoch
                    THEN [fs EXCEPT ![s].rem = Lease - lag]
                    ELSE fs
       /\ UNCHANGED <<events, queueVars, mutationVars, claimVars>>

----------------------------------------------------------------------------
(* Settlement.                                                             *)

Outcomes == {"completed", "failed_safe", "cancelled", "in_doubt"}

\* Mutant: the settlement forgets to release the session.
Settle_KeepsFence(rs, fs, c, outcome) ==
    LET r == c.request
        marked == outcome = "cancelled"
    IN /\ runs' = [rs EXCEPT ![r].exec = outcome, ![r].old = FALSE,
                              ![r].closed = @ \/ marked]
       /\ events' = IF marked
                    THEN [events EXCEPT ![r] = WithMarker(@, "cancelled")]
                    ELSE events
       /\ fences' = fs

\* The holder of a live fence settles its run and releases the session.
Settle(rs, fs, c, outcome) ==
    LET r == c.request
        marked == outcome = "cancelled"
    IN /\ runs' = [rs EXCEPT ![r].exec = outcome, ![r].old = FALSE,
                              ![r].closed = @ \/ marked]
       /\ events' = IF marked
                    THEN [events EXCEPT ![r] = WithMarker(@, "cancelled")]
                    ELSE events
       /\ fences' = [fs EXCEPT ![SessionOf[r]] = NoFence]

\* Mutant: the outcome the worker reports is taken as it is.
Effective_AsReported(run, outcome) == outcome

\* An accepted cancellation beats a completion that comes after it.
Effective(run, outcome) ==
    IF run.cancel /\ outcome = "completed" THEN "cancelled" ELSE outcome

\* finish_execution()
FinishExecution(c, outcome, lag) ==
    LET r == c.request
        s == SessionOf[r]
        rs == RunsAfterExpiry({s}, lag)
        fs == FencesAfterExpiry({s}, lag)
    IN /\ IF Owns(fs, c) /\ rs[r].exec = "running" /\ rs[r].epoch = c.epoch
          THEN Settle(rs, fs, c, Effective(rs[r], outcome))
          ELSE runs' = rs /\ fences' = fs /\ events' = events
       /\ UNCHANGED <<queueVars, mutationVars, claimVars>>

\* reject_execution_before_agent(): the server gives a claim back unused.
RejectExecutionBeforeAgent(c, lag) ==
    LET r == c.request
        s == SessionOf[r]
        rs == RunsAfterExpiry({s}, lag)
        fs == FencesAfterExpiry({s}, lag)
    IN /\ IF rs[r].exec = "running" /\ rs[r].epoch = c.epoch /\ Keyed(r) /\ Owns(fs, c)
          THEN Settle(rs, fs, c, "failed_safe")
          ELSE runs' = rs /\ fences' = fs /\ events' = events
       /\ UNCHANGED <<queueVars, mutationVars, claimVars>>

\* mark_interrupted_execution(): a reader that recovers a request gives up on
\* its worker only when the worker's fence is gone or has expired.
MarkInterruptedExecution(r, lag) ==
    /\ runs[r].exec = "running"
    /\ ~HoldsLiveFence(r, lag)
    /\ ExpireOnly({SessionOf[r]}, lag)

----------------------------------------------------------------------------
(* Cancellation.                                                           *)

\* Mutant: the state guard of the UPDATE is dropped.
CancelRow_Unguarded(run) ==
    IF run.exec = "running"
    THEN [run EXCEPT !.cancel = TRUE, !.old = FALSE]
    ELSE [run EXCEPT !.exec = "cancelled", !.cancel = TRUE, !.closed = TRUE, !.old = FALSE]

CancelRow(run) ==
    CASE run.exec = "queued" ->
            [run EXCEPT !.exec = "cancelled", !.cancel = TRUE, !.closed = TRUE, !.old = FALSE]
      [] run.exec = "running" -> [run EXCEPT !.cancel = TRUE, !.old = FALSE]
      [] OTHER -> run

\* Queued targets end here, with their marker; running ones get an intent.
CancelledRuns(rs, targets) ==
    [r \in Requests |-> IF r \in targets THEN CancelRow(rs[r]) ELSE rs[r]]

CancelledEvents(rs, targets) ==
    [r \in Requests |-> IF r \in targets /\ rs[r].exec = "queued"
                        THEN WithMarker(events[r], "cancelled") ELSE events[r]]

\* Mutant: the cancelled rows keep their queue entries.
StillQueued_All(rs, targets) == waiting

StillQueued(rs, targets) ==
    {q \in waiting : ~(q \in targets /\ rs[q].exec = "queued")}

RequestCancellation(s, targets, lag) ==
    LET rs == RunsAfterExpiry({s}, lag)
    IN /\ runs' = CancelledRuns(rs, targets)
       /\ events' = CancelledEvents(rs, targets)
       /\ fences' = FencesAfterExpiry({s}, lag)
       /\ waiting' = StillQueued(rs, targets)
       /\ UNCHANGED <<queueId, lastQueueId, mutationVars, claimVars>>

\* request_execution_cancellation()
RequestExecutionCancellation(r, lag) ==
    HasRow(r) /\ RequestCancellation(SessionOf[r], {r}, lag)

\* request_session_cancellation()
RequestSessionCancellation(s, lag) == RequestCancellation(s, Of(s), lag)

----------------------------------------------------------------------------
(* Destructive session mutations.                                          *)

\* Deliveries left open by settled runs are closed: a late done would reach
\* the mutated session.
Superseded(run) == run.exec \in Settled /\ ~run.closed

SupersededRuns(rs, s) ==
    [r \in Requests |-> IF r \in Of(s) /\ Superseded(rs[r])
                        THEN [rs[r] EXCEPT !.closed = TRUE, !.old = FALSE]
                        ELSE rs[r]]

SupersededEvents(rs, es, s) ==
    [r \in Requests |->
        IF r \in Of(s) /\ Superseded(rs[r])
        THEN WithMarker(es[r], IF rs[r].exec = "cancelled" THEN "cancelled" ELSE "error")
        ELSE es[r]]

\* begin_session_mutation(): close admission, cancel everything, supersede
\* open deliveries, in one transaction.  A pending mutation of the same kind
\* is joined; one of the other kind makes the call fail.
BeginSessionMutation(s, kind, lag) ==
    LET swept == RunsAfterExpiry({s}, lag)
        rs == CancelledRuns(swept, Of(s))
        es == CancelledEvents(swept, Of(s))
    IN /\ \/ /\ mutations[s] = NoMutation /\ opened[s] < MaxMutations
             /\ opened' = [opened EXCEPT ![s] = @ + 1]
             /\ mutations' = [mutations EXCEPT ![s] =
                    [token |-> opened[s] + 1, kind |-> kind, before |-> generation[s],
                     after |-> -1, completed |-> FALSE]]
          \/ /\ mutations[s] # NoMutation /\ mutations[s].kind = kind
             /\ UNCHANGED <<opened, mutations>>
       /\ runs' = SupersededRuns(rs, s)
       /\ events' = SupersededEvents(rs, es, s)
       /\ fences' = FencesAfterExpiry({s}, lag)
       /\ waiting' = StillQueued(swept, Of(s))
       /\ UNCHANGED <<queueId, lastQueueId, generation, claimVars>>

\* The mutation row exists, and the caller presents its token.
Presents(s, token, kinds) ==
    /\ mutations[s] # NoMutation
    /\ mutations[s].token = token
    /\ mutations[s].kind \in kinds

\* advance_session_context_generation(): repeating it confirms the receipt.
AdvanceContextGeneration(s, token, lag) ==
    /\ Presents(s, token, {"clear_context"})
    /\ Quiet(RunsAfterExpiry({s}, lag), s)
    /\ \/ /\ mutations[s].after = -1
          /\ generation[s] = mutations[s].before
          /\ generation' = [generation EXCEPT ![s] = mutations[s].before + 1]
          /\ mutations' = [mutations EXCEPT ![s].after = mutations[s].before + 1]
       \/ /\ mutations[s].after # -1
          /\ generation[s] = mutations[s].after
          /\ UNCHANGED <<generation, mutations>>
    /\ runs' = RunsAfterExpiry({s}, lag)
    /\ fences' = FencesAfterExpiry({s}, lag)
    /\ UNCHANGED <<events, queueVars, opened, claimVars>>

\* session_mutation_quiescence(): what it returns is Quiet; it sweeps first.
SessionMutationQuiescence(s, token, lag) ==
    /\ Presents(s, token, {"clear_context", "delete_session"})
    /\ ExpireOnly({s}, lag)

\* release_session_mutation(): reopen admission after a converged clear.
ReleaseSessionMutation(s, token, lag) ==
    /\ Presents(s, token, {"clear_context"})
    /\ Quiet(RunsAfterExpiry({s}, lag), s)
    /\ mutations[s].after # -1
    /\ generation[s] = mutations[s].after
    /\ mutations[s].after = mutations[s].before + 1
    /\ mutations' = [mutations EXCEPT ![s] = NoMutation]
    /\ runs' = RunsAfterExpiry({s}, lag)
    /\ fences' = FencesAfterExpiry({s}, lag)
    /\ UNCHANGED <<events, queueVars, generation, opened, claimVars>>

\* record_delete_session_completion(): the receipt that lets a retried delete
\* answer "already deleted".
RecordDeleteCompletion(s, token, lag) ==
    /\ Presents(s, token, {"delete_session"})
    /\ Quiet(RunsAfterExpiry({s}, lag), s)
    /\ mutations' = [mutations EXCEPT ![s].completed = TRUE]
    /\ runs' = RunsAfterExpiry({s}, lag)
    /\ fences' = FencesAfterExpiry({s}, lag)
    /\ UNCHANGED <<events, queueVars, generation, opened, claimVars>>

----------------------------------------------------------------------------
(* The event journal.                                                      *)

\* What may still be delivered by the worker of a run that is not running.
PostSettlement(state) ==
    CASE state = "completed" -> {"done", "error", "voice_attach"}
      [] state = "cancelled" -> {"cancelled"}
      [] state \in {"failed_safe", "in_doubt"} -> {"error"}
      [] OTHER -> {}

\* append(): event number id of a request, under the claim c.  The last two
\* disjuncts commit only the sweep: the caller is refused, or the event is
\* new but delivery has ended.
AppendEvent(c, type, id, lag) ==
    LET r == c.request
        s == SessionOf[r]
        executing == Keyed(r) /\ runs[r].exec = "running"
        scope == IF executing THEN {s} ELSE {}
        rs == RunsAfterExpiry(scope, lag)
        fs == FencesAfterExpiry(scope, lag)
        permitted ==
            \/ ~Keyed(r)
            \/ /\ executing /\ Owns(fs, c)
               /\ type # "done"
            \/ /\ ~executing
               /\ type \in PostSettlement(runs[r].exec)
               /\ runs[r].epoch = c.epoch
        isNew == id = Len(events[r]) + 1
    IN /\ HasRow(r) /\ Current(r)
       /\ fences' = fs
       /\ \/ /\ permitted
             /\ \/ /\ isNew /\ ~runs[r].closed /\ Len(events[r]) < MaxEvents
                   /\ events' = [events EXCEPT ![r] = Append(@, type)]
                \/ /\ ~isNew /\ events[r][id] = type
                   /\ UNCHANGED events
             /\ runs' = [rs EXCEPT ![r].closed = @ \/ type \in Terminal, ![r].old = FALSE]
          \/ /\ ~permitted
             /\ runs' = rs /\ UNCHANGED events
          \/ /\ permitted /\ isNew /\ runs[r].closed
             /\ runs' = rs /\ UNCHANGED events
       /\ UNCHANGED <<queueVars, mutationVars, claimVars>>

----------------------------------------------------------------------------
(* Time and retention.                                                     *)

\* reap(): every settled row past the retention goes, with what references it.
Reap ==
    LET dead == {r \in Requests : runs[r].exec \in Settled /\ runs[r].old}
    IN /\ dead # {}
       /\ runs' = [r \in Requests |-> IF r \in dead THEN NoRun("reaped") ELSE runs[r]]
       /\ events' = [r \in Requests |-> IF r \in dead THEN <<>> ELSE events[r]]
       /\ waiting' = waiting \ dead
       /\ fences' = [s \in Sessions |->
                        IF fences[s] # NoFence /\ fences[s].request \in dead
                        THEN NoFence ELSE fences[s]]
       /\ UNCHANGED <<queueId, lastQueueId, mutationVars, claimVars>>

\* 24 hours pass without an update of the row.
GrowOld(r) ==
    /\ runs[r].exec \in Settled
    /\ runs' = [runs EXCEPT ![r].old = TRUE]
    /\ UNCHANGED <<events, fences, queueVars, mutationVars, claimVars>>

\* One tick of the clock.  Below -MaxLag every transaction sees the lease
\* expired, so the count stops there.
Tick ==
    /\ fences' = [s \in Sessions |->
                    IF fences[s] # NoFence /\ fences[s].rem > -MaxLag
                    THEN [fences[s] EXCEPT !.rem = @ - 1] ELSE fences[s]]
    /\ UNCHANGED <<runs, events, queueVars, mutationVars, claimVars>>

----------------------------------------------------------------------------

LegacyClaims == {[request |-> r, epoch |-> 0] : r \in LegacyRequests}

WorkerStep(lag) ==
    \/ \E c \in issued : VerifySessionFence(c, lag)
    \/ \E c \in issued, outcome \in Outcomes : FinishExecution(c, outcome, lag)
    \/ \E c \in issued : RejectExecutionBeforeAgent(c, lag)
    \/ \E c \in issued \cup LegacyClaims, type \in EventTypes :
         \E id \in 1..Len(events[c.request]) + 1 : AppendEvent(c, type, id, lag)

MutationStep(s, lag) ==
    \/ \E kind \in {"clear_context", "delete_session"} : BeginSessionMutation(s, kind, lag)
    \/ \E token \in 1..opened[s] :
         \/ AdvanceContextGeneration(s, token, lag)
         \/ SessionMutationQuiescence(s, token, lag)
         \/ ReleaseSessionMutation(s, token, lag)
         \/ RecordDeleteCompletion(s, token, lag)

Next ==
    \/ \E lag \in Lags :
        \/ \E r \in Requests : ClaimExecution(r, lag)
        \/ \E s \in Sessions : ClaimNextQueuedExecution({s}, lag)
        \/ ClaimNextQueuedExecution(Sessions, lag)
        \/ WorkerStep(lag)
        \/ \E r \in Requests : MarkInterruptedExecution(r, lag)
        \/ \E r \in Requests : RequestExecutionCancellation(r, lag)
        \/ \E s \in Sessions : RequestSessionCancellation(s, lag)
        \/ \E s \in Sessions : MutationStep(s, lag)
    \/ \E r \in Requests : BeginLegacy(r)
    \/ \E r \in Requests : GrowOld(r)
    \/ Reap
    \/ Tick

Spec == Init /\ [][Next]_vars

----------------------------------------------------------------------------
(* Safety.                                                                 *)

\* A fence row always stands for the running row of its own session, under
\* the session's newest epoch, and a running keyed row is always the holder
\* of its session's fence.  Hence a session never has two authorised workers,
\* whatever the order of claims, expiries, settlements and late calls.
FenceOwnership ==
    /\ \A s \in Sessions : fences[s] # NoFence =>
         /\ SessionOf[fences[s].request] = s
         /\ runs[fences[s].request].exec = "running"
         /\ runs[fences[s].request].epoch = fences[s].epoch
         /\ fences[s].epoch = lastEpoch[s]
    /\ \A r \in Requests : Keyed(r) /\ runs[r].exec = "running" =>
         Owns(fences, [request |-> r, epoch |-> runs[r].epoch])

\* Claims never share an epoch within a session, and no request is ever
\* handed to two workers: a takeover never re-executes, it leaves in_doubt.
ClaimedOnce ==
    \A c, d \in issued :
        (c.request = d.request
         \/ (SessionOf[c.request] = SessionOf[d.request] /\ c.epoch = d.epoch)) => c = d

\* Two executions of one idempotency key are possible only when retention
\* has removed the record of one of them; an in_doubt one is never removed.
KeyExecutesOnce ==
    \A c, d \in issued :
        (/\ c # d
         /\ SessionOf[c.request] = SessionOf[d.request]
         /\ KeyOf[c.request] = KeyOf[d.request])
        => \E e \in {c, d} : runs[e.request].exec = "reaped"

\* Requests of one session are claimed in the order they were accepted.
ServedInOrder ==
    \A c, d \in issued :
        (SessionOf[c.request] = SessionOf[d.request] /\ c.epoch < d.epoch)
        => queueId[c.request] < queueId[d.request]

\* The queue table and the queued rows never drift apart: no entry is lost,
\* none survives its cancellation.
QueueMatchesRuns == waiting = {r \in Requests : runs[r].exec = "queued"}

\* A run someone asked to cancel is never recorded as completed, and a client
\* never receives done for a run that is not durably completed.  Delivery is
\* closed exactly when a terminal event was recorded, there is at most one,
\* nothing follows it, and a cancelled run always has one.
OneTrueEnding ==
    \A r \in Requests :
        /\ runs[r].cancel => runs[r].exec # "completed"
        /\ Keyed(r) /\ (\E i \in DOMAIN events[r] : events[r][i] = "done")
             => runs[r].exec = "completed"
        /\ runs[r].closed <=> EndsDelivery(events[r])
        /\ \A i \in DOMAIN events[r] : events[r][i] \in Terminal => i = Len(events[r])
        /\ runs[r].exec = "cancelled" => runs[r].closed

\* Once a clear has advanced the context generation, no run of the old context
\* is still queued, running or unresolved; and a session whose deletion has a
\* receipt has no such run at all.
OldContextQuiet ==
    \A r \in Requests : Keyed(r) /\ HasRow(r) =>
        LET s == SessionOf[r]
        IN (\/ runs[r].gen < generation[s]
            \/ mutations[s] # NoMutation /\ mutations[s].completed)
           => runs[r].exec \in Settled

----------------------------------------------------------------------------
(* Action properties.                                                      *)

\* What a run ended as never changes, until retention removes a row that is
\* known to be settled: a late or repeated call of a stale worker, a sweep or
\* a cancellation cannot rewrite an outcome, and in_doubt is never resolved.
OutcomeIsFinal ==
    [][\A r \in Requests :
        /\ runs[r].exec \in Settled =>
             runs'[r].exec = runs[r].exec \/ (runs'[r].exec = "reaped" /\ runs[r].old)
        /\ runs[r].exec \in {"in_doubt", "reaped"} => runs'[r].exec = runs[r].exec]_vars

\* A live lease is not taken from its holder: only the holder's own
\* settlement frees the session before the lease has run out.
LiveLeaseNotStolen ==
    [][\A s \in Sessions :
        (/\ fences[s] # NoFence /\ fences[s].rem > 0
         /\ fences'[s] = NoFence \/ fences'[s].epoch # fences[s].epoch)
        => \E c \in issued, lag \in Lags :
             /\ Owns(fences, c) /\ SessionOf[c.request] = s
             /\ \/ RejectExecutionBeforeAgent(c, lag)
                \/ \E outcome \in Outcomes : FinishExecution(c, outcome, lag)]_vars

\* While a destructive mutation is pending, no request of its session is
\* admitted or claimed, and nothing but the markers of the mutation and of
\* cancellations is appended to a journal of that session.
StaysClosed(r) ==
    (Keyed(r) /\ mutations[SessionOf[r]] # NoMutation /\ mutations'[SessionOf[r]] # NoMutation)
    => /\ runs'[r].exec \in {"queued", "running"} => runs'[r].exec = runs[r].exec
       /\ Len(events'[r]) > Len(events[r]) =>
            /\ events'[r][Len(events'[r])] \in {"cancelled", "error"}
            /\ runs'[r].exec \in Settled

\* And the gate of a session reopens only for a clear, never for a delete, and
\* only when every row of the session is settled and of an older generation.
MutationGate ==
    [][/\ \A r \in Requests : StaysClosed(r)
       /\ \A s \in Sessions :
        (mutations[s] # NoMutation /\ mutations'[s] = NoMutation)
        => /\ mutations[s].kind = "clear_context"
           /\ generation[s] = mutations[s].before + 1
           /\ \A r \in Of(s) : Keyed(r) /\ HasRow(r) =>
                runs[r].gen < generation[s] /\ runs'[r].exec \in Settled]_vars

----------------------------------------------------------------------------
(* Progress.                                                               *)

\* Every healthy process polls for work with the global claim, and time goes on.
FairSpec ==
    /\ Spec
    /\ WF_vars(\E lag \in Lags : ClaimNextQueuedExecution(Sessions, lag))
    /\ WF_vars(Tick)

Renews(s) == /\ fences[s] # NoFence /\ fences'[s] # NoFence
             /\ fences'[s].epoch = fences[s].epoch
             /\ fences'[s].rem > fences[s].rem

\* If every heartbeat stops some day (its worker settles, stops or dies),
\* every queued request leaves the queue, with or without a settlement.
QueuedIsServed ==
    <>[][\A s \in Sessions : ~Renews(s)]_vars
    => \A r \in Requests : (runs[r].exec = "queued") ~> (runs[r].exec # "queued")

=============================================================================
