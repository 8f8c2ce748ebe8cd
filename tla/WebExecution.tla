---------------------------- MODULE WebExecution ----------------------------
(***************************************************************************)
(* What the processes of the Web channel do with a claim of the execution  *)
(* ledger: WebChannel launches it (channel/web/web_channel.py), AgentBridge *)
(* runs the agent under it (bridge/agent_bridge.py), WebChannel.send()     *)
(* delivers the reply, and the clear and delete handlers change the        *)
(* conversation store in between.                                          *)
(*                                                                         *)
(* The ledger's transactions are the actions of ExecutionLedger; here they *)
(* are called in the order, and under the conditions, of this code.  Every *)
(* ledger call, every write to the conversation store and every tool call  *)
(* is a step of its own; a process may stop for good between any two.      *)
(*                                                                         *)
(* Abstractions.  A request is claimed at most once, so its worker is      *)
(* named by the request.  The run lock of a session and the local half of  *)
(* the mutation fence only exclude workers of the same process, which      *)
(* ExecutionLedger's fence excludes anyway; they are left out.  A turn's    *)
(* messages are its user and its assistant message.  Retention does not    *)
(* run.  An exception that the code may raise at a point (a locked         *)
(* database, a failing model, an unavailable store) may be raised there.   *)
(***************************************************************************)
EXTENDS ExecutionLedger

CONSTANTS
    Handlers,   \* clear and delete requests of the session API
    TargetOf,   \* the session such a request is about
    KindOf,     \* "clear_context" or "delete_session"
    PoolSize,   \* max_workers of handler_pool
    MaxTools    \* bound: tool calls of one agent run

ASSUME WorkersAssumption == PoolSize \in Nat \ {0} /\ MaxTools \in Nat

ASSUME HandlersAssumption ==
    /\ TargetOf \in [Handlers -> Sessions]
    /\ KindOf \in [Handlers -> {"clear_context", "delete_session"}]

\* Before the agent is entered.
Launching == {"launch", "preflight", "unlaunched"}
Preparing == {"handed", "bridged", "ready", "stored", "rejecting"}
\* From the moment agent_run_entered is set until the settlement.
Executing == {"agent", "tool", "tooled", "cancelling", "aborted", "answered",
              "verified", "saved", "settling", "failing"}
Delivering == {"reply", "send"}
Ended == {"none", "stopped", "dead"}
Stages == Launching \cup Preparing \cup Executing \cup Delivering \cup Ended

Worker == [at: Stages, signal: BOOLEAN]
Idle == [at |-> "none", signal |-> FALSE]

Handler == [at: {"idle", "waiting", "quiet", "applied", "advanced", "gone"}, token: Nat]
Messages == Requests \X {"user", "assistant"}

VARIABLES
    worker,    \* [Requests -> Worker]: the stage, and the cancel event
    effects,   \* [Requests -> Nat]: tool calls that took effect
    history,   \* messages in the conversation store
    hidden,    \* those before context_start_seq
    deleted,   \* sessions with a tombstone in the conversation store
    handler    \* [Handlers -> Handler]

ledgerVars == vars
storeVars == <<history, hidden, deleted>>
webVars == <<vars, worker, effects, storeVars, handler>>

WebTypeOK ==
    /\ TypeOK
    /\ worker \in [Requests -> Worker]
    /\ effects \in [Requests -> 0..MaxTools]
    /\ history \subseteq Messages
    /\ hidden \subseteq history
    /\ deleted \subseteq Sessions
    /\ handler \in [Handlers -> Handler]

WebInit ==
    /\ Init
    /\ worker = [r \in Requests |-> Idle]
    /\ effects = [r \in Requests |-> 0]
    /\ history = {} /\ hidden = {} /\ deleted = {}
    /\ handler = [h \in Handlers |-> [at |-> "idle", token |-> 0]]

At(r, stages) == worker[r].at \in stages
ClaimOf(r) == [request |-> r, epoch |-> runs[r].epoch]

Go(r, stage) == worker' = [worker EXCEPT ![r].at = stage]

----------------------------------------------------------------------------
(* Talking to the ledger.                                                  *)

\* Mutant: agent_reply() returns without stopping its heartbeat.
Beating_Leaks == Stages \ {"none", "dead", "handed"}

\* A heartbeat runs in the preflight, and from start_heartbeat() until
\* stop_heartbeat() or the end of agent_reply().
Beating == {"preflight", "ready", "stored", "rejecting"} \cup (Executing \ {"settling"})

\* The claim still stands in the eyes of a transaction.
Stands(r, lag) ==
    LET s == SessionOf[r]
    IN /\ Owns(FencesAfterExpiry({s}, lag), ClaimOf(r))
       /\ RunsAfterExpiry({s}, lag)[r].exec = "running"

\* verify_now(): renew the lease or learn that it is lost; the guard also
\* takes over a cancellation that any process has recorded.
Verify(r, lag, next, cancelled, lost) ==
    LET signal == worker[r].signal \/ runs[r].cancel
    IN /\ VerifySessionFence(ClaimOf(r), lag)
       /\ worker' = [worker EXCEPT ![r] =
            IF ~Stands(r, lag) THEN [@ EXCEPT !.at = lost]
            ELSE [at |-> IF signal THEN cancelled ELSE next, signal |-> signal]]
       /\ UNCHANGED <<effects, storeVars, handler>>

\* A settlement; the call may also fail, and nobody repeats it.
Conclude(r, outcome, lag, next) ==
    /\ \/ FinishExecution(ClaimOf(r), outcome, lag)
       \/ UNCHANGED ledgerVars
    /\ Go(r, next)
    /\ UNCHANGED <<effects, storeVars, handler>>

\* A step that only the worker sees.
Move(r, stages, next) ==
    /\ At(r, stages) /\ Go(r, next)
    /\ UNCHANGED <<ledgerVars, effects, storeVars, handler>>

Beat(r, lag) ==
    /\ At(r, Beating)
    /\ VerifySessionFence(ClaimOf(r), lag)
    /\ worker' = [worker EXCEPT ![r].signal = @ \/ (Stands(r, lag) /\ runs[r].cancel)]
    /\ UNCHANGED <<effects, storeVars, handler>>

----------------------------------------------------------------------------
(* WebChannel: post, dispatch and launch.                                  *)

\* Whoever was handed a claim launches it.
Launch ==
    worker' = [r \in Requests |->
        IF \E c \in issued' \ issued : c.request = r
        THEN [at |-> "launch", signal |-> FALSE] ELSE worker[r]]

\* post_message()
Post(r, lag) ==
    /\ ClaimExecution(r, lag) /\ Launch
    /\ UNCHANGED <<effects, storeVars, handler>>

\* _dispatch_durable_web_queues(), polled by every process
Dispatch(lag) ==
    /\ ClaimNextQueuedExecution(Sessions, lag) /\ Launch
    /\ UNCHANGED <<effects, storeVars, handler>>

\* _launch_claimed_web_execution(): the preflight takes over the claim; a
\* cancellation is looked up; the context is composed, or filtered out; the
\* message is handed to the channel's queue, and the preflight stops.
StartPreflight(r, lag) ==
    At(r, {"launch"}) /\ Verify(r, lag, "preflight", "preflight", "unlaunched")

\* Mutant: the launch goes on after it has settled the claim.
PreflightCancelled_GoesOn(r, lag) ==
    /\ At(r, {"preflight"}) /\ Stands(r, lag) /\ runs[r].cancel
    /\ Conclude(r, "cancelled", lag, "handed")

PreflightCancelled(r, lag) ==
    /\ At(r, {"preflight"}) /\ Stands(r, lag) /\ runs[r].cancel
    /\ Conclude(r, "cancelled", lag, "stopped")

AbandonLaunch(r) == Move(r, {"launch", "preflight"}, "unlaunched")

Unlaunch(r, lag) ==
    At(r, {"unlaunched"}) /\ Conclude(r, "failed_safe", lag, "stopped")

HandOver(r, lag) ==
    Stands(r, lag) /\ ~runs[r].cancel /\ Move(r, {"preflight"}, "handed")

----------------------------------------------------------------------------
(* AgentBridge.agent_reply()                                               *)

\* The cancel event of a turn is in the process's registry.
Registered == (Preparing \ {"handed"}) \cup Executing

\* Threads of handler_pool that are occupied.
Busy == {r \in Requests : At(r, Registered \cup Delivering)}

\* A pool thread takes the message; the guard verifies the claim.
StartReply(r, lag) ==
    /\ At(r, {"handed"}) /\ Cardinality(Busy) < PoolSize
    /\ Verify(r, lag, "bridged", "bridged", "rejecting")

\* A plugin answers instead of the bridge, or the claim cannot be read.
PluginReply(r) == Cardinality(Busy) < PoolSize /\ Move(r, {"handed"}, "reply")

CancelBeforeAgent(r, lag) ==
    /\ At(r, {"bridged"}) /\ worker[r].signal
    /\ Conclude(r, "cancelled", lag, "reply")

NoAgent(r, lag) ==
    /\ At(r, {"bridged"}) /\ ~worker[r].signal
    /\ Conclude(r, "failed_safe", lag, "reply")

StartHeartbeat(r, lag) ==
    /\ At(r, {"bridged"}) /\ ~worker[r].signal
    /\ Verify(r, lag, "ready", "ready", "rejecting")

\* append_messages(), which refuses a deleted session.
Store(r, role, next) ==
    /\ SessionOf[r] \notin deleted
    /\ history' = history \cup {<<r, role>>}
    /\ Go(r, next)
    /\ UNCHANGED <<ledgerVars, effects, hidden, deleted, handler>>

PrePersist(r) == At(r, {"ready"}) /\ Store(r, "user", "stored")

EnterAgent(r, lag) ==
    At(r, {"stored"}) /\ Verify(r, lag, "agent", "agent", "failing")

\* The handler around run_stream() already answers for "stored".
FailBeforeAgent(r) == Move(r, {"bridged", "ready"}, "rejecting")

Reject(r, lag) ==
    /\ At(r, {"rejecting"})
    /\ RejectExecutionBeforeAgent(ClaimOf(r), lag) \/ UNCHANGED ledgerVars
    /\ Go(r, "reply")
    /\ UNCHANGED <<effects, storeVars, handler>>

\* tool_scope(): verified before and after the tool.
StartTool(r, lag) ==
    /\ At(r, {"agent"}) /\ effects[r] < MaxTools
    /\ Verify(r, lag, "tool", "cancelling", "failing")

UseTool(r) ==
    /\ At(r, {"tool"})
    /\ effects' = [effects EXCEPT ![r] = @ + 1]
    /\ Go(r, "tooled")
    /\ UNCHANGED <<ledgerVars, storeVars, handler>>

EndTool(r, lag) ==
    At(r, {"tooled"}) /\ Verify(r, lag, "agent", "cancelling", "failing")

Interrupt(r) == worker[r].signal /\ Move(r, {"agent"}, "cancelling")

Answer(r) == Move(r, {"agent"}, "answered")

\* What an interrupted run has produced so far is stored, then settled.
StoreInterrupted(r) ==
    \/ At(r, {"cancelling"}) /\ Store(r, "assistant", "aborted")
    \/ Move(r, {"cancelling"}, "aborted")

SettleInterrupted(r, lag) ==
    At(r, {"aborted"}) /\ Conclude(r, "cancelled", lag, "reply")

VerifyAnswer(r, lag) ==
    At(r, {"answered"}) /\ Verify(r, lag, "verified", "verified", "failing")

\* Mutant: a failed write is logged and the turn goes on.
Persist_BestEffort(r) ==
    \/ At(r, {"verified"}) /\ Store(r, "assistant", "saved")
    \/ Move(r, {"verified"}, "saved")

Persist(r) == At(r, {"verified"}) /\ Store(r, "assistant", "saved")

StopHeartbeat(r, lag) ==
    At(r, {"saved"}) /\ Verify(r, lag, "settling", "settling", "failing")

SettleAnswer(r, lag) ==
    /\ At(r, {"settling"})
    /\ Conclude(r, IF worker[r].signal THEN "cancelled" ELSE "completed", lag, "reply")

\* Mutant: every exception takes the path of one before the agent.
FailInAgent_Rejects(r) ==
    Move(r, {"stored"} \cup (Executing \ {"aborted", "settling", "failing"}), "rejecting")

\* An exception after agent_run_entered.
FailInAgent(r) ==
    Move(r, {"stored"} \cup (Executing \ {"aborted", "settling", "failing"}), "failing")

SettleFailure(r, lag) ==
    At(r, {"failing"}) /\ Conclude(r, "in_doubt", lag, "reply")

----------------------------------------------------------------------------
(* WebChannel.send()                                                       *)

\* A reply that arrives before a settlement proves nothing: in_doubt.
CheckDelivery(r, lag) ==
    /\ At(r, {"reply"})
    /\ IF runs[r].exec = "running"
       THEN Conclude(r, "in_doubt", lag, "send")
       ELSE Move(r, {"reply"}, "send")

\* The terminal event for the state that was read, unless a cancellation has
\* already written it; append() may refuse, and the refusal is only logged.
Send(r, lag) ==
    /\ At(r, {"send"})
    /\ \/ \E type \in CASE runs[r].exec = "completed" -> {"done", "error"}
                        [] runs[r].exec = "cancelled" -> {}
                        [] OTHER -> {"error"} :
            AppendEvent(ClaimOf(r), type, Len(events[r]) + 1, lag)
       \/ UNCHANGED ledgerVars
    /\ Go(r, "stopped")
    /\ UNCHANGED <<effects, storeVars, handler>>

\* The process of a worker is gone.
Crash(r) == Move(r, Stages \ Ended, "dead")

----------------------------------------------------------------------------
(* The handlers that clear a session's context or delete the session.      *)

OfSession(s) == {m \in history : SessionOf[m[1]] = s}

HandlerGoes(h, stage) == handler' = [handler EXCEPT ![h].at = stage]

BeginMutation(h, lag) ==
    /\ handler[h].at = "idle"
    /\ BeginSessionMutation(TargetOf[h], KindOf[h], lag)
    /\ handler' = [handler EXCEPT ![h] =
            [at |-> "waiting", token |-> mutations'[TargetOf[h]].token]]
    /\ UNCHANGED <<worker, effects, storeVars>>

\* Mutant: quiescence of the own process is taken for the whole.
AwaitQuiescence_LocalOnly(h, lag) ==
    /\ handler[h].at = "waiting"
    /\ SessionMutationQuiescence(TargetOf[h], handler[h].token, lag)
    /\ HandlerGoes(h, "quiet")
    /\ UNCHANGED <<worker, effects, storeVars>>

\* Polling the ledger until it reports quiescence.
AwaitQuiescence(h, lag) ==
    LET s == TargetOf[h]
    IN /\ handler[h].at = "waiting"
       /\ SessionMutationQuiescence(s, handler[h].token, lag)
       /\ HandlerGoes(h, IF Quiet(RunsAfterExpiry({s}, lag), s) THEN "quiet" ELSE "waiting")
       /\ UNCHANGED <<worker, effects, storeVars>>

\* Each poll cancels what this process is running for the session.
SignalWorker(h, r) ==
    /\ handler[h].at = "waiting" /\ SessionOf[r] = TargetOf[h]
    /\ At(r, Registered)
    /\ worker' = [worker EXCEPT ![r].signal = TRUE]
    /\ UNCHANGED <<ledgerVars, effects, storeVars, handler>>

\* ConversationStore.clear_context(): the boundary moves past the last message.
ClearContext(h) ==
    /\ handler[h].at = "quiet" /\ KindOf[h] = "clear_context"
    /\ TargetOf[h] \notin deleted
    /\ hidden' = hidden \cup OfSession(TargetOf[h])
    /\ HandlerGoes(h, "applied")
    /\ UNCHANGED <<ledgerVars, worker, effects, history, deleted>>

Advance(h, lag) ==
    /\ handler[h].at = "applied" /\ KindOf[h] = "clear_context"
    /\ AdvanceContextGeneration(TargetOf[h], handler[h].token, lag)
    /\ HandlerGoes(h, "advanced")
    /\ UNCHANGED <<worker, effects, storeVars>>

Reopen(h, lag) ==
    /\ handler[h].at = "advanced"
    /\ ReleaseSessionMutation(TargetOf[h], handler[h].token, lag)
    /\ HandlerGoes(h, "gone")
    /\ UNCHANGED <<worker, effects, storeVars>>

\* ConversationStore.delete_session(): the messages go, a tombstone stays.
DeleteSession(h) ==
    /\ handler[h].at = "quiet" /\ KindOf[h] = "delete_session"
    /\ deleted' = deleted \cup {TargetOf[h]}
    /\ history' = history \ OfSession(TargetOf[h])
    /\ hidden' = hidden \ OfSession(TargetOf[h])
    /\ HandlerGoes(h, "applied")
    /\ UNCHANGED <<ledgerVars, worker, effects>>

RecordDeletion(h, lag) ==
    /\ handler[h].at = "applied" /\ KindOf[h] = "delete_session"
    /\ RecordDeleteCompletion(TargetOf[h], handler[h].token, lag)
    /\ HandlerGoes(h, "gone")
    /\ UNCHANGED <<worker, effects, storeVars>>

\* Timed out, failed, or gone with its process.
StopHandler(h) ==
    /\ handler[h].at \notin {"idle", "gone"}
    /\ HandlerGoes(h, "gone")
    /\ UNCHANGED <<ledgerVars, worker, effects, storeVars>>

----------------------------------------------------------------------------
(* Clients and time.                                                       *)

\* cancel_request(): the intent is recorded; the local worker may be told.
CancelRequest(r, lag) ==
    /\ ~runs[r].cancel
    /\ RequestExecutionCancellation(r, lag)
    /\ \/ UNCHANGED worker
       \/ At(r, Registered) /\ worker' = [worker EXCEPT ![r].signal = TRUE]
    /\ UNCHANGED <<effects, storeVars, handler>>

\* A reader gives up on a worker whose fence is gone.
Recover(r, lag) ==
    /\ MarkInterruptedExecution(r, lag)
    /\ UNCHANGED <<worker, effects, storeVars, handler>>

WebTick == Tick /\ UNCHANGED <<worker, effects, storeVars, handler>>

WorkerProgress(r) ==
    \/ \E lag \in Lags :
        \/ StartPreflight(r, lag) \/ PreflightCancelled(r, lag) \/ Unlaunch(r, lag) \/ HandOver(r, lag)
        \/ StartReply(r, lag) \/ CancelBeforeAgent(r, lag) \/ NoAgent(r, lag)
        \/ StartHeartbeat(r, lag) \/ EnterAgent(r, lag) \/ Reject(r, lag)
        \/ StartTool(r, lag) \/ EndTool(r, lag) \/ SettleInterrupted(r, lag)
        \/ VerifyAnswer(r, lag) \/ StopHeartbeat(r, lag) \/ SettleAnswer(r, lag)
        \/ SettleFailure(r, lag) \/ CheckDelivery(r, lag) \/ Send(r, lag)
    \/ AbandonLaunch(r) \/ PluginReply(r)
    \/ PrePersist(r) \/ FailBeforeAgent(r)
    \/ UseTool(r) \/ Interrupt(r) \/ Answer(r)
    \/ StoreInterrupted(r) \/ Persist(r) \/ FailInAgent(r)

HandlerStep(h) ==
    \/ \E lag \in Lags :
        \/ BeginMutation(h, lag) \/ AwaitQuiescence(h, lag)
        \/ Advance(h, lag) \/ Reopen(h, lag) \/ RecordDeletion(h, lag)
    \/ \E r \in Requests : SignalWorker(h, r)
    \/ ClearContext(h) \/ DeleteSession(h) \/ StopHandler(h)

ServerStep(lag) ==
    \/ Dispatch(lag)
    \/ \E r \in Requests :
        \/ Post(r, lag) \/ CancelRequest(r, lag) \/ Beat(r, lag) \/ Recover(r, lag)

WebNext ==
    \/ \E r \in Requests : WorkerProgress(r) \/ Crash(r)
    \/ \E h \in Handlers : HandlerStep(h)
    \/ \E lag \in Lags : ServerStep(lag)
    \/ WebTick

WebSpec == WebInit /\ [][WebNext]_webVars

----------------------------------------------------------------------------
(* Safety.                                                                 *)

\* Whatever was settled has really stopped: once a run is completed,
\* cancelled or failed_safe no worker of it is left that could still call a
\* tool or write to the conversation store, in any process.  This is what
\* entitles clear and delete to read quiescence off the ledger alone.  (With
\* it, the types of the variables.)
SettledIsStill ==
    /\ WebTypeOK
    /\ \A r \in Requests :
          runs[r].exec \in Settled => At(r, Delivering \cup Ended)

\* failed_safe invites the user to repeat the request: it is only said of a
\* run that never entered the agent, hence used no tool and got no answer.
FailedSafeIsHarmless ==
    \A r \in Requests : runs[r].exec = "failed_safe" =>
        effects[r] = 0 /\ <<r, "assistant">> \notin history

\* What was recorded as completed is in the conversation, question and
\* answer, unless the session has been deleted since.
CompletedIsStored ==
    \A r \in Requests :
        runs[r].exec = "completed" /\ SessionOf[r] \notin deleted
        => {<<r, "user">>, <<r, "assistant">>} \subseteq history

\* After a clear no message of an earlier context is visible to the next
\* turn, and after a deletion no message is left, however late its writer.
OldContextHidden ==
    \A m \in history :
        /\ SessionOf[m[1]] \notin deleted
        /\ m \notin hidden => runs[m[1]].gen = generation[SessionOf[m[1]]]

\* The other half, which the handlers promise: a clear hides no message of
\* the new context, once the gate has been reopened for it.
HiddenIsOld ==
    \A m \in hidden :
        \/ mutations[SessionOf[m[1]]] # NoMutation
        \/ runs[m[1]].gen < generation[SessionOf[m[1]]]

----------------------------------------------------------------------------
(* Progress.                                                               *)

\* Threads run on, a model call ends, every process polls the queue, and
\* time passes.  Crashes, failures and heartbeats are not assumed to happen.
FairWebSpec ==
    /\ WebSpec
    /\ \A r \in Requests : WF_webVars(WorkerProgress(r))
    /\ WF_webVars(\E lag \in Lags : Dispatch(lag))
    /\ WF_webVars(WebTick)

\* Every accepted request is claimed or cancelled, and every claim ends in an
\* outcome, by its worker or, when that is gone, by the lease.
ClaimIsResolved ==
    \A r \in Requests :
        (runs[r].exec \in {"queued", "running"}) ~> (runs[r].exec \in Settled \cup {"in_doubt"})

=============================================================================
