-------------------------- MODULE WebExecutionProofs --------------------------
(***************************************************************************)
(* Proofs about the processes of the Web channel, for every number of      *)
(* sessions, requests, handlers, threads and tool calls.                   *)
(*                                                                         *)
(* First, a worker only ever presents the claim it was handed, and a       *)
(* handler only a token that was drawn: so WebExecution is a special case  *)
(* of ExecutionLedger, whose theorems carry over.  Then, what every action *)
(* may do to one turn (TurnSteps), to one handler and to the conversation  *)
(* store; and from these lists the four properties of the store.           *)
(***************************************************************************)
EXTENDS WebExecution, ExecutionLedgerProofs

\* The transactions that this code calls.
LedgerCall(lag) ==
    \/ \E r \in Requests : ClaimExecution(r, lag)
    \/ ClaimNextQueuedExecution(Sessions, lag)
    \/ WorkerStep(lag)
    \/ \E r \in Requests : MarkInterruptedExecution(r, lag) \/ RequestExecutionCancellation(r, lag)
    \/ \E s \in Sessions : MutationStep(s, lag)

\* Whoever has a worker was handed the claim of the row, and whoever handles a
\* mutation was given a token of its session.
Linked ==
    /\ \A r \in Requests : ~At(r, {"none"}) => ClaimOf(r) \in issued
    /\ \A s \in Sessions : mutations[s] # NoMutation => mutations[s].token \in 1..opened[s]
    /\ \A h \in Handlers : handler[h].at # "idle" => handler[h].token \in 1..opened[TargetOf[h]]

\* What is known of every state in which a step is taken.
Grounded == WebTypeOK /\ Authority /\ Linked

\* The stages of a worker that has its claim on hand.
LEMMA ClaimInHand ==
    ASSUME Grounded, NEW r \in Requests, worker[r].at # "none"
    PROVE  /\ ClaimOf(r) \in issued /\ ClaimOf(r).request = r
           /\ ClaimOf(r) \in Claim /\ ClaimOf(r).epoch = runs[r].epoch
           /\ runs[r].exec \notin {"absent", "queued"}
  <1>1. ClaimOf(r) \in issued
    BY DEF Grounded, Linked, At
  <1>2. ClaimOf(r).request = r /\ ClaimOf(r).epoch = runs[r].epoch
    BY DEF ClaimOf
  <1>3. QED
    BY <1>1, <1>2 DEF Grounded, WebTypeOK, TypeOK, Authority, SafeTables, HistoryOf

\* Every step of a worker is a transaction under its claim, or none.
LEMMA WorkerCalls ==
    ASSUME Grounded, NEW r \in Requests, WorkerProgress(r) \/ Crash(r)
    PROVE  (\E lag \in Lags : WorkerStep(lag)) \/ UNCHANGED vars
  <1>1. ASSUME NEW lag \in Lags, worker[r].at # "none",
               \/ VerifySessionFence(ClaimOf(r), lag)
               \/ RejectExecutionBeforeAgent(ClaimOf(r), lag)
               \/ \E outcome \in Outcomes : FinishExecution(ClaimOf(r), outcome, lag)
               \/ \E type \in EventTypes : AppendEvent(ClaimOf(r), type, Len(events[r]) + 1, lag)
        PROVE  WorkerStep(lag)
    <2>1. /\ ClaimOf(r) \in issued /\ ClaimOf(r).request = r
      BY <1>1, ClaimInHand
    <2>2. Len(events[r]) + 1 \in 1..Len(events[ClaimOf(r).request]) + 1
      BY <2>1 DEF Grounded, WebTypeOK, TypeOK
    <2> DEFINE c == ClaimOf(r)
    <2>3. c \in issued /\ c.request = r
      BY <2>1
    <2> HIDE DEF c
    <2>4. QED
      BY <1>1, <2>2, <2>3 DEF WorkerStep, c
  <1> DEFINE Calls(lag) == \/ VerifySessionFence(ClaimOf(r), lag)
               \/ RejectExecutionBeforeAgent(ClaimOf(r), lag)
               \/ \E outcome \in Outcomes : FinishExecution(ClaimOf(r), outcome, lag)
               \/ \E type \in EventTypes : AppendEvent(ClaimOf(r), type, Len(events[r]) + 1, lag)
  <1>2. ASSUME NEW lag \in Lags,
               \/ StartPreflight(r, lag) \/ StartReply(r, lag) \/ StartHeartbeat(r, lag)
               \/ EnterAgent(r, lag) \/ StartTool(r, lag) \/ EndTool(r, lag)
               \/ VerifyAnswer(r, lag) \/ StopHeartbeat(r, lag)
        PROVE  worker[r].at # "none" /\ Calls(lag)
    BY <1>2 DEF StartPreflight, StartReply, StartHeartbeat, EnterAgent, StartTool, EndTool,
                VerifyAnswer, StopHeartbeat, Verify, At
  <1>3. ASSUME NEW lag \in Lags,
               \/ PreflightCancelled(r, lag) \/ Unlaunch(r, lag) \/ CancelBeforeAgent(r, lag)
               \/ NoAgent(r, lag) \/ SettleInterrupted(r, lag) \/ SettleAnswer(r, lag)
               \/ SettleFailure(r, lag) \/ Reject(r, lag) \/ HandOver(r, lag)
               \/ CheckDelivery(r, lag)
        PROVE  worker[r].at # "none" /\ (Calls(lag) \/ UNCHANGED vars)
    <2>1. {"cancelled", "failed_safe", "in_doubt", "completed"} \subseteq Outcomes
      BY DEF Outcomes
    <2>2. QED
      BY <1>3, <2>1 DEF PreflightCancelled, Unlaunch, CancelBeforeAgent, NoAgent, SettleInterrupted,
                SettleAnswer, SettleFailure, Reject, HandOver, CheckDelivery, Conclude, Move, At,
                ledgerVars
  <1>4. ASSUME NEW lag \in Lags, Send(r, lag)
        PROVE  WorkerStep(lag) \/ UNCHANGED vars
    <2>1. {"done", "error"} \subseteq EventTypes
      BY DEF EventTypes, Terminal
    <2>2. ASSUME NEW type \in CASE runs[r].exec = "completed" -> {"done", "error"}
                               [] runs[r].exec = "cancelled" -> {}
                               [] OTHER -> {"error"}
          PROVE  type \in EventTypes
      BY <2>1
    <2>3. UNCHANGED vars \/ \E type \in EventTypes :
            AppendEvent(ClaimOf(r), type, Len(events[r]) + 1, lag)
      BY <1>4, <2>2 DEF Send, ledgerVars
    <2>4. worker[r].at # "none"
      BY <1>4 DEF Send, At
    <2>5. CASE \E type \in EventTypes : AppendEvent(ClaimOf(r), type, Len(events[r]) + 1, lag)
      BY <1>1, <2>4, <2>5
    <2>6. QED
      BY <2>3, <2>5
  <1>5. ASSUME \/ AbandonLaunch(r) \/ PluginReply(r) \/ PrePersist(r) \/ FailBeforeAgent(r)
               \/ UseTool(r) \/ Interrupt(r) \/ Answer(r) \/ StoreInterrupted(r) \/ Persist(r)
               \/ FailInAgent(r) \/ Crash(r)
        PROVE  UNCHANGED vars
    BY <1>5 DEF AbandonLaunch, PluginReply, PrePersist, FailBeforeAgent, UseTool, Interrupt, Answer,
                StoreInterrupted, Persist, FailInAgent, Crash, Move, Store, ledgerVars
  <1> HIDE DEF Calls
  <1>6. \A lag \in Lags : worker[r].at # "none" /\ Calls(lag) => WorkerStep(lag)
    BY <1>1 DEF Calls
  <1>7. QED
    BY <1>2, <1>3, <1>4, <1>5, <1>6 DEF WorkerProgress

\* Every step of a handler is a transaction of its mutation, or none.
LEMMA HandlerCalls ==
    ASSUME Grounded, NEW h \in Handlers, HandlerStep(h)
    PROVE  (\E lag \in Lags : MutationStep(TargetOf[h], lag)) \/ UNCHANGED vars
  <1>1. TargetOf[h] \in Sessions /\ KindOf[h] \in {"clear_context", "delete_session"}
    BY HandlersAssumption
  <1>2. handler[h].at # "idle" => handler[h].token \in 1..opened[TargetOf[h]]
    BY DEF Grounded, Linked
  <1>3. ASSUME NEW lag \in Lags,
               \/ BeginMutation(h, lag) \/ AwaitQuiescence(h, lag)
               \/ Advance(h, lag) \/ Reopen(h, lag) \/ RecordDeletion(h, lag)
        PROVE  MutationStep(TargetOf[h], lag)
    BY <1>1, <1>2, <1>3 DEF BeginMutation, AwaitQuiescence, Advance, Reopen, RecordDeletion,
                            MutationStep
  <1>4. ASSUME NEW r \in Requests, SignalWorker(h, r)
        PROVE  UNCHANGED vars
    BY <1>4 DEF SignalWorker, ledgerVars
  <1>5. ASSUME ClearContext(h) \/ DeleteSession(h) \/ StopHandler(h)
        PROVE  UNCHANGED vars
    BY <1>5 DEF ClearContext, DeleteSession, StopHandler, ledgerVars
  <1>6. QED
    BY <1>3, <1>4, <1>5 DEF HandlerStep

\* Hence every step of this code is one of the ledger, or none.
LEMMA LedgerCalls ==
    ASSUME Grounded, WebNext
    PROVE  (\E lag \in Lags : LedgerCall(lag)) \/ Tick \/ UNCHANGED vars
  <1>1. ASSUME NEW r \in Requests, WorkerProgress(r) \/ Crash(r)
        PROVE  (\E lag \in Lags : LedgerCall(lag)) \/ UNCHANGED vars
    BY <1>1, WorkerCalls DEF LedgerCall
  <1>2. ASSUME NEW h \in Handlers, HandlerStep(h)
        PROVE  (\E lag \in Lags : LedgerCall(lag)) \/ UNCHANGED vars
    BY <1>2, HandlerCalls, HandlersAssumption DEF LedgerCall
  <1>3. ASSUME NEW lag \in Lags, ServerStep(lag)
        PROVE  LedgerCall(lag)
    <2>1. CASE Dispatch(lag)
      BY <2>1 DEF Dispatch, LedgerCall
    <2>2. ASSUME NEW r \in Requests, Post(r, lag) \/ CancelRequest(r, lag) \/ Recover(r, lag)
          PROVE  LedgerCall(lag)
      BY <2>2 DEF Post, CancelRequest, Recover, LedgerCall
    <2>3. ASSUME NEW r \in Requests, Beat(r, lag)
          PROVE  LedgerCall(lag)
      <3>1. worker[r].at # "none"
        BY <2>3 DEF Beat, At, Beating, Executing
      <3>2. QED
        BY <2>3, <3>1, ClaimInHand DEF Beat, LedgerCall, WorkerStep
    <2>4. QED
      BY <1>3, <2>1, <2>2, <2>3 DEF ServerStep
  <1>4. QED
    BY <1>1, <1>2, <1>3 DEF WebNext, WebTick

\* The step relation of the ledger is respected.
LEMMA LedgerSteps == Grounded /\ [WebNext]_webVars => [Next]_vars
  <1>1. ASSUME NEW lag \in Lags, LedgerCall(lag)
        PROVE  Next
    BY <1>1 DEF LedgerCall, Next
  <1>2. QED
    BY <1>1, LedgerCalls DEF Next, webVars

------------------------------------------------------------------------

(***************************************************************************)
(* Everything that a step may do to the turn of one request.               *)
(***************************************************************************)

Active == Launching \cup Preparing \cup Executing
\* The agent has not been entered.
Unentered == {"none"} \cup Launching \cup Preparing
\* The question has been stored, and then the answer too.
Questioned == {"stored"} \cup Executing
Answered == {"saved", "settling"}

\* From stage a to b without a write: b has nothing to its credit that a has not.
StageStep(a, b) ==
    /\ a \in Stages /\ b \in Stages
    /\ a = "none" <=> b = "none"
    /\ b \in Unentered => a \in Unentered
    /\ b \in Active => a \in Active
    /\ b \in Questioned => a \in Questioned
    /\ b \in Answered => a \in Answered

\* What happens to the row unless its own worker concludes it.
Moves(r) ==
    /\ runs[r].exec \in {"running", "in_doubt"} => runs'[r].exec \in {"running", "in_doubt"}
    /\ runs'[r].exec \in {"completed", "failed_safe"} => runs'[r].exec = runs[r].exec
    /\ runs[r].exec \notin {"absent", "queued"}
         => runs'[r].epoch = runs[r].epoch /\ runs'[r].gen = runs[r].gen
    /\ mutations[SessionOf[r]] # NoMutation /\ runs[r].exec \notin Pending
         => runs'[r].exec \notin Pending

\* Its worker concludes it.
Finishes(r) ==
    /\ runs[r].exec = "running" /\ runs'[r].exec \in Outcomes
    /\ runs'[r].epoch = runs[r].epoch /\ runs'[r].gen = runs[r].gen

Roles == {"user", "assistant"}

\* No message of the request is written; they may go with their session.
Unwritten(r) ==
    /\ effects'[r] = effects[r]
    /\ SessionOf[r] \in deleted => SessionOf[r] \in deleted'
    /\ \A role \in Roles : <<r, role>> \in history' => <<r, role>> \in history
    /\ SessionOf[r] \notin deleted'
         => \A role \in Roles : <<r, role>> \in history => <<r, role>> \in history'

TurnGoes(r) ==
    /\ Moves(r) /\ Unwritten(r)
    /\ StageStep(worker[r].at, worker'[r].at)
    /\ worker'[r].at = "tool" => worker[r].at = "tool" \/ effects[r] < MaxTools

TurnStarts(r) ==
    /\ worker[r].at = "none" /\ worker'[r].at = "launch"
    /\ ClaimOf(r)' \in issued' /\ runs'[r].exec = "running"
    /\ Moves(r) /\ Unwritten(r)

TurnEnds(r) ==
    /\ Finishes(r) /\ Unwritten(r)
    /\ worker[r].at # "none" /\ worker'[r].at \in Delivering \cup {"stopped"}
    /\ runs'[r].exec = "failed_safe" => worker[r].at \in Unentered
    /\ runs'[r].exec = "completed" => worker[r].at = "settling"

UsesTool(r) ==
    /\ Moves(r)
    /\ worker[r].at = "tool" /\ worker'[r].at = "tooled"
    /\ effects'[r] = effects[r] + 1
    /\ UNCHANGED storeVars

Writes(r, role, from, to) ==
    /\ Moves(r)
    /\ worker[r].at = from /\ worker'[r].at = to
    /\ SessionOf[r] \notin deleted /\ history' = history \cup {<<r, role>>}
    /\ effects'[r] = effects[r] /\ UNCHANGED <<hidden, deleted>>

TurnWrites(r) ==
    \/ Writes(r, "user", "ready", "stored")
    \/ Writes(r, "assistant", "cancelling", "aborted")
    \/ Writes(r, "assistant", "verified", "saved")

TurnStep(r) == TurnGoes(r) \/ TurnStarts(r) \/ TurnEnds(r) \/ UsesTool(r) \/ TurnWrites(r)

TurnsStep == worker' \in [Requests -> Worker] /\ \A r \in Requests : TurnStep(r)

\* The ledger's list of moves, as far as turns are concerned.
LEMMA ProceedsMoves ==
    ASSUME NEW r \in Requests, Proceeds(r, runs[r], events[r], runs'[r], events'[r])
    PROVE  Moves(r)
  BY DEF Proceeds, Kept, Admitted, Claimed, Doubted, Asked, Dropped, Overtaken, Delivered, Moves,
         Settled, Pending

\* What the calls of the worker of q mean for the row of r.
LEMMA CallMoves ==
    ASSUME Grounded, NEW q \in Requests, worker[q].at # "none", NEW r \in Requests, NEW lag \in Lags
    PROVE  /\ VerifySessionFence(ClaimOf(q), lag) => Moves(r)
           /\ \A outcome \in Outcomes : FinishExecution(ClaimOf(q), outcome, lag)
                => \/ Moves(r)
                   \/ /\ r = q /\ Finishes(r)
                      /\ runs'[r].exec \in {"failed_safe", "completed"} => runs'[r].exec = outcome
           /\ RejectExecutionBeforeAgent(ClaimOf(q), lag)
                => Moves(r) \/ (r = q /\ Finishes(r) /\ runs'[r].exec = "failed_safe")
           /\ \A type \in EventTypes :
                AppendEvent(ClaimOf(q), type, Len(events[q]) + 1, lag) => Moves(r)
  <1> DEFINE c == ClaimOf(q)
  <1>1. c \in issued /\ c.request = q /\ Len(events[q]) + 1 \in 1..Len(events[c.request]) + 1
    BY ClaimInHand DEF Grounded, WebTypeOK, TypeOK
  <1>2. TypeOK /\ Authority
    BY DEF Grounded, WebTypeOK
  <1> HIDE DEF c
  <1>3. VerifySessionFence(c, lag) => Moves(r)
    BY <1>1, <1>2, CallRows, ProceedsMoves
  <1>4. ASSUME NEW outcome \in Outcomes, FinishExecution(c, outcome, lag)
        PROVE  \/ Moves(r)
               \/ /\ r = q /\ Finishes(r)
                  /\ runs'[r].exec \in {"failed_safe", "completed"} => runs'[r].exec = outcome
    <2>1. \/ Proceeds(r, runs[r], events[r], runs'[r], events'[r])
          \/ /\ r = q
             /\ Concluded(runs[r], events[r], runs'[r], events'[r])
             /\ runs'[r].exec \in {outcome, "cancelled"}
      BY <1>1, <1>2, <1>4, CallRows
    <2>2. QED
      BY <2>1, ProceedsMoves DEF Concluded, Finishes
  <1>5. RejectExecutionBeforeAgent(c, lag)
          => Moves(r) \/ (r = q /\ Finishes(r) /\ runs'[r].exec = "failed_safe")
    <2>1. RejectExecutionBeforeAgent(c, lag)
            => \/ Proceeds(r, runs[r], events[r], runs'[r], events'[r])
               \/ /\ r = q
                  /\ Concluded(runs[r], events[r], runs'[r], events'[r])
                  /\ runs'[r].exec = "failed_safe"
      BY <1>1, <1>2, CallRows
    <2>2. QED
      BY <2>1, ProceedsMoves DEF Concluded, Finishes
  <1>6. ASSUME NEW type \in EventTypes, AppendEvent(c, type, Len(events[q]) + 1, lag)
        PROVE  Moves(r)
    BY <1>1, <1>2, <1>6, CallRows, ProceedsMoves
  <1>7. QED
    BY <1>3, <1>4, <1>5, <1>6 DEF c

\* A worker that goes to a stage, and the others that stay.
LEMMA Going ==
    ASSUME Grounded, NEW q \in Requests, NEW stage \in Stages, Go(q, stage)
    PROVE  /\ worker' \in [Requests -> Worker]
           /\ worker'[q].at = stage
           /\ \A r \in Requests : r # q => worker'[r].at = worker[r].at
  BY DEF Grounded, WebTypeOK, Go, Worker

\* A worker that stays where it is.
LEMMA Staying == \A stage \in Stages : StageStep(stage, stage)
  BY DEF StageStep

\* The row of a request, when nothing changes in the ledger.
LEMMA IdleMoves == \A r \in Requests : UNCHANGED vars => Moves(r)
  BY DEF vars, Moves

\* Whoever writes nothing leaves every message.
LEMMA Unwriting ==
    ASSUME UNCHANGED <<effects, storeVars>>
    PROVE  \A r \in Requests : Unwritten(r)
  BY DEF storeVars, Unwritten


\* The guard of a ledger call: the claim is verified, and the worker goes on.
LEMMA VerifyTurn ==
    ASSUME Grounded, NEW q \in Requests, NEW lag \in Lags, NEW next, NEW cancelled, NEW lost,
           Verify(q, lag, next, cancelled, lost), worker[q].at # "none",
           \A stage \in {next, cancelled, lost} : StageStep(worker[q].at, stage),
           "tool" \in {next, cancelled, lost} => effects[q] < MaxTools
    PROVE  TurnsStep
  <1>1. /\ worker' \in [Requests -> Worker]
        /\ worker'[q].at \in {next, cancelled, lost}
        /\ \A r \in Requests : r # q => worker'[r] = worker[r]
    <2>1. {next, cancelled, lost} \subseteq Stages
      BY DEF StageStep
    <2>2. worker[q] \in Worker /\ worker \in [Requests -> Worker] /\ runs[q].cancel \in BOOLEAN
      BY DEF Grounded, WebTypeOK, TypeOK, Run
    <2> DEFINE signal == worker[q].signal \/ runs[q].cancel
               w == IF ~Stands(q, lag) THEN [worker[q] EXCEPT !.at = lost]
                    ELSE [at |-> IF signal THEN cancelled ELSE next, signal |-> signal]
    <2>3. worker' = [worker EXCEPT ![q] = w]
      BY <2>2 DEF Verify
    <2>4. w \in Worker /\ w.at \in {next, cancelled, lost}
      <3>1. signal \in BOOLEAN
        BY <2>2 DEF Worker
      <3> HIDE DEF signal
      <3>2. QED
        BY <2>1, <2>2, <3>1 DEF Worker
    <2> HIDE DEF w
    <2>5. QED
      BY <2>2, <2>3, <2>4
  <1>2. \A r \in Requests : Moves(r)
    BY CallMoves DEF Verify
  <1>3. \A r \in Requests : Unwritten(r)
    BY Unwriting DEF Verify
  <1>4. \A r \in Requests : worker[r].at \in Stages
    BY DEF Grounded, WebTypeOK, Worker
  <1>5. ASSUME NEW r \in Requests
        PROVE  TurnGoes(r)
    <2>1. CASE r = q
      BY <1>1, <1>2, <1>3, <2>1 DEF TurnGoes
    <2>2. CASE r # q
      BY <1>1, <1>2, <1>3, <1>4, <2>2, Staying DEF TurnGoes
    <2>3. QED
      BY <2>1, <2>2
  <1>6. QED
    BY <1>1, <1>5 DEF TurnsStep, TurnStep

\* A step that only the worker sees.
LEMMA MoveTurn ==
    ASSUME Grounded, NEW q \in Requests, NEW stages, NEW next,
           Move(q, stages, next), StageStep(worker[q].at, next), next # "tool"
    PROVE  TurnsStep
  <1>1. /\ worker' \in [Requests -> Worker] /\ worker'[q].at = next
        /\ \A r \in Requests : r # q => worker'[r].at = worker[r].at
    BY Going DEF Move, StageStep
  <1>2. \A r \in Requests : Moves(r) /\ Unwritten(r)
    BY IdleMoves, Unwriting DEF Move, ledgerVars
  <1>3. \A r \in Requests : worker[r].at \in Stages
    BY DEF Grounded, WebTypeOK, Worker
  <1>4. \A r \in Requests : TurnGoes(r)
    BY <1>1, <1>2, <1>3, Staying DEF TurnGoes
  <1>5. QED
    BY <1>1, <1>4 DEF TurnsStep, TurnStep

\* A settlement that takes place, is refused, or fails.
LEMMA ConcludeTurn ==
    ASSUME Grounded, NEW q \in Requests, NEW outcome \in Outcomes, NEW lag \in Lags,
           NEW next \in Delivering \cup {"stopped"}, worker[q].at # "none",
           Go(q, next), UNCHANGED <<effects, storeVars>>,
           \/ FinishExecution(ClaimOf(q), outcome, lag)
           \/ RejectExecutionBeforeAgent(ClaimOf(q), lag) /\ outcome = "failed_safe"
           \/ UNCHANGED vars,
           outcome = "failed_safe" => worker[q].at \in Unentered,
           outcome = "completed" => worker[q].at = "settling"
    PROVE  TurnsStep
  <1>1. /\ worker' \in [Requests -> Worker] /\ worker'[q].at = next
        /\ \A r \in Requests : r # q => worker'[r].at = worker[r].at
    <2>1. next \in Stages
      BY DEF Stages, Ended
    <2>2. QED
      BY <2>1, Going
  <1>2. ASSUME NEW r \in Requests
        PROVE  /\ Unwritten(r) /\ worker[r].at \in Stages
               /\ \/ Moves(r)
                  \/ /\ r = q /\ Finishes(r)
                     /\ runs'[r].exec \in {"failed_safe", "completed"} => runs'[r].exec = outcome
    BY CallMoves, IdleMoves, Unwriting DEF Grounded, WebTypeOK, Worker
  <1>3. StageStep(worker[q].at, next)
    <2>1. worker[q].at \in Stages
      BY <1>2
    <2>2. QED
      BY <2>1 DEF StageStep, Stages, Delivering, Ended, Unentered, Active, Questioned, Answered,
                  Launching, Preparing, Executing
  <1>4. next # "tool"
    BY DEF Delivering
  <1>5. ASSUME NEW r \in Requests
        PROVE  TurnStep(r)
    <2>1. CASE Moves(r)
      <3>1. TurnGoes(r)
        BY <1>1, <1>2, <1>3, <1>4, <2>1, Staying DEF TurnGoes
      <3>2. QED
        BY <3>1 DEF TurnStep
    <2>2. CASE /\ r = q /\ Finishes(r)
               /\ runs'[r].exec \in {"failed_safe", "completed"} => runs'[r].exec = outcome
      <3>1. TurnEnds(r)
        BY <1>1, <1>2, <2>2 DEF TurnEnds
      <3>2. QED
        BY <3>1 DEF TurnStep
    <2>3. QED
      BY <1>2, <2>1, <2>2
  <1>6. QED
    BY <1>1, <1>5 DEF TurnsStep

\* A message that is stored.
LEMMA StoreTurn ==
    ASSUME Grounded, NEW q \in Requests, NEW role \in Roles, NEW next \in Stages,
           Store(q, role, next),
           \/ role = "user" /\ worker[q].at = "ready" /\ next = "stored"
           \/ role = "assistant" /\ worker[q].at = "cancelling" /\ next = "aborted"
           \/ role = "assistant" /\ worker[q].at = "verified" /\ next = "saved"
    PROVE  TurnsStep
  <1>1. /\ worker' \in [Requests -> Worker] /\ worker'[q].at = next
        /\ \A r \in Requests : r # q => worker'[r].at = worker[r].at
    BY Going DEF Store
  <1>2. \A r \in Requests : Moves(r) /\ worker[r].at \in Stages
    BY IdleMoves DEF Store, ledgerVars, Grounded, WebTypeOK, Worker
  <1>3. TurnWrites(q)
    BY <1>1, <1>2 DEF TurnWrites, Writes, Store
  <1>4. ASSUME NEW r \in Requests, r # q
        PROVE  TurnGoes(r)
    <2>1. \A other \in Roles : <<r, other>> # <<q, role>>
      BY <1>4
    <2>2. Unwritten(r)
      BY <2>1 DEF Unwritten, Store
    <2>3. QED
      BY <1>1, <1>2, <1>4, <2>2, Staying DEF TurnGoes
  <1>5. QED
    BY <1>1, <1>3, <1>4 DEF TurnsStep, TurnStep

\* A step that moves no worker: signals may be given.
LEMMA StillTurn ==
    ASSUME Grounded, worker' \in [Requests -> Worker],
           \A r \in Requests : worker'[r].at = worker[r].at /\ Moves(r) /\ Unwritten(r)
    PROVE  TurnsStep
  <1>1. \A r \in Requests : worker[r].at \in Stages
    BY DEF Grounded, WebTypeOK, Worker
  <1>2. QED
    BY <1>1, Staying DEF TurnsStep, TurnStep, TurnGoes


\* Whatever the worker of a request does.
LEMMA WorkerTurn ==
    ASSUME Grounded, NEW q \in Requests, WorkerProgress(q) \/ Crash(q)
    PROVE  TurnsStep
  <1> USE DEF At
  <1> DEFINE Reached(a, b) == StageStep(a, b)
  <1>1. /\ Reached("launch", "preflight") /\ Reached("launch", "unlaunched")
        /\ Reached("preflight", "unlaunched") /\ Reached("preflight", "handed")
        /\ Reached("handed", "bridged") /\ Reached("handed", "rejecting") /\ Reached("handed", "reply")
        /\ Reached("bridged", "ready") /\ Reached("bridged", "rejecting") /\ Reached("ready", "rejecting")
        /\ Reached("stored", "agent") /\ Reached("agent", "tool") /\ Reached("agent", "cancelling")
        /\ Reached("tooled", "agent") /\ Reached("tooled", "cancelling") /\ Reached("tooled", "failing")
        /\ Reached("agent", "failing") /\ Reached("agent", "answered") /\ Reached("cancelling", "aborted")
        /\ Reached("answered", "verified") /\ Reached("answered", "failing")
        /\ Reached("saved", "settling") /\ Reached("saved", "failing") /\ Reached("reply", "send")
        /\ \A a \in {"stored"} \cup (Executing \ {"aborted", "settling", "failing"}) :
              Reached(a, "failing")
        /\ \A a \in Stages \ Ended : Reached(a, "dead")
    BY DEF StageStep, Stages, Delivering, Ended, Unentered, Active, Questioned, Answered,
           Launching, Preparing, Executing
  <1> HIDE DEF Reached
  <1>2. ASSUME NEW lag \in Lags, StartPreflight(q, lag)
        PROVE  TurnsStep
    BY <1>1, <1>2, VerifyTurn DEF StartPreflight, Reached
  <1>3. ASSUME NEW lag \in Lags, StartReply(q, lag) \/ StartHeartbeat(q, lag)
        PROVE  TurnsStep
    BY <1>1, <1>3, VerifyTurn DEF StartReply, StartHeartbeat, Reached
  <1>4. ASSUME NEW lag \in Lags, EnterAgent(q, lag) \/ VerifyAnswer(q, lag) \/ StopHeartbeat(q, lag)
        PROVE  TurnsStep
    <2>1. Reached("stored", "failing")
      BY <1>1
    <2>2. QED
      BY <1>1, <1>4, <2>1, VerifyTurn DEF EnterAgent, VerifyAnswer, StopHeartbeat, Reached
  <1>5. ASSUME NEW lag \in Lags, StartTool(q, lag) \/ EndTool(q, lag)
        PROVE  TurnsStep
    BY <1>1, <1>5, VerifyTurn DEF StartTool, EndTool, Reached
  <1>6. /\ {"completed", "failed_safe", "cancelled", "in_doubt"} = Outcomes
        /\ {"reply", "send", "stopped"} = Delivering \cup {"stopped"}
        /\ {"bridged", "rejecting", "unlaunched"} \subseteq Unentered
    BY DEF Outcomes, Delivering, Unentered, Preparing, Launching
  <1>7. ASSUME NEW lag \in Lags, NEW outcome \in Outcomes,
               NEW next \in Delivering \cup {"stopped"}, worker[q].at # "none",
               Conclude(q, outcome, lag, next),
               outcome = "failed_safe" => worker[q].at \in Unentered,
               outcome = "completed" => worker[q].at = "settling"
        PROVE  TurnsStep
    BY <1>7, ConcludeTurn DEF Conclude, ledgerVars
  <1>8. ASSUME NEW lag \in Lags,
               PreflightCancelled(q, lag) \/ CancelBeforeAgent(q, lag) \/ SettleInterrupted(q, lag)
        PROVE  TurnsStep
    BY <1>6, <1>7, <1>8 DEF PreflightCancelled, CancelBeforeAgent, SettleInterrupted
  <1>9. ASSUME NEW lag \in Lags, Unlaunch(q, lag) \/ NoAgent(q, lag) \/ SettleFailure(q, lag)
        PROVE  TurnsStep
    BY <1>6, <1>7, <1>9 DEF Unlaunch, NoAgent, SettleFailure
  <1>10. ASSUME NEW lag \in Lags, SettleAnswer(q, lag)
         PROVE  TurnsStep
    BY <1>6, <1>7, <1>10 DEF SettleAnswer
  <1>11. ASSUME NEW lag \in Lags, CheckDelivery(q, lag)
         PROVE  TurnsStep
    <2>1. CASE Conclude(q, "in_doubt", lag, "send")
      BY <1>6, <1>7, <1>11, <2>1 DEF CheckDelivery
    <2>2. CASE Move(q, {"reply"}, "send")
      BY <1>1, <2>2, MoveTurn DEF Move, Reached
    <2>3. QED
      BY <1>11, <2>1, <2>2 DEF CheckDelivery
  <1>12. ASSUME NEW lag \in Lags, Reject(q, lag)
         PROVE  TurnsStep
    BY <1>6, <1>12, ConcludeTurn DEF Reject, ledgerVars
  <1>13. ASSUME NEW lag \in Lags, Send(q, lag)
         PROVE  TurnsStep
    <2>1. ASSUME NEW type \in CASE runs[q].exec = "completed" -> {"done", "error"}
                               [] runs[q].exec = "cancelled" -> {}
                               [] OTHER -> {"error"}
          PROVE  type \in EventTypes
      BY DEF EventTypes, Terminal
    <2>2. \A r \in Requests : Moves(r)
      BY <1>13, <2>1, CallMoves, IdleMoves DEF Send, ledgerVars
    <2>3. /\ worker' \in [Requests -> Worker] /\ worker'[q].at = "stopped"
          /\ \A r \in Requests : r # q => worker'[r].at = worker[r].at
      BY <1>13, Going DEF Send, Stages, Ended
    <2>4. StageStep("send", "stopped")
      BY DEF StageStep, Stages, Delivering, Ended, Unentered, Active, Questioned, Answered,
             Launching, Preparing, Executing
    <2>5. \A r \in Requests : Unwritten(r) /\ worker[r].at \in Stages
      BY <1>13, Unwriting DEF Send, Grounded, WebTypeOK, Worker
    <2>6. \A r \in Requests : TurnGoes(r)
      BY <1>13, <2>2, <2>3, <2>4, <2>5, Staying DEF TurnGoes, Send
    <2>7. QED
      BY <2>3, <2>6 DEF TurnsStep, TurnStep
  <1>14. ASSUME \/ \E lag \in Lags : HandOver(q, lag)
                \/ AbandonLaunch(q) \/ PluginReply(q) \/ FailBeforeAgent(q)
         PROVE  TurnsStep
    BY <1>1, <1>14, MoveTurn DEF HandOver, AbandonLaunch, PluginReply, FailBeforeAgent, Move, Reached
  <1>15. ASSUME Interrupt(q) \/ Answer(q) \/ Move(q, {"cancelling"}, "aborted")
         PROVE  TurnsStep
    BY <1>1, <1>15, MoveTurn DEF Interrupt, Answer, Move, Reached
  <1>16. ASSUME FailInAgent(q) \/ Crash(q)
         PROVE  TurnsStep
    BY <1>1, <1>16, MoveTurn DEF FailInAgent, Crash, Move, Reached
  <1>17. ASSUME \/ PrePersist(q) \/ Persist(q)
                \/ worker[q].at = "cancelling" /\ Store(q, "assistant", "aborted")
         PROVE  TurnsStep
    <2>1. {"stored", "saved", "aborted"} \subseteq Stages /\ {"user", "assistant"} = Roles
      BY DEF Stages, Preparing, Executing, Roles
    <2>2. QED
      BY <1>17, <2>1, StoreTurn DEF PrePersist, Persist
  <1>18. ASSUME UseTool(q)
         PROVE  TurnsStep
    <2>1. /\ worker' \in [Requests -> Worker] /\ worker'[q].at = "tooled"
          /\ \A r \in Requests : r # q => worker'[r].at = worker[r].at
      BY <1>18, Going DEF UseTool, Stages, Executing
    <2>2. \A r \in Requests : Moves(r) /\ worker[r].at \in Stages
      BY <1>18, IdleMoves DEF UseTool, ledgerVars, Grounded, WebTypeOK, Worker
    <2>3. /\ effects'[q] = effects[q] + 1
          /\ \A r \in Requests : r # q => effects'[r] = effects[r]
      BY <1>18 DEF UseTool, Grounded, WebTypeOK
    <2>4. UsesTool(q)
      BY <1>18, <2>1, <2>2, <2>3 DEF UsesTool, UseTool
    <2>5. \A r \in Requests : r # q => TurnGoes(r)
      BY <1>18, <2>1, <2>2, <2>3, Staying DEF TurnGoes, UseTool, Unwritten, storeVars
    <2>6. QED
      BY <2>1, <2>4, <2>5 DEF TurnsStep, TurnStep
  <1>19. QED
    BY <1>2, <1>3, <1>4, <1>5, <1>8, <1>9, <1>10, <1>11, <1>12, <1>13, <1>14, <1>15, <1>16, <1>17,
       <1>18 DEF WorkerProgress, StoreInterrupted

\* The claims that an admission hands out are of requests that were not running.
LEMMA ClaimsGiven ==
    ASSUME TypeOK, NEW rs \in RunTable, NEW fs, NEW queue \in SUBSET Requests, NEW ids, NEW scope,
           NEW lag, ClaimNextQueued(rs, fs, queue, ids, scope, lag)
    PROVE  \A c \in issued' \ issued :
             /\ c.request \in Requests /\ rs[c.request].exec = "queued"
             /\ runs'[c.request].exec = "running" /\ runs'[c.request].epoch = c.epoch
             /\ c = [request |-> c.request, epoch |-> c.epoch]
  <1>1. CASE issued' = issued
    BY <1>1
  <1>2. ASSUME NEW q \in Claimable(rs, fs, queue, scope), ClaimEntry(q, rs, fs, queue, lag)
        PROVE  \A c \in issued' \ issued :
                 /\ c.request \in Requests /\ rs[c.request].exec = "queued"
                 /\ runs'[c.request].exec = "running" /\ runs'[c.request].epoch = c.epoch
                 /\ c = [request |-> c.request, epoch |-> c.epoch]
    <2>1. q \in Requests /\ rs[q] \in Run /\ rs[q].exec = "queued"
      BY <1>2 DEF Claimable, RunTable
    <2> DEFINE e == NextEpoch(SessionOf[q])
               row == [rs[q] EXCEPT !.exec = "running", !.epoch = e, !.old = FALSE]
    <2>2. runs' = [rs EXCEPT ![q] = row] /\ issued' = issued \cup {[request |-> q, epoch |-> e]}
      BY <1>2 DEF ClaimEntry
    <2> HIDE DEF e
    <2>3. row.exec = "running" /\ row.epoch = e
      BY <2>1 DEF Run
    <2> HIDE DEF row
    <2>4. runs'[q] = row
      BY <2>1, <2>2 DEF RunTable
    <2>5. QED
      BY <2>1, <2>2, <2>3, <2>4
  <1>3. QED
    BY <1>1, <1>2 DEF ClaimNextQueued, claimVars

\* Whoever is handed a claim launches it; nobody else moves.
LEMMA LaunchTurn ==
    ASSUME Grounded, NEW lag \in Lags, Dispatch(lag) \/ \E q \in Requests : Post(q, lag)
    PROVE  TurnsStep
  <1>1. TypeOK /\ waiting \in SUBSET Requests /\ Sessions \in SUBSET Sessions
    BY DEF Grounded, WebTypeOK, TypeOK
  <1>2. \A scope \in SUBSET Sessions : RunsAfterExpiry(scope, lag) \in RunTable
    BY <1>1, SweepType
  <1>3. \A r \in Requests : \A scope :
          RunsAfterExpiry(scope, lag)[r].exec = "queued" => runs[r].exec = "queued"
    BY DEF RunsAfterExpiry, Grounded, WebTypeOK, TypeOK, Run
  <1>4. \A c \in issued' \ issued :
             /\ c.request \in Requests /\ runs[c.request].exec \in {"absent", "queued"}
             /\ runs'[c.request].exec = "running" /\ runs'[c.request].epoch = c.epoch
             /\ c = [request |-> c.request, epoch |-> c.epoch]
    <2>1. CASE Dispatch(lag)
      BY <1>1, <1>2, <1>3, <2>1, ClaimsGiven DEF Dispatch, ClaimNextQueuedExecution
    <2>2. ASSUME NEW q \in Requests, ClaimExecution(q, lag)
          PROVE  \A c \in issued' \ issued :
                   /\ c.request \in Requests /\ runs[c.request].exec \in {"absent", "queued"}
                   /\ runs'[c.request].exec = "running" /\ runs'[c.request].epoch = c.epoch
                   /\ c = [request |-> c.request, epoch |-> c.epoch]
      <3> DEFINE sq == SessionOf[q]
                 rs == RunsAfterExpiry({sq}, lag)
                 fs == FencesAfterExpiry({sq}, lag)
                 row == [NoRun("queued") EXCEPT !.gen = generation[sq]]
                 rows == [p \in Requests |-> IF p = q THEN row ELSE rs[p]]
                 ids == [queueId EXCEPT ![q] = lastQueueId + 1]
      <3>1. rs \in RunTable /\ {sq} \in SUBSET Sessions
        BY <1>2, Scopes
      <3>2. CASE ClaimNextQueued(rs, fs, waiting, queueId, {sq}, lag)
        BY <1>1, <1>3, <3>1, <3>2, ClaimsGiven
      <3>3. CASE Twins(q) = {} /\ ClaimNextQueued(rows, fs, waiting \cup {q}, ids, {sq}, lag)
        <4>1. row \in Run
          <5>1. generation[sq] \in Nat
            BY <1>1, SessionsAssumption DEF TypeOK
          <5>2. QED
            BY <5>1 DEF NoRun, Run, ExecutionStates, Pending
        <4>2. runs[q].exec \in {"absent", "queued"}
          BY <2>2, <3>3 DEF ClaimExecution, Twins, HasRow, Of
        <4> HIDE DEF row
        <4>3. rows \in RunTable
          BY <3>1, <4>1 DEF RunTable
        <4>4. \A p \in Requests : rows[p].exec = "queued" => runs[p].exec \in {"absent", "queued"}
          BY <1>3, <4>2
        <4>5. waiting \cup {q} \in SUBSET Requests
          BY <1>1
        <4> HIDE DEF rows, ids, fs, sq
        <4>6. QED
          BY <1>1, <3>3, <4>3, <4>4, <4>5, ClaimsGiven
      <3>4. QED
        BY <2>2, <3>2, <3>3 DEF ClaimExecution
    <2>3. QED
      BY <2>1, <2>2 DEF Post
  <1>5. \A r \in Requests : Moves(r)
    <2>1. \A r \in Requests : Proceeds(r, runs[r], events[r], runs'[r], events'[r])
      BY <1>1, AdmissionRows DEF Dispatch, Post
    <2>2. QED
      BY <2>1, ProceedsMoves
  <1>6. \A r \in Requests : Unwritten(r)
    BY Unwriting DEF Dispatch, Post
  <1>7. Launch
    BY DEF Dispatch, Post
  <1>8. worker' \in [Requests -> Worker]
    <2>1. [at |-> "launch", signal |-> FALSE] \in Worker
      BY DEF Worker, Stages, Launching
    <2>2. QED
      BY <1>7, <2>1 DEF Launch, Grounded, WebTypeOK
  <1>9. ASSUME NEW r \in Requests
        PROVE  TurnGoes(r) \/ TurnStarts(r)
    <2>1. CASE \E c \in issued' \ issued : c.request = r
      <3>1. PICK c \in issued' \ issued : c.request = r
        BY <2>1
      <3>2. worker'[r].at = "launch"
        BY <1>7, <2>1 DEF Launch
      <3>3. ClaimOf(r)' = c
        BY <1>4, <3>1 DEF ClaimOf
      <3>4. worker[r].at = "none"
        BY <1>4, <3>1, ClaimInHand
      <3>5. QED
        BY <1>4, <1>5, <1>6, <3>1, <3>2, <3>3, <3>4 DEF TurnStarts
    <2>2. CASE ~ \E c \in issued' \ issued : c.request = r
      <3>1. worker'[r] = worker[r] /\ worker[r].at \in Stages
        BY <1>7, <2>2 DEF Launch, Grounded, WebTypeOK, Worker
      <3>2. QED
        BY <1>5, <1>6, <3>1, Staying DEF TurnGoes
    <2>3. QED
      BY <2>1, <2>2
  <1>10. QED
    BY <1>8, <1>9 DEF TurnsStep, TurnStep


\* A mutation and its handlers move no worker; they may signal it, and take
\* the messages of a deleted session.
LEMMA HandlerTurn ==
    ASSUME Grounded, NEW h \in Handlers, HandlerStep(h)
    PROVE  TurnsStep
  <1>1. TypeOK /\ Authority /\ worker \in [Requests -> Worker]
    BY DEF Grounded, WebTypeOK
  <1>2. \A r \in Requests : Moves(r)
    <2>1. ASSUME NEW lag \in Lags, MutationStep(TargetOf[h], lag), NEW r \in Requests
          PROVE  Moves(r)
      BY <1>1, <2>1, HandlersAssumption, MutationRows, ProceedsMoves
    <2>2. QED
      BY <2>1, HandlerCalls, IdleMoves
  <1>3. /\ worker' \in [Requests -> Worker]
        /\ \A r \in Requests : worker'[r].at = worker[r].at
    <2>1. CASE worker' = worker
      BY <1>1, <2>1
    <2>2. ASSUME NEW r \in Requests, SignalWorker(h, r)
          PROVE  /\ worker' \in [Requests -> Worker]
                 /\ \A q \in Requests : worker'[q].at = worker[q].at
      BY <1>1, <2>2 DEF SignalWorker, Worker
    <2>3. QED
      BY <2>1, <2>2 DEF HandlerStep, BeginMutation, AwaitQuiescence, Advance, Reopen, RecordDeletion,
                        ClearContext, DeleteSession, StopHandler
  <1>4. \A r \in Requests : Unwritten(r)
    <2>1. CASE UNCHANGED <<effects, storeVars>>
      BY <2>1, Unwriting
    <2>2. CASE ClearContext(h)
      BY <2>2 DEF ClearContext, Unwritten
    <2>3. CASE DeleteSession(h)
      BY <2>3 DEF DeleteSession, Unwritten, OfSession
    <2>4. QED
      BY <2>1, <2>2, <2>3 DEF HandlerStep, BeginMutation, AwaitQuiescence, Advance, Reopen,
                              RecordDeletion, SignalWorker, StopHandler
  <1>5. QED
    BY <1>2, <1>3, <1>4, StillTurn

\* Heartbeats, cancellations, recoveries and time move no worker.
LEMMA ServerTurn ==
    ASSUME Grounded, WebTick \/ \E lag \in Lags, q \in Requests :
                                  CancelRequest(q, lag) \/ Beat(q, lag) \/ Recover(q, lag)
    PROVE  TurnsStep
  <1>1. TypeOK /\ Authority /\ worker \in [Requests -> Worker]
    BY DEF Grounded, WebTypeOK
  <1>2. \A r \in Requests : Unwritten(r)
    BY Unwriting DEF WebTick, CancelRequest, Beat, Recover
  <1>3. ASSUME worker' = worker, \A r \in Requests : Moves(r)
        PROVE  TurnsStep
    BY <1>1, <1>2, <1>3, StillTurn
  <1>4. CASE WebTick
    BY <1>1, <1>3, <1>4, RetentionRows, ProceedsMoves DEF WebTick
  <1>5. ASSUME NEW lag \in Lags, NEW q \in Requests, Recover(q, lag)
        PROVE  TurnsStep
    <2>1. \A r \in Requests : Moves(r)
      BY <1>1, <1>5, CancellationRows, ProceedsMoves, SessionsAssumption DEF Recover
    <2>2. QED
      BY <1>3, <1>5, <2>1 DEF Recover
  <1>6. ASSUME NEW lag \in Lags, NEW q \in Requests, CancelRequest(q, lag)
        PROVE  TurnsStep
    <2>1. \A r \in Requests : Moves(r)
      BY <1>1, <1>6, CancellationRows, ProceedsMoves, SessionsAssumption
         DEF CancelRequest, RequestExecutionCancellation
    <2>2. /\ worker' \in [Requests -> Worker]
          /\ \A r \in Requests : worker'[r].at = worker[r].at
      BY <1>1, <1>6 DEF CancelRequest, Worker
    <2>3. QED
      BY <1>2, <2>1, <2>2, StillTurn
  <1>7. ASSUME NEW lag \in Lags, NEW q \in Requests, Beat(q, lag)
        PROVE  TurnsStep
    <2>1. worker[q].at # "none"
      BY <1>7 DEF Beat, At, Beating, Executing
    <2>2. \A r \in Requests : Moves(r)
      BY <1>7, <2>1, CallMoves DEF Beat
    <2>3. /\ worker' \in [Requests -> Worker]
          /\ \A r \in Requests : worker'[r].at = worker[r].at
      <3> DEFINE told == Stands(q, lag) /\ runs[q].cancel
                 flag == worker[q].signal \/ told
      <3>1. flag \in BOOLEAN
        BY <1>1 DEF Worker
      <3>2. worker' = [worker EXCEPT ![q].signal = flag]
        BY <1>1, <1>7 DEF Beat
      <3> HIDE DEF flag
      <3>3. QED
        BY <1>1, <3>1, <3>2 DEF Worker
    <2>4. QED
      BY <1>2, <2>2, <2>3, StillTurn
  <1>8. QED
    BY <1>4, <1>5, <1>6, <1>7

\* The list of the moves of a turn is complete.
LEMMA TurnSteps == Grounded /\ [WebNext]_webVars => TurnsStep
  <1> SUFFICES ASSUME Grounded, [WebNext]_webVars
               PROVE  TurnsStep
    OBVIOUS
  <1>1. CASE UNCHANGED webVars
    <2>1. UNCHANGED vars /\ UNCHANGED worker /\ UNCHANGED <<effects, storeVars>>
      BY <1>1 DEF webVars
    <2>2. \A r \in Requests : Moves(r) /\ Unwritten(r)
      BY <2>1, IdleMoves, Unwriting
    <2>3. QED
      BY <2>1, <2>2, StillTurn DEF Grounded, WebTypeOK
  <1>2. CASE WebNext
    BY <1>2, WorkerTurn, HandlerTurn, LaunchTurn, ServerTurn DEF WebNext, ServerStep
  <1>3. QED
    BY <1>1, <1>2


(***************************************************************************)
(* Everything that a step may do to a handler and to the store.            *)
(***************************************************************************)

HandlerLeaves(h) ==
    /\ handler[h].at # "idle" /\ handler'[h].token = handler[h].token
    /\ handler'[h].at \notin {"idle", "quiet", "applied"}

HandlerJoins(h) ==
    /\ handler'[h].at = "waiting"
    /\ mutations'[TargetOf[h]] # NoMutation
    /\ handler'[h].token = mutations'[TargetOf[h]].token

HandlerIsLetIn(h) ==
    /\ handler[h].at # "idle" /\ handler'[h].token = handler[h].token
    /\ handler'[h].at = "quiet" /\ Quiet(runs', TargetOf[h])

HandlerApplies(h) ==
    /\ handler[h].at = "quiet" /\ handler'[h].at = "applied"
    /\ handler'[h].token = handler[h].token
    /\ UNCHANGED vars
    /\ KindOf[h] = "clear_context" => OfSession(TargetOf[h])' \subseteq hidden'

HandlerMoves(h) ==
    \/ handler'[h] = handler[h]
    \/ HandlerLeaves(h) \/ HandlerJoins(h) \/ HandlerIsLetIn(h) \/ HandlerApplies(h)

HandlersStep == handler' \in [Handlers -> Handler] /\ \A h \in Handlers : HandlerMoves(h)

StoreStep ==
    /\ effects' \in [Requests -> Nat]
    /\ history' \subseteq Messages /\ hidden' \subseteq history' /\ deleted' \subseteq Sessions
    /\ \A m \in hidden : m \in history' => m \in hidden'
    /\ \A m \in history' :
         SessionOf[m[1]] \in deleted' => m \in history /\ SessionOf[m[1]] \in deleted

\* A generation moves on after a clear has been applied, and only then.
GenerationStep ==
    \A s \in Sessions : generation'[s] # generation[s] =>
        /\ UNCHANGED storeVars
        /\ \E h \in Handlers :
             /\ TargetOf[h] = s /\ KindOf[h] = "clear_context" /\ handler[h].at = "applied"
             /\ mutations[s] # NoMutation /\ mutations[s].token = handler[h].token

\* Nobody but a handler touches handlers and generations.
LEMMA WorkerHandlers ==
    ASSUME Grounded, \/ \E r \in Requests : WorkerProgress(r) \/ Crash(r)
                     \/ \E lag \in Lags : ServerStep(lag)
                     \/ WebTick
    PROVE  UNCHANGED handler /\ UNCHANGED mutationVars
  <1>1. ASSUME NEW r \in Requests, WorkerProgress(r) \/ Crash(r)
        PROVE  UNCHANGED handler
    <2>1. ASSUME NEW lag, NEW a, NEW b, NEW c, Verify(r, lag, a, b, c)
          PROVE  UNCHANGED handler
      BY <2>1 DEF Verify
    <2>2. ASSUME NEW lag, NEW outcome, NEW next, Conclude(r, outcome, lag, next)
          PROVE  UNCHANGED handler
      BY <2>2 DEF Conclude
    <2>3. ASSUME NEW stages, NEW next, Move(r, stages, next)
          PROVE  UNCHANGED handler
      BY <2>3 DEF Move
    <2>4. ASSUME NEW role, NEW next, Store(r, role, next)
          PROVE  UNCHANGED handler
      BY <2>4 DEF Store
    <2>5. ASSUME NEW lag \in Lags,
                 \/ StartPreflight(r, lag) \/ StartReply(r, lag) \/ StartHeartbeat(r, lag)
                 \/ EnterAgent(r, lag) \/ StartTool(r, lag) \/ EndTool(r, lag)
                 \/ VerifyAnswer(r, lag) \/ StopHeartbeat(r, lag)
          PROVE  UNCHANGED handler
      BY <2>1, <2>5 DEF StartPreflight, StartReply, StartHeartbeat, EnterAgent, StartTool, EndTool,
                        VerifyAnswer, StopHeartbeat
    <2>6. ASSUME NEW lag \in Lags,
                 \/ PreflightCancelled(r, lag) \/ Unlaunch(r, lag) \/ CancelBeforeAgent(r, lag)
                 \/ NoAgent(r, lag) \/ SettleInterrupted(r, lag) \/ SettleAnswer(r, lag)
                 \/ SettleFailure(r, lag) \/ HandOver(r, lag) \/ CheckDelivery(r, lag)
          PROVE  UNCHANGED handler
      BY <2>2, <2>3, <2>6 DEF PreflightCancelled, Unlaunch, CancelBeforeAgent, NoAgent,
           SettleInterrupted, SettleAnswer, SettleFailure, HandOver, CheckDelivery
    <2>7. QED
      BY <1>1, <2>3, <2>4, <2>5, <2>6 DEF WorkerProgress, Reject, Send, UseTool, AbandonLaunch,
           PluginReply, PrePersist, FailBeforeAgent, Interrupt, Answer, StoreInterrupted, Persist,
           FailInAgent, Crash
  <1>2. ASSUME NEW lag \in Lags, WorkerStep(lag)
        PROVE  UNCHANGED mutationVars
    <2>1. ASSUME NEW c, VerifySessionFence(c, lag) \/ RejectExecutionBeforeAgent(c, lag)
          PROVE  UNCHANGED mutationVars
      BY <2>1 DEF VerifySessionFence, RejectExecutionBeforeAgent
    <2>2. ASSUME NEW c, NEW outcome, FinishExecution(c, outcome, lag)
          PROVE  UNCHANGED mutationVars
      BY <2>2 DEF FinishExecution
    <2>3. ASSUME NEW c, NEW type, NEW id, AppendEvent(c, type, id, lag)
          PROVE  UNCHANGED mutationVars
      BY <2>3 DEF AppendEvent
    <2>4. QED
      BY <1>2, <2>1, <2>2, <2>3 DEF WorkerStep
  <1>3. CASE \E r \in Requests : WorkerProgress(r) \/ Crash(r)
    <2>1. (\E lag \in Lags : WorkerStep(lag)) \/ UNCHANGED vars
      BY <1>3, WorkerCalls
    <2>2. UNCHANGED mutationVars
      BY <1>2, <2>1 DEF vars, mutationVars
    <2>3. QED
      BY <1>1, <1>3, <2>2
  <1>4. ASSUME NEW lag \in Lags, ServerStep(lag)
        PROVE  UNCHANGED handler /\ UNCHANGED mutationVars
    BY <1>4 DEF ServerStep, Dispatch, Post, CancelRequest, Beat, Recover, ClaimNextQueuedExecution,
         ClaimExecution, RequestExecutionCancellation, RequestCancellation, VerifySessionFence,
         MarkInterruptedExecution, ExpireOnly, mutationVars
  <1>5. QED
    BY <1>3, <1>4 DEF WebTick, Tick, mutationVars

\* What the handlers do.
LEMMA HandlerSteps ==
    ASSUME Grounded, TypeOK', [WebNext]_webVars
    PROVE  HandlersStep /\ GenerationStep
  <1>1. handler \in [Handlers -> Handler] /\ TypeOK
    BY DEF Grounded, WebTypeOK
  <1>2. CASE UNCHANGED handler /\ UNCHANGED mutationVars
    BY <1>1, <1>2 DEF HandlersStep, HandlerMoves, GenerationStep, mutationVars
  <1>3. ASSUME NEW h \in Handlers, NEW stage \in {"waiting", "quiet", "applied", "advanced", "gone"},
               HandlerGoes(h, stage)
        PROVE  /\ handler' \in [Handlers -> Handler]
               /\ handler'[h].at = stage /\ handler'[h].token = handler[h].token
               /\ \A g \in Handlers : g # h => handler'[g] = handler[g]
    BY <1>1, <1>3 DEF HandlerGoes, Handler
  <1>4. ASSUME NEW h \in Handlers, HandlerStep(h)
        PROVE  HandlersStep /\ GenerationStep
    <2> DEFINE s == TargetOf[h]
    <2>1. s \in Sessions
      BY HandlersAssumption
    <2>2. ASSUME NEW lag \in Lags, BeginMutation(h, lag)
          PROVE  HandlersStep /\ GenerationStep
      <3>1. mutations'[s] # NoMutation /\ generation' = generation
        <4>1. BeginSessionMutation(s, KindOf[h], lag)
          BY <2>2 DEF BeginMutation
        <4>2. CASE UNCHANGED mutations /\ mutations[s] # NoMutation
          BY <4>1, <4>2 DEF BeginSessionMutation
        <4>3. CASE mutations' = [mutations EXCEPT ![s] =
                    [token |-> opened[s] + 1, kind |-> KindOf[h], before |-> generation[s],
                     after |-> -1, completed |-> FALSE]]
          <5>1. [token |-> opened[s] + 1, kind |-> KindOf[h], before |-> generation[s],
                 after |-> -1, completed |-> FALSE] \in Mutation
            BY <1>1, <2>1, HandlersAssumption DEF TypeOK, Mutation
          <5>2. QED
            BY <1>1, <2>1, <4>1, <4>3, <5>1, NullAssumption DEF BeginSessionMutation, TypeOK
        <4>4. QED
          BY <4>1, <4>2, <4>3 DEF BeginSessionMutation
      <3> DEFINE new == [at |-> "waiting", token |-> mutations'[s].token]
      <3>2. mutations'[s].token \in Nat
        <4>1. mutations'[s] \in Mutation
          BY <2>1, <3>1 DEF TypeOK
        <4>2. QED
          BY <4>1 DEF Mutation
      <3>3. handler' = [handler EXCEPT ![h] = new]
        BY <2>2 DEF BeginMutation
      <3>4. new \in Handler /\ new.at = "waiting" /\ new.token = mutations'[s].token
        BY <3>2 DEF Handler
      <3> HIDE DEF new
      <3>5. /\ handler' \in [Handlers -> Handler] /\ handler'[h] = new
            /\ \A g \in Handlers : g # h => handler'[g] = handler[g]
        BY <1>1, <3>3, <3>4
      <3>6. HandlerJoins(h)
        BY <3>1, <3>4, <3>5 DEF HandlerJoins
      <3>7. QED
        BY <3>1, <3>5, <3>6 DEF HandlersStep, HandlerMoves, GenerationStep
    <2>3. ASSUME NEW lag \in Lags, AwaitQuiescence(h, lag)
          PROVE  HandlersStep /\ GenerationStep
      <3>1. /\ handler[h].at = "waiting" /\ runs' = RunsAfterExpiry({s}, lag)
            /\ UNCHANGED mutationVars
        BY <2>3 DEF AwaitQuiescence, SessionMutationQuiescence, ExpireOnly
      <3>2. \/ HandlerGoes(h, "quiet") /\ Quiet(runs', s)
            \/ HandlerGoes(h, "waiting")
        BY <2>3, <3>1 DEF AwaitQuiescence
      <3>3. HandlerIsLetIn(h) \/ HandlerLeaves(h)
        BY <1>3, <3>1, <3>2 DEF HandlerIsLetIn, HandlerLeaves
      <3>4. QED
        BY <1>3, <3>1, <3>2, <3>3 DEF HandlersStep, HandlerMoves, GenerationStep, mutationVars
    <2>4. ASSUME NEW lag \in Lags, Advance(h, lag)
          PROVE  HandlersStep /\ GenerationStep
      <3>1. /\ handler[h].at = "applied" /\ KindOf[h] = "clear_context" /\ HandlerGoes(h, "advanced")
            /\ mutations[s] # NoMutation /\ mutations[s].token = handler[h].token
            /\ UNCHANGED storeVars
            /\ \A q \in Sessions : q # s => generation'[q] = generation[q]
        BY <1>1, <2>4 DEF Advance, AdvanceContextGeneration, Presents, TypeOK
      <3>2. HandlerLeaves(h)
        BY <1>3, <3>1 DEF HandlerLeaves
      <3>3. QED
        BY <1>3, <3>1, <3>2 DEF HandlersStep, HandlerMoves, GenerationStep
    <2>5. ASSUME NEW lag \in Lags, Reopen(h, lag) \/ RecordDeletion(h, lag)
          PROVE  HandlersStep /\ GenerationStep
      <3>1. /\ handler[h].at # "idle" /\ HandlerGoes(h, "gone") /\ generation' = generation
        BY <2>5 DEF Reopen, RecordDeletion, ReleaseSessionMutation, RecordDeleteCompletion
      <3>2. HandlerLeaves(h)
        BY <1>3, <3>1 DEF HandlerLeaves
      <3>3. QED
        BY <1>3, <3>1, <3>2 DEF HandlersStep, HandlerMoves, GenerationStep
    <2>6. ASSUME NEW r \in Requests, SignalWorker(h, r)
          PROVE  HandlersStep /\ GenerationStep
      BY <1>2, <2>6 DEF SignalWorker, ledgerVars, vars
    <2>7. CASE StopHandler(h)
      <3>1. /\ handler[h].at # "idle" /\ HandlerGoes(h, "gone") /\ generation' = generation
        BY <2>7 DEF StopHandler, ledgerVars, vars, mutationVars
      <3>2. HandlerLeaves(h)
        BY <1>3, <3>1 DEF HandlerLeaves
      <3>3. QED
        BY <1>3, <3>1, <3>2 DEF HandlersStep, HandlerMoves, GenerationStep
    <2>8. CASE ClearContext(h) \/ DeleteSession(h)
      <3>1. /\ handler[h].at = "quiet" /\ HandlerGoes(h, "applied") /\ UNCHANGED vars
            /\ KindOf[h] = "clear_context" => OfSession(s)' \subseteq hidden'
        BY <2>8 DEF ClearContext, DeleteSession, ledgerVars, OfSession
      <3>2. HandlerApplies(h)
        BY <1>3, <3>1 DEF HandlerApplies
      <3>3. QED
        BY <1>3, <3>1, <3>2 DEF HandlersStep, HandlerMoves, GenerationStep, vars, mutationVars
    <2>9. QED
      BY <1>4, <2>2, <2>3, <2>4, <2>5, <2>6, <2>7, <2>8 DEF HandlerStep
  <1>5. CASE UNCHANGED webVars
    BY <1>2, <1>5 DEF webVars, vars
  <1>6. QED
    BY <1>2, <1>4, <1>5, WorkerHandlers DEF WebNext


\* What becomes of the conversation store.
LEMMA StoreSteps ==
    ASSUME Grounded, [WebNext]_webVars
    PROVE  StoreStep
  <1>1. /\ effects \in [Requests -> Nat] /\ history \subseteq Messages
        /\ hidden \subseteq history /\ deleted \subseteq Sessions
    BY WorkersAssumption DEF Grounded, WebTypeOK
  <1>2. CASE UNCHANGED <<effects, storeVars>>
    BY <1>1, <1>2 DEF StoreStep, storeVars
  <1>3. ASSUME NEW r \in Requests, NEW role \in Roles, NEW next, Store(r, role, next)
        PROVE  StoreStep
    <2>1. <<r, role>> \in Messages /\ <<r, role>>[1] = r
      BY <1>3 DEF Roles, Messages
    <2>2. QED
      BY <1>1, <1>3, <2>1 DEF StoreStep, Store
  <1>4. ASSUME NEW r \in Requests, WorkerProgress(r) \/ Crash(r)
        PROVE  StoreStep
    <2>1. ASSUME NEW lag, NEW a, NEW b, NEW c, Verify(r, lag, a, b, c)
          PROVE  UNCHANGED <<effects, storeVars>>
      BY <2>1 DEF Verify
    <2>2. ASSUME NEW lag, NEW outcome, NEW next, Conclude(r, outcome, lag, next)
          PROVE  UNCHANGED <<effects, storeVars>>
      BY <2>2 DEF Conclude
    <2>3. ASSUME NEW stages, NEW next, Move(r, stages, next)
          PROVE  UNCHANGED <<effects, storeVars>>
      BY <2>3 DEF Move
    <2>4. ASSUME NEW lag \in Lags,
                 \/ StartPreflight(r, lag) \/ StartReply(r, lag) \/ StartHeartbeat(r, lag)
                 \/ EnterAgent(r, lag) \/ StartTool(r, lag) \/ EndTool(r, lag)
                 \/ VerifyAnswer(r, lag) \/ StopHeartbeat(r, lag)
          PROVE  UNCHANGED <<effects, storeVars>>
      BY <2>1, <2>4 DEF StartPreflight, StartReply, StartHeartbeat, EnterAgent, StartTool, EndTool,
                        VerifyAnswer, StopHeartbeat
    <2>5. ASSUME NEW lag \in Lags,
                 \/ PreflightCancelled(r, lag) \/ Unlaunch(r, lag) \/ CancelBeforeAgent(r, lag)
                 \/ NoAgent(r, lag) \/ SettleInterrupted(r, lag) \/ SettleAnswer(r, lag)
                 \/ SettleFailure(r, lag) \/ HandOver(r, lag) \/ CheckDelivery(r, lag)
                 \/ Reject(r, lag) \/ Send(r, lag)
          PROVE  UNCHANGED <<effects, storeVars>>
      BY <2>2, <2>3, <2>5 DEF PreflightCancelled, Unlaunch, CancelBeforeAgent, NoAgent,
           SettleInterrupted, SettleAnswer, SettleFailure, HandOver, CheckDelivery, Reject, Send
    <2>6. ASSUME \/ AbandonLaunch(r) \/ PluginReply(r) \/ FailBeforeAgent(r) \/ Interrupt(r)
                 \/ Answer(r) \/ FailInAgent(r) \/ Crash(r) \/ Move(r, {"cancelling"}, "aborted")
          PROVE  UNCHANGED <<effects, storeVars>>
      BY <2>3, <2>6 DEF AbandonLaunch, PluginReply, FailBeforeAgent, Interrupt, Answer, FailInAgent,
           Crash
    <2>7. CASE PrePersist(r) \/ Persist(r) \/ Store(r, "assistant", "aborted")
      BY <1>3, <2>7 DEF PrePersist, Persist, Roles
    <2>8. CASE UseTool(r)
      BY <1>1, <2>8 DEF UseTool, StoreStep, storeVars
    <2>9. QED
      BY <1>2, <1>4, <2>4, <2>5, <2>6, <2>7, <2>8 DEF WorkerProgress, StoreInterrupted
  <1>5. ASSUME NEW h \in Handlers, HandlerStep(h)
        PROVE  StoreStep
    <2>1. CASE ClearContext(h)
      BY <1>1, <2>1 DEF ClearContext, StoreStep, OfSession
    <2>2. CASE DeleteSession(h)
      BY <1>1, <2>2, HandlersAssumption DEF DeleteSession, StoreStep, OfSession
    <2>3. CASE UNCHANGED <<effects, storeVars>>
      BY <1>2, <2>3
    <2>4. QED
      BY <1>5, <2>1, <2>2, <2>3 DEF HandlerStep, BeginMutation, AwaitQuiescence, Advance, Reopen,
                              RecordDeletion, SignalWorker, StopHandler
  <1>6. ASSUME (\E lag \in Lags : ServerStep(lag)) \/ WebTick \/ UNCHANGED webVars
        PROVE  UNCHANGED <<effects, storeVars>>
    BY <1>6 DEF ServerStep, Dispatch, Post, CancelRequest, Beat, Recover, WebTick, webVars
  <1>7. QED
    BY <1>2, <1>4, <1>5, <1>6 DEF WebNext

(***************************************************************************)
(* The ledger's theorems carry over.                                       *)
(***************************************************************************)

\* Claims are kept for ever.
LEMMA ClaimsKept ==
    ASSUME [Next]_vars
    PROVE  issued \subseteq issued'
  <1>1. ASSUME NEW rs, NEW fs, NEW queue, NEW ids, NEW scope, NEW lag,
               ClaimNextQueued(rs, fs, queue, ids, scope, lag)
        PROVE  issued \subseteq issued'
    BY <1>1 DEF ClaimNextQueued, ClaimEntry, claimVars
  <1>2. ASSUME NEW lag \in Lags, WorkerStep(lag)
        PROVE  UNCHANGED claimVars
    <2>1. ASSUME NEW c, VerifySessionFence(c, lag) \/ RejectExecutionBeforeAgent(c, lag)
          PROVE  UNCHANGED claimVars
      BY <2>1 DEF VerifySessionFence, RejectExecutionBeforeAgent
    <2>2. ASSUME NEW c, NEW outcome, FinishExecution(c, outcome, lag)
          PROVE  UNCHANGED claimVars
      BY <2>2 DEF FinishExecution
    <2>3. ASSUME NEW c, NEW type, NEW id, AppendEvent(c, type, id, lag)
          PROVE  UNCHANGED claimVars
      BY <2>3 DEF AppendEvent
    <2>4. QED
      BY <1>2, <2>1, <2>2, <2>3 DEF WorkerStep
  <1>3. ASSUME NEW lag \in Lags,
               \/ \E r \in Requests : ClaimExecution(r, lag)
               \/ \E scope \in SUBSET Sessions : ClaimNextQueuedExecution(scope, lag)
        PROVE  issued \subseteq issued'
    BY <1>1, <1>3 DEF ClaimExecution, ClaimNextQueuedExecution
  <1>4. ASSUME NEW lag \in Lags,
               \/ \E r \in Requests : MarkInterruptedExecution(r, lag)
                                       \/ RequestExecutionCancellation(r, lag)
               \/ \E s \in Sessions : RequestSessionCancellation(s, lag) \/ MutationStep(s, lag)
        PROVE  UNCHANGED claimVars
    BY <1>4 DEF MarkInterruptedExecution, RequestExecutionCancellation, RequestSessionCancellation,
         RequestCancellation, MutationStep, ExpireOnly, BeginSessionMutation,
         AdvanceContextGeneration, SessionMutationQuiescence, ReleaseSessionMutation,
         RecordDeleteCompletion
  <1>5. \A s \in Sessions : {s} \in SUBSET Sessions
    OBVIOUS
  <1>6. QED
    BY <1>2, <1>3, <1>4, <1>5 DEF Next, BeginLegacy, GrowOld, Reap, Tick, vars, claimVars

\* Claims and tokens stay linked.
LEMMA LinkedStep ==
    ASSUME Grounded, TypeOK', [WebNext]_webVars
    PROVE  Linked'
  <1>1. [Next]_vars /\ TypeOK
    BY LedgerSteps DEF Grounded, WebTypeOK
  <1>2. TurnsStep /\ HandlersStep
    BY TurnSteps, HandlerSteps
  <1>3. \A s \in Sessions : SessionStep(s) /\ opened[s] \in Nat
    BY <1>1, SessionSteps DEF TypeOK
  <1>4. ASSUME NEW r \in Requests, worker'[r].at # "none"
        PROVE  ClaimOf(r)' \in issued'
    <2>1. TurnStep(r)
      BY <1>2 DEF TurnsStep
    <2>2. CASE TurnStarts(r)
      BY <2>2 DEF TurnStarts
    <2>3. CASE ~TurnStarts(r)
      <3>1. worker[r].at # "none"
        BY <1>4, <2>1, <2>3 DEF TurnStep, TurnGoes, StageStep, TurnEnds, UsesTool, TurnWrites, Writes
      <3>2. ClaimOf(r) \in issued /\ runs[r].exec \notin {"absent", "queued"}
        BY <3>1, ClaimInHand
      <3>3. runs'[r].epoch = runs[r].epoch
        BY <2>1, <2>3, <3>2 DEF TurnStep, TurnGoes, TurnEnds, UsesTool, TurnWrites, Writes, Moves,
                                Finishes
      <3>4. QED
        BY <1>1, <3>2, <3>3, ClaimsKept DEF ClaimOf
    <2>4. QED
      BY <2>2, <2>3
  <1>5. ASSUME NEW s \in Sessions
        PROVE  /\ opened'[s] \in Nat /\ opened[s] <= opened'[s]
               /\ mutations'[s] # NoMutation => mutations'[s].token \in 1..opened'[s]
    <2>1. SessionStep(s) /\ opened[s] \in Nat
      BY <1>3
    <2>2. mutations[s] # NoMutation => mutations[s].token \in 1..opened[s]
      BY DEF Grounded, Linked
    <2>3. QED
      BY <2>1, <2>2 DEF SessionStep, SessionKept, Opened, Advanced, Recorded, Reopened
  <1>6. ASSUME NEW h \in Handlers, handler'[h].at # "idle"
        PROVE  handler'[h].token \in 1..opened'[TargetOf[h]]
    <2>1. HandlerMoves(h)
      BY <1>2 DEF HandlersStep
    <2>2. TargetOf[h] \in Sessions
      BY HandlersAssumption
    <2>3. handler[h].at # "idle" => handler[h].token \in 1..opened[TargetOf[h]]
      BY DEF Grounded, Linked
    <2>4. QED
      BY <1>3, <1>5, <1>6, <2>1, <2>2, <2>3 DEF HandlerMoves, HandlerLeaves, HandlerJoins, HandlerIsLetIn,
                                         HandlerApplies
  <1>7. QED
    BY <1>4, <1>5, <1>6 DEF Linked, At


(***************************************************************************)
(* Turns: what the stage of a worker and the outcome of a run say about    *)
(* tool calls and stored messages.                                         *)
(***************************************************************************)

Turn(r) ==
    /\ effects[r] <= MaxTools
    /\ At(r, {"tool"}) => effects[r] < MaxTools
    /\ At(r, Active) => runs[r].exec \in {"running", "in_doubt"}
    /\ At(r, Unentered) \/ runs[r].exec = "failed_safe"
         => effects[r] = 0 /\ <<r, "assistant">> \notin history
    /\ SessionOf[r] \notin deleted =>
         /\ At(r, Questioned) => <<r, "user">> \in history
         /\ At(r, Answered) \/ runs[r].exec = "completed"
              => <<r, "user">> \in history /\ <<r, "assistant">> \in history
    /\ <<r, "user">> \in history => ~At(r, {"none"})

Turns == \A r \in Requests : Turn(r)

WebSafe == Grounded /\ Turns

\* No move of a turn spoils it.
LEMMA TurnStays ==
    ASSUME Grounded, NEW r \in Requests, Turn(r), TurnStep(r)
    PROVE  Turn(r)'
  <1> DEFINE a == worker[r].at
             b == worker'[r].at
             question == <<r, "user">> \in history
             answer == <<r, "assistant">> \in history
  <1>1. a \in Stages /\ effects[r] \in Nat /\ MaxTools \in Nat /\ <<r, "user">> # <<r, "assistant">>
    BY WorkersAssumption DEF Grounded, WebTypeOK, Worker
  <1>2. a # "none" => runs[r].exec \notin {"absent", "queued"}
    BY ClaimInHand
  <1>3. a # "none" \/ (effects[r] = 0 /\ ~question /\ ~answer)
    BY DEF Turn, At, Unentered
  <1>4. CASE TurnGoes(r)
    <2>1. /\ effects'[r] = effects[r] /\ (SessionOf[r] \in deleted => SessionOf[r] \in deleted')
          /\ (question' => question) /\ (answer' => answer)
          /\ SessionOf[r] \notin deleted' => (question => question') /\ (answer => answer')
      BY <1>4 DEF TurnGoes, Unwritten, Roles
    <2>2. /\ runs[r].exec \in {"running", "in_doubt"} => runs'[r].exec \in {"running", "in_doubt"}
          /\ runs'[r].exec \in {"completed", "failed_safe"} => runs'[r].exec = runs[r].exec
      BY <1>4 DEF TurnGoes, Moves
    <2>3. StageStep(a, b) /\ (b = "tool" => a = "tool" \/ effects[r] < MaxTools)
      BY <1>4 DEF TurnGoes
    <2>4. QED
      BY <1>1, <2>1, <2>2, <2>3 DEF Turn, At, StageStep
  <1>5. CASE TurnStarts(r)
    <2>1. /\ effects'[r] = effects[r] /\ (question' => question) /\ (answer' => answer)
      BY <1>5 DEF TurnStarts, Unwritten, Roles
    <2>2. b = "launch" /\ a = "none" /\ runs'[r].exec = "running"
      BY <1>5 DEF TurnStarts
    <2>3. QED
      BY <1>1, <1>3, <2>1, <2>2 DEF Turn, At, Questioned, Answered, Executing
  <1>6. CASE TurnEnds(r)
    <2>1. /\ effects'[r] = effects[r] /\ (SessionOf[r] \in deleted => SessionOf[r] \in deleted')
          /\ (question' => question) /\ (answer' => answer)
          /\ SessionOf[r] \notin deleted' => (question => question') /\ (answer => answer')
      BY <1>6 DEF TurnEnds, Unwritten, Roles
    <2>2. /\ b \in Delivering \cup {"stopped"}
          /\ runs'[r].exec = "failed_safe" => a \in Unentered
          /\ runs'[r].exec = "completed" => a = "settling"
      BY <1>6 DEF TurnEnds
    <2>3. b \notin Unentered /\ b \notin Active /\ b \notin Questioned /\ b \notin Answered
          /\ b \notin {"tool", "none"}
      BY <2>2 DEF Delivering, Unentered, Active, Questioned, Answered, Launching, Preparing, Executing
    <2>4. "settling" \in Answered
      BY DEF Answered
    <2>5. QED
      BY <1>1, <2>1, <2>2, <2>3, <2>4 DEF Turn, At
  <1>7. CASE UsesTool(r)
    <2>1. /\ a = "tool" /\ b = "tooled" /\ effects'[r] = effects[r] + 1
          /\ UNCHANGED <<history, deleted>>
      BY <1>7 DEF UsesTool, storeVars
    <2>2. runs[r].exec \in {"running", "in_doubt"} /\ runs'[r].exec \in {"running", "in_doubt"}
      BY <1>7, <2>1 DEF UsesTool, Moves, Turn, At, Active, Executing
    <2>3. "tool" \in Questioned /\ "tooled" \notin Unentered /\ "tooled" \notin Answered
      BY DEF Questioned, Executing, Unentered, Launching, Preparing, Answered
    <2>4. QED
      BY <1>1, <2>1, <2>2, <2>3 DEF Turn, At
  <1>8. CASE TurnWrites(r)
    <2>1. /\ effects'[r] = effects[r] /\ UNCHANGED deleted /\ SessionOf[r] \notin deleted
          /\ a \in Active /\ b # "none" /\ b # "tool"
      BY <1>8 DEF TurnWrites, Writes, Active, Preparing, Executing
    <2>2. runs[r].exec \in {"running", "in_doubt"} /\ runs'[r].exec \in {"running", "in_doubt"}
      BY <1>8, <2>1 DEF TurnWrites, Writes, Moves, Turn, At
    <2>3. CASE Writes(r, "user", "ready", "stored")
      <3>1. a = "ready" /\ b = "stored" /\ question' /\ (answer' => answer)
        BY <1>1, <2>3 DEF Writes
      <3>2. "ready" \in Unentered /\ "stored" \notin Answered
        BY DEF Unentered, Preparing, Answered
      <3>3. QED
        BY <1>1, <2>1, <2>2, <3>1, <3>2 DEF Turn, At
    <2>4. CASE Writes(r, "assistant", "cancelling", "aborted") \/ Writes(r, "assistant", "verified", "saved")
      <3>1. /\ a \in {"cancelling", "verified"} /\ b \in {"aborted", "saved"}
            /\ answer' /\ (question => question')
        BY <2>4 DEF Writes
      <3>2. a \in Questioned /\ b \notin Unentered
        BY <3>1 DEF Questioned, Executing, Unentered, Launching, Preparing
      <3>3. QED
        BY <1>1, <2>1, <2>2, <3>1, <3>2 DEF Turn, At
    <2>5. QED
      BY <1>8, <2>3, <2>4 DEF TurnWrites
  <1>9. QED
    BY <1>4, <1>5, <1>6, <1>7, <1>8 DEF TurnStep

\* Nothing has been done at the start.
LEMMA WebStart == WebInit => WebSafe
  <1> SUFFICES ASSUME WebInit
               PROVE  WebSafe
    OBVIOUS
  <1>1. TypeOK /\ Authority
    BY InitType, AuthorityInit DEF WebInit
  <1>2. Idle \in Worker /\ Idle.at = "none" /\ [at |-> "idle", token |-> 0] \in Handler
    BY DEF Idle, Worker, Stages, Ended, Handler
  <1>3. WebTypeOK
    BY <1>1, <1>2, WorkersAssumption DEF WebInit, WebTypeOK
  <1>4. Linked
    BY <1>2 DEF WebInit, Init, Linked, At
  <1>5. Turns
    <2>1. "none" \notin Active /\ "none" \notin Questioned /\ "none" \notin Answered
      BY DEF Active, Questioned, Answered, Launching, Preparing, Executing
    <2>2. \A r \in Requests : runs[r].exec = "absent"
      BY DEF WebInit, Init, NoRun
    <2>3. QED
      BY <1>2, <2>1, <2>2, WorkersAssumption DEF WebInit, Turns, Turn, At
  <1>6. QED
    BY <1>1, <1>3, <1>4, <1>5 DEF WebSafe, Grounded

\* Every step of this code is a step of the ledger and leaves every turn sound.
LEMMA WebStep == WebSafe /\ [WebNext]_webVars => WebSafe'
  <1> SUFFICES ASSUME WebSafe, [WebNext]_webVars
               PROVE  WebSafe'
    OBVIOUS
  <1>1. Grounded /\ TypeOK /\ Authority
    BY DEF WebSafe, Grounded, WebTypeOK
  <1>2. TypeOK' /\ Authority'
    BY <1>1, LedgerSteps, TypeStep, AuthorityStep
  <1>3. Linked'
    BY <1>1, <1>2, LinkedStep
  <1>4. Turns'
    BY <1>1, TurnSteps, TurnStays DEF WebSafe, Turns, TurnsStep
  <1>5. WebTypeOK'
    <2>1. worker' \in [Requests -> Worker] /\ handler' \in [Handlers -> Handler] /\ StoreStep
      BY <1>1, <1>2, TurnSteps, HandlerSteps, StoreSteps DEF TurnsStep, HandlersStep
    <2>2. effects' \in [Requests -> 0..MaxTools]
      <3>1. \A r \in Requests : effects'[r] <= MaxTools
        BY <1>4 DEF Turns, Turn
      <3>2. effects' \in [Requests -> Nat]
        BY <2>1 DEF StoreStep
      <3>3. QED
        BY <3>1, <3>2, WorkersAssumption
    <2>3. QED
      BY <1>2, <2>1, <2>2 DEF WebTypeOK, StoreStep
  <1>6. QED
    BY <1>2, <1>3, <1>4, <1>5 DEF WebSafe, Grounded

\* These invariants together hold in every reachable state.
LEMMA WebSafety == WebSpec => []WebSafe
  BY WebStart, WebStep, PTL DEF WebSpec

\* The processes of the Web channel use the ledger as its specification says:
\* however they interleave, fail and crash, they present only claims that they
\* were handed and tokens that were drawn.  So what is proved of the ledger for
\* every caller holds of this code.
THEOREM WebImplementsLedger == WebSpec => Spec
  <1>1. WebInit => Init
    BY DEF WebInit
  <1>2. WebSafe /\ [WebNext]_webVars => [Next]_vars
    BY LedgerSteps DEF WebSafe
  <1>3. QED
    BY <1>1, <1>2, WebSafety, PTL DEF WebSpec, Spec

\* Once a run is settled no worker of it can still call a tool or write to the
\* conversation store, in any process and after any crash or late call; with
\* the types of all variables.
THEOREM SettledRunsAreStill == WebSpec => []SettledIsStill
  <1>1. WebSafe => SettledIsStill
    <2> SUFFICES ASSUME WebSafe, NEW r \in Requests, runs[r].exec \in Settled
                 PROVE  At(r, Delivering \cup Ended)
      BY DEF WebSafe, Grounded, SettledIsStill
    <2>1. worker[r].at \in Stages
      BY DEF WebSafe, Grounded, WebTypeOK, Worker
    <2>2. worker[r].at \notin Active
      BY DEF WebSafe, Turns, Turn, At, Settled
    <2>3. QED
      BY <2>1, <2>2 DEF At, Stages, Active
  <1>2. QED
    BY <1>1, WebSafety, PTL

\* A run recorded as failed_safe, which invites the user to repeat it, used no
\* tool and has no answer in the conversation.
THEOREM FailedSafeRunsAreHarmless == WebSpec => []FailedSafeIsHarmless
  <1>1. WebSafe => FailedSafeIsHarmless
    BY DEF WebSafe, Turns, Turn, FailedSafeIsHarmless
  <1>2. QED
    BY <1>1, WebSafety, PTL

\* A run recorded as completed has its question and its answer in the
\* conversation, unless the session was deleted since.
THEOREM CompletedRunsAreStored == WebSpec => []CompletedIsStored
  <1>1. WebSafe => CompletedIsStored
    BY DEF WebSafe, Turns, Turn, CompletedIsStored
  <1>2. QED
    BY <1>1, WebSafety, PTL


(***************************************************************************)
(* Contexts: why no message of an old context can be seen.                 *)
(***************************************************************************)

\* A handler that has been let in under the pending mutation has the session
\* for itself; after its clear everything in the session is hidden.
Gate(h) ==
    LET s == TargetOf[h]
    IN (/\ handler[h].at \in {"quiet", "applied"}
        /\ mutations[s] # NoMutation /\ mutations[s].token = handler[h].token)
       => /\ Quiet(runs, s)
          /\ handler[h].at = "applied" /\ KindOf[h] = "clear_context" => OfSession(s) \subseteq hidden

Gates == \A h \in Handlers : Gate(h)

\* A message can only be new if its writer is active.
LEMMA NewMessages ==
    ASSUME WebSafe, TurnsStep, StoreStep, NEW m \in history', m \notin history
    PROVE  /\ m[1] \in Requests /\ Moves(m[1]) /\ worker[m[1]].at # "none"
           /\ runs[m[1]].exec \in {"running", "in_doubt"}
  <1> DEFINE r == m[1]
  <1>1. r \in Requests /\ m[2] \in Roles /\ m = <<r, m[2]>>
    BY DEF StoreStep, Messages, Roles
  <1>2. TurnStep(r)
    BY <1>1 DEF TurnsStep
  <1>3. TurnWrites(r)
    BY <1>1, <1>2 DEF TurnStep, TurnGoes, TurnStarts, TurnEnds, UsesTool, Unwritten, storeVars
  <1>4. worker[r].at \in Active /\ worker[r].at # "none" /\ Moves(r)
    BY <1>3 DEF TurnWrites, Writes, Active, Preparing, Executing
  <1>5. QED
    BY <1>1, <1>4 DEF WebSafe, Turns, Turn, At

\* A session that is quiet under a pending mutation stays quiet.
LEMMA QuietStays ==
    ASSUME WebSafe, TurnsStep, NEW s \in Sessions, mutations[s] # NoMutation, Quiet(runs, s)
    PROVE  Quiet(runs', s)
  <1> SUFFICES ASSUME NEW r \in Of(s)
               PROVE  runs'[r].exec \notin Pending
    BY DEF Quiet
  <1>1. r \in Requests /\ SessionOf[r] = s /\ runs[r].exec \notin Pending /\ TurnStep(r)
    BY DEF Of, Quiet, TurnsStep
  <1>2. Moves(r)
    BY <1>1 DEF TurnStep, TurnGoes, TurnStarts, TurnEnds, UsesTool, TurnWrites, Writes, Finishes, Pending
  <1>3. QED
    BY <1>1, <1>2 DEF Moves

\* The session of a handler stays its own until the mutation is released.
LEMMA GateStays ==
    ASSUME WebSafe, TypeOK', [WebNext]_webVars, NEW h \in Handlers, Gate(h)
    PROVE  Gate(h)'
  <1> DEFINE s == TargetOf[h]
  <1>1. /\ s \in Sessions /\ Grounded /\ TypeOK
        /\ opened[s] \in Nat
    BY HandlersAssumption DEF WebSafe, Grounded, WebTypeOK, TypeOK
  <1>2. TurnsStep /\ StoreStep /\ HandlerMoves(h) /\ SessionStep(s)
    BY <1>1, TurnSteps, StoreSteps, HandlerSteps, LedgerSteps, SessionSteps DEF HandlersStep
  <1> SUFFICES ASSUME handler'[h].at \in {"quiet", "applied"}, mutations'[s] # NoMutation,
                      mutations'[s].token = handler'[h].token
               PROVE  /\ Quiet(runs', s)
                      /\ handler'[h].at = "applied" /\ KindOf[h] = "clear_context"
                           => OfSession(s)' \subseteq hidden'
    BY DEF Gate
  <1>3. CASE HandlerIsLetIn(h)
    BY <1>3 DEF HandlerIsLetIn
  <1>4. CASE handler'[h] = handler[h] \/ HandlerApplies(h)
    <2>1. handler[h].at \in {"quiet", "applied"} /\ handler'[h].token = handler[h].token
      BY <1>4 DEF HandlerApplies
    <2>2. handler[h].token \in 1..opened[s]
      BY <2>1 DEF WebSafe, Grounded, Linked
    <2>3. mutations[s] # NoMutation /\ mutations[s].token = handler[h].token
      BY <1>1, <1>2, <2>1, <2>2 DEF SessionStep, SessionKept, Opened, Advanced, Recorded, Reopened
    <2>4. Quiet(runs, s)
      BY <2>1, <2>3 DEF Gate
    <2>5. Quiet(runs', s)
      BY <1>1, <1>2, <2>3, <2>4, QuietStays
    <2>6. ASSUME handler'[h].at = "applied", KindOf[h] = "clear_context", handler'[h] = handler[h],
                 NEW m \in OfSession(s)'
          PROVE  m \in hidden'
      <3>1. m \in history' /\ SessionOf[m[1]] = s
        BY DEF OfSession
      <3>2. OfSession(s) \subseteq hidden
        BY <2>3, <2>6 DEF Gate
      <3>3. m \in history
        <4>1. SUFFICES ASSUME m \notin history
                       PROVE  FALSE
          OBVIOUS
        <4>2. m[1] \in Requests /\ runs[m[1]].exec \in Pending
          BY <1>2, <3>1, <4>1, NewMessages DEF Pending
        <4>3. QED
          BY <2>4, <3>1, <4>2 DEF Quiet, Of
      <3>4. m \in hidden
        BY <3>1, <3>2, <3>3 DEF OfSession
      <3>5. QED
        BY <1>2, <3>1, <3>4 DEF StoreStep
    <2>7. QED
      BY <1>4, <2>5, <2>6 DEF HandlerApplies
  <1>5. QED
    BY <1>2, <1>3, <1>4 DEF HandlerMoves, HandlerLeaves, HandlerJoins

\* What can be seen stays of the present context.
LEMMA VisibleStays ==
    ASSUME WebSafe, TypeOK', [WebNext]_webVars, Contexts, Order, Gates, OldContextHidden
    PROVE  OldContextHidden'
  <1>1. Grounded /\ TypeOK
    BY DEF WebSafe, Grounded, WebTypeOK
  <1>2. TurnsStep /\ StoreStep /\ GenerationStep
    BY <1>1, TurnSteps, StoreSteps, HandlerSteps
  <1> SUFFICES ASSUME NEW m \in history'
               PROVE  /\ SessionOf[m[1]] \notin deleted'
                      /\ m \notin hidden' => runs'[m[1]].gen = generation'[SessionOf[m[1]]]
    BY DEF OldContextHidden
  <1> DEFINE r == m[1]
             s == SessionOf[m[1]]
  <1>3. r \in Requests /\ s \in Sessions /\ m[2] \in Roles /\ m = <<r, m[2]>>
    BY <1>2, SessionsAssumption DEF StoreStep, Messages, Roles
  <1>4. s \notin deleted'
    BY <1>2 DEF StoreStep, OldContextHidden
  <1>5. ASSUME m \notin hidden', m \in history
        PROVE  runs'[r].gen = generation'[s]
    <2>1. m \notin hidden /\ runs[r].gen = generation[s]
      BY <1>2, <1>5 DEF StoreStep, OldContextHidden
    <2>2. worker[r].at # "none"
      BY <1>3, <1>5 DEF WebSafe, Turns, Turn, At, Unentered, Roles
    <2>3. runs[r].exec \notin {"absent", "queued"} /\ TurnStep(r)
      BY <1>1, <1>2, <1>3, <2>2, ClaimInHand DEF TurnsStep
    <2>4. runs'[r].gen = runs[r].gen
      BY <2>2, <2>3 DEF TurnStep, TurnGoes, TurnStarts, TurnEnds, UsesTool, TurnWrites, Writes, Moves,
                        Finishes
    <2>5. generation'[s] = generation[s]
      <3>1. SUFFICES ASSUME generation'[s] # generation[s]
                     PROVE  FALSE
        OBVIOUS
      <3>2. PICK h \in Handlers :
              /\ TargetOf[h] = s /\ KindOf[h] = "clear_context" /\ handler[h].at = "applied"
              /\ mutations[s] # NoMutation /\ mutations[s].token = handler[h].token
        BY <1>2, <1>3, <3>1 DEF GenerationStep
      <3>3. OfSession(s) \subseteq hidden
        BY <3>2 DEF Gates, Gate
      <3>4. QED
        BY <1>5, <2>1, <3>3 DEF OfSession
    <2>6. QED
      BY <2>1, <2>4, <2>5
  <1>6. ASSUME m \notin history
        PROVE  runs'[r].gen = generation'[s]
    <2>1. /\ Moves(r) /\ worker[r].at # "none" /\ runs[r].exec \in {"running", "in_doubt"}
      BY <1>2, <1>6, NewMessages
    <2>2. Keyed(r)
      <3>1. ClaimOf(r) \in issued /\ ClaimOf(r).request = r
        BY <1>1, <1>3, <2>1, ClaimInHand
      <3>2. QED
        BY <3>1 DEF Order, OrderOf, ServiceOf
    <2>3. runs[r].gen = generation[s]
      <3>1. /\ runs[r].gen \in Nat /\ generation[s] \in Nat
        BY <1>1, <1>3 DEF TypeOK, Run
      <3>2. /\ runs[r].gen <= generation[s]
            /\ runs[r].gen < generation[s] => runs[r].exec \in Settled
        BY <1>3, <2>1, <2>2 DEF Contexts, Context, HasRow
      <3>3. QED
        BY <2>1, <3>1, <3>2 DEF Settled
    <2>4. generation'[s] = generation[s]
      BY <1>2, <1>3, <1>6 DEF GenerationStep, storeVars
    <2>5. QED
      BY <2>1, <2>3, <2>4 DEF Moves
  <1>7. QED
    BY <1>4, <1>5, <1>6

\* However clears, deletions, late writers and crashes of a session interleave:
\* the next turn sees no message of an earlier context, and a deleted session
\* has no message left.
THEOREM OldContextsAreHidden == WebSpec => []OldContextHidden
  <1> DEFINE Seen == Gates /\ OldContextHidden
  <1>1. WebInit => Seen
    BY DEF WebInit, Gates, Gate, OldContextHidden
  <1>2. WebSafe /\ Contexts /\ Order /\ Seen /\ [WebNext]_webVars /\ WebSafe' => Seen'
    <2> SUFFICES ASSUME WebSafe, Contexts, Order, Seen, [WebNext]_webVars, WebSafe'
                 PROVE  Seen'
      OBVIOUS
    <2>1. TypeOK'
      BY DEF WebSafe, Grounded, WebTypeOK
    <2>2. Gates'
      BY <2>1, GateStays DEF Gates
    <2>3. OldContextHidden'
      BY <2>1, VisibleStays
    <2>4. QED
      BY <2>2, <2>3
  <1> HIDE DEF Seen
  <1>3. WebSpec => [](WebSafe /\ Contexts /\ Order)
    BY WebSafety, WebImplementsLedger, ContextsHold, OrderHolds, PTL
  <1>4. WebSpec => []Seen
    BY <1>1, <1>2, <1>3, PTL DEF WebSpec
  <1>5. Seen => OldContextHidden
    BY DEF Seen
  <1>6. QED
    BY <1>4, <1>5, PTL

=============================================================================
