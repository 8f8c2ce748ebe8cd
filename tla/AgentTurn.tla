------------------------------ MODULE AgentTurn ------------------------------
(***************************************************************************)
(* One run of the agent loop after another, for one session: Agent and     *)
(* AgentStreamExecutor (agent/protocol/agent.py, agent_stream.py), the     *)
(* message sanitizer (message_utils.py) and the steering inbox (steer.py). *)
(*                                                                         *)
(* A run works on a copy of the agent's messages, asks the model, executes *)
(* the tools it calls, and hands the history back when it ends.  A cancel  *)
(* (an event polled at safe points) and steering instructions (a bounded   *)
(* inbox drained at safe points) arrive from other threads at any time.    *)
(*                                                                         *)
(* Abstractions.                                                           *)
(*  - A message is its role, the set of its texts, the tool calls it makes *)
(*    and the tool results it holds, each with how it came about.  A text  *)
(*    is what put it there; a steering instruction is its own text.        *)
(*  - The model answers anything: nothing, a text, calls, or an error of   *)
(*    any class.  So does a tool.  Token counts are a free choice.         *)
(*  - One tool: the failures of _check_consecutive_failures are those of   *)
(*    calls with different arguments.  Its limits for equal arguments      *)
(*    refuse a call earlier, as an error, which a call may be at any time. *)
(*  - Events, skill retrieval, memory flushes and the JSON form of results *)
(*    are left out.                                                        *)
(***************************************************************************)
EXTENDS Integers, Sequences, FiniteSets, SequencesExt

CONSTANTS
    MaxTurns,        \* max_turns of the executor
    MaxContextTurns, \* agent_max_context_turns, 20
    KeepTurns,       \* 5: turns kept, and below which nothing is discarded
    MaxRetries,      \* 3 retries of a failing model call
    LoopTurn,        \* 3: from this turn on a repeated call draws a hint
    RefuseAfter,     \* 6 failures in a row: the call is refused
    AbortAfter,      \* 8 failures in a row: the run is aborted
    Steers,          \* steering instructions, each with its idempotency key
    MaxPending,      \* 16: instructions waiting in an inbox
    MaxKeys,         \* 256: keys an inbox remembers
    MaxRuns,         \* bound: runs of the session
    MaxCalls,        \* bound: tool calls in one answer
    MaxEffort        \* bound: tool calls, errors and empty answers in all

ASSUME LimitsAssumption ==
    /\ MaxTurns \in Nat \ {0} /\ MaxContextTurns \in Nat \ {0}
    /\ KeepTurns \in Nat \ {0} /\ MaxRetries \in Nat /\ LoopTurn \in Nat
    /\ RefuseAfter \in Nat /\ AbortAfter \in Nat
    /\ MaxPending \in Nat \ {0} /\ MaxKeys \in Nat \ {0}
    /\ MaxRuns \in Nat /\ MaxCalls \in Nat \ {0} /\ MaxEffort \in Nat

Contexts == {"main", "explicit", "summary"}
CallIds == (1..MaxRuns) \X (1..MaxTurns) \X Contexts \X (1..MaxCalls)
Hows == {"real", "refused", "skipped", "interrupted", "cancelled", "repaired"}
Tags == {"query", "answer", "partial", "prompt", "hint", "marker"}

\* A steering instruction is a text of its own.
ASSUME SteersAssumption == Steers \cap Tags = {}

VARIABLES
    messages,   \* Agent.messages
    fresh,      \* Agent._last_run_new_messages
    run,        \* runs started
    pc,         \* where the run is; "idle" between runs
    outcome,    \* how the last run ended
    history,    \* executor.messages
    origLen,    \* original_length in Agent.run_stream
    runStart,   \* executor._run_message_start
    turn,
    request,    \* the model call: why it is made, its retries
    promptAt,   \* prompt_insert_idx
    answer,     \* [text, calls] of the last answer
    index,      \* tool_index
    results,    \* tool_result_blocks and the steering appended to them
    failures,   \* length of the run of failures in tool_failure_history
    cancelled,  \* cancel_event.is_set()
    inbox,      \* SteerInbox of the current run
    effort,     \* tool calls, errors and empty answers so far
    ran,        \* history: calls whose tool ran to its end
    late,       \* history: tools started after the cancel
    shown       \* history: instructions some request of the run contained

msgVars == <<messages, fresh, run, outcome, origLen>>
loopVars == <<runStart, turn, request, promptAt, answer, index, results, failures>>
runGhosts == <<ran, late, shown>>
ghosts == <<runGhosts, effort>>
vars == <<msgVars, pc, history, loopVars, cancelled, inbox, ghosts>>

Stages == {"idle", "top", "call", "stream", "answered", "finish", "closing",
           "limit", "tools", "tool", "gather"}
Outcomes == {"none", "completed", "critical", "cancelled", "failed"}

None == [c \in {} |-> "real"]
User(texts) == [role |-> "user", texts |-> texts, uses |-> {}, results |-> None]
Assistant(texts, calls) ==
    [role |-> "assistant", texts |-> texts, uses |-> calls, results |-> None]
WithResults(m, more) ==
    [m EXCEPT !.results = [c \in DOMAIN @ \cup DOMAIN more |->
                              IF c \in DOMAIN @ THEN @[c] ELSE more[c]]]
All(calls, how) == [c \in calls |-> how]

(***************************************************************************)
(* message_utils.py                                                        *)
(***************************************************************************)
\* A user message with a text and no result starts a turn.
IsQuery(m) == m.role = "user" /\ m.texts # {} /\ DOMAIN m.results = {}

TurnStarts(ms) == {i \in DOMAIN ms : i = 1 \/ IsQuery(ms[i])}

\* The last k turns, in their entirety
LastTurns(ms, k) ==
    LET starts == TurnStarts(ms)
        from == CHOOSE i \in starts : Cardinality({j \in starts : j >= i}) = k
    IN SubSeq(ms, from, Len(ms))

\* The messages at some indices, in their order
Pick(ms, indices) ==
    FlattenSeq([i \in DOMAIN ms |-> IF i \in indices THEN <<ms[i]>> ELSE <<>>])

\* compress_turn_to_text_only() of every turn: its query and its last reply
CompressTurns(ms) ==
    LET says(i) == ms[i].role = "assistant" /\ ms[i].texts # {}
        closed(i, j) == \E q \in (i + 1)..j : IsQuery(ms[q])
        kept == {i \in DOMAIN ms : \/ IsQuery(ms[i])
                                   \/ says(i) /\ \A j \in (i + 1)..Len(ms) :
                                                    says(j) => closed(i, j)}
        plain(m) == [m EXCEPT !.uses = {}]
        texts == Pick(ms, kept)
    IN [k \in DOMAIN texts |-> plain(texts[k])]

\* _repair_tool_use_adjacency(): every call gets a result in the next message
Repair(ms) ==
    LET owed(i) == IF i > 1 /\ ms[i].role = "user" THEN ms[i - 1].uses ELSE {}
        stranded(i) == i = Len(ms) \/ ms[i + 1].role # "user"
        fixed(i) == <<WithResults(ms[i], All(owed(i), "repaired"))>>
                    \o IF ms[i].uses # {} /\ stranded(i)
                       THEN <<[User({}) EXCEPT !.results = All(ms[i].uses, "repaired")]>>
                       ELSE <<>>
    IN FlattenSeq([i \in DOMAIN ms |-> fixed(i)])

\* The removals of sanitize_claude_messages(): a result without its call goes,
\* and the message with it when it has no text.
DropOrphans(ms) ==
    LET used == UNION {ms[i].uses : i \in DOMAIN ms}
        bad(m) == DOMAIN m.results \ used
        strip(m) == [m EXCEPT !.results = [c \in DOMAIN @ \cap used |-> @[c]]]
        kept == Pick(ms, {i \in DOMAIN ms : bad(ms[i]) = {} \/ ms[i].texts # {}})
    IN [k \in DOMAIN kept |-> strip(kept[k])]

Sanitize(ms) == LET fixed == Repair(ms) IN
    IF DropOrphans(fixed) = fixed THEN fixed ELSE Repair(DropOrphans(fixed))

\* Every call is answered by the next message, and nothing else is.
Paired(ms) ==
    \A i \in DOMAIN ms :
        /\ ms[i].uses # {} => i < Len(ms) /\ ms[i].uses \subseteq DOMAIN ms[i + 1].results
        /\ DOMAIN ms[i].results # {} => i > 1 /\ DOMAIN ms[i].results \subseteq ms[i - 1].uses

----------------------------------------------------------------------------
NoRequest == [why |-> "main", retryEmpty |-> FALSE, retries |-> 0,
              overflowed |-> FALSE, held |-> 0]
NoAnswer == [text |-> FALSE, calls |-> 0]
NoInbox == [accepting |-> FALSE, pending |-> <<>>, keys |-> {}]

Init ==
    /\ messages = <<>> /\ fresh = <<>> /\ origLen = 0
    /\ run = 0 /\ pc = "idle" /\ outcome = "none"
    /\ history = <<>> /\ runStart = 0 /\ turn = 0
    /\ request = NoRequest /\ promptAt = 0 /\ answer = NoAnswer
    /\ index = 0 /\ results = User({}) /\ failures = 0
    /\ cancelled = FALSE /\ inbox = NoInbox
    /\ effort = 0
    /\ ran = {} /\ late = 0 /\ shown = {}

TypeOK ==
    /\ run \in 0..MaxRuns /\ pc \in Stages /\ outcome \in Outcomes
    /\ origLen \in Nat /\ runStart \in Nat /\ promptAt \in Nat
    /\ turn \in 0..MaxTurns
    /\ request \in [why : Contexts, retryEmpty : BOOLEAN, retries : 0..MaxRetries,
                     overflowed : BOOLEAN, held : 0..MaxRetries]
    /\ answer \in [text : BOOLEAN, calls : 0..MaxCalls]
    /\ index \in 0..MaxCalls /\ failures \in Nat /\ cancelled \in BOOLEAN
    /\ inbox.accepting \in BOOLEAN /\ inbox.keys \subseteq Steers
    /\ inbox.pending \in Seq(Steers) /\ Len(inbox.pending) <= MaxPending
    /\ effort \in 0..MaxEffort
    /\ \A ms \in {messages, fresh, history, <<results>>} : \A i \in DOMAIN ms :
         /\ ms[i].role \in {"user", "assistant"}
         /\ ms[i].texts \subseteq Tags \cup Steers
         /\ ms[i].uses \subseteq CallIds /\ DOMAIN ms[i].results \subseteq CallIds
         /\ \A c \in DOMAIN ms[i].results : ms[i].results[c] \in Hows
    /\ ran \subseteq CallIds /\ late \in 0..MaxCalls /\ shown \subseteq Steers

----------------------------------------------------------------------------
(* The end of a run, and the hand-over of its history                      *)

\* Mutant: a cancelled run is cut where a run that returned is.
CancelledMessages_ByLength(h) ==
    SubSeq(h, (IF origLen < Len(h) THEN origLen ELSE Len(h)) + 1, Len(h))

\* _last_run_new_messages of a run that was cancelled
CancelledMessages(h) == SubSeq(h, runStart + 1, Len(h))

\* ... and of one that returned
ReturnedMessages(h) ==
    SubSeq(h, (IF origLen < Len(h) THEN origLen ELSE Len(h)) + 1, Len(h))

\* The executor closes the inbox and its locals are gone; a failed run leaves
\* the agent's messages alone unless the executor has cleared its own.
End(how, h) ==
    /\ pc' = "idle" /\ outcome' = how
    /\ inbox' = [inbox EXCEPT !.accepting = FALSE]
    /\ messages' = IF how = "failed" /\ h # <<>> THEN messages ELSE h
    /\ fresh' = CASE how = "failed" -> fresh
                   [] how = "cancelled" -> CancelledMessages(h)
                   [] OTHER -> ReturnedMessages(h)
    /\ history' = <<>> /\ turn' = 0 /\ request' = NoRequest /\ promptAt' = 0
    /\ answer' = NoAnswer /\ index' = 0 /\ results' = User({}) /\ failures' = 0
    /\ runStart' = 0
    /\ UNCHANGED <<run, origLen, cancelled>>

\* _handle_cancelled()
HandleCancelled(h) ==
    LET owed == IF h # <<>> /\ Last(h).role = "assistant" THEN Last(h).uses ELSE {}
    IN h \o (IF owed = {} THEN <<>>
             ELSE <<[User({}) EXCEPT !.results = All(owed, "cancelled")]>>)
         \o <<Assistant({"marker"}, {})>>

\* The prompt is taken out again, if a user message stands where it was put.
WithoutPrompt(h) ==
    IF promptAt < Len(h) /\ h[promptAt + 1].role = "user"
    THEN RemoveAt(h, promptAt + 1) ELSE h

\* What an exception of the model call does: the summary swallows every one.
Interrupt(h) ==
    IF request.why = "summary" THEN End("completed", WithoutPrompt(h))
    ELSE End("cancelled", HandleCancelled(h))

Fail(h) ==
    IF request.why = "summary" THEN End("completed", WithoutPrompt(h))
    ELSE End("failed", h)

----------------------------------------------------------------------------
(* Steering and cancellation, from other threads                           *)

NewInbox == [accepting |-> TRUE, pending |-> <<>>, keys |-> {}]

\* drain()
Emptied == [inbox EXCEPT !.pending = <<>>]

Notes == ToSet(inbox.pending)

\* SteerRegistry.submit() finds the inbox of the run and calls its submit():
\* it may be closed, may know the key, may be full, and then nothing changes.
\* A sender that found the inbox of a run that has ended gets "closing" too.
Submit(s) ==
    /\ inbox.accepting /\ s \notin inbox.keys
    /\ Cardinality(inbox.keys) < MaxKeys /\ Len(inbox.pending) < MaxPending
    /\ inbox' = [inbox EXCEPT !.pending = Append(@, s), !.keys = @ \cup {s}]
    /\ UNCHANGED <<msgVars, pc, history, loopVars, cancelled, ghosts>>

Cancel ==
    /\ pc # "idle" /\ ~cancelled
    /\ cancelled' = TRUE
    /\ UNCHANGED <<msgVars, pc, history, loopVars, inbox, ghosts>>

----------------------------------------------------------------------------
(* A run starts                                                            *)

\* _trim_messages(): by turns, then, when the rest has too many tokens,
\* compressed if it is short and cut in half if not.
Trims(ms) ==
    LET halved(m) == LET n == Cardinality(TurnStarts(m)) IN LastTurns(m, n - n \div 2)
        byTurns == IF Cardinality(TurnStarts(ms)) > MaxContextTurns
                   THEN halved(ms) ELSE ms
        short == Cardinality(TurnStarts(byTurns)) < KeepTurns
    IN {byTurns, IF short THEN CompressTurns(byTurns) ELSE halved(byTurns)}

\* Agent.run_stream() and the head of the executor's, on a registered inbox
Start(clear) ==
    /\ pc = "idle" /\ run < MaxRuns
    /\ LET before == IF clear THEN <<>> ELSE messages
       IN /\ messages' = before /\ origLen' = Len(before)
          /\ \E kept \in Trims(Append(before, User({"query"}))) :
               /\ history' = Sanitize(kept)
               /\ runStart' = Len(Sanitize(kept)) - 1
    /\ run' = run + 1 /\ pc' = "top" /\ outcome' = "none"
    /\ cancelled' = FALSE /\ inbox' = NewInbox
    /\ ran' = {} /\ late' = 0 /\ shown' = {}
    /\ UNCHANGED <<fresh, turn, request, promptAt, answer, index, results,
                   failures, effort>>

\* The loop goes on with the steering that was waiting in the history.
Redirect(h) ==
    /\ pc' = "top" /\ inbox' = Emptied
    /\ history' = h
    /\ UNCHANGED <<msgVars, runStart, turn, request, promptAt, answer, index,
                   results, failures, cancelled, ghosts>>

Ask(why, retryEmpty) ==
    /\ pc' = "call"
    /\ request' = [NoRequest EXCEPT !.why = why, !.retryEmpty = retryEmpty]
    /\ UNCHANGED <<msgVars, runStart, answer, index, results, failures,
                   cancelled, ghosts>>

Steered(h) == IF Notes = {} THEN h ELSE Append(h, User(Notes))

\* The top of the loop
Top ==
    /\ pc = "top"
    /\ \/ /\ turn >= MaxTurns
          /\ pc' = "limit"
          /\ UNCHANGED <<msgVars, history, loopVars, cancelled, inbox, ghosts>>
       \/ /\ turn < MaxTurns /\ cancelled
          /\ End("cancelled", HandleCancelled(history))
          /\ UNCHANGED ghosts
       \/ /\ turn < MaxTurns /\ ~cancelled
          /\ history' = Steered(history) /\ inbox' = Emptied
          /\ turn' = turn + 1
          /\ Ask("main", TRUE) /\ UNCHANGED promptAt

----------------------------------------------------------------------------
(* _call_llm_stream()                                                      *)

\* Frames of retried calls that had received text add it when they unwind.
Held(h) == h \o [k \in 1..request.held |-> Assistant({"partial"}, {})]

Texts(ms) == UNION {ms[i].texts : i \in DOMAIN ms}

\* The entry: the history is sanitized and sent.
Request ==
    /\ pc = "call"
    /\ \/ cancelled /\ Interrupt(Held(history)) /\ UNCHANGED ghosts
       \/ /\ ~cancelled
          /\ pc' = "stream" /\ history' = Sanitize(history)
          /\ shown' = shown \cup (Steers \cap Texts(Sanitize(history)))
          /\ UNCHANGED <<msgVars, loopVars, cancelled, inbox, ran, late, effort>>

\* The provider fails, or answers nothing.
Fault ==
    /\ pc = "stream" /\ ~cancelled /\ effort < MaxEffort
    /\ effort' = effort + 1 /\ UNCHANGED runGhosts

\* The call is made again, by recursion.
Again(changed) ==
    /\ pc' = "call" /\ request' = changed
    /\ UNCHANGED <<msgVars, turn, promptAt, answer, index, results, failures,
                   cancelled, inbox>>

\* A cancel seen between two chunks, or after the stream broke, or during the
\* wait before a retry: the text received so far is kept.
StreamCancelled ==
    /\ pc = "stream" /\ cancelled
    /\ \E partial \in {<<>>, <<Assistant({"partial"}, {})>>} :
         Interrupt(Held(history \o partial))
    /\ UNCHANGED ghosts

\* The provider refuses the context: trim once, then give the context up.
Overflow ==
    /\ Fault
    /\ LET n == Cardinality(TurnStarts(history))
           kept == LastTurns(history, KeepTurns)
           cut == Len(history) - Len(kept)
       IN \/ /\ ~request.overflowed /\ n > KeepTurns
             /\ history' = kept
             /\ runStart' = IF cut < runStart THEN runStart - cut ELSE 0
             /\ Again([request EXCEPT !.overflowed = TRUE])
          \/ /\ ~request.overflowed /\ n <= KeepTurns   \* long blocks were cut
             /\ Again([request EXCEPT !.overflowed = TRUE])
             /\ UNCHANGED <<history, runStart>>
          \/ /\ request.overflowed \/ n <= KeepTurns
             /\ Fail(<<>>)

\* The provider refuses the history, or an error no retry can help
StreamFails ==
    /\ Fault
    /\ \E h \in {<<>>, history} : Fail(h)

StreamRetried ==
    /\ Fault /\ request.retries < MaxRetries
    /\ \E text \in {0, 1} :
         Again([request EXCEPT !.retries = @ + 1, !.overflowed = FALSE,
                               !.held = @ + text])
    /\ UNCHANGED <<history, runStart>>

Calls(n) == {<<run, turn, request.why, k>> : k \in 1..n}
Asked == Calls(answer.calls)

EmptyAnswer ==
    /\ Fault /\ request.retryEmpty
    /\ Again([request EXCEPT !.retryEmpty = FALSE, !.overflowed = FALSE])
    /\ UNCHANGED <<history, runStart>>

\* Mutant: an explicit answer is asked for until one comes.
Answer_AskAgain(text, n) ==
    /\ pc = "stream" /\ ~cancelled /\ request.why # "summary"
    /\ request.retryEmpty => text \/ n > 0
    /\ effort + n <= MaxEffort /\ effort' = effort + n
    /\ answer' = [text |-> text, calls |-> n]
    /\ LET said == Assistant(IF text THEN {"answer"} ELSE {}, Calls(n))
           h == IF text \/ n > 0 THEN Append(history, said) ELSE history
       IN /\ pc' = "answered"
          /\ history' = IF request.why = "main" THEN h ELSE WithoutPrompt(h)
    /\ index' = 1
    /\ UNCHANGED <<msgVars, runStart, turn, request, promptAt, results,
                   failures, cancelled, inbox, runGhosts>>

\* An answer joins the history.  The prompt that asked for it is taken out.
Answer(text, n) ==
    /\ pc = "stream" /\ ~cancelled
    /\ request.retryEmpty => text \/ n > 0
    /\ effort + n <= MaxEffort /\ effort' = effort + n
    /\ answer' = [text |-> text, calls |-> n]
    /\ LET said == Assistant(IF text THEN {"answer"} ELSE {}, Calls(n))
           h == IF text \/ n > 0 THEN Append(history, said) ELSE history
       IN \/ /\ request.why = "main"
             /\ pc' = "answered" /\ history' = h
          \/ /\ request.why = "explicit"
             /\ pc' = (IF n > 0 THEN "tools" ELSE "finish")
             /\ history' = WithoutPrompt(h)
    /\ index' = 1
    /\ UNCHANGED <<msgVars, runStart, turn, request, promptAt, results,
                   failures, cancelled, inbox, runGhosts>>

\* The summary ends the run; the calls it makes are ignored.
Summary(text, n) ==
    /\ pc = "stream" /\ ~cancelled /\ request.why = "summary"
    /\ effort + n <= MaxEffort /\ effort' = effort + n
    /\ LET said == Assistant(IF text THEN {"answer"} ELSE {}, Calls(n))
       IN End("completed", WithoutPrompt(IF text \/ n > 0 THEN Append(history, said)
                                         ELSE history))
    /\ UNCHANGED runGhosts

----------------------------------------------------------------------------
(* After an answer                                                         *)

\* Mutant: the calls that steering skips get no result.
Redirected_NoResults(h) == Append(h, User(Notes))

\* _append_steering() with the calls of the answer still pending
Redirected(h) == Append(h, WithResults(User(Notes), All(Asked, "skipped")))

Answered ==
    /\ pc = "answered"
    /\ \/ Notes # {} /\ Redirect(Redirected(history))
       \/ /\ Notes = {} /\ answer.calls = 0 /\ ~answer.text /\ turn > 1
          /\ promptAt' = Len(history)
          /\ history' = Append(history, User({"prompt"}))
          /\ Ask("explicit", FALSE) /\ UNCHANGED <<turn, inbox>>
       \/ /\ Notes = {}
          /\ \/ answer.calls > 0 /\ pc' = "tools"
             \/ answer.calls = 0 /\ (answer.text \/ turn = 1) /\ pc' = "finish"
          /\ UNCHANGED <<msgVars, history, loopVars, cancelled, inbox, ghosts>>

\* The last drains before a run without further calls may finish
Finish ==
    /\ pc = "finish"
    /\ \/ Notes # {} /\ Redirect(Steered(history))
       \/ /\ Notes = {} /\ pc' = "closing"
          /\ UNCHANGED <<msgVars, history, loopVars, cancelled, inbox, ghosts>>

\* Mutant: the run closes its inbox without looking into it again.
Close_Blindly ==
    /\ pc = "closing"
    /\ \/ /\ turn < MaxTurns
          /\ End("completed", history) /\ UNCHANGED ghosts
       \/ /\ turn >= MaxTurns
          /\ pc' = "limit" /\ inbox' = [inbox EXCEPT !.accepting = FALSE]
          /\ UNCHANGED <<msgVars, history, loopVars, cancelled, ghosts>>

\* close_if_empty(): an instruction may have come since the drain.  A run that
\* finishes with its last step is asked for a summary all the same.
Close ==
    /\ pc = "closing"
    /\ \/ Notes # {} /\ Redirect(Steered(history))
       \/ /\ Notes = {} /\ turn < MaxTurns
          /\ End("completed", history) /\ UNCHANGED ghosts
       \/ /\ Notes = {} /\ turn >= MaxTurns
          /\ pc' = "limit" /\ inbox' = [inbox EXCEPT !.accepting = FALSE]
          /\ UNCHANGED <<msgVars, history, loopVars, cancelled, ghosts>>

\* _drain_and_close_steering(), and the prompt for a summary
Limit ==
    /\ pc = "limit"
    /\ \/ /\ Notes # {}
          /\ history' = Steered(history) /\ inbox' = Emptied
          /\ UNCHANGED <<msgVars, pc, loopVars, cancelled, ghosts>>
       \/ /\ Notes = {}
          /\ inbox' = [inbox EXCEPT !.accepting = FALSE]
          /\ promptAt' = Len(history)
          /\ history' = Append(history, User({"prompt"}))
          /\ Ask("summary", FALSE) /\ UNCHANGED turn

----------------------------------------------------------------------------
(* Tools                                                                   *)

\* Mutant: an error for every call, whatever was gathered
Gathered_Errors(h) ==
    Append(h, [User({}) EXCEPT !.results = All(Asked, "interrupted")])

\* The finally clause: what was gathered, or an error for every call
Gathered(h) ==
    Append(h, IF results.texts = {} /\ DOMAIN results.results = {}
              THEN [User({}) EXCEPT !.results = All(Asked, "interrupted")]
              ELSE results)

\* A call that was repeated successfully may draw a hint.
Hints == {<<>>} \cup IF turn >= LoopTurn THEN {<<User({"hint"})>>} ELSE {}

Ended(how, h) == End(how, IF how = "cancelled" THEN HandleCancelled(h) ELSE h)

\* The checks before the tool of one call
ToolGate ==
    /\ pc = "tools"
    /\ \/ /\ cancelled
          /\ \E hint \in Hints : Ended("cancelled", Gathered(history) \o hint)
          /\ UNCHANGED ghosts
       \/ /\ ~cancelled /\ Notes # {}
          /\ results' = WithResults([results EXCEPT !.texts = Notes],
                                    All(Asked, "skipped"))
          /\ inbox' = Emptied /\ pc' = "gather"
          /\ UNCHANGED <<msgVars, history, runStart, turn, request, promptAt, answer,
                         index, failures, cancelled, ghosts>>
       \/ /\ ~cancelled /\ Notes = {} /\ pc' = "tool"
          /\ UNCHANGED <<msgVars, history, loopVars, cancelled, inbox, ghosts>>

ThisCall == <<run, turn, request.why, index>>

\* The result of a call, of a tool that has run or of a refusal
Record(how, failed) ==
    /\ results' = WithResults(results, All({ThisCall}, how))
    /\ failures' = IF failed THEN failures + 1 ELSE 0
    /\ ran' = IF how = "real" THEN ran \cup {ThisCall} ELSE ran
    /\ late' = IF how = "real" /\ cancelled THEN late + 1 ELSE late
    /\ index' = IF index < answer.calls THEN index + 1 ELSE index
    /\ pc' = (IF index < answer.calls THEN "tools" ELSE "gather")
    /\ UNCHANGED <<msgVars, history, runStart, turn, request, promptAt, answer,
                   cancelled, inbox, shown, effort>>

\* _execute_tool(): bad arguments and too many failures refuse the call.
RunTool ==
    /\ pc = "tool"
    /\ \/ failures < RefuseAfter /\ \E failed \in BOOLEAN : Record("real", failed)
       \/ Record("refused", TRUE)

\* ... the failure limit aborts the run; the guard of a durable run raises its
\* cancel, before or after the tool, or the loss of its lease.
ToolEndsRun ==
    /\ pc = "tool"
    /\ \E how \in {"critical", "cancelled", "failed"}, hint \in Hints :
         /\ how = "critical" => failures >= AbortAfter
         /\ how = "cancelled" => cancelled
         /\ Ended(how, Gathered(history) \o hint)
    /\ UNCHANGED ghosts

Gather ==
    /\ pc = "gather"
    /\ \E hint \in Hints : history' = Gathered(history) \o hint
    /\ pc' = "top" /\ results' = User({})
    /\ UNCHANGED <<msgVars, runStart, turn, request, promptAt, answer, index,
                   failures, cancelled, inbox, ghosts>>

----------------------------------------------------------------------------
Step ==
    \/ Top \/ Request \/ Overflow \/ StreamCancelled \/ StreamFails
    \/ StreamRetried \/ EmptyAnswer
    \/ \E text \in BOOLEAN, n \in 0..MaxCalls : Answer(text, n) \/ Summary(text, n)
    \/ Answered \/ Finish \/ Close \/ Limit
    \/ ToolGate \/ RunTool \/ ToolEndsRun \/ Gather

Next ==
    \/ \E clear \in BOOLEAN : Start(clear)
    \/ Cancel
    \/ \E s \in Steers : Submit(s)
    \/ Step

Spec == Init /\ [][Next]_vars

\* The thread of a run goes on: the provider and the tools answer, time out or
\* fail.  Nobody has to start a run, to cancel or to steer.
\* (A Step is enabled exactly while a run is under way: this is WF_vars(Step),
\* in a form that spares TLC the evaluation of ENABLED.)
FairSpec == Spec /\ ([]<>(pc = "idle") \/ []<><<Step>>_vars)

----------------------------------------------------------------------------
\* What a model call is about to send needs no repair: no redirection, trim or
\* retry inside a run leaves a call without its result, or a result without
\* its call, for the sanitizer to cover up with an invented error.  (With it,
\* the types of the variables.)
NothingToRepair == TypeOK /\ (pc = "call" => Paired(history))

\* The history tells what happened: a call of this run has its tool's own
\* result exactly if the tool ran to its end.
ResultsTellTheTruth ==
    \A i \in DOMAIN history : \A c \in DOMAIN history[i].results :
        c[1] = run => (history[i].results[c] = "real") = (c \in ran)

\* Steering is neither lost nor repeated: a run that completes has put every
\* instruction it accepted before the model, also one that came in as it was
\* finishing; and a client that retries never redirects one run twice.  (A
\* cancel that comes before the summary completes the run without asking.)
AcceptedSteeringIsShown ==
    /\ pc = "idle" /\ outcome = "completed" /\ ~cancelled => inbox.keys \subseteq shown
    /\ \A s \in Steers :
          Cardinality({i \in (runStart + 1)..Len(history) : s \in history[i].texts}) <= 1

\* Where the messages of the last run begin in what the agent keeps
RunIsPublished ==
    LET queries == {i \in DOMAIN messages : "query" \in messages[i].texts}
        first == IF queries = {} THEN 1
                 ELSE CHOOSE i \in queries : \A j \in queries : j <= i
    IN fresh = SubSeq(messages, first, Len(messages))

\* After a cancel at most the tool that had passed its check still runs, and the
\* run hands over all it has added, from its query on, whatever was trimmed
\* before or during it: these are the messages that are stored.
CancelIsOrderly ==
    /\ late <= 1
    /\ pc = "idle" /\ outcome = "cancelled" => RunIsPublished

\* Every run ends, under retries, redirections, cancels and endless tools.
RunEnds == (pc # "idle") ~> (pc = "idle")

=============================================================================
