------------------------------ MODULE ReactLoop ------------------------------
(***************************************************************************)
(* react_event_loop of engine/execution/react/react_loop.py: the requests  *)
(* to the model, the drafts a streaming client sees while a response is    *)
(* still provisional, the tool calls of a round and the budgets that end   *)
(* the loop.                                                               *)
(*                                                                         *)
(* The text of response n is the fragment n; a client renders a draft      *)
(* until it is retracted, and renders a TEXT_DELTA that is not marked      *)
(* already_streamed.  What a call does is its effect on the round; the     *)
(* waiting for an approval is the subject of ApprovalFlow.  Hints that     *)
(* only add a message (consecutive_errors, repeated successes, hook        *)
(* warnings) and the fitting of the request are left out.                  *)
(***************************************************************************)
EXTENDS Naturals

CONSTANTS
    MaxIters,               \* max_iters
    MaxRecovery,            \* MAX_FAILED_TOOL_RECOVERY_ITERS
    MaxPreflight,           \* MAX_PREFLIGHT_CHALLENGE_ITERS
    MaxRepairs,             \* MAX_INCOMPLETE_FINAL_REPAIRS
    MaxContinuations,       \* MAX_LENGTH_CONTINUATIONS
    MaxIdentical,           \* MAX_IDENTICAL_TOOL_ERRORS
    ErrorKeys,              \* (tool, start of the error text)
    NoKey,                  \* last_error_key = None
    MaxCalls                \* bound: tool calls in one response

ASSUME BudgetAssumption ==
    /\ MaxIters \in Nat \ {0} /\ MaxRecovery \in Nat \ {0} /\ MaxPreflight \in Nat \ {0}
    /\ MaxRepairs \in Nat /\ MaxContinuations \in Nat /\ MaxIdentical \in Nat \ {0}
    /\ MaxCalls \in Nat
    /\ NoKey \notin ErrorKeys

MaxContextRecoveries == 1

VARIABLES
    streams,    \* the model streams (llm.stream)
    lifecycle,  \* provisional_lifecycle
    pc,         \* where the loop is
    round,      \* responses asked for so far
    saw,        \* saw_content_event: this stream has delivered something
    texted,     \* ... and some of it was text
    resp,       \* the response in hand
    drafts,     \* active_provision_ids
    parts,      \* final_text_parts
    todo,       \* calls of this round still to be handled
    unpaired,   \* calls in the conversation without a tool message
    had,        \* what the round had: "success", "failure", "preflight"
    productive, recovery, preflight, repairs, continuations, recoveries,
    useful,     \* had_successful_tool
    lastKey, identical,
    outcome,    \* how the loop ended
    shown,      \* client: fragments rendered for good
    doubled,    \* client: fragments rendered more than once
    final,      \* fragments of the text that is delivered, hence persisted
    since       \* history: last round that ended in tools or in a repair

budgets == <<productive, recovery, preflight, repairs, continuations, recoveries>>
client == <<shown, doubled, final>>
errors == <<useful, lastKey, identical>>
mode == <<streams, lifecycle>>
vars == <<mode, pc, round, saw, texted, resp, drafts, parts, todo, unpaired, had, budgets,
          errors, outcome, client, since>>

\* finish_reason; "stop" also stands for the reasons no branch tests (tool_calls, None).
Finishes == {"stop", "length", "content_filter", "error", "other"}
Responses == [text : BOOLEAN, streamed : BOOLEAN, calls : 0..MaxCalls,
              finish : Finishes, promise : BOOLEAN]
Fragments == [id : Nat, streamed : BOOLEAN]
NoResponse == [text |-> FALSE, streamed |-> FALSE, calls |-> 0, finish |-> "stop",
               promise |-> FALSE]

Init ==
    /\ streams \in BOOLEAN /\ lifecycle \in BOOLEAN
    /\ pc = "fit"
    /\ round = 0
    /\ saw = FALSE /\ texted = FALSE
    /\ resp = NoResponse
    /\ drafts = {} /\ parts = {}
    /\ todo = {} /\ unpaired = {} /\ had = {}
    /\ productive = 0 /\ recovery = 0 /\ preflight = 0
    /\ repairs = 0 /\ continuations = 0 /\ recoveries = 0
    /\ useful = FALSE
    /\ lastKey = NoKey /\ identical = 0
    /\ outcome = "none"
    /\ shown = {} /\ doubled = {} /\ final = {}
    /\ since = 0

-----------------------------------------------------------------------------
(* What the client sees.                                                   *)

\* TEXT_DELTA that is to be rendered.
Render(ids) ==
    /\ shown' = shown \cup ids
    /\ doubled' = doubled \cup (shown \cap ids)

Ids(ps) == {part.id : part \in ps}

End(how) == pc' = "end" /\ outcome' = how
Again == pc' = "fit" /\ UNCHANGED outcome

\* The loop leaves the response behind: nothing of the round is pending.
Dropped == resp' = NoResponse /\ saw' = FALSE /\ texted' = FALSE

\* for provision_id in active_provision_ids: yield retract; clear()
Retract == drafts' = {}

\* Mutant: one streamed fragment is enough to call the join streamed.
AllStreamedAny(ps) == \E part \in ps : part.streamed

\* _final_text_delivery: did the client get every fragment as a stream?
AllStreamed(ps) == \A part \in ps : part.streamed

\* _final_text_events: commit the drafts, or retract them and send the join.
Deliver(ps) ==
    /\ Retract
    /\ Render(IF AllStreamed(ps) THEN drafts ELSE Ids(ps))
    /\ final' = Ids(ps)

\* An incomplete end without a lifecycle pair: drafts go, plain text is sent.
DeliverUnlessDrafted(ps) ==
    /\ Retract
    /\ IF drafts # {} \/ ps = {} THEN UNCHANGED client
       ELSE /\ Render(IF AllStreamed(ps) THEN {} ELSE Ids(ps))
            /\ final' = Ids(ps)

-----------------------------------------------------------------------------
(* One request.                                                            *)

\* trim, fit_request: the request fits and is sent.
Fit ==
    /\ pc = "fit" /\ productive < MaxIters
    /\ pc' = "ask"
    /\ round' = round + 1
    /\ UNCHANGED <<mode, saw, texted, resp, drafts, parts, todo, unpaired, had, budgets, errors,
                   outcome, client, since>>

\* It does not fit whatever is trimmed: INCOMPLETE context_capacity_exhausted.
Unfit ==
    /\ pc = "fit" /\ productive < MaxIters
    /\ Retract
    /\ End("incomplete")
    /\ UNCHANGED <<mode, round, saw, texted, resp, parts, todo, unpaired, had, budgets, errors,
                   client, since>>

\* The while condition fails: INCOMPLETE tool_call_budget.
BudgetSpent ==
    /\ pc = "fit" /\ productive >= MaxIters
    /\ Retract
    /\ End("incomplete")
    /\ UNCHANGED <<mode, round, saw, texted, resp, parts, todo, unpaired, had, budgets, errors,
                   client, since>>

\* A delta of the stream; text opens a draft of this response.
StreamDelta(isText) ==
    /\ pc = "ask" /\ streams
    /\ ~ saw \/ (isText /\ ~ texted)
    /\ saw' = TRUE
    /\ texted' = (texted \/ isText)
    /\ drafts' = IF isText /\ lifecycle THEN drafts \cup {round} ELSE drafts
    /\ UNCHANGED <<mode, pc, round, resp, parts, todo, unpaired, had, budgets, errors, outcome,
                   client, since>>

\* accumulator.build(): tool calls can only come from deltas.
StreamDone(calls, finish, promise) ==
    /\ pc = "ask" /\ streams
    /\ calls > 0 => saw
    /\ pc' = "decide"
    /\ resp' = [text |-> texted, streamed |-> texted, calls |-> calls, finish |-> finish,
                promise |-> promise]
    /\ UNCHANGED <<mode, round, saw, texted, drafts, parts, todo, unpaired, had, budgets, errors,
                   outcome, client, since>>

\* llm.chat: the model does not stream, or the stream failed before it began.
ChatDone(text, calls, finish, promise) ==
    /\ pc = "chat" \/ (pc = "ask" /\ ~ streams)
    /\ pc' = "decide"
    /\ resp' = [text |-> text, streamed |-> FALSE, calls |-> calls, finish |-> finish,
                promise |-> promise]
    /\ UNCHANGED <<mode, round, saw, texted, drafts, parts, todo, unpaired, had, budgets, errors,
                   outcome, client, since>>

\* The provider rejects the request as too long; once, the loop trims and retries.
StreamContextLimit ==
    /\ pc = "ask" /\ streams
    /\ Retract
    /\ IF recoveries >= MaxContextRecoveries
       THEN End("incomplete") /\ UNCHANGED recoveries
       ELSE Again /\ recoveries' = recoveries + 1
    /\ Dropped
    /\ UNCHANGED <<mode, round, parts, todo, unpaired, had, productive, recovery, preflight,
                   repairs, continuations, errors, client, since>>

ChatContextLimit ==
    /\ pc = "chat" \/ (pc = "ask" /\ ~ streams)
    /\ IF recoveries >= MaxContextRecoveries
       THEN End("incomplete") /\ UNCHANGED recoveries
       ELSE Again /\ recoveries' = recoveries + 1
    /\ Dropped
    /\ UNCHANGED <<mode, round, drafts, parts, todo, unpaired, had, productive, recovery, preflight,
                   repairs, continuations, errors, client, since>>

\* Any other error of the stream: fall back to chat only when the client has
\* seen nothing of this response and no earlier draft is open.
StreamError ==
    /\ pc = "ask" /\ streams
    /\ Retract
    /\ IF saw \/ drafts # {} THEN End("raised") ELSE pc' = "chat" /\ UNCHANGED outcome
    /\ UNCHANGED <<mode, round, saw, texted, resp, parts, todo, unpaired, had, budgets, errors,
                   client, since>>

\* build() rejects incomplete calls, or chat itself raises.
ResponseError ==
    /\ \/ pc = "ask" /\ streams /\ saw /\ Retract
       \/ pc = "ask" /\ ~ streams /\ UNCHANGED drafts
       \/ pc = "chat" /\ UNCHANGED drafts
    /\ End("raised")
    /\ UNCHANGED <<mode, round, saw, texted, resp, parts, todo, unpaired, had, budgets, errors,
                   client, since>>

-----------------------------------------------------------------------------
(* What the loop does with the response.                                   *)

Part == [id |-> round, streamed |-> resp.streamed]
NewParts == IF resp.text THEN parts \cup {Part} ELSE parts

\* Tool calls: every pending draft is withdrawn and the round begins.
StartRound ==
    /\ pc = "decide" /\ resp.calls > 0 /\ resp.finish = "stop"
    /\ Retract
    /\ parts' = {}
    /\ pc' = "tools"
    /\ todo' = 1..resp.calls
    /\ unpaired' = unpaired \cup 1..resp.calls
    /\ had' = {}
    /\ since' = round
    /\ Dropped
    /\ UNCHANGED <<mode, round, budgets, errors, outcome, client>>

\* Tool calls of a response that was cut off, filtered or failed are not run;
\* its text is sent, unmarked because the draft was withdrawn.
RefuseRound ==
    /\ pc = "decide" /\ resp.calls > 0 /\ resp.finish # "stop"
    /\ Retract
    /\ parts' = {}
    /\ IF resp.text THEN Render({round}) /\ final' = {round} ELSE UNCHANGED client
    /\ End(IF resp.finish = "error" THEN "failed" ELSE "incomplete")
    /\ Dropped
    /\ UNCHANGED <<mode, round, todo, unpaired, had, budgets, errors, since>>

\* The output limit: ask for the rest, a bounded number of times.
Continue ==
    /\ pc = "decide" /\ resp.calls = 0 /\ resp.finish = "length"
    /\ continuations < MaxContinuations
    /\ continuations' = continuations + 1
    /\ parts' = NewParts
    /\ Again
    /\ Dropped
    /\ UNCHANGED <<mode, round, drafts, todo, unpaired, had, productive, recovery, preflight, repairs,
                   recoveries, errors, client, since>>

ContinuationsSpent ==
    /\ pc = "decide" /\ resp.calls = 0 /\ resp.finish = "length"
    /\ continuations >= MaxContinuations
    /\ parts' = NewParts
    /\ IF NewParts # {} THEN Deliver(NewParts) ELSE UNCHANGED <<drafts, client>>
    /\ End("incomplete")
    /\ Dropped
    /\ UNCHANGED <<mode, round, todo, unpaired, had, budgets, errors, since>>

\* content_filter, or a finish reason the adapter does not know.
Withheld ==
    /\ pc = "decide" /\ resp.calls = 0 /\ resp.finish \in {"content_filter", "other"}
    /\ parts' = NewParts
    /\ DeliverUnlessDrafted(NewParts)
    /\ End("incomplete")
    /\ Dropped
    /\ UNCHANGED <<mode, round, todo, unpaired, had, budgets, errors, since>>

ProviderFailed ==
    /\ pc = "decide" /\ resp.calls = 0 /\ resp.finish = "error"
    /\ parts' = NewParts
    /\ Retract
    /\ End("failed")
    /\ Dropped
    /\ UNCHANGED <<mode, round, todo, unpaired, had, budgets, errors, client, since>>

\* _should_repair_incomplete_final
NeedsRepair == useful /\ repairs < MaxRepairs /\ NewParts # {} /\ resp.promise

\* The answer only promises to go on: withdraw it and ask again.
Repair ==
    /\ pc = "decide" /\ resp.calls = 0 /\ resp.finish = "stop"
    /\ NeedsRepair
    /\ Retract
    /\ repairs' = repairs + 1
    /\ parts' = {}
    /\ since' = round
    /\ Again
    /\ Dropped
    /\ UNCHANGED <<mode, round, todo, unpaired, had, productive, recovery, preflight, continuations,
                   recoveries, errors, client>>

\* The final answer, or INCOMPLETE empty_model_response.
Answer ==
    /\ pc = "decide" /\ resp.calls = 0 /\ resp.finish = "stop"
    /\ ~ NeedsRepair
    /\ parts' = NewParts
    /\ IF NewParts # {} THEN Deliver(NewParts) /\ End("answered")
       ELSE UNCHANGED <<drafts, client>> /\ End("incomplete")
    /\ Dropped
    /\ UNCHANGED <<mode, round, todo, unpaired, had, budgets, errors, since>>

-----------------------------------------------------------------------------
(* One tool call of the round: c gets its tool message.                    *)

roundVars == <<mode, round, saw, texted, resp, drafts, parts, budgets, client, since>>

\* The next call of the round is handled ...
Handle(c) ==
    /\ pc = "tools"
    /\ c \in todo /\ \A d \in todo : c <= d
    /\ todo' = todo \ {c}

\* ... and gets its tool message.
Reply(c) == unpaired' = unpaired \ {c}

Succeeds == had' = had \cup {"success"} /\ UNCHANGED <<pc, outcome>>
Fails == had' = had \cup {"failure"}

\* get_tool_schema: a schema that was found counts for the round only.
LoadSchema(c, found) ==
    /\ Handle(c) /\ Reply(c)
    /\ IF found THEN Succeeds ELSE Fails /\ UNCHANGED <<pc, outcome>>
    /\ UNCHANGED <<errors, roundVars>>

\* A real success also clears the identical-error breaker.
Clears == useful' = TRUE /\ lastKey' = NoKey /\ identical' = 0

\* render_ui: validated and shown, or disabled, blocked, invalid.
RenderUi(c, valid) ==
    /\ Handle(c) /\ Reply(c)
    /\ IF valid THEN Succeeds /\ Clears
       ELSE Fails /\ UNCHANGED <<pc, outcome, errors>>
    /\ UNCHANGED roundVars

\* _repeats_of and the breaker that ends a loop of identical refusals.
Repeats(key) == IF key = lastKey THEN identical + 1 ELSE 1

FailsWith(key) ==
    /\ Fails
    /\ lastKey' = key
    /\ identical' = Repeats(key)
    /\ UNCHANGED useful
    /\ IF Repeats(key) >= MaxIdentical THEN End("incomplete") ELSE UNCHANGED <<pc, outcome>>

\* The tool is not visible to this registry.
Unavailable(c, key) ==
    /\ Handle(c) /\ Reply(c)
    /\ FailsWith(key)
    /\ UNCHANGED roundVars

\* The fact gate challenges the call before it may run.
Challenge(c) ==
    /\ Handle(c) /\ Reply(c)
    /\ had' = had \cup {"preflight"}
    /\ UNCHANGED <<pc, outcome, errors, roundVars>>

\* The guard blocks the call, or approval is needed and there is no broker.
Block(c) ==
    /\ Handle(c) /\ Reply(c)
    /\ Fails
    /\ UNCHANGED <<pc, outcome, errors, roundVars>>

\* The user denied the approval, or nobody answered in time.
Denied(c, key) ==
    /\ Handle(c) /\ Reply(c)
    /\ FailsWith(key)
    /\ UNCHANGED roundVars

\* Mutant: a veto leaves the call without its tool message.
HookVetoUnpaired(c, key) ==
    /\ Handle(c)
    /\ FailsWith(key)
    /\ UNCHANGED <<unpaired, roundVars>>

\* A pre-tool hook denies the call.
HookVeto(c, key) ==
    /\ Handle(c) /\ Reply(c)
    /\ FailsWith(key)
    /\ UNCHANGED roundVars

\* tool_registry.execute returned, with a result or with an error.
Execute(c) ==
    /\ Handle(c) /\ Reply(c)
    /\ Succeeds /\ Clears
    /\ UNCHANGED roundVars

ExecuteFails(c, key) ==
    /\ Handle(c) /\ Reply(c)
    /\ FailsWith(key)
    /\ UNCHANGED roundVars

-----------------------------------------------------------------------------

\* The budgets a finished round is charged to.
EndRound ==
    LET challenges == preflight + IF "preflight" \in had THEN 1 ELSE 0
        spent == "preflight" \in had /\ challenges >= MaxPreflight
        charged == ~ spent /\ "success" \notin had /\ "failure" \in had
    IN  /\ pc = "tools" /\ todo = {}
        /\ preflight' = challenges
        /\ productive' = IF ~ spent /\ "success" \in had THEN productive + 1 ELSE productive
        /\ recovery' = IF charged THEN recovery + 1 ELSE recovery
        /\ IF spent \/ (charged /\ recovery + 1 >= MaxRecovery) THEN End("incomplete") ELSE Again
        /\ had' = {}
        /\ UNCHANGED <<mode, round, saw, texted, resp, drafts, parts, todo, unpaired, repairs,
                       continuations, recoveries, errors, client, since>>

CallStep(c) ==
    \/ \E found \in BOOLEAN : LoadSchema(c, found)
    \/ \E valid \in BOOLEAN : RenderUi(c, valid)
    \/ Challenge(c) \/ Block(c) \/ Execute(c)
    \/ \E key \in ErrorKeys :
          \/ Unavailable(c, key) \/ Denied(c, key) \/ HookVeto(c, key)
          \/ ExecuteFails(c, key)

Next ==
    \/ Fit \/ Unfit \/ BudgetSpent
    \/ \E isText \in BOOLEAN : StreamDelta(isText)
    \/ \E calls \in 0..MaxCalls, finish \in Finishes, promise \in BOOLEAN :
          \/ StreamDone(calls, finish, promise)
          \/ \E text \in BOOLEAN : ChatDone(text, calls, finish, promise)
    \/ StreamContextLimit \/ ChatContextLimit \/ StreamError \/ ResponseError
    \/ StartRound \/ RefuseRound \/ Continue \/ ContinuationsSpent \/ Withheld
    \/ ProviderFailed \/ Repair \/ Answer
    \/ \E c \in 1..MaxCalls : CallStep(c)
    \/ EndRound

Spec == Init /\ [][Next]_vars

-----------------------------------------------------------------------------
FlagsOK ==
    /\ streams \in BOOLEAN /\ lifecycle \in BOOLEAN
    /\ saw \in BOOLEAN /\ texted \in BOOLEAN
    /\ useful \in BOOLEAN

CountersOK ==
    /\ round \in Nat /\ since \in Nat
    /\ productive \in 0..MaxIters /\ recovery \in 0..MaxRecovery
    /\ preflight \in 0..MaxPreflight /\ repairs \in 0..MaxRepairs
    /\ continuations \in 0..MaxContinuations /\ recoveries \in 0..MaxContextRecoveries
    /\ identical \in 0..MaxIdentical

ShapesOK ==
    /\ pc \in {"fit", "ask", "chat", "decide", "tools", "end"}
    /\ resp \in Responses
    /\ drafts \subseteq Nat
    /\ parts \subseteq Fragments
    /\ todo \subseteq 1..MaxCalls /\ unpaired \subseteq 1..MaxCalls
    /\ had \subseteq {"success", "failure", "preflight"}
    /\ lastKey \in ErrorKeys \cup {NoKey}
    /\ outcome \in {"none", "answered", "incomplete", "failed", "raised"}
    /\ shown \subseteq Nat /\ doubled \subseteq Nat /\ final \subseteq Nat

\* No counter passes its budget, the identical-error breaker included; drafts
\* and the response in hand keep their shape.
TypeOK == FlagsOK /\ CountersOK /\ ShapesOK

\* The loop always ends: whatever the model answers and the tools do, it asks
\* at most this often, because every way back to the top is charged to a
\* budget that only grows.
RoundsBounded ==
    round <= MaxIters + MaxRecovery + MaxPreflight + MaxRepairs + MaxContinuations
             + MaxContextRecoveries

\* No request leaves with a tool call that has no tool message: every path of
\* a call, blocked ones included, answers it (the provider rejects the whole
\* next request otherwise).
EveryCallAnswered ==
    pc \in {"fit", "ask", "chat", "decide"} => unpaired = {}

\* When the loop ends, by return or by exception, no draft stays open on the
\* client: each was committed or retracted.
NoOpenDraft == pc = "end" => drafts = {}

\* An answer is what the model said since it last used a tool or was sent back
\* to work, and it is not empty: neither silence after a tool call nor a
\* fragment from before it is delivered as the answer.
AnswerIsFromThisTurn ==
    outcome = "answered" => final # {} /\ \A n \in final : n > since

\* What the client has rendered at the end is the text that is persisted, each
\* fragment once, unless the provider's context limit interrupted an answer
\* that was being continued.
ShownIsPersisted ==
    pc = "end" /\ lifecycle /\ (recoveries = 0 \/ continuations = 0) =>
        shown = final /\ doubled = {}

\* _final_text_delivery: already_streamed "may only be set when *every*
\* fragment reached the client as a stream": what is persisted was rendered.
PersistedIsShown ==
    outcome = "answered" /\ lifecycle => final \subseteq shown

\* Every request the loop sends is one a provider accepts, and there are only
\* finitely many: each call of an earlier response has its tool message, and
\* the budgets bound the rounds together.
RequestsAreSound == EveryCallAnswered /\ RoundsBounded

\* What the user is left with is the answer: nothing from before the last tool
\* call, nothing still marked provisional, nothing shown that is not persisted.
AnswersAreHonest == AnswerIsFromThisTurn /\ NoOpenDraft /\ ShownIsPersisted

=============================================================================
