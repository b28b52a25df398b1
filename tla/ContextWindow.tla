---------------------------- MODULE ContextWindow ----------------------------
(***************************************************************************)
(* What the ReAct loop does to a conversation so that it fits the model:   *)
(* at the top of every round the cap on the number of messages             *)
(* (engine/execution/react/budget.py), then fit_request                    *)
(* (engine/context/fitting.py), which prunes old tool output, has the      *)
(* model summarise the history, and as a last resort cuts the history's    *)
(* text; and once, the recovery after the provider itself says the         *)
(* request is too long.  Each works on what the others left behind.        *)
(*                                                                         *)
(* Tokens and characters are abstracted to one unit, "size".  A message    *)
(* costs its size and an envelope, and the protocol charges it once more.  *)
(***************************************************************************)
EXTENDS Naturals, FiniteSetsExt, SequencesExt

CONSTANTS
    MaxPast,            \* bound: messages of session history
    MaxWindowRounds,          \* bound: model turns of the run
    MaxCallsPerRound,           \* bound: parallel tool calls of a turn
    ContractSizes, RequestSizes, SummarySizes,  \* inputs
    BigResult,          \* input: the size of a large tool result
    HardLimit,          \* CONVERSATION_HARD_LIMIT
    KeepRecent,         \* CONVERSATION_KEEP_RECENT
    ProtectThreshold,   \* PRUNE_PROTECT_THRESHOLD_CHARS
    PruneMin,           \* PRUNE_MIN_CHARS
    SafeBudget,         \* ContextBudget.safe_input_budget
    Trigger,            \* ContextBudget.compaction_trigger
    RejectBudget,       \* the input budget times 0.65
    ToolCost,           \* estimate_tool_schema_tokens, and the fixed protocol cost
    MaxCompactionFailures   \* MAX_COMPACTION_FAILURES

ASSUME WindowAssumption ==
    /\ {MaxPast, MaxWindowRounds, MaxCallsPerRound, BigResult, HardLimit, KeepRecent,
        ProtectThreshold, PruneMin, SafeBudget, Trigger, RejectBudget, ToolCost,
        MaxCompactionFailures} \subseteq Nat
    /\ ContractSizes \cup RequestSizes \cup SummarySizes \subseteq Nat
    /\ 0 < KeepRecent /\ KeepRecent < HardLimit
    /\ Trigger <= SafeBudget /\ RejectBudget < SafeBudget

VARIABLES
    conversation,
    windowStage,              \* "top" of the loop, "sent" to the model, "unfit" or "over"
    compactionFailures,
    recoveries,         \* context_recoveries
    turns               \* history: model turns answered

windowVars == <<conversation, windowStage, compactionFailures, recoveries, turns>>

Message(role, kind, id, n, size) ==
    [role |-> role, kind |-> kind, id |-> id, n |-> n, size |-> size]

Hint == Message("system", "hint", 0, 0, 1)
Note == Message("user", "note", 0, 0, 1)
Elision == Message("system", "elision", 0, 0, 1)
Ack == Message("assistant", "ack", 0, 0, 1)
Past(i) == Message(IF i % 2 = 1 THEN "user" ELSE "assistant", "past", i, 0, 1)
Request(size) == Message("user", "request", 0, 0, size)
CallMessage(id, n) == Message("assistant", "call", id, n, 1)
Result(id, n, size) == Message("tool", "result", id, n, size)

-----------------------------------------------------------------------------
(* Measures: engine/context/budget.py, _receipt_for                        *)

AddSize(sum, m) == sum + m.size
SizeOf(msgs) == FoldLeft(AddSize, 0, msgs)
SizeAt(msgs, places) == MapThenSumSet(LAMBDA i : msgs[i].size, places)
MessageTokens(msgs) == SizeOf(msgs) + Len(msgs)
Estimated(msgs) == MessageTokens(msgs) + Len(msgs) + ToolCost

-----------------------------------------------------------------------------
(* The active turn                                                         *)

IsRequestTurn(m) == m.role = "user" /\ m.kind # "note"

\* The number of leading system messages.
Leading(msgs) ==
    CHOOSE n \in 0 .. Len(msgs) :
        /\ \A i \in 1 .. n : msgs[i].role = "system"
        /\ n < Len(msgs) => msgs[n + 1].role # "system"

\* The place of the newest request; there always is one.
ActiveStart(msgs) == Max({i \in DOMAIN msgs : IsRequestTurn(msgs[i])})

Protected(msgs) == SubSeq(msgs, 1, Leading(msgs))
History(msgs) == SubSeq(msgs, Leading(msgs) + 1, ActiveStart(msgs) - 1)
Active(msgs) == SubSeq(msgs, ActiveStart(msgs), Len(msgs))

-----------------------------------------------------------------------------
(* trim_conversation_to_message_cap                                        *)

\* Mutant: a cut may fall between the results of a round.
IsRoundBoundaryLoose(m) == m.role # "tool"

IsRoundBoundary(m) == m.role = "assistant" \/ IsRequestTurn(m)

\* The leading contract without the marks that earlier cuts have left.
HeadLength(msgs) ==
    CHOOSE n \in 0 .. Leading(msgs) :
        /\ \A i \in n + 1 .. Leading(msgs) : msgs[i].kind = "elision"
        /\ n > 0 => msgs[n].kind # "elision"

\* A cut before the request must leave a tail that opens with a user turn.
Aligned(msgs, cut) ==
    IF ActiveStart(msgs) <= cut THEN cut
    ELSE Min({c \in cut .. ActiveStart(msgs) - 1 : IsRequestTurn(msgs[c + 1])})

ElisionNote(dropped) == IF dropped = {} THEN <<>> ELSE <<Elision>>

\* What is left when the messages between the head and the cut are dropped: a
\* request among them is pinned to the head.
KeptTail(msgs, cut) ==
    LET pinned == ActiveStart(msgs) <= cut
        dropped == (HeadLength(msgs) + 1 .. cut) \ {ActiveStart(msgs)}
    IN  SubSeq(msgs, 1, HeadLength(msgs))
        \o (IF pinned THEN <<msgs[ActiveStart(msgs)]>> ELSE <<>>)
        \o ElisionNote(dropped)
        \o SubSeq(msgs, cut + 1, Len(msgs))

MessageCap(msgs) ==
    LET wanted == Len(msgs) - KeepRecent
        back == Max({HeadLength(msgs)} \union
                    {c \in HeadLength(msgs) .. wanted : IsRoundBoundary(msgs[c + 1])})
        forwards == {c \in wanted .. Len(msgs) - 1 : IsRoundBoundary(msgs[c + 1])}
        Cut(c) == KeptTail(msgs, Aligned(msgs, c))
    IN  IF Len(msgs) <= HardLimit THEN msgs
        ELSE IF Len(Cut(back)) < Len(msgs) THEN Cut(back)
        ELSE IF forwards # {} /\ Len(Cut(Min(forwards))) < Len(msgs) THEN Cut(Min(forwards))
        ELSE msgs

-----------------------------------------------------------------------------
(* prune_tool_outputs                                                      *)

\* The tool output that is newer than a message, stubs included.
OutputAfter(msgs, i) ==
    SizeAt(msgs, {j \in i + 1 .. Len(msgs) : msgs[j].role = "tool"})

\* Walking back from the newest result to the first stub: what comes after
\* enough newer output is old.
OldOutput(msgs) ==
    {i \in DOMAIN msgs :
        /\ msgs[i].kind = "result"
        /\ \A j \in i .. Len(msgs) : msgs[j].kind # "stub"
        /\ OutputAfter(msgs, i) > ProtectThreshold}

Stub(m) == [m EXCEPT !.kind = "stub", !.size = 1]

Pruned(msgs) ==
    LET old == OldOutput(msgs)
    IN  IF SizeAt(msgs, old) < PruneMin THEN msgs
        ELSE [i \in DOMAIN msgs |-> IF i \in old THEN Stub(msgs[i]) ELSE msgs[i]]

-----------------------------------------------------------------------------
(* compact_history and trim_conversation_for_context_limit                 *)

\* The model's summary: of some size, or unusable (it raised, was cut off,
\* refused or malformed, or did not fit the model either).
Unusable == 0

Compacted(msgs, summary) ==
    IF History(msgs) = <<>> \/ summary = Unusable THEN msgs
    ELSE Protected(msgs) \o <<Message("user", "summary", 0, 0, summary), Ack>> \o Active(msgs)

\* The newest part of the history's text that still fits, as one user message
\* with an acknowledgement.  The bisection finds the longest: cost grows with
\* the text.
CutHistory(msgs, budget) ==
    LET Recovered(keep) == Protected(msgs)
                           \o <<Message("user", "recovery", 0, 0, 1 + keep), Ack>> \o Active(msgs)
        fitting == {keep \in 0 .. SizeOf(History(msgs)) :
                        MessageTokens(Recovered(keep)) <= budget}
    IN  IF MessageTokens(msgs) <= budget THEN msgs
        ELSE IF fitting = {} THEN Protected(msgs) \o Active(msgs)
        ELSE Recovered(Max(fitting))

-----------------------------------------------------------------------------
(* fit_request                                                             *)

\* What the protocol will charge for the recovered shape: the active work and
\* the two messages put before it.
ProtocolReserve(msgs) == Len(Protected(msgs) \o Active(msgs)) + 2

MessageBudget(msgs) ==
    IF SafeBudget <= ToolCost + ProtocolReserve(msgs) THEN 1
    ELSE SafeBudget - ToolCost - ProtocolReserve(msgs)

\* Mutant: the protocol's own cost is not remeasured.
FitsByMessages(msgs) == MessageTokens(msgs) + ToolCost <= SafeBudget
FitsBudget(msgs) == Estimated(msgs) <= SafeBudget

Fitting(msgs, fits, failed) == [msgs |-> msgs, fits |-> fits, failed |-> failed]

FitRequest(msgs, summary, mayCompact) ==
    LET pruned == Pruned(msgs)
        tries == mayCompact /\ Estimated(pruned) >= Trigger
        compacted == IF tries THEN Compacted(pruned, summary) ELSE pruned
        failed == tries /\ compacted = pruned
        recovered == CutHistory(compacted, MessageBudget(compacted))
    IN  IF Estimated(Protected(msgs)) >= SafeBudget THEN Fitting(msgs, FALSE, FALSE)
        ELSE IF ~ FitsBudget(Protected(pruned) \o Active(pruned)) THEN Fitting(pruned, FALSE, FALSE)
        ELSE IF Estimated(pruned) < Trigger THEN Fitting(pruned, TRUE, FALSE)
        ELSE IF FitsBudget(compacted) THEN Fitting(compacted, TRUE, failed)
        ELSE Fitting(recovered, FitsBudget(recovered), failed)

-----------------------------------------------------------------------------
(* The loop                                                                *)

\* The contract, session history that opens with the user, and the request.
WindowInit ==
    /\ \E c \in ContractSizes, r \in RequestSizes, past \in 0 .. MaxPast :
          conversation = <<Message("system", "contract", 0, 0, c)>>
                         \o [i \in 1 .. past |-> Past(i)] \o <<Request(r)>>
    /\ windowStage = "top"
    /\ compactionFailures = 0 /\ recoveries = 0 /\ turns = 0

Fit(summary) ==
    LET capped == MessageCap(conversation)
        fit == FitRequest(capped, summary, compactionFailures < MaxCompactionFailures)
    IN  /\ windowStage = "top"
        /\ conversation' = fit.msgs
        /\ windowStage' = IF fit.fits THEN "sent" ELSE "unfit"
        /\ compactionFailures' = IF fit.failed THEN compactionFailures + 1
                                 ELSE compactionFailures
        /\ UNCHANGED <<recoveries, turns>>

\* What one call leaves: its result, a hint after it, a hook's warning before
\* it, or the clock's note in place of a volatile result.
Shapes == {"small", "large", "failed", "warned", "clock"}
Messages(id, n, shape) ==
    CASE shape = "small" -> <<Result(id, n, 1)>>
      [] shape = "large" -> <<Result(id, n, BigResult)>>
      [] shape = "failed" -> <<Result(id, n, 1), Hint>>
      [] shape = "warned" -> <<Hint, Result(id, n, 1)>>
      [] shape = "clock" -> <<Result(id, n, 1), Note>>

ToolRound(shapes) ==
    /\ windowStage = "sent" /\ turns < MaxWindowRounds
    /\ turns' = turns + 1
    /\ conversation' = conversation \o <<CallMessage(turns + 1, Len(shapes))>>
                       \o FlattenSeq([n \in DOMAIN shapes |-> Messages(turns + 1, n, shapes[n])])
    /\ windowStage' = "top"
    /\ UNCHANGED <<compactionFailures, recoveries>>

\* An answer cut off at the length limit, or one that only promises to go on.
Continuation ==
    /\ windowStage = "sent" /\ turns < MaxWindowRounds
    /\ turns' = turns + 1
    /\ conversation' = conversation \o <<Message("assistant", "part", turns + 1, 0, 1), Hint>>
    /\ windowStage' = "top"
    /\ UNCHANGED <<compactionFailures, recoveries>>

ContextLimit ==
    /\ windowStage = "sent"
    /\ IF recoveries >= 1
       THEN windowStage' = "over" /\ UNCHANGED <<conversation, recoveries>>
       ELSE /\ conversation' = CutHistory(conversation, RejectBudget)
            /\ recoveries' = recoveries + 1
            /\ windowStage' = "top"
    /\ UNCHANGED <<compactionFailures, turns>>

WindowNext ==
    \/ \E summary \in SummarySizes \union {Unusable} : Fit(summary)
    \/ \E calls \in 1 .. MaxCallsPerRound : \E shapes \in [1 .. calls -> Shapes] : ToolRound(shapes)
    \/ Continuation
    \/ ContextLimit

WindowSpec == WindowInit /\ [][WindowNext]_windowVars

-----------------------------------------------------------------------------
(* Properties: of every request the model is sent                          *)

Sent == windowStage = "sent"

\* The request being carried out is in it, once and verbatim, and no later user
\* message takes its place, whatever rounds of cap, prune, summary and cut the
\* conversation has been through.
RequestSurvives ==
    Sent => /\ Cardinality({i \in DOMAIN conversation : conversation[i].kind = "request"}) = 1
            /\ conversation[ActiveStart(conversation)].kind = "request"

\* Every tool result follows the call it answers and every call has all its
\* results: the provider refuses anything else, and that ends the run.
PairsStayWhole ==
    Sent =>
      \A i \in DOMAIN conversation :
        /\ conversation[i].role = "tool" =>
              \E j \in 1 .. i - 1 : /\ conversation[j].kind = "call"
                                    /\ conversation[j].id = conversation[i].id
                                    /\ \A k \in j + 1 .. i : conversation[k].role # "assistant"
        /\ conversation[i].kind = "call" =>
              \A n \in 1 .. conversation[i].n :
                 \E j \in i + 1 .. Len(conversation) :
                    /\ conversation[j].role = "tool"
                    /\ conversation[j].id = conversation[i].id /\ conversation[j].n = n

\* After the system messages it opens with a user message, as Anthropic demands.
OpensWithUser ==
    Sent => conversation[Leading(conversation) + 1].role = "user"

\* What is announced to fit does fit, whichever path made it fit.
SentFits == Sent => Estimated(conversation) <= SafeBudget

\* "The final fitter fails closed when that request itself exceeds capacity":
\* a run gives up only when the contract and the active turn alone are too much.
UnfitIsTooLarge ==
    windowStage = "unfit" =>
        Estimated(Protected(conversation) \o Active(conversation)) > SafeBudget
        \/ Estimated(Protected(conversation)) >= SafeBudget

\* The newest tool result reaches the model as the tool returned it.
NewestResultIsWhole ==
    Sent => LET results == {i \in DOMAIN conversation : conversation[i].role = "tool"}
            IN  results # {} => conversation[Max(results)].kind = "result"

\* A cut leaves one mark, however many cuts there have been.
OneElision ==
    Sent => Cardinality({i \in DOMAIN conversation : conversation[i].kind = "elision"}) <= 1

\* Compression keeps what the conversation means: the request of the turn, calls
\* with their results, and a first message of the user.
WindowKeepsMeaning == RequestSurvives /\ PairsStayWhole /\ OpensWithUser

\* Compression gives room and no more than it must: what is sent fits, the
\* newest results are whole, and what was elided is elided once.
WindowFits == SentFits /\ NewestResultIsWhole /\ OneElision

=============================================================================
