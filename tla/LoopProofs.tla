----------------------------- MODULE LoopProofs -----------------------------
(***************************************************************************)
(* Proofs about the two loops of a turn: the one that asks a model and     *)
(* runs its tools (ReactLoop) and the one that walks a chain of skills     *)
(* (Pipeline).                                                             *)
(*                                                                         *)
(* ReactLoop, for every choice of the budgets and of the number of calls   *)
(* in a response: the loop asks the model a bounded number of times, never *)
(* sends a request with an unanswered tool call, leaves no draft open on   *)
(* the client, delivers only text of this turn and persists what the       *)
(* client was shown.                                                       *)
(*                                                                         *)
(* Pipeline, for any routes, chains and backtrack maps, any number of runs *)
(* and any bounds: a walk holds outputs for one request only, and (when an *)
(* edit of a chain can be seen at the node the checkpoint names) exactly   *)
(* those of the nodes it has passed.  The invariant is stated of one run's *)
(* record at a time, because that is what a step changes, and of a         *)
(* checkpoint, wherever it is: in the file, or in the hands of a thread    *)
(* that outlived its run.                                                  *)
(***************************************************************************)
EXTENDS ReactLoop, Pipeline, TLAPS

\* What has been charged to the budgets so far.
Charge == productive + recovery + preflight + repairs + continuations + recoveries

\* A request under way is the only one not yet charged to a budget, and it was
\* sent while there were productive rounds left.
ChargedRounds ==
    /\ pc = "fit" => round <= Charge
    /\ pc \in {"ask", "chat", "decide", "tools"} =>
          round <= Charge + 1 /\ productive < MaxIters
    /\ pc = "end" =>
          round <= Charge \/ (round <= Charge + 1 /\ productive < MaxIters)

\* The loop goes on only below the limits.
BelowLimits ==
    pc # "end" => recovery < MaxRecovery /\ preflight < MaxPreflight /\ identical < MaxIdentical

CountInv == CountersOK /\ ChargedRounds /\ BelowLimits

\* Outside a round every call is paired, within it those already handled; a
\* round that is over had something to charge.
PairedSoFar ==
    /\ pc = "tools" => unpaired = todo
    /\ pc \in {"fit", "ask", "chat", "decide"} => unpaired = {}
    /\ pc = "tools" /\ todo = {} => had # {}

\* An open draft belongs to the answer being collected, the response under way
\* included; where the code does not retract, there is none.
DraftsAreParts ==
    /\ pc \in {"fit", "tools"} => ~ saw /\ ~ texted
    /\ pc = "fit" => drafts \subseteq Ids(parts)
    /\ pc = "ask" => drafts \subseteq Ids(parts) \cup (IF texted THEN {round} ELSE {})
    /\ pc = "decide" => drafts \subseteq Ids(parts) \cup (IF resp.text THEN {round} ELSE {})
    /\ pc \in {"chat", "tools", "end"} \/ ~ streams => drafts = {}

\* The answer being collected began after the last tool call or repair.
FreshParts ==
    /\ since <= round
    /\ pc \in {"ask", "chat", "decide"} => since < round
    /\ pc # "end" => \A part \in parts : since < part.id
    /\ pc # "end" => outcome = "none"
    /\ AnswerIsFromThisTurn

\* The client has drafts, and the provider's context limit did not interrupt
\* a continued answer.
Uninterrupted == lifecycle /\ (recoveries = 0 \/ continuations = 0)

\* Before the end nothing is rendered for good, and what was streamed of the
\* answer being collected is still open on the client.
StreamedIsOpen ==
    /\ pc # "end" => shown = {} /\ doubled = {} /\ final = {}
    /\ pc # "end" /\ continuations = 0 => parts = {}
    /\ pc = "tools" => parts = {}
    /\ pc # "end" /\ Uninterrupted => \A part \in parts : part.streamed => part.id \in drafts
    /\ pc = "ask" /\ texted /\ lifecycle => round \in drafts
    /\ pc = "decide" /\ resp.streamed /\ lifecycle => round \in drafts
    /\ ShownIsPersisted

LoopInv ==
    /\ TypeOK /\ ChargedRounds /\ BelowLimits /\ PairedSoFar
    /\ DraftsAreParts /\ FreshParts /\ StreamedIsOpen

-----------------------------------------------------------------------------
(* Operators.                                                              *)

LEMMA NoResponseType == NoResponse \in Responses
  BY BudgetAssumption DEF NoResponse, Responses, Finishes

LEMMA IdsType == ASSUME NEW ps \in SUBSET Fragments PROVE Ids(ps) \subseteq Nat
  BY DEF Ids, Fragments

LEMMA NewPartsType ==
  ASSUME CountersOK, ShapesOK
  PROVE  NewParts \subseteq Fragments /\ Ids(NewParts) \subseteq Nat
PROOF
  <1>1. Part \in Fragments
    BY DEF Part, Fragments, CountersOK, ShapesOK, Responses
  <1>2. NewParts \subseteq Fragments
    BY <1>1 DEF NewParts, ShapesOK
  <1> QED
    BY <1>2, IdsType

\* The fragments of the answer with the response in hand.
LEMMA NewPartsIds ==
  Ids(NewParts) = Ids(parts) \cup (IF resp.text THEN {round} ELSE {})
PROOF
  <1>1. CASE resp.text
    <2>1. NewParts = parts \cup {Part} /\ Part.id = round
      BY <1>1 DEF NewParts, Part
    <2>2. Ids(parts \cup {Part}) = Ids(parts) \cup {Part.id}
      BY DEF Ids
    <2> QED
      BY <1>1, <2>1, <2>2
  <1>2. CASE ~ resp.text
    BY <1>2 DEF Ids, NewParts
  <1> QED
    BY <1>1, <1>2

\* An end at which nothing was delivered leaves the client as it was.
LEMMA ClosedEmpty ==
  ASSUME shown' = {}, doubled' = {}, final' = {}, pc' = "end" PROVE StreamedIsOpen'
  BY DEF StreamedIsOpen, ShownIsPersisted

-----------------------------------------------------------------------------
(* Each part of the invariant is kept by every step.                       *)

LEMMA FlagsStep == FlagsOK /\ [Next]_vars => FlagsOK'
PROOF
  <1> SUFFICES ASSUME FlagsOK, [Next]_vars PROVE FlagsOK'
    OBVIOUS
  <1> USE DEF FlagsOK, Dropped, mode, errors, roundVars, Clears, FailsWith
  <1>1. CASE UNCHANGED vars
    BY <1>1 DEF vars
  <1>2. CASE Fit \/ Unfit \/ BudgetSpent \/ StreamError \/ ResponseError
    BY <1>2 DEF Fit, Unfit, BudgetSpent, StreamError, ResponseError
  <1>3. ASSUME NEW isText \in BOOLEAN, StreamDelta(isText) PROVE FlagsOK'
    BY <1>3 DEF StreamDelta
  <1>4. ASSUME NEW calls, NEW finish, NEW promise, NEW text,
               StreamDone(calls, finish, promise) \/ ChatDone(text, calls, finish, promise)
        PROVE  FlagsOK'
    BY <1>4 DEF StreamDone, ChatDone
  <1>5. CASE StreamContextLimit \/ ChatContextLimit
    BY <1>5 DEF StreamContextLimit, ChatContextLimit
  <1>6. CASE \/ StartRound \/ RefuseRound \/ Continue \/ ContinuationsSpent \/ Withheld
             \/ ProviderFailed \/ Repair \/ Answer
    BY <1>6 DEF StartRound, RefuseRound, Continue, ContinuationsSpent, Withheld,
                ProviderFailed, Repair, Answer
  <1>7. ASSUME NEW c \in 1..MaxCalls, CallStep(c) PROVE FlagsOK'
    BY <1>7 DEF CallStep, LoadSchema, RenderUi, Challenge, Block, Execute, Unavailable,
                Denied, HookVeto, ExecuteFails
  <1>8. CASE EndRound
    BY <1>8 DEF EndRound
  <1> QED
    BY <1>1, <1>2, <1>3, <1>4, <1>5, <1>6, <1>7, <1>8 DEF Next

LEMMA ShapesStep ==
  FlagsOK /\ CountersOK /\ ShapesOK /\ [Next]_vars => ShapesOK'
PROOF
  <1> SUFFICES ASSUME FlagsOK, CountersOK, ShapesOK, [Next]_vars PROVE ShapesOK'
    OBVIOUS
  <1> USE DEF ShapesOK, CountersOK, End, Again, Retract, Dropped, errors, client
  <1>1. CASE UNCHANGED vars
    BY <1>1 DEF vars
  <1>2. CASE Fit \/ Unfit \/ BudgetSpent \/ StreamError \/ ResponseError
    BY <1>2 DEF Fit, Unfit, BudgetSpent, StreamError, ResponseError
  <1>3. ASSUME NEW isText \in BOOLEAN, StreamDelta(isText) PROVE ShapesOK'
    BY <1>3 DEF StreamDelta
  <1>4. ASSUME NEW calls \in 0..MaxCalls, NEW finish \in Finishes, NEW promise \in BOOLEAN,
               NEW text \in BOOLEAN,
               StreamDone(calls, finish, promise) \/ ChatDone(text, calls, finish, promise)
        PROVE  ShapesOK'
    <2>1. CASE StreamDone(calls, finish, promise)
      <3>1. texted \in BOOLEAN
        BY DEF FlagsOK
      <3>2. resp' \in Responses
        BY <2>1, <3>1 DEF StreamDone, Responses
      <3> QED
        BY <2>1, <3>2 DEF StreamDone
    <2>2. CASE ChatDone(text, calls, finish, promise)
      <3>1. resp' \in Responses
        BY <2>2 DEF ChatDone, Responses
      <3> QED
        BY <2>2, <3>1 DEF ChatDone
    <2> QED
      BY <1>4, <2>1, <2>2
  <1>5. CASE StreamContextLimit \/ ChatContextLimit
    BY <1>5, NoResponseType DEF StreamContextLimit, ChatContextLimit
  <1>6. CASE StartRound
    <2>1. 1..resp.calls \subseteq 1..MaxCalls
      BY BudgetAssumption DEF Responses
    <2> QED
      BY <1>6, <2>1, NoResponseType DEF StartRound
  <1>7. CASE RefuseRound
    BY <1>7, NoResponseType DEF RefuseRound, Render
  <1>8. CASE Continue
    BY <1>8, NewPartsType, NoResponseType DEF Continue
  <1>9. CASE ContinuationsSpent
    BY <1>9, NewPartsType, NoResponseType DEF ContinuationsSpent, Deliver, Render
  <1>10. CASE Withheld
    BY <1>10, NewPartsType, NoResponseType DEF Withheld, DeliverUnlessDrafted, Render
  <1>11. CASE ProviderFailed \/ Repair
    BY <1>11, NewPartsType, NoResponseType DEF ProviderFailed, Repair
  <1>12. CASE Answer
    BY <1>12, NewPartsType, NoResponseType DEF Answer, Deliver, Render
  <1>13. ASSUME NEW c \in 1..MaxCalls,
                \/ \E found \in BOOLEAN : LoadSchema(c, found)
                \/ \E valid \in BOOLEAN : RenderUi(c, valid)
                \/ Challenge(c) \/ Block(c) \/ Execute(c)
         PROVE  ShapesOK'
    BY <1>13 DEF LoadSchema, RenderUi, Challenge, Block, Execute, Handle, Reply, Succeeds,
                 Fails, Clears, roundVars
  <1>14. ASSUME NEW c \in 1..MaxCalls, NEW key \in ErrorKeys,
                Handle(c) /\ Reply(c) /\ FailsWith(key) /\ UNCHANGED roundVars
         PROVE  ShapesOK'
    BY <1>14 DEF Handle, Reply, FailsWith, Fails, roundVars
  <1>15. ASSUME NEW c \in 1..MaxCalls, CallStep(c) PROVE ShapesOK'
    BY <1>13, <1>14, <1>15 DEF CallStep, Unavailable, Denied, HookVeto, ExecuteFails
  <1>16. CASE EndRound
    BY <1>16 DEF EndRound
  <1> QED
    BY <1>1, <1>2, <1>3, <1>4, <1>5, <1>6, <1>7, <1>8, <1>9, <1>10, <1>11, <1>12, <1>15,
       <1>16 DEF Next

\* Every way back to the top of the loop is charged to a budget.
LEMMA CountStep == CountInv /\ ShapesOK /\ PairedSoFar /\ [Next]_vars => CountInv'
PROOF
  <1> SUFFICES ASSUME CountInv, ShapesOK, PairedSoFar, [Next]_vars PROVE CountInv'
    OBVIOUS
  <1> USE BudgetAssumption
      DEF CountInv, CountersOK, ChargedRounds, BelowLimits, Charge, budgets, errors,
          MaxContextRecoveries, End, Again, roundVars
  <1>1. CASE UNCHANGED vars
    BY <1>1 DEF vars
  <1>2. CASE Fit \/ Unfit \/ BudgetSpent \/ StreamError \/ ResponseError
    BY <1>2 DEF Fit, Unfit, BudgetSpent, StreamError, ResponseError
  <1>3. ASSUME NEW isText \in BOOLEAN, StreamDelta(isText) PROVE CountInv'
    BY <1>3 DEF StreamDelta
  <1>4. ASSUME NEW calls, NEW finish, NEW promise, NEW text,
               StreamDone(calls, finish, promise) \/ ChatDone(text, calls, finish, promise)
        PROVE  CountInv'
    BY <1>4 DEF StreamDone, ChatDone
  <1>5. CASE StreamContextLimit \/ ChatContextLimit
    BY <1>5 DEF StreamContextLimit, ChatContextLimit
  <1>6. CASE StartRound \/ RefuseRound \/ ContinuationsSpent \/ Withheld
    BY <1>6 DEF StartRound, RefuseRound, ContinuationsSpent, Withheld
  <1>7. CASE Continue
    BY <1>7 DEF Continue
  <1>8. CASE ProviderFailed \/ Answer
    BY <1>8 DEF ProviderFailed, Answer
  <1>9. CASE Repair
    BY <1>9 DEF Repair, NeedsRepair
  <1>10. ASSUME NEW c \in 1..MaxCalls,
                \/ \E found \in BOOLEAN : LoadSchema(c, found)
                \/ \E valid \in BOOLEAN : RenderUi(c, valid)
                \/ Challenge(c) \/ Block(c) \/ Execute(c)
         PROVE  CountInv'
    BY <1>10 DEF LoadSchema, RenderUi, Challenge, Block, Execute, Succeeds, Clears
  <1>11. ASSUME NEW c \in 1..MaxCalls, NEW key \in ErrorKeys,
                Handle(c) /\ FailsWith(key) /\ UNCHANGED roundVars
         PROVE  CountInv'
    BY <1>11 DEF Handle, FailsWith, Repeats
  <1>12. CASE EndRound
    <2>1. had # {} /\ had \subseteq {"success", "failure", "preflight"}
      BY <1>12 DEF EndRound, PairedSoFar, ShapesOK
    <2> HIDE DEF CountInv
    <2>2. CASE "preflight" \in had /\ preflight + 1 >= MaxPreflight
      BY <1>12, <2>2 DEF EndRound, CountInv
    <2>3. CASE "preflight" \in had /\ ~ (preflight + 1 >= MaxPreflight)
      BY <1>12, <2>3 DEF EndRound, CountInv
    <2>4. CASE "preflight" \notin had /\ "success" \in had
      BY <1>12, <2>4 DEF EndRound, CountInv
    <2>5. CASE "preflight" \notin had /\ "success" \notin had
      <3>1. "failure" \in had
        BY <2>1, <2>5
      <3> QED
        BY <1>12, <2>5, <3>1 DEF EndRound, CountInv
    <2> QED
      BY <2>2, <2>3, <2>4, <2>5
  <1>13. ASSUME NEW c \in 1..MaxCalls, CallStep(c) PROVE CountInv'
    BY <1>10, <1>11, <1>13 DEF CallStep, Unavailable, Denied, HookVeto, ExecuteFails
  <1> QED
    BY <1>1, <1>2, <1>3, <1>4, <1>5, <1>6, <1>7, <1>8, <1>9, <1>12, <1>13 DEF Next

\* Every path of a call answers it.
LEMMA PairedStep == ShapesOK /\ PairedSoFar /\ [Next]_vars => PairedSoFar'
PROOF
  <1> SUFFICES ASSUME ShapesOK, PairedSoFar, [Next]_vars PROVE PairedSoFar'
    OBVIOUS
  <1> USE DEF PairedSoFar, End, Again
  <1>1. CASE UNCHANGED vars
    BY <1>1 DEF vars
  <1>2. CASE Fit \/ Unfit \/ BudgetSpent \/ StreamError \/ ResponseError
    BY <1>2 DEF Fit, Unfit, BudgetSpent, StreamError, ResponseError
  <1>3. ASSUME NEW isText \in BOOLEAN, StreamDelta(isText) PROVE PairedSoFar'
    BY <1>3 DEF StreamDelta
  <1>4. ASSUME NEW calls, NEW finish, NEW promise, NEW text,
               StreamDone(calls, finish, promise) \/ ChatDone(text, calls, finish, promise)
        PROVE  PairedSoFar'
    BY <1>4 DEF StreamDone, ChatDone
  <1>5. CASE StreamContextLimit \/ ChatContextLimit
    BY <1>5 DEF StreamContextLimit, ChatContextLimit
  <1>6. CASE StartRound
    <2>1. 1 \in 1..resp.calls
      BY <1>6 DEF StartRound, ShapesOK, Responses
    <2> QED
      BY <1>6, <2>1 DEF StartRound
  <1>7. CASE RefuseRound \/ Continue \/ ContinuationsSpent \/ Withheld \/ ProviderFailed
             \/ Repair \/ Answer
    BY <1>7 DEF RefuseRound, Continue, ContinuationsSpent, Withheld, ProviderFailed, Repair,
                Answer
  <1>8. ASSUME NEW c \in 1..MaxCalls, CallStep(c) PROVE PairedSoFar'
    <2>1. pc = "tools" /\ todo' = todo \ {c} /\ unpaired' = unpaired \ {c}
      BY <1>8 DEF CallStep, LoadSchema, RenderUi, Challenge, Block, Execute, Unavailable,
                  Denied, HookVeto, ExecuteFails, Handle, Reply
    <2>2. had' # {} /\ pc' \in {"tools", "end"}
      BY <1>8, <2>1 DEF CallStep, LoadSchema, RenderUi, Challenge, Block, Execute,
                  Unavailable, Denied, HookVeto, ExecuteFails, Succeeds, Fails, FailsWith
    <2> QED
      BY <2>1, <2>2
  <1>9. CASE EndRound
    BY <1>9 DEF EndRound
  <1> QED
    BY <1>1, <1>2, <1>3, <1>4, <1>5, <1>6, <1>7, <1>8, <1>9 DEF Next

\* Drafts are retracted or stay with their fragments.
LEMMA DraftsStep == FlagsOK /\ DraftsAreParts /\ [Next]_vars => DraftsAreParts'
PROOF
  <1> SUFFICES ASSUME FlagsOK, DraftsAreParts, [Next]_vars PROVE DraftsAreParts'
    OBVIOUS
  <1> USE DEF FlagsOK, DraftsAreParts, End, Again, Retract, Dropped, mode
  <1>1. CASE UNCHANGED vars
    BY <1>1 DEF vars, Ids
  <1>2. CASE Fit \/ Unfit \/ BudgetSpent \/ StreamError \/ ResponseError
    BY <1>2 DEF Fit, Unfit, BudgetSpent, StreamError, ResponseError, Ids
  <1>3. ASSUME NEW isText \in BOOLEAN, StreamDelta(isText) PROVE DraftsAreParts'
    BY <1>3 DEF StreamDelta, Ids
  <1>4. ASSUME NEW calls, NEW finish, NEW promise, NEW text,
               StreamDone(calls, finish, promise) \/ ChatDone(text, calls, finish, promise)
        PROVE  DraftsAreParts'
    BY <1>4 DEF StreamDone, ChatDone, Ids
  <1>5. CASE StreamContextLimit \/ ChatContextLimit
    BY <1>5 DEF StreamContextLimit, ChatContextLimit, Ids
  <1>6. CASE StartRound \/ RefuseRound \/ Withheld \/ ProviderFailed \/ Repair
    BY <1>6 DEF StartRound, RefuseRound, Withheld, DeliverUnlessDrafted, ProviderFailed, Repair
  <1>7. CASE Continue
    BY <1>7, NewPartsIds DEF Continue, Ids
  <1>8. CASE ContinuationsSpent \/ Answer
    <2>1. NewParts = {} => drafts = {}
      BY <1>8, NewPartsIds DEF ContinuationsSpent, Answer, Ids
    <2> QED
      BY <1>8, <2>1 DEF ContinuationsSpent, Answer, Deliver
  <1>9. ASSUME NEW c \in 1..MaxCalls, CallStep(c) PROVE DraftsAreParts'
    <2>1. pc = "tools" /\ UNCHANGED <<streams, saw, texted, drafts>>
      BY <1>9 DEF CallStep, LoadSchema, RenderUi, Challenge, Block, Execute, Unavailable,
                  Denied, HookVeto, ExecuteFails, Handle, roundVars
    <2>2. pc' \in {"tools", "end"}
      BY <1>9, <2>1 DEF CallStep, LoadSchema, RenderUi, Challenge, Block, Execute,
                  Unavailable, Denied, HookVeto, ExecuteFails, Succeeds, FailsWith
    <2> QED
      BY <2>1, <2>2
  <1>10. CASE EndRound
    BY <1>10 DEF EndRound
  <1> QED
    BY <1>1, <1>2, <1>3, <1>4, <1>5, <1>6, <1>7, <1>8, <1>9, <1>10 DEF Next

\* A tool call or a repair discards the fragments before it.
LEMMA FreshStep ==
  CountersOK /\ ShapesOK /\ FreshParts /\ [Next]_vars => FreshParts'
PROOF
  <1> SUFFICES ASSUME CountersOK, ShapesOK, FreshParts, [Next]_vars PROVE FreshParts'
    OBVIOUS
  <1> USE DEF FreshParts, AnswerIsFromThisTurn, CountersOK, End, Again, client
  <1>1. CASE UNCHANGED vars
    BY <1>1 DEF vars
  <1>2. CASE Fit \/ Unfit \/ BudgetSpent \/ StreamError \/ ResponseError
    BY <1>2 DEF Fit, Unfit, BudgetSpent, StreamError, ResponseError
  <1>3. ASSUME NEW isText \in BOOLEAN, StreamDelta(isText) PROVE FreshParts'
    BY <1>3 DEF StreamDelta
  <1>4. ASSUME NEW calls, NEW finish, NEW promise, NEW text,
               StreamDone(calls, finish, promise) \/ ChatDone(text, calls, finish, promise)
        PROVE  FreshParts'
    BY <1>4 DEF StreamDone, ChatDone
  <1>5. CASE StreamContextLimit \/ ChatContextLimit
    BY <1>5 DEF StreamContextLimit, ChatContextLimit
  <1>6. CASE StartRound \/ RefuseRound \/ ContinuationsSpent \/ Withheld \/ ProviderFailed
             \/ Repair
    BY <1>6 DEF StartRound, RefuseRound, ContinuationsSpent, Withheld, ProviderFailed, Repair
  <1>7. pc = "decide" => \A part \in NewParts : since < part.id
    BY DEF NewParts, Part
  <1>8. CASE Continue
    BY <1>7, <1>8 DEF Continue
  <1>9. CASE Answer
    <2>1. CASE NewParts # {}
      <3>1. final' = Ids(NewParts) /\ UNCHANGED <<round, since>> /\ pc' = "end" /\ pc = "decide"
        BY <1>9, <2>1 DEF Answer, Deliver
      <3>2. final' # {} /\ \A n \in final' : since < n
        BY <1>7, <2>1, <3>1 DEF Ids
      <3> QED
        BY <3>1, <3>2
    <2>2. CASE NewParts = {}
      BY <1>9, <2>2 DEF Answer
    <2> QED
      BY <2>1, <2>2
  <1>10. ASSUME NEW c \in 1..MaxCalls, CallStep(c) PROVE FreshParts'
    <2>1. pc = "tools" /\ UNCHANGED <<round, parts, since, client>>
      BY <1>10 DEF CallStep, LoadSchema, RenderUi, Challenge, Block, Execute, Unavailable,
                  Denied, HookVeto, ExecuteFails, Handle, roundVars
    <2>2. \/ pc' = "tools" /\ outcome' = outcome
          \/ pc' = "end" /\ outcome' = "incomplete"
      BY <1>10, <2>1 DEF CallStep, LoadSchema, RenderUi, Challenge, Block, Execute,
                  Unavailable, Denied, HookVeto, ExecuteFails, Succeeds, FailsWith
    <2> QED
      BY <2>1, <2>2
  <1>11. CASE EndRound
    BY <1>11 DEF EndRound
  <1> QED
    BY <1>1, <1>2, <1>3, <1>4, <1>5, <1>6, <1>8, <1>9, <1>10, <1>11 DEF Next

\* A streamed fragment stays open until the answer is delivered.
LEMMA OpenStep ==
  ASSUME FlagsOK, CountersOK, ShapesOK, DraftsAreParts, StreamedIsOpen, [Next]_vars
  PROVE  StreamedIsOpen'
PROOF
  <1> USE DEF StreamedIsOpen, Uninterrupted, End, Again, client, mode, budgets
  <1>1. CASE UNCHANGED vars
    BY <1>1 DEF vars, ShownIsPersisted
  <1>2. CASE Fit
    BY <1>2 DEF Fit, DraftsAreParts, ShownIsPersisted
  <1>3. CASE Unfit \/ BudgetSpent \/ ResponseError
    BY <1>3, ClosedEmpty DEF Unfit, BudgetSpent, ResponseError
  <1>4. CASE StreamError
    BY <1>4 DEF StreamError, Retract, ShownIsPersisted
  <1>5. ASSUME NEW isText \in BOOLEAN, StreamDelta(isText) PROVE StreamedIsOpen'
    BY <1>5 DEF StreamDelta, ShownIsPersisted, FlagsOK
  <1>6. ASSUME NEW calls, NEW finish, NEW promise, StreamDone(calls, finish, promise)
        PROVE  StreamedIsOpen'
    BY <1>6 DEF StreamDone, ShownIsPersisted
  <1>7. ASSUME NEW calls, NEW finish, NEW promise, NEW text,
               ChatDone(text, calls, finish, promise)
        PROVE  StreamedIsOpen'
    BY <1>7 DEF ChatDone, ShownIsPersisted
  <1>8. CASE StreamContextLimit
    BY <1>8 DEF StreamContextLimit, ShownIsPersisted, CountersOK
  <1>9. CASE ChatContextLimit
    BY <1>9 DEF ChatContextLimit, ShownIsPersisted, CountersOK
  <1>10. CASE StartRound \/ Repair
    BY <1>10 DEF StartRound, Repair, ShownIsPersisted
  <1>11. CASE RefuseRound
    BY <1>11 DEF RefuseRound, Render, ShownIsPersisted
  <1>12. CASE ProviderFailed
    BY <1>12, ClosedEmpty DEF ProviderFailed
  <1>13. pc = "decide" /\ Uninterrupted =>
            \A part \in NewParts : part.streamed => part.id \in drafts
    BY DEF NewParts, Part
  <1>14. CASE Continue
    BY <1>13, <1>14 DEF Continue, ShownIsPersisted, CountersOK
  <1>15. pc = "decide" => drafts \subseteq Ids(NewParts)
    BY NewPartsIds DEF DraftsAreParts
  <1>16. pc = "decide" /\ Uninterrupted /\ AllStreamed(NewParts) => drafts = Ids(NewParts)
    BY <1>13, <1>15 DEF AllStreamed, Ids
  <1>17. ASSUME pc = "decide", pc' = "end", Deliver(NewParts), UNCHANGED <<mode, budgets>>
         PROVE  StreamedIsOpen'
    BY <1>16, <1>17 DEF Deliver, Render, ShownIsPersisted
  <1>18. CASE ContinuationsSpent \/ Answer
    BY <1>17, <1>18, ClosedEmpty DEF ContinuationsSpent, Answer
  <1>19. CASE Withheld
    <2>1. CASE drafts # {} \/ NewParts = {}
      BY <1>19, <2>1, ClosedEmpty DEF Withheld, DeliverUnlessDrafted
    <2>2. CASE drafts = {} /\ NewParts # {}
      <3>1. Uninterrupted => ~ AllStreamed(NewParts)
        BY <1>16, <1>19, <2>2 DEF Withheld, Ids
      <3> QED
        BY <1>19, <2>2, <3>1 DEF Withheld, DeliverUnlessDrafted, Render, ShownIsPersisted
    <2> QED
      BY <2>1, <2>2
  <1>20. ASSUME NEW c \in 1..MaxCalls, CallStep(c) PROVE StreamedIsOpen'
    <2>1. pc = "tools" /\ UNCHANGED <<parts, client, budgets>>
      BY <1>20 DEF CallStep, LoadSchema, RenderUi, Challenge, Block, Execute, Unavailable,
                  Denied, HookVeto, ExecuteFails, Handle, roundVars
    <2>2. pc' \in {"tools", "end"}
      BY <1>20, <2>1 DEF CallStep, LoadSchema, RenderUi, Challenge, Block, Execute,
                  Unavailable, Denied, HookVeto, ExecuteFails, Succeeds, FailsWith
    <2> QED
      BY <2>1, <2>2 DEF ShownIsPersisted
  <1>21. CASE EndRound
    BY <1>21 DEF EndRound, ShownIsPersisted
  <1> QED
    BY <1>1, <1>2, <1>3, <1>4, <1>5, <1>6, <1>7, <1>8, <1>9, <1>10, <1>11, <1>12, <1>14,
       <1>18, <1>19, <1>20, <1>21 DEF Next

-----------------------------------------------------------------------------
(* The invariant and what follows from it.                                 *)

LEMMA InitInv == Init => LoopInv
PROOF
  <1> SUFFICES ASSUME Init PROVE LoopInv
    OBVIOUS
  <1>1. FlagsOK
    BY DEF Init, FlagsOK
  <1>2. CountersOK
    BY BudgetAssumption DEF Init, CountersOK, MaxContextRecoveries
  <1>3. ShapesOK
    BY NoResponseType DEF Init, ShapesOK
  <1>4. ChargedRounds /\ BelowLimits
    BY BudgetAssumption DEF Init, ChargedRounds, BelowLimits, Charge
  <1>5. PairedSoFar /\ DraftsAreParts
    BY DEF Init, PairedSoFar, DraftsAreParts
  <1>6. FreshParts
    BY DEF Init, FreshParts, AnswerIsFromThisTurn
  <1>7. StreamedIsOpen
    BY DEF Init, StreamedIsOpen, ShownIsPersisted, NoResponse
  <1> QED
    BY <1>1, <1>2, <1>3, <1>4, <1>5, <1>6, <1>7 DEF LoopInv, TypeOK

LEMMA StepInv == LoopInv /\ [Next]_vars => LoopInv'
  BY FlagsStep, ShapesStep, CountStep, PairedStep, DraftsStep, FreshStep, OpenStep
  DEF LoopInv, TypeOK, CountInv

LEMMA LoopInvariant == Spec => []LoopInv
  BY InitInv, StepInv, PTL DEF Spec

\* The counters of react_event_loop never pass their budgets, and every
\* variable keeps its type.
THEOREM LoopTypes == Spec => []TypeOK
  <1>1. LoopInv => TypeOK
    BY DEF LoopInv
  <1> QED
    BY <1>1, LoopInvariant, PTL

\* The loop asks the model a bounded number of times, whatever the model
\* answers, however tools, hooks and users refuse.
THEOREM LoopIsBounded == Spec => []RoundsBounded
  <1>1. LoopInv => RoundsBounded
    BY BudgetAssumption
    DEF LoopInv, TypeOK, CountersOK, ShapesOK, ChargedRounds, RoundsBounded, Charge,
        MaxContextRecoveries
  <1> QED
    BY <1>1, LoopInvariant, PTL

\* No request is sent with a tool call that has no tool message.
THEOREM CallsAreAnswered == Spec => []EveryCallAnswered
  <1>1. LoopInv => EveryCallAnswered
    BY DEF LoopInv, PairedSoFar, EveryCallAnswered
  <1> QED
    BY <1>1, LoopInvariant, PTL

\* However the loop ends, the client is left with no provisional draft.
THEOREM DraftsAreClosed == Spec => []NoOpenDraft
  <1>1. LoopInv => NoOpenDraft
    BY DEF LoopInv, DraftsAreParts, NoOpenDraft
  <1> QED
    BY <1>1, LoopInvariant, PTL

\* A delivered answer is not empty and holds nothing the model said before its
\* last tool call or repair.
THEOREM AnswersAreFresh == Spec => []AnswerIsFromThisTurn
  <1>1. LoopInv => AnswerIsFromThisTurn
    BY DEF LoopInv, FreshParts
  <1> QED
    BY <1>1, LoopInvariant, PTL

\* What the client has rendered when the loop ends is what is persisted, each
\* fragment once, unless the context limit interrupted a continued answer.
THEOREM ShownTextIsPersisted == Spec => []ShownIsPersisted
  <1>1. LoopInv => ShownIsPersisted
    BY DEF LoopInv, StreamedIsOpen
  <1> QED
    BY <1>1, LoopInvariant, PTL

\* Whatever the model answers, every request react_event_loop sends pairs each
\* tool call with its tool message, and the budgets bound how many are sent.
THEOREM RequestsStaySound == Spec => []RequestsAreSound
  <1>1. EveryCallAnswered /\ RoundsBounded => RequestsAreSound
    BY DEF RequestsAreSound
  <1> QED
    BY <1>1, CallsAreAnswered, LoopIsBounded, PTL

\* Whatever the model answers, what the client keeps when react_event_loop ends
\* is this turn's answer, final, and the same text that is persisted.
THEOREM AnswersStayHonest == Spec => []AnswersAreHonest
  <1>1. AnswerIsFromThisTurn /\ NoOpenDraft /\ ShownIsPersisted => AnswersAreHonest
    BY DEF AnswersAreHonest
  <1> QED
    BY <1>1, AnswersAreFresh, DraftsAreClosed, ShownTextIsPersisted, PTL


-----------------------------------------------------------------------------
(* The chain of skills                                                     *)

PipeRecords ==
    [pc : {"idle", "queued", "node", "work", "gate", "saving", "completing", "stopping",
           "completed", "stopped"},
     msg : Msgs \cup {None}, route : Routes \cup {None}, req : Msgs \cup {None},
     chain : Seq(Skills), idx : Nat, att : Nat, fb : SUBSET Nat, hint : Nat \cup {None},
     outs : SUBSET Outputs, skipped : SUBSET Skills, fails : [Skills -> Nat], backs : Nat,
     answering : BOOLEAN, pause : BOOLEAN]

\* Skills with an output.
HasOutput(outs) == {o[1] : o \in outs}

\* A run that has a message and no walk yet.
Arrived(st) ==
    /\ st.pc \notin {"idle", "completed"} => st.msg \in Msgs
    /\ st.pc = "queued" => /\ st.route \in Routes /\ st.outs = {} /\ st.skipped = {}
                           /\ st.hint = None /\ ~ st.answering

InWalk == {"node", "work", "gate", "saving"}

\* The chain of a walk, and where it is.
OnChain(st) ==
    /\ st.msg \in Msgs /\ st.req \in Msgs /\ st.route \in Routes
    /\ st.chain \in ChainsOf[st.route] /\ ValidTopology(st.chain, BacktrackOf[st.route])
    /\ st.idx \in 1 .. Len(st.chain) + 1
    /\ st.pc # "node" => st.idx <= Len(st.chain)

\* The outputs of a walk are those of the nodes passed.
HasPassed(st) ==
    /\ \A i \in DOMAIN st.chain : i < st.idx => st.chain[i] \in HasOutput(st.outs) \cup st.skipped
    /\ \A s \in HasOutput(st.outs) : \E i \in DOMAIN st.chain : i <= st.idx /\ st.chain[i] = s
    /\ st.idx \in DOMAIN st.chain =>
          (st.chain[st.idx] \in HasOutput(st.outs) <=> st.answering \/ st.pc = "saving")

\* Feedback is for the node the walk is at, and used up before its gate.
HintIsOwn(st) ==
    /\ st.hint \in {None, st.idx}
    /\ st.pc = "gate" \/ (st.pc = "saving" /\ ~ st.pause) => st.hint = None

\* Outputs are for the request that is served.
ServesOne(st) == st.pc # "queued" => \A o \in st.outs : o[2] = st.req

RunInv(st) ==
    /\ st \in PipeRecords /\ Arrived(st) /\ ServesOne(st)
    /\ st.pc \in InWalk => OnChain(st) /\ HintIsOwn(st)
    /\ EditsAreSeen /\ st.pc \in InWalk => HasPassed(st)

\* A checkpoint was taken of a chain of its route, at a node that has passed.
TakenOf(f, c) ==
    /\ c \in ChainsOf[f.route] /\ ValidTopology(c, BacktrackOf[f.route])
    /\ f.idx \in DOMAIN c /\ c[f.idx] = f.skill
    /\ \A i \in DOMAIN c : i < f.idx => c[i] \in HasOutput(f.outs) \cup f.skipped
    /\ \A s \in HasOutput(f.outs) : \E i \in DOMAIN c : i <= f.idx /\ c[i] = s
    /\ f.skill \in HasOutput(f.outs)

FileInv(f) ==
    f # None =>
        /\ f \in Checkpoints /\ f.idx > 0
        /\ \A o \in f.outs : o[2] = f.req
        /\ EditsAreSeen => \E c \in ChainsOf[f.route] : TakenOf(f, c)

PipeInv ==
    /\ DOMAIN run = Runs
    /\ \A r \in Runs : RunInv(run[r])
    /\ FileInv(file) /\ FileInv(late)

-----------------------------------------------------------------------------
(* Lemmas                                                                  *)

\* The chains of a route are sequences of skills.
LEMMA ChainsAreSequences ==
    ASSUME NEW rt \in Routes, NEW c \in ChainsOf[rt]
    PROVE  c \in Seq(Skills) /\ DOMAIN c = 1 .. Len(c) /\ Len(c) \in Nat
           /\ \A i \in DOMAIN c : c[i] \in Skills
  <1>1. c \in Seq(Skills)
    BY PipelineAssumption
  <1> QED BY <1>1

LEMMA IdleIsRecord == Idle \in PipeRecords
  BY DEF Idle, PipeRecords, Outputs

\* A run that is over keeps its message and nothing else.
LEMMA EndedRun ==
    ASSUME NEW st, RunInv(st), st.pc \in {"queued"} \cup InWalk,
           NEW end \in {"completing", "stopping", "stopped"}
    PROVE  RunInv([Idle EXCEPT !.pc = end, !.msg = st.msg])
  <1> DEFINE next == [Idle EXCEPT !.pc = end, !.msg = st.msg]
  <1>1. st.msg \in Msgs
    BY DEF RunInv, OnChain, Arrived, InWalk
  <1>2. next \in PipeRecords /\ next.pc = end /\ next.outs = {} /\ next.msg \in Msgs
    BY <1>1, IdleIsRecord DEF PipeRecords, Idle
  <1> QED BY <1>2 DEF RunInv, Arrived, ServesOne, InWalk

\* One run moves on; the file may be written.
LEMMA OneRunMoves ==
    ASSUME PipeInv, NEW r \in Runs, NEW next, run' = [run EXCEPT ![r] = next], RunInv(next),
           FileInv(file'), FileInv(late')
    PROVE  PipeInv'
  <1>1. DOMAIN run' = Runs /\ \A q \in Runs : run'[q] = IF q = r THEN next ELSE run[q]
    BY DEF PipeInv
  <1>2. \A q \in Runs : RunInv(run'[q])
    BY <1>1 DEF PipeInv
  <1> QED BY <1>1, <1>2 DEF PipeInv

LEMMA InternalMoves ==
    ASSUME PipeInv, NEW r \in Runs, NEW next, Internal(r, next), RunInv(next)
    PROVE  PipeInv'
  BY OneRunMoves DEF Internal, PipeInv

LEMMA PutsKeeps ==
    ASSUME PipeInv, NEW f, FileInv(f), Puts(f)
    PROVE  FileInv(file')
  BY DEF Puts, PipeInv

LEMMA ClearKeeps ==
    ASSUME PipeInv, Clear
    PROVE  FileInv(file')
  <1>1. FileInv(None)
    BY DEF FileInv
  <1> QED BY <1>1, PutsKeeps DEF Clear

LEMMA AbortStep ==
    ASSUME PipeInv, NEW r \in Runs, run[r].pc \in {"queued"} \cup InWalk, Abort(r) \/ StopKeeping(r)
    PROVE  PipeInv'
  <1>1. RunInv([Idle EXCEPT !.pc = "stopping", !.msg = run[r].msg])
    BY EndedRun DEF PipeInv
  <1>2. FileInv(file') /\ FileInv(late')
    BY ClearKeeps DEF Abort, StopKeeping, PipeInv
  <1> QED BY <1>1, <1>2, OneRunMoves DEF Abort, StopKeeping, Ends

-----------------------------------------------------------------------------
(* Arrival                                                                 *)

LEMMA QueuedStep ==
    ASSUME PipeInv, NEW r \in Runs, NEW m \in Msgs, Queued(r, m), UNCHANGED <<file, late>>
    PROVE  PipeInv'
  <1> DEFINE next == [Idle EXCEPT !.pc = "queued", !.msg = m, !.route = Routed(m)]
  <1>1. Routed(m) \in Routes
    BY PipelineAssumption DEF Routed, PipeInv, FileInv, Checkpoints
  <1>2. /\ next \in PipeRecords /\ next.pc = "queued" /\ next.msg = m /\ next.route \in Routes
        /\ next.outs = {} /\ next.skipped = {} /\ next.hint = None /\ ~ next.answering
    BY <1>1, IdleIsRecord DEF PipeRecords, Idle
  <1> HIDE DEF next
  <1>3. RunInv(next)
    BY <1>2 DEF RunInv, Arrived, ServesOne, InWalk
  <1>4. run' = [run EXCEPT ![r] = next]
    BY DEF Queued, next
  <1> QED BY <1>3, <1>4, OneRunMoves DEF PipeInv

LEMMA AbandonStep ==
    ASSUME PipeInv, NEW r \in Runs, Abandon(r)
    PROVE  PipeInv'
  <1> DEFINE next == [run[r] EXCEPT !.pc = "completed"]
  <1>1. RunInv(run[r]) /\ run[r].pc = "idle"
    BY DEF PipeInv, Abandon
  <1>2. /\ next \in PipeRecords /\ next.pc = "completed" /\ next.outs = run[r].outs
        /\ next.req = run[r].req
    BY <1>1 DEF PipeRecords, RunInv
  <1> HIDE DEF next
  <1>3. RunInv(next)
    BY <1>1, <1>2 DEF RunInv, Arrived, ServesOne, InWalk
  <1>4. run' = [run EXCEPT ![r] = next] /\ FileInv(file') /\ FileInv(late')
    BY DEF Abandon, next, FileInv, PipeInv
  <1> QED BY <1>3, <1>4, OneRunMoves

\* A chain that the checkpoint's node is still in, at the same place, has the
\* nodes the checkpoint has passed.
LEMMA AdoptedPrefix ==
    ASSUME EditsAreSeen, NEW f \in Checkpoints, NEW d \in ChainsOf[f.route],
           \E c \in ChainsOf[f.route] : TakenOf(f, c),
           NodeStillMatches(f, d), ValidTopology(d, BacktrackOf[f.route])
    PROVE  TakenOf(f, d)
  <1>1. PICK c \in ChainsOf[f.route] : TakenOf(f, c)
    OBVIOUS
  <1>2. f.route \in Routes /\ f.idx \in Nat
    BY DEF Checkpoints
  <1>3. /\ DOMAIN c = 1 .. Len(c) /\ DOMAIN d = 1 .. Len(d) /\ Len(c) \in Nat /\ Len(d) \in Nat
    BY <1>2, ChainsAreSequences
  <1>4. /\ f.idx \in DOMAIN c /\ f.idx \in DOMAIN d /\ c[f.idx] = f.skill /\ d[f.idx] = f.skill
    BY <1>1, <1>2, <1>3 DEF TakenOf, NodeStillMatches
  <1>5. \A j \in 1 .. f.idx : c[j] = d[j]
    BY <1>2, <1>4 DEF EditsAreSeen
  <1>6. \A i \in DOMAIN d : i < f.idx => d[i] \in HasOutput(f.outs) \cup f.skipped
    BY <1>1, <1>3, <1>4, <1>5 DEF TakenOf
  <1>7. \A s \in HasOutput(f.outs) : \E i \in DOMAIN d : i <= f.idx /\ d[i] = s
    <2> SUFFICES ASSUME NEW s \in HasOutput(f.outs)
                 PROVE  \E i \in DOMAIN d : i <= f.idx /\ d[i] = s
      OBVIOUS
    <2>1. PICK i \in DOMAIN c : i <= f.idx /\ c[i] = s
      BY <1>1 DEF TakenOf
    <2> QED BY <1>3, <1>4, <1>5, <2>1
  <1> QED BY <1>1, <1>4, <1>6, <1>7 DEF TakenOf

\* Nothing behind the node a checkpoint was taken at has an output.
LEMMA NothingBehind ==
    ASSUME NEW f \in Checkpoints, NEW d, TakenOf(f, d), NEW i \in DOMAIN d, i > f.idx
    PROVE  d[i] \notin HasOutput(f.outs)
  <1>1. f.route \in Routes /\ d \in ChainsOf[f.route] /\ f.idx \in Nat
    BY DEF Checkpoints, TakenOf
  <1>2. DOMAIN d = 1 .. Len(d) /\ Len(d) \in Nat
    BY <1>1, ChainsAreSequences
  <1> QED BY <1>1, <1>2 DEF TakenOf, ValidTopology

\* A run that starts, with what it adopted.
LEMMA StartedRun ==
    ASSUME NEW next \in PipeRecords, next.pc \in {"node", "stopping"}, next.msg \in Msgs,
           next.req \in Msgs, next.route \in Routes, next.chain \in ChainsOf[next.route],
           next.pc = "node" => ValidTopology(next.chain, BacktrackOf[next.route]),
           next.idx \in 1 .. Len(next.chain) + 1, next.hint = None,
           \A o \in next.outs : o[2] = next.req,
           EditsAreSeen /\ next.pc = "node" => HasPassed(next)
    PROVE  RunInv(next)
  <1>1. next.pc = "node" => OnChain(next) /\ HintIsOwn(next)
    BY DEF OnChain, HintIsOwn
  <1> QED BY <1>1 DEF RunInv, Arrived, ServesOne, InWalk

LEMMA StartStep ==
    ASSUME PipeInv, NEW r \in Runs, Start(r)
    PROVE  PipeInv'
  <1> DEFINE st == run[r]
             fresh(chain) == [st EXCEPT !.chain = chain, !.idx = 1, !.req = st.msg]
             adopted(chain) == [fresh(chain) EXCEPT !.outs = file.outs, !.skipped = file.skipped]
             answer(chain) == [adopted(chain) EXCEPT !.idx = file.idx, !.req = file.req,
                                                     !.answering = TRUE]
             continue(chain) == [adopted(chain) EXCEPT !.idx = file.idx + 1]
             at(chain) == IF ValidTopology(chain, BacktrackOf[st.route]) THEN "node" ELSE "stopping"
  <1>1. /\ RunInv(st) /\ st \in PipeRecords /\ st.pc = "queued" /\ st.msg \in Msgs /\ st.route \in Routes
        /\ st.outs = {} /\ st.skipped = {} /\ st.hint = None /\ ~ st.answering
    BY DEF Start, PipeInv, RunInv, Arrived
  <1>2. PICK chain \in ChainsOf[st.route], pick \in {"fresh", "answer", "continue"} :
            /\ pick = "answer" => Adoptable(r, chain)
            /\ pick = "continue" => Adoptable(r, chain) /\ file.req = st.msg
            /\ run' = [run EXCEPT ![r] =
                   [(CASE pick = "answer" -> answer(chain) [] pick = "continue" -> continue(chain)
                       [] OTHER -> fresh(chain)) EXCEPT !.pc = at(chain)]]
            /\ FileInv(file')
            /\ UNCHANGED late
    <2>1. PICK chain \in ChainsOf[st.route] :
            LET fate == Fate(r, chain)
                next == CASE fate = "answer" -> answer(chain) [] fate = "continue" -> continue(chain)
                          [] OTHER -> fresh(chain)
            IN  /\ run' = [run EXCEPT ![r] = [next EXCEPT !.pc = at(chain)]]
                /\ IF fate = "clear" THEN Clear ELSE UNCHANGED file
                /\ UNCHANGED <<late, newest, breaks>>
      BY Zenon DEF Start
    <2>2. FileInv(file')
      BY <2>1, ClearKeeps DEF PipeInv
    <2>3. /\ Fate(r, chain) = "answer" => Adoptable(r, chain)
          /\ Fate(r, chain) = "continue" => Adoptable(r, chain) /\ file.req = st.msg
      BY DEF Fate
    <2> HIDE DEF fresh, answer, continue, at
    <2>4. CASE Fate(r, chain) = "answer"
      BY <2>1, <2>2, <2>3, <2>4
    <2>5. CASE Fate(r, chain) = "continue"
      BY <2>1, <2>2, <2>3, <2>5
    <2>6. CASE Fate(r, chain) \notin {"answer", "continue"}
      BY <2>1, <2>2, <2>6
    <2> QED BY <2>4, <2>5, <2>6
  <1> DEFINE base == CASE pick = "answer" -> answer(chain) [] pick = "continue" -> continue(chain)
                       [] OTHER -> fresh(chain)
             next == [base EXCEPT !.pc = at(chain)]
  <1>3. /\ chain \in Seq(Skills) /\ DOMAIN chain = 1 .. Len(chain) /\ Len(chain) \in Nat /\ Len(chain) > 0
    BY <1>1, ChainsAreSequences, PipelineAssumption
  <1>4. pick # "fresh" => file # None /\ file \in Checkpoints /\ FileInv(file) /\ file.route = st.route
                          /\ NodeStillMatches(file, chain)
                          /\ (pick = "continue" => file.req = st.msg)
    BY <1>2 DEF Adoptable, SameScope, PipeInv, FileInv
  <1>f. pick # "fresh" => /\ file.idx \in Nat /\ file.idx + 1 \in Nat /\ file.req \in Msgs
                          /\ file.outs \in SUBSET Outputs /\ file.skipped \in SUBSET Skills
    BY <1>4 DEF Checkpoints
  <1>5. /\ at(chain) \in {"node", "stopping"}
        /\ (at(chain) = "node" => ValidTopology(chain, BacktrackOf[st.route]))
    OBVIOUS
  <1>e. pick \in {"fresh", "answer", "continue"} /\ chain \in ChainsOf[st.route]
    OBVIOUS
  <1> HIDE DEF at, st
  <1>a. ASSUME pick = "fresh" PROVE RunInv(next)
    <2>1. /\ next \in PipeRecords /\ next.pc = at(chain) /\ next.chain = chain
          /\ next.msg = st.msg /\ next.route = st.route /\ next.hint = None
          /\ next.idx = 1 /\ next.req = st.msg /\ next.outs = {} /\ next.skipped = {} /\ ~ next.answering
      BY <1>1, <1>3, <1>5, <1>a DEF PipeRecords
    <2> HIDE DEF next
    <2>2. HasPassed(next)
      BY <1>3, <1>5, <2>1 DEF HasPassed, HasOutput
    <2>3. next.idx \in 1 .. Len(next.chain) + 1 /\ \A o \in next.outs : o[2] = next.req
      BY <1>3, <2>1
    <2> QED BY <1>1, <1>5, <2>1, <2>2, <2>3, StartedRun
  <1>b. ASSUME pick = "answer" PROVE RunInv(next)
    <2>1. /\ next \in PipeRecords /\ next.pc = at(chain) /\ next.chain = chain
          /\ next.msg = st.msg /\ next.route = st.route /\ next.hint = None
          /\ next.idx = file.idx /\ next.req = file.req /\ next.outs = file.outs
          /\ next.skipped = file.skipped /\ next.answering
      BY <1>1, <1>3, <1>f, <1>5, <1>b DEF PipeRecords
    <2> HIDE DEF next
    <2>3. file.idx \in Nat /\ file.idx \in 1 .. Len(chain) /\ next.idx \in 1 .. Len(next.chain) + 1
      BY <1>3, <1>4, <1>b, <2>1 DEF NodeStillMatches, Checkpoints, FileInv
    <2>4. /\ file \in Checkpoints /\ file.route = st.route /\ NodeStillMatches(file, chain)
          /\ \A o \in next.outs : o[2] = next.req
          /\ next.req \in Msgs
      BY <1>1, <1>4, <1>b, <2>1 DEF FileInv, Checkpoints
    <2>5. ASSUME EditsAreSeen, next.pc = "node" PROVE TakenOf(file, chain)
      BY <1>4, <1>5, <1>b, <2>1, <2>4, <2>5, AdoptedPrefix DEF FileInv
    <2>6. ASSUME EditsAreSeen, next.pc = "node" PROVE HasPassed(next)
      <3> USE <2>6
      <3>4. \A i \in DOMAIN chain : i < next.idx => chain[i] \in HasOutput(next.outs) \cup next.skipped
        BY <2>1, <2>5 DEF TakenOf
      <3>5. \A s \in HasOutput(next.outs) : \E i \in DOMAIN chain : i <= next.idx /\ chain[i] = s
        BY <2>1, <2>5 DEF TakenOf
      <3>6. chain[next.idx] \in HasOutput(next.outs)
        BY <2>1, <2>5 DEF TakenOf
      <3> QED BY <2>1, <3>4, <3>5, <3>6 DEF HasPassed
    <2> QED BY <1>1, <1>5, <2>1, <2>3, <2>4, <2>6, StartedRun
  <1>c. ASSUME pick = "continue" PROVE RunInv(next)
    <2>1. /\ next \in PipeRecords /\ next.pc = at(chain) /\ next.chain = chain
          /\ next.msg = st.msg /\ next.route = st.route /\ next.hint = None
          /\ next.idx = file.idx + 1 /\ next.req = st.msg /\ next.outs = file.outs
          /\ next.skipped = file.skipped /\ ~ next.answering
      BY <1>1, <1>3, <1>f, <1>5, <1>c DEF PipeRecords
    <2> HIDE DEF next
    <2>3. file.idx \in Nat /\ file.idx \in 1 .. Len(chain) /\ next.idx \in 1 .. Len(next.chain) + 1
      BY <1>3, <1>4, <1>c, <2>1 DEF NodeStillMatches, Checkpoints, FileInv
    <2>4. /\ file \in Checkpoints /\ file.route = st.route /\ NodeStillMatches(file, chain)
          /\ \A o \in next.outs : o[2] = next.req
          /\ next.req \in Msgs
      BY <1>1, <1>4, <1>c, <2>1 DEF FileInv, Checkpoints
    <2>5. ASSUME EditsAreSeen, next.pc = "node" PROVE TakenOf(file, chain)
      BY <1>4, <1>5, <1>c, <2>1, <2>4, <2>5, AdoptedPrefix DEF FileInv
    <2>6. ASSUME EditsAreSeen, next.pc = "node" PROVE HasPassed(next)
      <3> USE <2>6
      <3>4. \A i \in DOMAIN chain : i < next.idx => chain[i] \in HasOutput(next.outs) \cup next.skipped
        BY <1>3, <2>1, <2>3, <2>5 DEF TakenOf
      <3>5. \A s \in HasOutput(next.outs) : \E i \in DOMAIN chain : i <= next.idx /\ chain[i] = s
        BY <1>3, <2>1, <2>3, <2>5 DEF TakenOf
      <3>6. next.idx \in DOMAIN chain => chain[next.idx] \notin HasOutput(next.outs)
        BY <1>3, <2>1, <2>3, <2>4, <2>5, NothingBehind
      <3> QED BY <1>5, <2>1, <3>4, <3>5, <3>6 DEF HasPassed
    <2> QED BY <1>1, <1>5, <2>1, <2>3, <2>4, <2>6, StartedRun
  <1>d. RunInv(next)
    BY <1>e, <1>a, <1>b, <1>c
  <1> QED BY <1>2, <1>d, OneRunMoves DEF PipeInv

-----------------------------------------------------------------------------
(* The walk                                                                *)

\* Two records of a walk at the same node with the same outputs.
SamePlace(st, next) ==
    /\ next.msg = st.msg /\ next.req = st.req /\ next.route = st.route /\ next.chain = st.chain
    /\ next.idx = st.idx /\ next.outs = st.outs /\ next.skipped = st.skipped
    /\ next.answering = st.answering

LEMMA StaysAtNode ==
    ASSUME NEW st, RunInv(st), st.pc \in {"node", "work", "gate"}, st.idx <= Len(st.chain),
           NEW next \in PipeRecords, next.pc \in {"node", "work", "gate"},
           SamePlace(st, next), HintIsOwn(next)
    PROVE  RunInv(next)
  <1>1. OnChain(next)
    BY DEF RunInv, OnChain, SamePlace, InWalk
  <1>2. EditsAreSeen => HasPassed(next)
    BY DEF RunInv, HasPassed, SamePlace, InWalk
  <1>3. Arrived(next) /\ ServesOne(next)
    BY DEF RunInv, Arrived, ServesOne, OnChain, SamePlace, InWalk
  <1> QED BY <1>1, <1>2, <1>3 DEF RunInv

\* One more attempt at the node.
LEMMA AttemptKeeps ==
    ASSUME NEW st \in PipeRecords
    PROVE  /\ Attempt(st) \in PipeRecords /\ Attempt(st).pc = "work"
           /\ SamePlace(st, Attempt(st)) /\ Attempt(st).hint = st.hint
  BY DEF Attempt, PipeRecords, SamePlace

LEMMA FallBackKeeps ==
    ASSUME NEW st \in PipeRecords
    PROVE  /\ FallBack(st) \in PipeRecords /\ FallBack(st).pc = "work"
           /\ SamePlace(st, FallBack(st)) /\ FallBack(st).hint = st.hint
  <1> DEFINE falling == [st EXCEPT !.fb = @ \cup {st.idx}]
  <1>1. falling \in PipeRecords /\ SamePlace(st, falling) /\ falling.hint = st.hint
    BY DEF PipeRecords, SamePlace
  <1> QED BY <1>1, AttemptKeeps DEF FallBack, SamePlace

LEMMA FinishStep ==
    ASSUME PipeInv, NEW r \in Runs, Finish(r)
    PROVE  PipeInv'
  <1>1. RunInv([Idle EXCEPT !.pc = "completing", !.msg = run[r].msg])
    BY EndedRun DEF PipeInv, Finish, InWalk
  <1>2. FileInv(file') /\ FileInv(late')
    BY ClearKeeps DEF Finish, PipeInv
  <1> QED BY <1>1, <1>2, OneRunMoves DEF Finish, Ends

LEMMA SkipStep ==
    ASSUME PipeInv, NEW r \in Runs, Skip(r)
    PROVE  PipeInv'
  <1> DEFINE st == run[r]
             s == st.chain[st.idx]
             next == [st EXCEPT !.idx = @ + 1, !.hint = None, !.answering = FALSE,
                                !.skipped = @ \cup {s}]
  <1>1. /\ RunInv(st) /\ st \in PipeRecords /\ st.pc = "node" /\ OnChain(st)
        /\ st.idx <= Len(st.chain)
    BY DEF Skip, PipeInv, RunInv, InWalk
  <1>2. /\ st.chain \in Seq(Skills) /\ DOMAIN st.chain = 1 .. Len(st.chain) /\ Len(st.chain) \in Nat
        /\ st.idx \in DOMAIN st.chain /\ s \in Skills
    BY <1>1, ChainsAreSequences DEF OnChain
  <1>3. /\ next \in PipeRecords /\ next.pc = "node" /\ next.chain = st.chain /\ next.idx = st.idx + 1
        /\ next.msg = st.msg /\ next.req = st.req /\ next.route = st.route /\ next.hint = None
        /\ next.outs = st.outs /\ next.skipped = st.skipped \cup {s} /\ ~ next.answering
    <2>1. st.idx + 1 \in Nat
      BY <1>2
    <2> HIDE DEF s
    <2> QED BY <1>1, <1>2, <2>1 DEF PipeRecords
  <1> HIDE DEF next, st
  <1>4. OnChain(next) /\ HintIsOwn(next) /\ Arrived(next) /\ ServesOne(next)
    BY <1>1, <1>2, <1>3 DEF OnChain, HintIsOwn, Arrived, ServesOne, RunInv
  <1>5. ASSUME EditsAreSeen PROVE HasPassed(next)
    <2>1. HasPassed(st)
      BY <1>1, <1>5 DEF RunInv, InWalk
    <2>2. \A i \in DOMAIN next.chain : i < next.idx =>
              next.chain[i] \in HasOutput(next.outs) \cup next.skipped
      BY <1>2, <1>3, <2>1 DEF HasPassed
    <2>3. \A x \in HasOutput(next.outs) : \E i \in DOMAIN next.chain : i <= next.idx /\ next.chain[i] = x
      BY <1>2, <1>3, <2>1 DEF HasPassed
    <2>4. next.idx \in DOMAIN next.chain => next.chain[next.idx] \notin HasOutput(next.outs)
      <3> SUFFICES ASSUME st.idx + 1 \in DOMAIN st.chain, st.chain[st.idx + 1] \in HasOutput(st.outs)
                   PROVE  FALSE
        BY <1>3
      <3>1. PICK i \in DOMAIN st.chain : i <= st.idx /\ st.chain[i] = st.chain[st.idx + 1]
        BY <2>1 DEF HasPassed
      <3>2. i = st.idx + 1
        BY <1>1, <3>1 DEF OnChain, ValidTopology
      <3> QED BY <1>2, <3>1, <3>2
    <2> QED BY <1>3, <2>2, <2>3, <2>4 DEF HasPassed
  <1>6. RunInv(next)
    BY <1>3, <1>4, <1>5 DEF RunInv
  <1>7. Internal(r, next)
    BY DEF Skip, Node, next, st
  <1> QED BY <1>6, <1>7, InternalMoves

LEMMA BeginStep ==
    ASSUME PipeInv, NEW r \in Runs, Begin(r)
    PROVE  PipeInv'
  <1> DEFINE st == run[r]
             first == [st EXCEPT !.att = 0]
  <1>1. RunInv(st) /\ st \in PipeRecords /\ st.pc = "node" /\ HintIsOwn(st) /\ st.idx <= Len(st.chain)
    BY DEF Begin, PipeInv, RunInv, InWalk
  <1>2. first \in PipeRecords /\ SamePlace(st, first) /\ first.hint = st.hint
    BY <1>1 DEF PipeRecords, SamePlace
  <1>3. Internal(r, Attempt(first))
    BY DEF Begin
  <1> HIDE DEF first, st
  <1>4. /\ Attempt(first) \in PipeRecords /\ Attempt(first).pc = "work"
        /\ SamePlace(st, Attempt(first)) /\ Attempt(first).hint = st.hint
    BY <1>2, AttemptKeeps DEF SamePlace
  <1>5. HintIsOwn(Attempt(first))
    BY <1>1, <1>4 DEF HintIsOwn, SamePlace
  <1>6. RunInv(Attempt(first))
    BY <1>1, <1>4, <1>5, StaysAtNode
  <1> QED BY <1>3, <1>6, InternalMoves

LEMMA SkillFailsStep ==
    ASSUME PipeInv, NEW r \in Runs, SkillFails(r)
    PROVE  PipeInv'
  <1> DEFINE st == run[r]
  <1>1. /\ RunInv(st) /\ st \in PipeRecords /\ st.pc = "work" /\ HintIsOwn(st) /\ st.idx <= Len(st.chain)
        /\ Internal(r, FallBack(st))
    BY DEF SkillFails, PipeInv, RunInv, InWalk, OnChain
  <1> HIDE DEF st
  <1>2. /\ FallBack(st) \in PipeRecords /\ FallBack(st).pc = "work"
        /\ SamePlace(st, FallBack(st)) /\ FallBack(st).hint = st.hint
    BY <1>1, FallBackKeeps
  <1>3. HintIsOwn(FallBack(st))
    BY <1>1, <1>2 DEF HintIsOwn, SamePlace
  <1>4. RunInv(FallBack(st))
    BY <1>1, <1>2, <1>3, StaysAtNode
  <1> QED BY <1>1, <1>4, InternalMoves

LEMMA BasePassesStep ==
    ASSUME PipeInv, NEW r \in Runs, BasePasses(r)
    PROVE  PipeInv'
  <1> DEFINE st == run[r]
             next == [st EXCEPT !.pc = "gate", !.hint = None]
  <1>1. /\ RunInv(st) /\ st \in PipeRecords /\ st.pc = "work" /\ st.idx <= Len(st.chain)
        /\ Internal(r, next)
    BY DEF BasePasses, PipeInv, RunInv, InWalk, OnChain
  <1>2. next \in PipeRecords /\ next.pc = "gate" /\ SamePlace(st, next) /\ next.hint = None
    BY <1>1 DEF PipeRecords, SamePlace
  <1> HIDE DEF next, st
  <1>3. RunInv(next)
    BY <1>1, <1>2, StaysAtNode DEF HintIsOwn
  <1> QED BY <1>1, <1>3, InternalMoves

LEMMA BaseRejectsStep ==
    ASSUME PipeInv, NEW r \in Runs, BaseRejects(r)
    PROVE  PipeInv'
  <1> DEFINE st == run[r]
             hinted == [st EXCEPT !.hint = st.idx]
             more == [hinted EXCEPT !.att = @ + 1]
  <1>1. RunInv(st) /\ st \in PipeRecords /\ st.pc = "work" /\ st.idx <= Len(st.chain)
    BY DEF BaseRejects, PipeInv, RunInv, InWalk, OnChain
  <1>2. hinted \in PipeRecords /\ SamePlace(st, hinted) /\ hinted.hint = st.idx
    BY <1>1 DEF PipeRecords, SamePlace
  <1>3. more \in PipeRecords /\ SamePlace(st, more) /\ more.hint = st.idx
    <2> HIDE DEF hinted
    <2>a. hinted.att + 1 \in Nat
      BY <1>2 DEF PipeRecords
    <2>1. more \in PipeRecords /\ SamePlace(hinted, more) /\ more.hint = hinted.hint
      BY <1>2, <2>a DEF PipeRecords, SamePlace
    <2> QED BY <1>2, <2>1 DEF SamePlace
  <1>4. Abort(r) \/ Internal(r, Attempt(more)) \/ Internal(r, FallBack(hinted))
    BY DEF BaseRejects
  <1> HIDE DEF hinted, more
  <1>5. ASSUME NEW next, next \in PipeRecords, next.pc = "work", SamePlace(st, next),
               next.hint = st.idx, Internal(r, next)
        PROVE  PipeInv'
    <2>1. HintIsOwn(next)
      BY <1>5 DEF HintIsOwn, SamePlace
    <2>2. RunInv(next)
      BY <1>1, <1>5, <2>1, StaysAtNode
    <2> QED BY <1>5, <2>2, InternalMoves
  <1>6. CASE Abort(r)
    BY <1>1, <1>6, AbortStep DEF InWalk
  <1>7. CASE Internal(r, Attempt(more))
    <2>1. /\ Attempt(more) \in PipeRecords /\ Attempt(more).pc = "work"
          /\ SamePlace(st, Attempt(more)) /\ Attempt(more).hint = st.idx
      BY <1>3, AttemptKeeps DEF SamePlace
    <2> QED BY <1>5, <1>7, <2>1
  <1>8. CASE Internal(r, FallBack(hinted))
    <2>1. /\ FallBack(hinted) \in PipeRecords /\ FallBack(hinted).pc = "work"
          /\ SamePlace(st, FallBack(hinted)) /\ FallBack(hinted).hint = st.idx
      BY <1>2, FallBackKeeps DEF SamePlace
    <2> QED BY <1>5, <1>8, <2>1
  <1> QED BY <1>4, <1>6, <1>7, <1>8

\* The node has an output now, and its checkpoint is next.
LEMMA OutputIsSaved ==
    ASSUME NEW st, RunInv(st), st.pc \in {"work", "gate"}, NEW next \in PipeRecords,
           next.pc = "saving", next.msg = st.msg, next.req = st.req, next.route = st.route,
           next.chain = st.chain, next.idx = st.idx, next.skipped = st.skipped,
           next.outs = st.outs \cup {<<st.chain[st.idx], st.req>>},
           next.hint = st.hint, st.pc = "gate" \/ next.pause
    PROVE  RunInv(next)
  <1> DEFINE s == st.chain[st.idx]
  <1>1. OnChain(st) /\ HintIsOwn(st) /\ ServesOne(st) /\ Arrived(st)
    BY DEF RunInv, InWalk
  <1>2. /\ DOMAIN st.chain = 1 .. Len(st.chain) /\ Len(st.chain) \in Nat
        /\ st.idx \in DOMAIN st.chain
    BY <1>1, ChainsAreSequences DEF OnChain
  <1>3. HasOutput(next.outs) = HasOutput(st.outs) \cup {s}
    <2> DEFINE q == st.req
               more == next.outs
               outs == st.outs
    <2>1. more = outs \cup {<<s, q>>}
      OBVIOUS
    <2> HIDE DEF s, q, more, outs
    <2>2. HasOutput(more) = HasOutput(outs) \cup {s}
      <3>1. <<s, q>>[1] = s
        OBVIOUS
      <3>2. \A o \in more : o[1] \in HasOutput(outs) \cup {s}
        BY <2>1, <3>1 DEF HasOutput
      <3>3. \A o \in outs \cup {<<s, q>>} : o[1] \in HasOutput(more)
        BY <2>1 DEF HasOutput
      <3> QED BY <3>1, <3>2, <3>3 DEF HasOutput
    <2> QED BY <2>2 DEF more, outs
  <1>4. OnChain(next) /\ HintIsOwn(next) /\ Arrived(next)
    BY <1>1 DEF OnChain, HintIsOwn, Arrived
  <1>5. ServesOne(next)
    BY <1>1 DEF ServesOne
  <1>6. ASSUME EditsAreSeen PROVE HasPassed(next)
    <2>1. HasPassed(st)
      BY <1>6 DEF RunInv, InWalk
    <2> HIDE DEF s
    <2>2. \A i \in DOMAIN next.chain : i < next.idx =>
              next.chain[i] \in HasOutput(next.outs) \cup next.skipped
      BY <1>3, <2>1 DEF HasPassed
    <2>3. \A x \in HasOutput(next.outs) : \E i \in DOMAIN next.chain : i <= next.idx /\ next.chain[i] = x
      BY <1>2, <1>3, <2>1 DEF HasPassed, s
    <2>4. next.chain[next.idx] \in HasOutput(next.outs)
      BY <1>3 DEF s
    <2> QED BY <2>2, <2>3, <2>4 DEF HasPassed
  <1> QED BY <1>4, <1>5, <1>6 DEF RunInv

LEMMA PauseStep ==
    ASSUME PipeInv, NEW r \in Runs, Pause(r)
    PROVE  PipeInv'
  <1> DEFINE st == run[r]
             o == <<st.chain[st.idx], st.req>>
             next == [st EXCEPT !.pc = "saving", !.pause = TRUE, !.outs = @ \cup {o}]
  <1>1. RunInv(st) /\ st \in PipeRecords /\ st.pc = "work" /\ OnChain(st)
    BY DEF Pause, PipeInv, RunInv, InWalk
  <1>2. o \in Outputs
    BY <1>1, ChainsAreSequences DEF OnChain, Outputs
  <1>3. Internal(r, next)
    BY DEF Pause, Node
  <1> HIDE DEF o, st
  <1>4. /\ next \in PipeRecords /\ next.pc = "saving" /\ next.msg = st.msg /\ next.req = st.req
        /\ next.route = st.route /\ next.chain = st.chain /\ next.idx = st.idx
        /\ next.skipped = st.skipped /\ next.outs = st.outs \cup {o} /\ next.hint = st.hint /\ next.pause
    BY <1>1, <1>2 DEF PipeRecords
  <1> HIDE DEF next
  <1>5. RunInv(next)
    BY <1>1, <1>4, OutputIsSaved DEF o
  <1> QED BY <1>3, <1>5, InternalMoves

LEMMA GatePassesStep ==
    ASSUME PipeInv, NEW r \in Runs, GatePasses(r)
    PROVE  PipeInv'
  <1> DEFINE st == run[r]
             o == <<st.chain[st.idx], st.req>>
             next == [st EXCEPT !.pc = "saving", !.pause = FALSE, !.fb = @ \ {st.idx},
                                !.outs = @ \cup {o}]
  <1>1. RunInv(st) /\ st \in PipeRecords /\ st.pc = "gate" /\ OnChain(st)
    BY DEF GatePasses, PipeInv, RunInv, InWalk
  <1>2. o \in Outputs
    BY <1>1, ChainsAreSequences DEF OnChain, Outputs
  <1>3. Internal(r, next)
    BY DEF GatePasses, Node
  <1> HIDE DEF o, st
  <1>4. /\ next \in PipeRecords /\ next.pc = "saving" /\ next.msg = st.msg /\ next.req = st.req
        /\ next.route = st.route /\ next.chain = st.chain /\ next.idx = st.idx
        /\ next.skipped = st.skipped /\ next.outs = st.outs \cup {o} /\ next.hint = st.hint
    BY <1>1, <1>2 DEF PipeRecords
  <1> HIDE DEF next
  <1>5. RunInv(next)
    BY <1>1, <1>4, OutputIsSaved DEF o
  <1> QED BY <1>3, <1>5, InternalMoves

-----------------------------------------------------------------------------
(* Rejection at the gate                                                   *)

LEMMA GateRejectsSkillStep ==
    ASSUME PipeInv, NEW r \in Runs, GateRejectsSkill(r)
    PROVE  PipeInv'
  <1> DEFINE st == run[r]
  <1>1. RunInv(st) /\ st \in PipeRecords /\ st.pc = "gate" /\ OnChain(st) /\ st.hint = None
    BY DEF GateRejectsSkill, PipeInv, RunInv, InWalk, HintIsOwn
  <1>2. PICK own \in MayHint(st, st.idx) :
            Internal(r, [own EXCEPT !.pc = "node", !.fb = @ \cup {st.idx}])
    BY DEF GateRejectsSkill
  <1> DEFINE next == [own EXCEPT !.pc = "node", !.fb = @ \cup {st.idx}]
  <1> HIDE DEF st
  <1>3. own \in PipeRecords /\ SamePlace(st, own) /\ own.hint \in {None, st.idx}
    BY <1>1 DEF MayHint, PipeRecords, SamePlace
  <1>4. next \in PipeRecords /\ next.pc = "node" /\ SamePlace(st, next) /\ next.hint \in {None, st.idx}
    <2>1. next \in PipeRecords /\ next.pc = "node" /\ SamePlace(own, next) /\ next.hint = own.hint
      BY <1>3 DEF PipeRecords, SamePlace
    <2> QED BY <1>3, <2>1 DEF SamePlace
  <1> HIDE DEF next
  <1>5. RunInv(next)
    BY <1>1, <1>4, StaysAtNode DEF HintIsOwn, OnChain, SamePlace
  <1> QED BY <1>2, <1>5, InternalMoves DEF next

LEMMA GateRetriesStep ==
    ASSUME PipeInv, NEW r \in Runs, GateRetries(r)
    PROVE  PipeInv'
  <1> DEFINE st == run[r]
             s == st.chain[st.idx]
             n == st.fails[s] + 1
  <1>1. RunInv(st) /\ st \in PipeRecords /\ st.pc = "gate" /\ OnChain(st) /\ st.hint = None
    BY DEF GateRetries, PipeInv, RunInv, InWalk, HintIsOwn
  <1>2. PICK own \in MayHint(st, st.idx) :
            Internal(r, [own EXCEPT !.pc = "node", !.fails[s] = n])
    BY DEF GateRetries, Node, Failures
  <1> DEFINE next == [own EXCEPT !.pc = "node", !.fails[s] = n]
  <1>3. s \in Skills
    BY <1>1, ChainsAreSequences DEF OnChain
  <1>4. n \in Nat
    <2> HIDE DEF s, st
    <2> QED BY <1>1, <1>3 DEF PipeRecords
  <1> HIDE DEF st, s, n
  <1>5. own \in PipeRecords /\ SamePlace(st, own) /\ own.hint \in {None, st.idx}
    BY <1>1 DEF MayHint, PipeRecords, SamePlace
  <1>6. next \in PipeRecords /\ next.pc = "node" /\ SamePlace(st, next) /\ next.hint \in {None, st.idx}
    <2>1. next \in PipeRecords /\ next.pc = "node" /\ SamePlace(own, next) /\ next.hint = own.hint
      BY <1>3, <1>4, <1>5 DEF PipeRecords, SamePlace
    <2> QED BY <1>5, <2>1 DEF SamePlace
  <1> HIDE DEF next
  <1>7. RunInv(next)
    BY <1>1, <1>6, StaysAtNode DEF HintIsOwn, OnChain, SamePlace
  <1> QED BY <1>2, <1>7, InternalMoves DEF next

\* Going back leaves no output at the target or behind it.
LEMMA EvictedRun ==
    ASSUME NEW st, RunInv(st), st.pc = "gate", NEW target \in DOMAIN st.chain, target < st.idx,
           NEW next \in PipeRecords, next.pc = "node", next.msg = st.msg, next.req = st.req,
           next.route = st.route, next.chain = st.chain, next.idx = target,
           next.hint \in {None, target}, ~ next.answering,
           next.outs = EvictAtOrAfter(st, target).outs,
           next.skipped = EvictAtOrAfter(st, target).skipped
    PROVE  RunInv(next)
  <1> DEFINE again == {st.chain[i] : i \in target .. Len(st.chain)}
  <1>1. OnChain(st) /\ ServesOne(st) /\ st \in PipeRecords
    BY DEF RunInv, InWalk
  <1>2. /\ DOMAIN st.chain = 1 .. Len(st.chain) /\ Len(st.chain) \in Nat
        /\ st.idx \in DOMAIN st.chain
    BY <1>1, ChainsAreSequences DEF OnChain
  <1>3. next.outs = {o \in st.outs : o[1] \notin again} /\ next.skipped = st.skipped \ again
    BY <1>1 DEF EvictAtOrAfter, PipeRecords
  <1>4. \A i \in DOMAIN st.chain : st.chain[i] \in again <=> i >= target
    <2> SUFFICES ASSUME NEW i \in DOMAIN st.chain
                 PROVE  st.chain[i] \in again <=> i >= target
      OBVIOUS
    <2>1. ASSUME st.chain[i] \in again PROVE i >= target
      <3>1. PICK j \in target .. Len(st.chain) : st.chain[i] = st.chain[j]
        BY <2>1
      <3>2. j \in DOMAIN st.chain
        BY <1>2
      <3>3. i = j
        BY <1>1, <3>1, <3>2 DEF OnChain, ValidTopology
      <3> QED BY <1>2, <3>3
    <2>2. ASSUME i >= target PROVE st.chain[i] \in again
      BY <1>2, <2>2
    <2> QED BY <2>1, <2>2
  <1> HIDE DEF again
  <1>5. OnChain(next) /\ HintIsOwn(next) /\ Arrived(next) /\ ServesOne(next)
    BY <1>1, <1>2, <1>3 DEF OnChain, HintIsOwn, Arrived, ServesOne
  <1>6. ASSUME EditsAreSeen PROVE HasPassed(next)
    <2>1. HasPassed(st)
      BY <1>6 DEF RunInv, InWalk
    <2>2. \A x : x \in HasOutput(next.outs) <=> x \in HasOutput(st.outs) /\ x \notin again
      BY <1>3 DEF HasOutput
    <2>3. \A i \in DOMAIN next.chain : i < next.idx =>
              next.chain[i] \in HasOutput(next.outs) \cup next.skipped
      <3> SUFFICES ASSUME NEW i \in DOMAIN st.chain, i < target
                   PROVE  st.chain[i] \in HasOutput(next.outs) \cup next.skipped
        OBVIOUS
      <3>1. st.chain[i] \notin again /\ i < st.idx
        BY <1>2, <1>4
      <3>2. st.chain[i] \in HasOutput(st.outs) \cup st.skipped
        BY <2>1, <3>1 DEF HasPassed
      <3> QED BY <1>3, <2>2, <3>1, <3>2
    <2>4. \A x \in HasOutput(next.outs) : \E i \in DOMAIN next.chain : i <= next.idx /\ next.chain[i] = x
      <3> SUFFICES ASSUME NEW x \in HasOutput(next.outs)
                   PROVE  \E i \in DOMAIN st.chain : i <= target /\ st.chain[i] = x
        OBVIOUS
      <3>1. PICK i \in DOMAIN st.chain : st.chain[i] = x
        BY <2>1, <2>2 DEF HasPassed
      <3>2. ~ (i >= target)
        BY <1>4, <2>2, <3>1
      <3> QED BY <1>2, <3>1, <3>2
    <2>5. next.chain[next.idx] \notin HasOutput(next.outs)
      BY <1>2, <1>4, <2>2
    <2> QED BY <2>3, <2>4, <2>5 DEF HasPassed
  <1> QED BY <1>5, <1>6 DEF RunInv

LEMMA GateSwitchesStep ==
    ASSUME PipeInv, NEW r \in Runs, GateSwitches(r)
    PROVE  PipeInv'
  <1> DEFINE st == run[r]
             s == st.chain[st.idx]
             n == st.fails[s] + 1
             back == BacktrackOf[st.route]
  <1>1. RunInv(st) /\ st \in PipeRecords /\ st.pc = "gate" /\ OnChain(st) /\ st.hint = None
    BY DEF GateSwitches, PipeInv, RunInv, InWalk, HintIsOwn
  <1>a. PICK target \in TargetsOf(r) : \E own \in MayHint(EvictAtOrAfter(st, target), target) :
            Internal(r, [own EXCEPT !.pc = "node", !.idx = target, !.backs = @ + 1,
                                    !.answering = FALSE, !.fb = {i \in @ : i < target},
                                    !.fails[s] = n])
    BY DEF GateSwitches, Node, Failures
  <1>2. PICK own \in MayHint(EvictAtOrAfter(st, target), target) :
            Internal(r, [own EXCEPT !.pc = "node", !.idx = target, !.backs = @ + 1,
                                    !.answering = FALSE, !.fb = {i \in @ : i < target},
                                    !.fails[s] = n])
    BY <1>a
  <1> DEFINE next == [own EXCEPT !.pc = "node", !.idx = target, !.backs = @ + 1,
                                 !.answering = FALSE, !.fb = {i \in @ : i < target},
                                 !.fails[s] = n]
             kept == EvictAtOrAfter(st, target)
  <1>3. /\ DOMAIN st.chain = 1 .. Len(st.chain) /\ Len(st.chain) \in Nat
        /\ st.idx \in DOMAIN st.chain /\ s \in Skills
    BY <1>1, ChainsAreSequences DEF OnChain
  <1>4. target \in DOMAIN st.chain /\ s \in DOMAIN back /\ st.chain[target] = back[s]
    BY DEF TargetsOf, Node
  <1>5. target < st.idx
    <2>1. PICK i \in DOMAIN st.chain :
              st.chain[i] = s /\ \A j \in DOMAIN st.chain : st.chain[j] = back[s] => j < i
      BY <1>1, <1>4 DEF OnChain, ValidTopology
    <2>2. i = st.idx
      BY <1>1, <1>3, <2>1 DEF OnChain, ValidTopology
    <2> QED BY <1>4, <2>1, <2>2
  <1>6. n \in Nat
    <2> HIDE DEF s, st
    <2> QED BY <1>1, <1>3 DEF PipeRecords
  <1>7. Internal(r, next)
    BY <1>2
  <1> HIDE DEF st, s, n
  <1>8. /\ kept \in PipeRecords /\ kept.msg = st.msg /\ kept.req = st.req /\ kept.route = st.route
        /\ kept.chain = st.chain /\ kept.hint = None
    BY <1>1 DEF EvictAtOrAfter, PipeRecords
  <1> HIDE DEF kept
  <1>9. /\ own \in PipeRecords /\ own.msg = st.msg /\ own.req = st.req /\ own.route = st.route
        /\ own.chain = st.chain /\ own.hint \in {None, target} /\ own.outs = kept.outs
        /\ own.skipped = kept.skipped
    <2>1. own = kept \/ own = [kept EXCEPT !.hint = target]
      BY <1>2 DEF MayHint, kept
    <2>2. target \in Nat
      BY <1>3, <1>4
    <2>3. CASE own = kept
      BY ONLY <1>8, <2>3
    <2>4. CASE own = [kept EXCEPT !.hint = target]
      BY ONLY <1>8, <2>2, <2>4 DEF PipeRecords
    <2> QED BY ONLY <2>1, <2>3, <2>4
  <1>10. /\ next \in PipeRecords /\ next.pc = "node" /\ next.msg = st.msg /\ next.req = st.req
         /\ next.route = st.route /\ next.chain = st.chain /\ next.idx = target
         /\ next.hint \in {None, target} /\ ~ next.answering /\ next.outs = kept.outs
         /\ next.skipped = kept.skipped
    <2>1. target \in Nat /\ own.backs + 1 \in Nat /\ {i \in own.fb : i < target} \in SUBSET Nat
      BY <1>3, <1>4, <1>9 DEF PipeRecords
    <2>2. [own.fails EXCEPT ![s] = n] \in [Skills -> Nat]
      BY <1>3, <1>6, <1>9 DEF PipeRecords
    <2> QED BY <1>9, <2>1, <2>2 DEF PipeRecords
  <1> HIDE DEF next
  <1>11. RunInv(next)
    BY <1>1, <1>4, <1>5, <1>10, EvictedRun DEF kept
  <1> QED BY <1>7, <1>11, InternalMoves

-----------------------------------------------------------------------------
(* Checkpoints, ends and crashes                                           *)

\* What a run that is saving would write.
LEMMA CheckpointIsSound ==
    ASSUME NEW r \in Runs, RunInv(run[r]), run[r].pc = "saving"
    PROVE  FileInv(CheckpointOf(r))
  <1> DEFINE st == run[r]
             f == CheckpointOf(r)
  <1>1. OnChain(st) /\ ServesOne(st) /\ st \in PipeRecords /\ st.pc = "saving"
    BY DEF RunInv, InWalk
  <1>2. /\ DOMAIN st.chain = 1 .. Len(st.chain) /\ Len(st.chain) \in Nat
        /\ st.idx \in DOMAIN st.chain /\ st.chain[st.idx] \in Skills
    BY <1>1, ChainsAreSequences DEF OnChain
  <1>3. /\ f.route = st.route /\ f.idx = st.idx /\ f.skill = st.chain[st.idx] /\ f.req = st.req
        /\ f.outs = st.outs /\ f.skipped = st.skipped
    BY DEF CheckpointOf, Node
  <1>4. f \in Checkpoints
    BY <1>1, <1>2 DEF CheckpointOf, Node, Checkpoints, OnChain, PipeRecords
  <1> HIDE DEF f
  <1>5. f.idx > 0 /\ \A o \in f.outs : o[2] = f.req
    BY <1>1, <1>2, <1>3 DEF ServesOne
  <1>6. ASSUME EditsAreSeen PROVE \E c \in ChainsOf[f.route] : TakenOf(f, c)
    <2>1. HasPassed(st)
      BY <1>1, <1>6 DEF RunInv, InWalk
    <2> HIDE DEF st
    <2>2. TakenOf(f, st.chain)
      BY <1>1, <1>2, <1>3, <2>1 DEF TakenOf, HasPassed, OnChain
    <2> QED BY <1>1, <1>3, <2>2 DEF OnChain
  <1> QED BY <1>4, <1>5, <1>6 DEF FileInv, f

LEMMA SaveStep ==
    ASSUME PipeInv, NEW r \in Runs, Save(r)
    PROVE  PipeInv'
  <1> DEFINE st == run[r]
             next == [st EXCEPT !.pc = "node", !.idx = @ + 1, !.answering = FALSE]
  <1>1. RunInv(st) /\ st \in PipeRecords /\ st.pc = "saving" /\ OnChain(st) /\ HintIsOwn(st)
    BY DEF Save, PipeInv, RunInv, InWalk
  <1>2. FileInv(file') /\ FileInv(late')
    BY <1>1, CheckpointIsSound, PutsKeeps DEF Save, PipeInv
  <1>3. CASE st.pause
    <2>1. RunInv([Idle EXCEPT !.pc = "stopping", !.msg = st.msg])
      BY <1>1, EndedRun DEF InWalk
    <2> QED BY <1>2, <1>3, <2>1, OneRunMoves DEF Save, Ends
  <1>4. CASE ~ st.pause
    <2>1. run' = [run EXCEPT ![r] = next]
      BY <1>4 DEF Save, PipeInv
    <2>2. /\ DOMAIN st.chain = 1 .. Len(st.chain) /\ Len(st.chain) \in Nat
          /\ st.idx \in DOMAIN st.chain /\ st.idx + 1 \in Nat
      BY <1>1, ChainsAreSequences DEF OnChain
    <2> HIDE DEF st
    <2>3. /\ next \in PipeRecords /\ next.pc = "node" /\ next.chain = st.chain
          /\ next.idx = st.idx + 1 /\ next.msg = st.msg /\ next.req = st.req
          /\ next.route = st.route /\ next.hint = None /\ next.outs = st.outs
          /\ next.skipped = st.skipped /\ ~ next.answering
      BY <1>1, <1>4, <2>2 DEF PipeRecords, HintIsOwn
    <2> HIDE DEF next
    <2>4. OnChain(next) /\ HintIsOwn(next) /\ Arrived(next) /\ ServesOne(next)
      BY <1>1, <2>2, <2>3 DEF OnChain, HintIsOwn, Arrived, ServesOne, RunInv
    <2>5. ASSUME EditsAreSeen PROVE HasPassed(next)
      <3>1. HasPassed(st)
        BY <1>1, <2>5 DEF RunInv, InWalk
      <3>2. \A i \in DOMAIN next.chain : i < next.idx =>
                next.chain[i] \in HasOutput(next.outs) \cup next.skipped
        BY <1>1, <2>2, <2>3, <3>1 DEF HasPassed
      <3>3. \A x \in HasOutput(next.outs) : \E i \in DOMAIN next.chain : i <= next.idx /\ next.chain[i] = x
        BY <2>2, <2>3, <3>1 DEF HasPassed
      <3>4. next.idx \in DOMAIN next.chain => next.chain[next.idx] \notin HasOutput(next.outs)
        <4> SUFFICES ASSUME st.idx + 1 \in DOMAIN st.chain, st.chain[st.idx + 1] \in HasOutput(st.outs)
                     PROVE  FALSE
          BY <2>3
        <4>1. PICK i \in DOMAIN st.chain : i <= st.idx /\ st.chain[i] = st.chain[st.idx + 1]
          BY <3>1 DEF HasPassed
        <4>2. i = st.idx + 1
          BY <1>1, <4>1 DEF OnChain, ValidTopology
        <4> QED BY <2>2, <4>1, <4>2
      <3> QED BY <2>3, <3>2, <3>3, <3>4 DEF HasPassed
    <2>6. RunInv(next)
      BY <2>3, <2>4, <2>5 DEF RunInv
    <2> QED BY <1>2, <2>1, <2>6, OneRunMoves
  <1> QED BY <1>3, <1>4

LEMMA OverStep ==
    ASSUME PipeInv, NEW r \in Runs, Over(r)
    PROVE  PipeInv'
  <1> DEFINE st == run[r]
             end == IF st.pc = "completing" THEN "completed" ELSE "stopped"
             next == [st EXCEPT !.pc = end]
  <1>1. RunInv(st) /\ st \in PipeRecords /\ st.pc \in {"completing", "stopping"} /\ st.msg \in Msgs
    BY DEF Over, PipeInv, RunInv, Arrived
  <1>2. run' = [run EXCEPT ![r] = next] /\ FileInv(file') /\ FileInv(late')
    BY DEF Over, PipeInv
  <1>3. end \in {"completed", "stopped"}
    OBVIOUS
  <1> HIDE DEF st, end
  <1>4. next \in PipeRecords /\ next.pc = end /\ next.msg = st.msg /\ next.outs = st.outs /\ next.req = st.req
    BY <1>1, <1>3 DEF PipeRecords
  <1> HIDE DEF next
  <1>5. RunInv(next)
    BY <1>1, <1>3, <1>4 DEF RunInv, Arrived, ServesOne, InWalk
  <1> QED BY <1>2, <1>5, OneRunMoves

LEMMA DisconnectStep ==
    ASSUME PipeInv, NEW r \in Runs, Disconnect(r)
    PROVE  PipeInv'
  <1>1. RunInv(run[r]) /\ run[r].pc \in {"queued"} \cup InWalk
    BY DEF Disconnect, PipeInv, InWalk
  <1>2. RunInv([Idle EXCEPT !.pc = "stopping", !.msg = run[r].msg])
    BY <1>1, EndedRun
  <1>3. FileInv(late')
    BY <1>1, CheckpointIsSound DEF Disconnect, PipeInv
  <1> QED BY <1>2, <1>3, OneRunMoves DEF Disconnect, Ends, PipeInv

LEMMA CrashStep ==
    ASSUME PipeInv, Crash
    PROVE  PipeInv'
  <1>1. FileInv(file') /\ FileInv(late')
    BY DEF Crash, FileInv, PipeInv
  <1>2. ASSUME NEW r \in Runs PROVE RunInv(run'[r])
    <2>1. RunInv(run[r])
      BY DEF PipeInv
    <2>2. CASE ~ Live(r)
      BY <2>1, <2>2 DEF Crash
    <2>3. CASE Live(r)
      <3> DEFINE next == [Idle EXCEPT !.pc = "stopped", !.msg = run[r].msg]
      <3>1. run[r].msg \in Msgs
        BY <2>1, <2>3 DEF Live, RunInv, Arrived
      <3>2. next \in PipeRecords /\ next.pc = "stopped" /\ next.msg \in Msgs /\ next.outs = {}
        BY <3>1, IdleIsRecord DEF PipeRecords, Idle
      <3>3. run'[r] = next
        BY <2>3 DEF Crash
      <3> HIDE DEF next
      <3> QED BY <3>2, <3>3 DEF RunInv, Arrived, ServesOne, InWalk
    <2> QED BY <2>2, <2>3
  <1> QED BY <1>1, <1>2 DEF PipeInv, Crash

-----------------------------------------------------------------------------
(* The theorems                                                            *)

LEMMA PipeStart == WalkInit => PipeInv
  <1> SUFFICES ASSUME WalkInit PROVE PipeInv
    OBVIOUS
  <1>1. RunInv(Idle)
    <2>1. Idle.pc = "idle" /\ Idle.outs = {}
      BY DEF Idle
    <2> QED BY <2>1, IdleIsRecord DEF RunInv, Arrived, ServesOne, InWalk
  <1> QED BY <1>1 DEF WalkInit, PipeInv, FileInv

LEMMA StepKeeps ==
    ASSUME PipeInv, NEW r \in Runs, Step(r)
    PROVE  PipeInv'
  <1>1. CASE Start(r) \/ Finish(r) \/ Skip(r) \/ Begin(r)
    BY <1>1, StartStep, FinishStep, SkipStep, BeginStep
  <1>2. CASE ConditionRaises(r) \/ FallbackFails(r) \/ GateRaises(r) \/ BaseUnavailable(r)
             \/ GateUnavailable(r) \/ GateBlocks(r)
    BY <1>2, AbortStep DEF ConditionRaises, FallbackFails, GateRaises, BaseUnavailable,
                           GateUnavailable, GateBlocks, InWalk
  <1>3. CASE SkillFails(r) \/ Pause(r) \/ BasePasses(r) \/ BaseRejects(r)
    BY <1>3, SkillFailsStep, PauseStep, BasePassesStep, BaseRejectsStep
  <1>4. CASE GatePasses(r) \/ GateRejectsSkill(r) \/ GateRetries(r) \/ GateSwitches(r)
    BY <1>4, GatePassesStep, GateRejectsSkillStep, GateRetriesStep, GateSwitchesStep
  <1>5. CASE Save(r) \/ Over(r)
    BY <1>5, SaveStep, OverStep
  <1> QED BY <1>1, <1>2, <1>3, <1>4, <1>5 DEF Step

\* The checkpoint, whoever writes it and however late, and the walks of all
\* runs of the session fit together (run_pipeline, _apply_session_checkpoint).
THEOREM PipelineInvariant == WalkSpec => []PipeInv
  <1>1. PipeInv /\ [WalkNext]_walkVars => PipeInv'
    <2> SUFFICES ASSUME PipeInv, [WalkNext]_walkVars PROVE PipeInv'
      OBVIOUS
    <2>1. CASE UNCHANGED walkVars
      BY <2>1 DEF walkVars, PipeInv
    <2>2. CASE \E r \in Runs, m \in Msgs : Receive(r, m)
      BY <2>2, QueuedStep DEF Receive
    <2>3. ASSUME NEW r \in Runs, Resume(r) PROVE PipeInv'
      <3>1. run[r].msg \in Msgs
        BY <2>3 DEF Resume, PipeInv, RunInv, Arrived
      <3> QED BY <2>3, <3>1, QueuedStep DEF Resume
    <2>4. CASE \E r \in Runs : Abandon(r) \/ Step(r) \/ Disconnect(r)
      BY <2>4, AbandonStep, StepKeeps, DisconnectStep
    <2>5. CASE LateSave
      BY <2>5 DEF LateSave, PipeInv, FileInv
    <2>6. CASE Crash
      BY <2>6, CrashStep
    <2> QED BY <2>1, <2>2, <2>3, <2>4, <2>5, <2>6 DEF WalkNext
  <1> QED BY <1>1, PipeStart, PTL DEF WalkSpec

\* A walk only ever holds outputs written for the request it serves, for any
\* chains and any edits of them (_apply_session_checkpoint: "Crash recovery
\* remains exact-message only").
THEOREM ContextIsAlwaysOneRequest == WalkSpec => []ContextIsOneRequest
  <1>1. PipeInv => ContextIsOneRequest
    BY DEF PipeInv, RunInv, ServesOne, ContextIsOneRequest
  <1> QED BY <1>1, PipelineInvariant, PTL

\* A walk that advances, retries, goes back, answers a pause or resumes after
\* a crash has the outputs of exactly the nodes before it, and feedback for
\* its own node only; provided an edit of the chain shows at the node that the
\* checkpoint names (_resume_node_still_matches compares no other).
THEOREM ProgressStaysConsistent ==
    ASSUME EditsAreSeen PROVE WalkSpec => []ProgressIsConsistent
  <1>1. PipeInv => OutputsMatchProgress
    <2> SUFFICES ASSUME PipeInv, NEW r \in Runs, Walking(r), NEW i \in DOMAIN run[r].chain
                 PROVE  LET s == run[r].chain[i]
                        IN  /\ i < run[r].idx => s \in Written(r) \cup run[r].skipped
                            /\ i = run[r].idx => (s \in Written(r) <=> run[r].answering)
                            /\ i > run[r].idx => s \notin Written(r)
      BY DEF OutputsMatchProgress
    <2>1. OnChain(run[r]) /\ HasPassed(run[r]) /\ run[r].pc # "saving"
      BY DEF PipeInv, RunInv, Walking, InWalk
    <2>2. DOMAIN run[r].chain = 1 .. Len(run[r].chain) /\ Len(run[r].chain) \in Nat
      BY <2>1, ChainsAreSequences DEF OnChain
    <2>3. Written(r) = HasOutput(run[r].outs)
      BY DEF Written, HasOutput
    <2>4. ASSUME i > run[r].idx, run[r].chain[i] \in Written(r) PROVE FALSE
      <3>1. PICK j \in DOMAIN run[r].chain : j <= run[r].idx /\ run[r].chain[j] = run[r].chain[i]
        BY <2>1, <2>3, <2>4 DEF HasPassed
      <3>2. i = j
        BY <2>1, <3>1 DEF OnChain, ValidTopology
      <3> QED BY <2>1, <2>2, <2>4, <3>1, <3>2 DEF OnChain
    <2> QED BY <2>1, <2>3, <2>4 DEF HasPassed
  <1>2. PipeInv => HintReachesItsNode
    BY DEF PipeInv, RunInv, HintIsOwn, HintReachesItsNode, InWalk
  <1>3. PipeInv => ProgressIsConsistent
    BY <1>1, <1>2 DEF ProgressIsConsistent
  <1> QED BY <1>3, PipelineInvariant, PTL

=============================================================================
