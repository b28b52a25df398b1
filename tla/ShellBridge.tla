------------------------------ MODULE ShellBridge ------------------------------
(***************************************************************************)
(* NodeBridge (shell/src/bridge.ts) with the parts of the store it drives: *)
(* the request in flight, the queue of typed-ahead messages, the input     *)
(* lock of the shell's own operations, the approval prompt and the current *)
(* session.  Each await ends a step; a cancelled request keeps its place   *)
(* until its coroutine has unwound.                                        *)
(***************************************************************************)
EXTENDS Naturals, SequencesExt

CONSTANTS
    MaxMessages,    \* bound: messages typed
    MaxQueued,      \* MAX_QUEUED_MESSAGES
    MaxShellOps,    \* bound: shell operations started
    MaxPrompts      \* bound: approvals the server asks for

ASSUME ShellAssumption ==
    {MaxMessages, MaxQueued, MaxShellOps, MaxPrompts} \subseteq Nat

VARIABLES
    active,         \* activeRequest: a request, or 0
    at,             \* request -> where its coroutine is
    aborted,        \* the requests whose signal is aborted
    busy, locked, compressing,      \* the store's flags
    shellOp,        \* the operation that holds inputLocked
    opTarget,       \* the session it is about
    queued,         \* queuedMessages
    session,        \* currentSession, 0 for none
    prompt,         \* pendingApproval, 0 for none
    resolving,      \* approvalResolving
    posts,          \* resolveApproval calls waiting for the server
    asking,         \* the approval the server waits for, 0 for none
    taken,          \* the answers it has taken
    prompts,        \* approvals asked so far
    typed, ops,     \* what the bounds count
    settled,        \* approvals the user has answered
    sent, dropped,  \* messages sent; messages the user let go with a session
    chosen          \* the session the user's own actions lead to

shellVars == <<active, at, aborted, busy, locked, compressing, shellOp, opTarget, queued, session,
               prompt, resolving, posts, asking, taken, prompts, typed, ops, settled, sent, dropped,
               chosen>>

\* Requests are numbered by the message, or by the operation, they serve.
OpRequest(n) == MaxMessages + n
ShellRequest == 1 .. MaxMessages + MaxShellOps
Saved == MaxMessages + MaxShellOps + 1      \* a session of the history
Live == active # 0 /\ active \notin aborted

ShellInit ==
    /\ active = 0 /\ at = [r \in ShellRequest |-> "none"] /\ aborted = {}
    /\ busy = FALSE /\ locked = FALSE /\ compressing = FALSE
    /\ shellOp = "none" /\ opTarget = 0
    /\ queued = <<>> /\ session = 0
    /\ prompt = 0 /\ resolving = FALSE /\ posts = {} /\ asking = 0 /\ taken = {} /\ prompts = 0
    /\ typed = 0 /\ ops = 0 /\ settled = {}
    /\ sent = <<>> /\ dropped = {} /\ chosen = 0

-----------------------------------------------------------------------------
(* Starting and finishing a request                                        *)

\* startRequest: a message without a session creates one first.
Start(r, stage) ==
    /\ active' = r
    /\ at' = [at EXCEPT ![r] = stage]
    /\ busy' = TRUE
    /\ compressing' = FALSE

SendNow(m) ==
    /\ Start(m, IF session = 0 THEN "creating" ELSE "streaming")
    /\ sent' = Append(sent, m)

GoIdle ==
    /\ prompt' = 0 /\ resolving' = FALSE /\ busy' = FALSE /\ compressing' = FALSE

\* The handoff of the next queued message is refused while an operation holds
\* the input; the message goes back to the head of the queue.
RequeueNothing(rest) == queued' = rest
Requeue(rest) == queued' = <<Head(queued)>> \o rest

MayHandOff == ~ locked /\ ~ compressing

\* finishRequest, as the last step of the coroutine of "r".
FinishRequest(r) ==
    IF active # r
    THEN /\ at' = [at EXCEPT ![r] = "none"]
         /\ UNCHANGED <<active, busy, compressing, queued, prompt, resolving, sent>>
    ELSE IF queued = <<>>
    THEN /\ GoIdle /\ active' = 0 /\ at' = [at EXCEPT ![r] = "none"]
         /\ UNCHANGED <<queued, sent>>
    ELSE IF MayHandOff
    THEN /\ active' = Head(queued) /\ queued' = Tail(queued)
         /\ at' = [at EXCEPT ![r] = "none",
                             ![Head(queued)] = IF session = 0 THEN "creating" ELSE "streaming"]
         /\ sent' = Append(sent, Head(queued))
         /\ busy' = TRUE /\ compressing' = FALSE /\ prompt' = 0 /\ resolving' = FALSE
    ELSE /\ Requeue(Tail(queued))
         /\ GoIdle /\ active' = 0 /\ at' = [at EXCEPT ![r] = "none"]
         /\ UNCHANGED sent

-----------------------------------------------------------------------------
(* The user                                                                *)

\* The composer has the focus: submitChat queues while busy, and sendMessage
\* queues behind a request that is still unwinding.
Type ==
    /\ typed < MaxMessages /\ ~ locked /\ ~ compressing
    /\ typed' = typed + 1
    /\ \/ /\ busy \/ active # 0
          /\ Len(queued) < MaxQueued
          /\ queued' = Append(queued, typed + 1)
          /\ UNCHANGED <<active, at, busy, compressing, sent>>
       \/ /\ ~ busy /\ active = 0
          /\ SendNow(typed + 1)
          /\ UNCHANGED queued
    /\ UNCHANGED <<aborted, locked, shellOp, opTarget, session, prompt, resolving, posts,
                   asking, taken, prompts, ops, settled, dropped, chosen>>

\* Esc removes the newest queued message.
RemoveQueued ==
    /\ queued # <<>> /\ ~ locked
    /\ queued' = Front(queued)
    /\ dropped' = dropped \cup {Last(queued)}
    /\ UNCHANGED <<active, at, aborted, busy, locked, compressing, shellOp, opTarget, session,
                   prompt, resolving, posts, asking, taken, prompts, typed, ops, settled, sent,
                   chosen>>

\* cancelRequest: the prompt's own Esc is dead while an answer is under way.
CancelRequest ==
    /\ Live /\ busy /\ (prompt # 0 => ~ resolving)
    /\ aborted' = aborted \cup {active}
    /\ GoIdle
    /\ asking' = 0
    /\ UNCHANGED <<active, at, locked, shellOp, opTarget, queued, session, posts, taken,
                   prompts, typed, ops, settled, sent, dropped, chosen>>

ResolveApproval ==
    /\ prompt # 0 /\ ~ resolving
    /\ resolving' = TRUE
    /\ posts' = posts \cup {prompt}
    /\ settled' = settled \cup {prompt}
    /\ UNCHANGED <<active, at, aborted, busy, locked, compressing, shellOp, opTarget, queued,
                   session, prompt, asking, taken, prompts, typed, ops, sent, dropped, chosen>>

\* The answer of the POST belongs to the approval it was sent for.
OwnsPrompt(a) == prompt = a

\* The server takes the answer and the run goes on; the response of the POST
\* may be overtaken by the events of the run.
AnswerTaken(a) ==
    /\ a \in posts /\ asking = a
    /\ asking' = 0
    /\ taken' = taken \cup {a}
    /\ UNCHANGED <<active, at, aborted, busy, locked, compressing, shellOp, opTarget, queued,
                   session, prompt, resolving, posts, prompts, typed, ops, settled, sent,
                   dropped, chosen>>

\* The POST returns: accepted, or refused because nobody waits for it.
ApprovalPosted(a) ==
    /\ a \in posts
    /\ posts' = posts \ {a}
    /\ resolving' = (resolving /\ ~ OwnsPrompt(a))
    /\ prompt' = IF a \in taken /\ OwnsPrompt(a) THEN 0 ELSE prompt
    /\ UNCHANGED <<active, at, aborted, busy, locked, compressing, shellOp, opTarget, queued,
                   session, asking, taken, prompts, typed, ops, settled, sent, dropped,
                   chosen>>

\* startNewSession; an aborted request may still be unwinding.
Fresh ==
    /\ session' = 0 /\ chosen' = 0 /\ queued' = <<>>
    /\ dropped' = dropped \cup ToSet(queued)
    /\ GoIdle

MayOperate == ~ Live /\ ~ compressing /\ ~ locked
Idle == ops < MaxShellOps /\ ~ busy /\ ~ locked /\ ~ compressing

StartNewSession ==
    /\ Idle /\ MayOperate
    /\ ops' = ops + 1
    /\ Fresh
    /\ UNCHANGED <<active, at, aborted, locked, shellOp, opTarget, posts, asking, taken,
                   prompts, typed, settled, sent>>

\* resumeSession, clearCurrentSession, selectModel, a configuration command and
\* the recovery of a run hold the input while they wait for the server.
BeginOp(kind) ==
    /\ Idle
    /\ kind \in {"load", "clear", "recover"} => MayOperate
    /\ kind = "clear" => session # 0
    /\ ops' = ops + 1
    /\ locked' = TRUE /\ shellOp' = kind
    /\ busy' = (kind = "config")
    /\ opTarget' = IF kind \in {"load", "recover"} THEN Saved ELSE session
    /\ UNCHANGED <<active, at, aborted, compressing, queued, session, prompt, resolving, posts,
                   asking, taken, prompts, typed, settled, sent, dropped, chosen>>

Unlock == locked' = FALSE /\ shellOp' = "none" /\ opTarget' = 0

OpFails ==
    /\ shellOp # "none"
    /\ Unlock
    /\ busy' = (busy /\ shellOp # "config")
    /\ UNCHANGED <<active, at, aborted, compressing, queued, session, prompt, resolving, posts,
                   asking, taken, prompts, typed, ops, settled, sent, dropped, chosen>>

\* loadSession and the deletion of the current session replace the
\* conversation and its queue.
Loaded ==
    /\ shellOp = "load"
    /\ Unlock
    /\ session' = opTarget /\ chosen' = opTarget
    /\ queued' = <<>> /\ dropped' = dropped \cup ToSet(queued)
    /\ UNCHANGED <<active, at, aborted, busy, compressing, prompt, resolving, posts, asking,
                   taken, prompts, typed, ops, settled, sent>>

Cleared ==
    /\ shellOp = "clear"
    /\ Unlock /\ Fresh
    /\ UNCHANGED <<active, at, aborted, posts, asking, taken, prompts, typed, ops, settled,
                   sent>>

Configured ==
    /\ shellOp \in {"model", "config"}
    /\ Unlock
    /\ busy' = (busy /\ shellOp # "config")
    /\ UNCHANGED <<active, at, aborted, compressing, queued, session, prompt, resolving, posts,
                   asking, taken, prompts, typed, ops, settled, sent, dropped, chosen>>

\* prepareRunRecovery ends and the resumed run takes over the shell; the
\* queue stays when the run is of the current session.
Recovered ==
    /\ shellOp = "recover"
    /\ Unlock
    /\ Start(OpRequest(ops), "streaming")
    /\ session' = opTarget /\ chosen' = opTarget
    /\ IF session = opTarget THEN UNCHANGED <<queued, dropped>>
       ELSE queued' = <<>> /\ dropped' = dropped \cup ToSet(queued)
    /\ UNCHANGED <<aborted, prompt, resolving, posts, asking, taken, prompts, typed, settled,
                   ops, sent>>

CompressSession ==
    /\ Idle /\ session # 0
    /\ ops' = ops + 1
    /\ active' = OpRequest(ops + 1)
    /\ at' = [at EXCEPT ![OpRequest(ops + 1)] = "compressing"]
    /\ busy' = TRUE /\ compressing' = TRUE
    /\ UNCHANGED <<aborted, locked, shellOp, opTarget, queued, session, prompt, resolving,
                   posts, asking, taken, prompts, typed, settled, sent, dropped, chosen>>

-----------------------------------------------------------------------------
(* The coroutine of a request                                              *)

\* A session that was created for a cancelled message is deleted again.
AdoptsAlways(r) == TRUE
Adopts(r) == r \notin aborted

Created(r) ==
    /\ at[r] = "creating"
    /\ at' = [at EXCEPT ![r] = IF r \in aborted THEN "unwinding" ELSE "streaming"]
    /\ session' = IF Adopts(r) THEN r ELSE session
    /\ chosen' = IF r \in aborted THEN chosen ELSE r
    /\ UNCHANGED <<active, aborted, busy, locked, compressing, shellOp, opTarget, queued,
                   prompt, resolving, posts, asking, taken, prompts, typed, ops, settled, sent,
                   dropped>>

\* The server pauses the run of the live stream for an approval.
ApprovalRequired ==
    /\ Live /\ at[active] = "streaming" /\ asking = 0 /\ prompts < MaxPrompts
    /\ prompts' = prompts + 1 /\ asking' = prompts + 1 /\ prompt' = prompts + 1
    /\ resolving' = FALSE
    /\ UNCHANGED <<active, at, aborted, busy, locked, compressing, shellOp, opTarget, queued,
                   session, posts, taken, typed, ops, settled, sent, dropped, chosen>>

\* The wait times out on the server; the result of the call closes the prompt.
ApprovalTimedOut ==
    /\ Live /\ at[active] = "streaming" /\ asking # 0
    /\ asking' = 0 /\ prompt' = 0 /\ resolving' = FALSE
    /\ UNCHANGED <<active, at, aborted, busy, locked, compressing, shellOp, opTarget, queued,
                   session, posts, taken, prompts, typed, ops, settled, sent, dropped, chosen>>

\* The run compresses its context and says so.
CompressionEvent(on) ==
    /\ Live /\ at[active] = "streaming" /\ asking = 0
    /\ compressing' = on
    /\ UNCHANGED <<active, at, aborted, busy, locked, shellOp, opTarget, queued, session,
                   prompt, resolving, posts, asking, taken, prompts, typed, ops, settled, sent,
                   dropped, chosen>>

\* "done" arrives: the turn is closed and the list of sessions refreshed.
StreamDone(r) ==
    /\ at[r] = "streaming" /\ r \notin aborted /\ asking = 0
    /\ at' = [at EXCEPT ![r] = "refreshing"]
    /\ prompt' = 0 /\ resolving' = FALSE
    /\ UNCHANGED <<active, aborted, busy, locked, compressing, shellOp, opTarget, queued,
                   session, posts, asking, taken, prompts, typed, ops, settled, sent, dropped,
                   chosen>>

\* The refresh returned, the compression is answered, the request failed at any
\* await (the prompt is taken down), or its abort has reached its end.
Finish(r) ==
    /\ at[r] # "none"
    /\ asking' = IF r = active THEN 0 ELSE asking
    /\ FinishRequest(r)
    /\ UNCHANGED <<aborted, locked, shellOp, opTarget, session, posts, taken, prompts, typed,
                   ops, settled, dropped, chosen>>

ShellNext ==
    \/ Type \/ RemoveQueued \/ CancelRequest \/ ResolveApproval \/ StartNewSession
    \/ \E kind \in {"load", "clear", "recover", "model", "config"} : BeginOp(kind)
    \/ OpFails \/ Loaded \/ Cleared \/ Configured \/ Recovered \/ CompressSession
    \/ ApprovalRequired \/ ApprovalTimedOut
    \/ \E a \in 1 .. MaxPrompts : AnswerTaken(a) \/ ApprovalPosted(a)
    \/ \E on \in BOOLEAN : CompressionEvent(on)
    \/ \E r \in ShellRequest : Created(r) \/ StreamDone(r) \/ Finish(r)

ShellSpec == ShellInit /\ [][ShellNext]_shellVars

-----------------------------------------------------------------------------
(* Properties                                                              *)

\* A request that has not been cancelled always shows as busy, so that no
\* command that needs an idle shell runs beside it, and the shell is only busy
\* for a request or an operation that will end.
BusyMeansBusy ==
    /\ Live => busy
    /\ busy => Live \/ shellOp = "config"

\* The prompt of an approval the server waits for stays until the user has
\* answered it: the late answer to an earlier one does not take it down.
PromptStays == asking # 0 => prompt = asking \/ asking \in settled

\* A message the shell accepted is sent once, or waits in the queue, or was
\* let go by the user: a refused handoff loses none, even with a full queue.
MessagesAreKept ==
    LET places == {ToSet(sent), ToSet(queued), dropped}
    IN  /\ \A m \in 1 .. typed : \E p \in places : m \in p
        /\ IsInjective(sent \o queued)

\* The current session is the one the user's actions lead to: what a cancelled
\* request created late does not replace it.
SessionIsChosen == session = chosen

\* The shell's flags follow its requests: busy exactly while something is under
\* way, and the session is the one the user chose.
ShellIsInStep == BusyMeansBusy /\ SessionIsChosen

\* What the user typed or must answer is not lost: a message is sent, queued or
\* given back, and an open prompt stays until it is settled.
InputIsKept == MessagesAreKept /\ PromptStays

===============================================================================
