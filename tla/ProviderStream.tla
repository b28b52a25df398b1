--------------------------- MODULE ProviderStream ---------------------------
(***************************************************************************)
(* One model call, from the HTTP attempts a provider adapter makes to the  *)
(* response the ReAct loop acts on (engine/llm/adapters, engine/llm/client *)
(* and the accumulator of react_loop).                                     *)
(*                                                                         *)
(* An adapter retries an attempt that fails before any content; usage      *)
(* events are held back until the first content commits the attempt, so    *)
(* the consumer never hears of an attempt that is thrown away.  When the   *)
(* stream fails before any content the loop falls back once to the         *)
(* non-streaming request, which retries on its own.  Every call of the     *)
(* client leaves one generation record.                                    *)
(*                                                                         *)
(* The provider is external: each attempt answers with any status and any  *)
(* sequence of chunks.  Text is a tag naming the HTTP request it came      *)
(* from; the arguments of a tool call are CallParts numbered fragments,    *)
(* which parse exactly when they are all there, in order, or all absent.   *)
(***************************************************************************)
EXTENDS Naturals, Sequences, FiniteSets, SequencesExt

CONSTANTS
    MaxRetries,     \* MAX_RETRIES of adapters/_retry.py
    MaxEvents,      \* SSEStreamLimiter.max_events
    CallParts,      \* fragments in which a call's arguments arrive
    CallIndexes     \* indexes of the tool calls of one response

ASSUME ProviderStreamAssumption ==
    /\ MaxRetries \in Nat \ {0} /\ MaxEvents \in Nat \ {0}
    /\ CallParts \in Nat \ {0} /\ CallIndexes \subseteq Nat

VARIABLES
    provider,     \* "openai" or "anthropic"
    callMode,     \* how the call is made: "stream", "events" or "plain"
    draftShown,   \* an earlier continuation of this run is still on screen
    callStage,    \* where the call stands
    tryNumber,    \* attempt of the adapter method that is running
    posted,       \* HTTP requests made so far
    chunks,       \* SSE events of the current attempt
    sse,          \* locals of _stream_response and what the consumer heard
    generations,  \* generation records emitted
    clientCalls,  \* calls made to the client: one observed stream or chat each
    modelReply    \* the response the loop acts on

providerVars == <<provider, callMode, draftShown, callStage, tryNumber, posted,
                  chunks, sse, generations, clientCalls, modelReply>>

NoReply == [origin |-> "none"]
Failures == {"status", "refused", "network", "truncated", "transient", "fatal",
             "malformed", "limit", "context"}
Transient == {"status", "network", "truncated", "transient"}

CallOver == callStage \in {"answered", "raised", "contextLimit", "abandoned"}

--------------------------------------------------------------------------
(* The events of one attempt.                                             *)

\* The locals an attempt starts from; what was heard before stays heard.
FreshAttempt(s) == [s EXCEPT !.content = FALSE, !.created = FALSE, !.pending = <<>>,
                             !.usage = {}, !.emitted = FALSE, !.finish = "none"]

ProviderEvent(t) == [type |-> t, post |-> posted]
UsageEvent(keys) == [type |-> "usage", post |-> posted, keys |-> keys]
CallEvent(i, head, part) ==
    [type |-> "call", post |-> posted, index |-> i, head |-> head, part |-> part]

Yield(s, e) == [s EXCEPT !.heard = Append(@, e)]

\* commit_attempt: announce the response, then what was held back.
Commit(s) ==
    IF s.created THEN s
    ELSE [s EXCEPT !.created = TRUE, !.pending = <<>>,
                   !.heard = (@ \o <<ProviderEvent("created")>>) \o s.pending]

Content(s, e) == Yield([Commit(s) EXCEPT !.content = TRUE], e)

\* A usage event waits for the attempt to be committed.
ReportUsage(s, keys) ==
    IF s.created THEN Yield(s, UsageEvent(keys))
    ELSE [s EXCEPT !.pending = Append(@, UsageEvent(keys))]

Deltas ==
    {[body |-> b, index |-> 0, part |-> 0] : b \in {"text", "reasoning", "bare"}}
        \cup [body : {"head"}, index : CallIndexes, part : {0}]
        \cup [body : {"part"}, index : CallIndexes, part : 1..CallParts]

\* One delta; a call delta that carries nothing but its index is dropped.
HandleDelta(s, d) ==
    CASE d.body \in {"text", "reasoning"} -> Content(s, ProviderEvent(d.body))
      [] d.body = "head" -> Content(s, CallEvent(d.index, TRUE, 0))
      [] d.body = "part" -> Content(s, CallEvent(d.index, FALSE, d.part))
      [] OTHER -> s

\* The provider sends the fragments of a call in order, once each.
InOrder(d) ==
    d.body = "part" =>
        d.part = 1 + Cardinality({k \in DOMAIN sse.heard :
                        LET e == sse.heard[k] IN
                        /\ e.type = "call" /\ e.post = posted
                        /\ e.index = d.index /\ e.part # 0})

--------------------------------------------------------------------------
(* How a stream fails.                                                    *)

\* Content already yielded cannot be taken back: only a transient failure
\* before it, with an attempt left, is retried.
RetriesAnyTransient(kind) == kind \in Transient /\ tryNumber < MaxRetries - 1
Retries(kind) ==
    ~sse.content /\ kind \in Transient /\ tryNumber < MaxRetries - 1

Completed(s) == \E k \in DOMAIN s.heard : s.heard[k].type = "completed"
Heard(s, t) == SelectSeq(s.heard, LAMBDA e : e.type = t)

\* The consumer keeps the last usage it hears.
UsagesHeard(s) == {k \in DOMAIN s.heard : s.heard[k].type = "usage"}
LastUsage(s) ==
    IF UsagesHeard(s) = {} THEN [post |-> 0, keys |-> {}]
    ELSE LET e == s.heard[Max(UsagesHeard(s))] IN [post |-> e.post, keys |-> e.keys]

ChatUsage(post, usage) ==
    [post |-> IF usage THEN post ELSE 0, keys |-> IF usage THEN {"in", "out"} ELSE {}]

\* emit_generation in the finally of _observed_stream and of chat.
StreamRecord == [stream |-> TRUE, ok |-> Completed(sse), usage |-> LastUsage(sse)]
ChatRecord(ok, usage) == [stream |-> FALSE, ok |-> ok, usage |-> usage]

HeardContent ==
    \E k \in DOMAIN sse.heard : sse.heard[k].type \in {"text", "reasoning", "call"}

\* The loop replays nothing: with a delta heard, or an earlier draft on
\* screen, the failure is final; otherwise the plain request is tried once.
MayFallBack == ~HeardContent /\ ~draftShown

StreamRaises(kind) ==
    /\ generations' = Append(generations, StreamRecord)
    /\ IF kind = "context" THEN
           callStage' = "contextLimit" /\ UNCHANGED <<tryNumber, clientCalls>>
       ELSE IF MayFallBack THEN
           callStage' = "chat" /\ tryNumber' = 0 /\ clientCalls' = clientCalls + 1
       ELSE callStage' = "raised" /\ UNCHANGED <<tryNumber, clientCalls>>

StreamFails(kind) ==
    IF Retries(kind)
    THEN callStage' = "backoff" /\ UNCHANGED <<tryNumber, clientCalls, generations>>
    ELSE StreamRaises(kind)

--------------------------------------------------------------------------
ProviderInit ==
    /\ provider \in {"openai", "anthropic"}
    /\ callMode \in {"stream", "events", "plain"}
    /\ draftShown \in BOOLEAN
    /\ callStage = IF callMode = "stream" THEN "send" ELSE "chat"
    /\ tryNumber = 0 /\ posted = 0 /\ chunks = 0
    /\ sse = FreshAttempt([heard |-> <<>>, content |-> FALSE, created |-> FALSE,
                              pending |-> <<>>, usage |-> {}, emitted |-> FALSE,
                              finish |-> "none"])
    /\ generations = <<>> /\ clientCalls = 1 /\ modelReply = NoReply

\* The request is posted and its stream opens.
StreamOpens ==
    /\ callStage = "send"
    /\ callStage' = "reading"
    /\ posted' = posted + 1 /\ chunks' = 0
    /\ sse' = FreshAttempt(sse)
    /\ UNCHANGED <<provider, callMode, draftShown, tryNumber, generations, clientCalls, modelReply>>

\* The request is answered with an error status, or not at all.
StreamRefused(kind) ==
    /\ callStage = "send" /\ kind \in {"status", "refused", "network", "context"}
    /\ posted' = posted + 1
    /\ StreamFails(kind)
    /\ UNCHANGED <<provider, callMode, draftShown, chunks, sse, modelReply>>

\* The Anthropic reader counts an event after it was handled, the OpenAI
\* reader before.
EventLimit == IF provider = "anthropic" THEN MaxEvents + 1 ELSE MaxEvents

ReadsOn == callStage = "reading" /\ chunks < EventLimit

\* A chunk with a delta; OpenAI chunks may report usage beside it.
ReadDelta(d, usage) ==
    /\ ReadsOn /\ InOrder(d) /\ (usage => provider = "openai")
    /\ chunks' = chunks + 1
    /\ sse' = HandleDelta(IF usage THEN ReportUsage(sse, {"in", "out"}) ELSE sse, d)
    /\ UNCHANGED <<provider, callMode, draftShown, callStage, tryNumber, posted, generations, clientCalls, modelReply>>

\* message_start: the input tokens are kept, nothing is yielded.
ReadStart ==
    /\ ReadsOn /\ provider = "anthropic"
    /\ chunks' = chunks + 1
    /\ sse' = [sse EXCEPT !.usage = @ \cup {"in"}]
    /\ UNCHANGED <<provider, callMode, draftShown, callStage, tryNumber, posted, generations, clientCalls, modelReply>>

\* The chunk that names the finish reason: message_delta reports the usage
\* merged so far.
ReadFinish(reason, usage) ==
    /\ ReadsOn
    /\ chunks' = chunks + 1
    /\ LET s == [sse EXCEPT !.finish = reason]
           merged == IF usage THEN s.usage \cup {"out"} ELSE s.usage
           m == [s EXCEPT !.usage = merged, !.emitted = @ \/ merged # {}]
       IN  sse' = IF provider = "openai"
                     THEN IF usage THEN ReportUsage(s, {"in", "out"}) ELSE s
                     ELSE IF merged # {} THEN ReportUsage(m, merged) ELSE m
    /\ UNCHANGED <<provider, callMode, draftShown, callStage, tryNumber, posted, generations, clientCalls, modelReply>>

\* An error member or event, a malformed chunk, a dropped connection, or
\* the reader's limits.
ReadFails(kind) ==
    /\ callStage = "reading"
    /\ kind \in {"transient", "fatal", "malformed", "network", "truncated", "limit"}
    /\ provider = "anthropic" /\ chunks = EventLimit => kind = "limit"
    /\ StreamFails(kind)
    /\ UNCHANGED <<provider, callMode, draftShown, posted, chunks, sse, modelReply>>

\* [DONE] or message_stop: the attempt is committed and completed.
ReadDone ==
    /\ ReadsOn
    /\ LET s == Commit(sse)
           u == IF s.usage # {} /\ ~s.emitted THEN Yield(s, UsageEvent(s.usage)) ELSE s
       IN  sse' = Yield(u, [type |-> "completed", post |-> posted, finish |-> u.finish])
    /\ callStage' = "returned"
    /\ UNCHANGED <<provider, callMode, draftShown, tryNumber, posted, chunks, generations, clientCalls, modelReply>>

\* wait_for_retry, then the next turn of the attempt loop, if there is one.
WaitForRetry ==
    /\ callStage = "backoff"
    /\ tryNumber' = tryNumber + 1
    /\ callStage' = IF tryNumber + 1 < MaxRetries THEN "send" ELSE "returned"
    /\ UNCHANGED <<provider, callMode, draftShown, posted, chunks, sse, generations, clientCalls, modelReply>>

--------------------------------------------------------------------------
(* The response rebuilt from the events.                                  *)

HeardIndexes(s) == {e.index : e \in ToSet(Heard(s, "call"))}
HasHead(s, i) == \E e \in ToSet(Heard(s, "call")) : e.index = i /\ e.head
Parts(s, i) ==
    LET es == SelectSeq(Heard(s, "call"), LAMBDA e : e.index = i /\ e.part # 0)
    IN  [k \in DOMAIN es |-> es[k].part]

Whole(parts) == parts = <<>> \/ parts = [k \in 1..CallParts |-> k]

CutOff(s) == s.finish = "length"

\* build raises on a call without its id and name or with arguments that
\* do not parse, unless the response is known to be cut off.
Builds(s) == CutOff(s) \/ \A i \in HeardIndexes(s) : HasHead(s, i) /\ Whole(Parts(s, i))

BuildResponse(s) ==
    [origin |-> "events", posts |-> {e.post : e \in ToSet(s.heard)},
     calls |-> [i \in HeardIndexes(s) |->
                    [whole |-> ~CutOff(s), head |-> HasHead(s, i), parts |-> Parts(s, i)]],
     usage |-> LastUsage(s)]

\* The event generator is exhausted; only a stream still owes its record,
\* chat has left its own.
OwesRecord == callMode = "stream"

StreamReturns ==
    /\ callStage = "returned"
    /\ generations' = IF OwesRecord THEN Append(generations, StreamRecord) ELSE generations
    /\ IF Builds(sse)
       THEN callStage' = "answered" /\ modelReply' = BuildResponse(sse)
       ELSE callStage' = "raised" /\ UNCHANGED modelReply
    /\ UNCHANGED <<provider, callMode, draftShown, tryNumber, posted, chunks, sse, clientCalls>>

\* The consumer stops iterating (the run is cancelled): the record is
\* written by the finally of the generator, or of chat.
AbandonCall ==
    /\ ~CallOver /\ (callStage = "returned" => OwesRecord)
    /\ callStage' = "abandoned"
    /\ generations' = Append(generations, IF callStage \in {"chat", "chatBackoff"}
                                  THEN ChatRecord(FALSE, ChatUsage(0, FALSE))
                                  ELSE StreamRecord)
    /\ UNCHANGED <<provider, callMode, draftShown, tryNumber, posted, chunks, sse, clientCalls, modelReply>>

--------------------------------------------------------------------------
(* The non-streaming request.                                             *)

\* _complete_as_events announces the response only once it is there.
EventsOf(p, callMade, usage) ==
    LET opened == <<[type |-> "created", post |-> p], [type |-> "text", post |-> p]>>
        call == [type |-> "call", post |-> p, index |-> 0, head |-> TRUE, part |-> 0]
        called == IF callMade THEN Append(opened, call) ELSE opened
        counted == IF usage THEN Append(called, [type |-> "usage", post |-> p, keys |-> {"in", "out"}])
                   ELSE called
    IN  Append(counted, [type |-> "completed", post |-> p, finish |-> "stop"])

\* The body of a plain response, parsed: its calls are whole or refused.
ChatReply(post, callMade, usage) ==
    [origin |-> "chat", posts |-> {post},
     calls |-> [i \in IF callMade THEN {0} ELSE {} |->
                   [whole |-> TRUE, head |-> TRUE, parts |-> <<>>]],
     usage |-> ChatUsage(post, usage)]

ChatAnswers(callMade, usage) ==
    /\ callStage = "chat"
    /\ posted' = posted + 1
    /\ generations' = Append(generations, ChatRecord(TRUE, ChatUsage(posted', usage)))
    /\ IF callMode = "events"
       THEN callStage' = "returned" /\ UNCHANGED modelReply
       ELSE /\ callStage' = "answered"
            /\ modelReply' = ChatReply(posted', callMade, usage)
    /\ sse' = IF callMode = "events"
                 THEN [FreshAttempt(sse) EXCEPT !.heard = @ \o EventsOf(posted', callMade, usage)]
                 ELSE sse
    /\ UNCHANGED <<provider, callMode, draftShown, tryNumber, chunks, clientCalls>>

\* A body without choices or blocks, or with a call that does not parse, is
\* malformed.
ChatFailures == {"status", "refused", "network", "malformed", "context"}

\* _request: an error status or a lost connection is retried, a malformed
\* body is not.
ChatFails(kind) ==
    /\ callStage = "chat" /\ kind \in ChatFailures
    /\ posted' = posted + 1
    /\ IF kind \in {"status", "network"} /\ tryNumber < MaxRetries - 1
       THEN callStage' = "chatBackoff" /\ UNCHANGED generations
       ELSE /\ callStage' = IF kind = "context" THEN "contextLimit" ELSE "raised"
            /\ generations' = Append(generations, ChatRecord(FALSE, ChatUsage(0, FALSE)))
    /\ UNCHANGED <<provider, callMode, draftShown, tryNumber, chunks, sse, clientCalls, modelReply>>

RetryWithBackoff ==
    /\ callStage = "chatBackoff"
    /\ callStage' = "chat" /\ tryNumber' = tryNumber + 1
    /\ UNCHANGED <<provider, callMode, draftShown, posted, chunks, sse, generations, clientCalls, modelReply>>

ProviderNext ==
    \/ StreamOpens
    \/ \E kind \in Failures : StreamRefused(kind)
    \/ \E d \in Deltas, usage \in BOOLEAN : ReadDelta(d, usage)
    \/ ReadStart
    \/ \E reason \in {"stop", "length"}, usage \in BOOLEAN : ReadFinish(reason, usage)
    \/ \E kind \in Failures : ReadFails(kind)
    \/ ReadDone
    \/ WaitForRetry
    \/ StreamReturns
    \/ AbandonCall
    \/ \E callMade, usage \in BOOLEAN : ChatAnswers(callMade, usage)
    \/ \E kind \in Failures : ChatFails(kind)
    \/ RetryWithBackoff

ProviderSpec == ProviderInit /\ [][ProviderNext]_providerVars

--------------------------------------------------------------------------
(* What the consumer hears, text, reasoning, call fragments and usage       *)
(* alike, comes from a single HTTP request, and so does the response the    *)
(* loop acts on: no retry and no fallback ever adds a second plan to the    *)
(* first (saw_content_event and pending_events of _stream_response, and the *)
(* loop's own fallback condition).                                          *)
OneRequestIsHeard ==
    /\ \A j, k \in DOMAIN sse.heard : sse.heard[j].post = sse.heard[k].post
    /\ modelReply # NoReply => Cardinality(modelReply.posts) = 1
    /\ modelReply # NoReply /\ modelReply.origin = "events" =>
           /\ Completed(sse)
           /\ \E k \in DOMAIN sse.heard : \A j \in DOMAIN sse.heard :
                  sse.heard[j].type = "created" <=> j = k

(* A call handed to the tools was received whole: its id and name and all   *)
(* of its arguments, in order; a call of a cut-off response is marked as a  *)
(* placeholder (_ProviderResponseAccumulator.build).                        *)
CallsAreWhole ==
    modelReply # NoReply =>
        \A i \in DOMAIN modelReply.calls :
            modelReply.calls[i].whole => modelReply.calls[i].head /\ Whole(modelReply.calls[i].parts)

(* Every call of the client leaves exactly one generation record by the     *)
(* time it is over; the record of the call that answered is the only one    *)
(* marked ok, and the tokens it counts are the ones the answering request   *)
(* reported (_observed_stream, chat, _complete_as_events).                  *)
RecordIsTheAnswer ==
    CallOver =>
        /\ Len(generations) = clientCalls
        /\ \A k \in DOMAIN generations : generations[k].ok => k = Len(generations)
        /\ modelReply # NoReply =>
               /\ Last(generations).ok
               /\ Last(generations).usage = modelReply.usage
               /\ modelReply.usage.post \in modelReply.posts \cup {0}

\* The record of a model call is the answer of one request: nothing of a failed
\* try is heard twice, its calls are whole, and what is recorded is what came.
AnswerIsFaithful == OneRequestIsHeard /\ CallsAreWhole /\ RecordIsTheAnswer

=============================================================================
