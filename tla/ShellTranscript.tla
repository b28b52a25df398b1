-------------------------- MODULE ShellTranscript --------------------------
(***************************************************************************)
(* What the terminal shows of the streams of one conversation              *)
(* (shell/src/api.ts, bridge.ts, transcript-state.ts, store.ts): the SSE   *)
(* reader, whose frames arrive cut by TCP reads and which drains a while   *)
(* after done; the two batchers that hold text back for 40 ms; the state   *)
(* machine of the transcript; the trim of a long transcript; cancel,       *)
(* failure and the resume of a run.  Ink prints the finished prefix of the *)
(* transcript once (Static) and never again until the epoch is bumped.     *)
(*                                                                         *)
(* A frame is cut in two halves at most.  Text is the sequence of the      *)
(* numbers of the frames that carried it.  The events of one read are      *)
(* applied one after the other, and nothing else happens in the shell      *)
(* between them: the consumer awaits nothing else.                         *)
(***************************************************************************)
EXTENDS Naturals, SequencesExt

CONSTANTS
    MaxFrames,          \* bound: frames the server sends in all
    MaxTurns,           \* bound: turns pushed
    MaxResumes,         \* bound: runs resumed
    MaxSystemLines,     \* bound: lines other shell operations push
    Restored,           \* entries of the transcript before the first turn
    TranscriptLimit,    \* TRANSCRIPT_LIMIT
    TrimTarget          \* TRANSCRIPT_TRIM_TARGET

ASSUME TranscriptAssumption ==
    /\ {MaxFrames, MaxTurns, MaxResumes, MaxSystemLines, Restored, TranscriptLimit, TrimTarget}
          \subseteq Nat
    /\ TrimTarget < TranscriptLimit /\ Restored <= TranscriptLimit
    \* A trim does not reach the turn: behind it are the lines pushed, one for
    \* each run of it that failed, and the approval asked for.
    /\ MaxSystemLines + MaxResumes + 2 <= TrimTarget

VARIABLES
    wire,       \* frames sent and not wholly read
    half,       \* halves of the first of them that the buffer holds: 0 or 1
    server,     \* the turn as the server has announced it
    reader,     \* readSseEvents: "none", "main" or "drain"
    events,     \* frames of the last read that are still to be applied
    screen,     \* the store: transcript, epoch, usage, approval asked for
    held,       \* the batchers: text and drafts not applied yet
    direct,     \* history: the store, had every event been applied at once
    usageRead,  \* history: usage frames read since the counters were reset
    frames, made, resumes, systemLines

streamVars == <<wire, half, server, reader, events>>
transcriptVars == <<streamVars, screen, held, direct, usageRead, frames, made, resumes,
                    systemLines>>

Silent == [draft |-> 0, tool |-> 0, asked |-> FALSE, over |-> TRUE, closed |-> TRUE]
NothingHeld == [text |-> <<>>, drafts |-> <<>>]

Turn(n) == [kind |-> "turn", id |-> n, text |-> <<>>, drafts |-> <<>>, cards |-> <<>>,
            streaming |-> TRUE]
SystemEntry(n, approval) == [kind |-> "system", id |-> n, approval |-> approval]

TranscriptInit ==
    /\ wire = <<>> /\ half = 0 /\ server = Silent /\ reader = "none" /\ events = <<>>
    /\ screen = [transcript |-> [i \in 1 .. Restored |-> SystemEntry(i, 0)], epoch |-> 0, usage |-> 0, approval |-> 0]
    /\ held = NothingHeld
    /\ direct = screen
    /\ usageRead = 0
    /\ frames = 0 /\ made = Restored + 1 /\ resumes = 0 /\ systemLines = 0

-----------------------------------------------------------------------------
(* transcript-state.ts                                                     *)

Card(kind, id, state) == [kind |-> kind, id |-> id, state |-> state]

Running == {"running", "retry"}

\* findLastTurnIndex, 0 for none: the turn the stream's events belong to.
LastTurnIndex(entries) ==
    LET turns == {i \in DOMAIN entries : entries[i].kind = "turn"}
    IN  IF turns = {} THEN 0 ELSE Max(turns)

LastTurn(entries) == entries[LastTurnIndex(entries)]

\* updateLastTurn, given what the updater makes of LastTurn(entries).
UpdateLastTurn(entries, turn) ==
    IF LastTurnIndex(entries) = 0 THEN entries
    ELSE [entries EXCEPT ![LastTurnIndex(entries)] = turn]

\* finishThinkingBlocks: any other event ends the thought shown last.
FinishThinking(cards) ==
    IF cards # <<>> /\ Last(cards).kind = "thinking"
    THEN [cards EXCEPT ![Len(cards)].state = "done"] ELSE cards

\* The last card of the kind and id that is in one of the states, or a new one.
PutCard(cards, kind, id, states, state) ==
    LET open == {i \in DOMAIN cards : cards[i].kind = kind /\ cards[i].id = id
                                      /\ cards[i].state \in states}
    IN  IF open = {} THEN Append(cards, Card(kind, id, state))
        ELSE [cards EXCEPT ![Max(open)].state = state]

AnyState == {"running", "retry", "waiting", "preflight", "done", "cancelled", "error"}

\* The draft with the id: appendProvisionalText makes one at most.
DraftAt(drafts, id) == {i \in DOMAIN drafts : drafts[i].id = id}

\* appendProvisionalText
AppendDraft(drafts, id, text) ==
    IF DraftAt(drafts, id) = {} THEN Append(drafts, [id |-> id, text |-> text])
    ELSE [drafts EXCEPT ![Min(DraftAt(drafts, id))].text = @ \o text]

DraftText(drafts, id) ==
    IF DraftAt(drafts, id) = {} THEN <<>> ELSE drafts[Min(DraftAt(drafts, id))].text
WithoutDraft(drafts, id) ==
    IF DraftAt(drafts, id) = {} THEN drafts ELSE RemoveAt(drafts, Min(DraftAt(drafts, id)))

\* provisionalToText
JoinDraft(text, d) == text \o d.text
AllDraftText(drafts) == FoldLeft(JoinDraft, <<>>, drafts)

\* interruptLatestTurn: a draft in sight becomes the reply of a turn without one.
Interrupted(turn, outcome) ==
    [turn EXCEPT !.text = IF @ = <<>> THEN AllDraftText(turn.drafts) ELSE @,
                 !.cards = [i \in DOMAIN turn.cards |->
                              IF FinishThinking(turn.cards)[i].state \in Running
                              THEN [turn.cards[i] EXCEPT !.state = outcome]
                              ELSE FinishThinking(turn.cards)[i]],
                 !.drafts = <<>>, !.streaming = FALSE]

\* closeLatestTurn
ClosedTurn(turn) ==
    [turn EXCEPT !.cards = FinishThinking(@), !.drafts = <<>>, !.streaming = FALSE]

\* markLatestTurnWaitingForInput
Waiting(turn) ==
    [turn EXCEPT !.cards = [i \in DOMAIN turn.cards |->
                              LET card == FinishThinking(turn.cards)[i]
                              IN  IF card.kind = "skill" /\ card.state \in Running
                                  THEN [card EXCEPT !.state = "waiting"] ELSE card],
                 !.streaming = FALSE]

\* done: a card that never got its ending gets one.
EndTurn(turn, status) ==
    CASE status = "await" -> Waiting(turn)
      [] status = "failed" -> Interrupted(turn, "error")
      [] OTHER -> Interrupted(turn, "cancelled")

\* applyStreamEvent, the events of a turn.
OnTurn(turn, e) ==
    LET cards == FinishThinking(turn.cards) IN
    CASE e.type = "message" -> [turn EXCEPT !.cards = cards, !.text = @ \o e.text]
      [] e.type = "draft" -> [turn EXCEPT !.cards = cards, !.drafts = AppendDraft(@, e.id, e.text)]
      [] e.type = "commit" -> [turn EXCEPT !.text = @ \o DraftText(turn.drafts, e.id),
                                           !.drafts = WithoutDraft(@, e.id)]
      [] e.type = "retract" -> [turn EXCEPT !.drafts = WithoutDraft(@, e.id)]
      [] e.type = "thinking" -> [turn EXCEPT !.cards =
              IF turn.cards # <<>> /\ Last(turn.cards) = Card("thinking", 0, "running")
              THEN @ ELSE Append(@, Card("thinking", 0, "running"))]
      [] e.type = "tool" -> [turn EXCEPT !.cards = PutCard(cards, "tool", e.id, AnyState, "running")]
      [] e.type = "ask" -> [turn EXCEPT !.cards = PutCard(cards, "tool", e.id, AnyState, "preflight")]
      [] e.type = "result" -> [turn EXCEPT !.cards = PutCard(cards, "tool", e.id, AnyState, "done")]
      [] e.type = "skill" -> [turn EXCEPT !.cards =
              PutCard(cards, "skill", 0, {"running", "retry", "waiting"}, e.status)]
      [] e.type = "await" -> EndTurn([turn EXCEPT !.cards =
              PutCard(cards, "skill", 0, {"running", "retry", "waiting"}, "waiting")], "await")
      [] e.type = "done" -> EndTurn(turn, e.status)
      [] OTHER -> turn

\* splitTranscript: what Ink prints for good.
Static(entries) ==
    LET active == {i \in DOMAIN entries : entries[i].kind = "turn" /\ entries[i].streaming}
    IN  IF active = {} THEN entries
        ELSE SubSeq(entries, 1, Min(active) - 1)

-----------------------------------------------------------------------------
(* store.ts                                                                *)

\* Mutant: a trim leaves the epoch alone.
BoundedQuietly(s, entries) ==
    [s EXCEPT !.transcript = IF Len(entries) <= TranscriptLimit THEN entries
                             ELSE SubSeq(entries, Len(entries) - TrimTarget + 1, Len(entries))]

\* boundedTranscript
Bounded(s, entries) ==
    IF Len(entries) <= TranscriptLimit THEN [s EXCEPT !.transcript = entries]
    ELSE [s EXCEPT !.transcript = SubSeq(entries, Len(entries) - TrimTarget + 1, Len(entries)),
                   !.epoch = @ + 1]

\* Approvals are strictly serial, and each is asked for once: one notice at most.
Notices(entries, id) ==
    {i \in DOMAIN entries : entries[i].kind = "system" /\ entries[i].approval = id}

\* removeApprovalNotice
Settled(s) ==
    IF s.approval = 0 THEN s
    ELSE [s EXCEPT !.transcript = IF Notices(@, s.approval) = {} THEN @
                                  ELSE RemoveAt(@, Min(Notices(@, s.approval))),
                   !.approval = 0]

\* applyEvent of the store.
Dispatch(s, e) ==
    LET applied == UpdateLastTurn(s.transcript, OnTurn(LastTurn(s.transcript), e)) IN
    CASE e.type = "usage" -> [s EXCEPT !.usage = @ + 1]
      [] e.type = "ask" -> [Bounded(s, Append(applied, SystemEntry(e.made, e.id))) EXCEPT !.approval = e.id]
      [] e.type \in {"result", "done", "await"} -> Settled(Bounded(s, applied))
      [] OTHER -> Bounded(s, applied)

\* resetTranscriptWhenResumeStarts
Restarted(s) ==
    [s EXCEPT !.transcript = UpdateLastTurn(@, Turn(LastTurn(@).id)), !.epoch = @ + 1, !.usage = 0]

-----------------------------------------------------------------------------
(* The batchers                                                            *)

FlushText(x) ==
    IF x.held.text = <<>> THEN x
    ELSE [screen |-> Dispatch(x.screen, [type |-> "message", text |-> x.held.text]),
          held |-> [x.held EXCEPT !.text = <<>>]]

\* One draft is open at a time: what is held belongs to it.
FlushDrafts(x) ==
    IF x.held.drafts = <<>> THEN x
    ELSE [screen |-> Dispatch(x.screen, [type |-> "draft", id |-> x.held.drafts[1].id,
                                         text |-> x.held.drafts[1].text]),
          held |-> [x.held EXCEPT !.drafts = <<>>]]

Flush(x) == FlushDrafts(FlushText(x))

\* Mutant: the end of a draft does not wait for the text held back.
FlushBeforeQuietly(x, e) == IF e.type \in {"commit", "retract"} THEN FlushText(x) ELSE Flush(x)

FlushBefore(x, e) == Flush(x)

\* applyBatchedStreamEvent
OnEvent(x, e) ==
    CASE e.type = "started" -> [x EXCEPT !.screen = Restarted(@)]
      [] e.type = "message" -> [FlushDrafts(x) EXCEPT !.held.text = @ \o e.text]
      [] e.type = "draft" -> [FlushText(x) EXCEPT !.held.drafts = AppendDraft(@, e.id, e.text)]
      [] OTHER -> LET flushed == FlushBefore(x, e)
                  IN  [flushed EXCEPT !.screen = Dispatch(@, e)]

OnEventDirectly(s, e) == IF e.type = "started" THEN Restarted(s) ELSE Dispatch(s, e)

-----------------------------------------------------------------------------
(* The server (external): what it may send                                 *)

Sends(e, next) ==
    /\ frames < MaxFrames /\ ~ server.closed
    /\ frames' = frames + 1
    /\ wire' = Append(wire, e)
    /\ server' = next
    /\ made' = IF e.type = "ask" THEN made + 1 ELSE made
    /\ UNCHANGED <<half, reader, events, screen, held, direct, usageRead, resumes, systemLines>>

SendText ==
    /\ ~ server.over
    /\ \/ Sends([type |-> "message", text |-> <<frames>>], server)
       \/ LET d == IF server.draft = 0 THEN frames + 1 ELSE server.draft
          IN  Sends([type |-> "draft", id |-> d, text |-> <<frames>>], [server EXCEPT !.draft = d])
       \/ /\ server.draft # 0
          /\ \E type \in {"commit", "retract"} :
                Sends([type |-> type, id |-> server.draft], [server EXCEPT !.draft = 0])

\* A tool that needs an approval: its first result and the question go together.
SendActivity ==
    /\ ~ server.over
    /\ \/ Sends([type |-> "thinking"], server)
       \/ \E state \in {"running", "retry", "done"} : Sends([type |-> "skill", status |-> state], server)
       \/ /\ server.tool = 0
          /\ Sends([type |-> "tool", id |-> frames + 1],
                   [server EXCEPT !.tool = frames + 1, !.asked = FALSE])
       \/ /\ server.tool # 0 /\ ~ server.asked
          /\ Sends([type |-> "ask", id |-> server.tool, made |-> made], [server EXCEPT !.asked = TRUE])
       \/ /\ server.tool # 0
          /\ Sends([type |-> "result", id |-> server.tool], [server EXCEPT !.tool = 0])

SendUsage == Sends([type |-> "usage"], server)

\* done comes last but for usage.  A workflow that awaits the user has no call
\* and no draft open; its last skill, awaiting_input and done go together.
SendDone ==
    /\ ~ server.over
    /\ \/ \E status \in {"completed", "failed"} :
             Sends([type |-> "done", status |-> status], [server EXCEPT !.over = TRUE])
       \/ /\ server.draft = 0 /\ server.tool = 0
          /\ Sends([type |-> "await"], [server EXCEPT !.over = TRUE])

ServerCloses ==
    /\ ~ server.closed
    /\ server' = [server EXCEPT !.closed = TRUE, !.over = TRUE]
    /\ UNCHANGED <<wire, half, reader, events, screen, held, direct, usageRead, frames, made,
                   resumes, systemLines>>

-----------------------------------------------------------------------------
(* readSseEvents                                                           *)

UsageIn(read) == Cardinality({i \in DOMAIN read : read[i].type = "usage"})
Resets(read) == \E i \in DOMAIN read : read[i].type = "started"

\* splitSseBuffer: a read of n halves completes these frames; the remainder, a
\* half at most, stays in the buffer.
Parse(n) ==
    LET whole == (half + n) \div 2
        read == SubSeq(wire, 1, whole)
    IN  /\ events = <<>> /\ half + n <= 2 * Len(wire)
        /\ events' = read
        /\ wire' = SubSeq(wire, whole + 1, Len(wire))
        /\ half' = (half + n) % 2
        /\ usageRead' = IF Resets(read) THEN UsageIn(read) ELSE usageRead + UsageIn(read)
        /\ UNCHANGED <<server, reader, screen, held, direct, frames, made, resumes, systemLines>>

Read(n) == reader = "main" /\ Parse(n)

\* A later read within POST_DONE_DRAIN_MS.
DrainRead(n) == reader = "drain" /\ Parse(n)

EndsTurn(e) == e.type \in {"done", "await"}

\* consumeSseChunks: after the terminal event only usage counters count.
Consumed(e) == reader = "main" \/ e.type = "usage"

\* The next event reaches the batchers, or the store.
Deliver ==
    LET e == Head(events)
        after == OnEvent([screen |-> screen, held |-> held], e)
    IN  /\ events # <<>>
        /\ events' = Tail(events)
        /\ IF Consumed(e)
           THEN /\ screen' = after.screen /\ held' = after.held
                /\ direct' = OnEventDirectly(direct, e)
           ELSE UNCHANGED <<screen, held, direct>>
        /\ reader' = IF EndsTurn(e) THEN "drain" ELSE reader
        /\ UNCHANGED <<wire, half, server, usageRead, frames, made, resumes, systemLines>>

StreamIsOver == wire' = <<>> /\ half' = 0 /\ server' = Silent /\ reader' = "none" /\ events' = <<>>

\* The stream was closed after done (half a frame that is left over decodes to
\* no event), or the drain's time is up.  consumeStream flushes,
\* reportTerminalStatus adds a line for a turn that did not complete, closeTurn.
DrainEnds ==
    LET close(s, line) ==
            LET lined == IF line THEN Bounded(s, Append(s.transcript, SystemEntry(made, 0))) ELSE s
            IN  [lined EXCEPT !.transcript = UpdateLastTurn(@, ClosedTurn(LastTurn(@)))]
        after == Flush([screen |-> screen, held |-> held])
    IN  /\ reader = "drain" /\ events = <<>>
        /\ \E line \in BOOLEAN :
              /\ screen' = close(after.screen, line)
              /\ direct' = close(direct, line)
              /\ made' = IF line THEN made + 1 ELSE made
        /\ held' = NothingHeld
        /\ StreamIsOver
        /\ UNCHANGED <<usageRead, frames, resumes, systemLines>>

\* reportRequestError: a lost connection, an idle timeout, an end without done.
\* What the batchers hold is flushed first.
ReaderFails ==
    LET fail(s) ==
            LET open == [s EXCEPT !.transcript = UpdateLastTurn(@, Interrupted(LastTurn(@), "error"))]
            IN  Bounded(Settled(open), Append(Settled(open).transcript, SystemEntry(made, 0)))
        after == Flush([screen |-> screen, held |-> held])
    IN  /\ reader # "none" /\ events = <<>>
        /\ screen' = fail(after.screen)
        /\ direct' = fail(direct)
        /\ held' = NothingHeld /\ made' = made + 1
        /\ StreamIsOver
        /\ UNCHANGED <<usageRead, frames, resumes, systemLines>>

\* cancelRequest; the stream unwinds before a timer can run, and what the
\* batchers hold is discarded.
Cancel ==
    /\ reader # "none" /\ events = <<>>
    /\ screen' = Settled([screen EXCEPT !.transcript =
                     UpdateLastTurn(@, Interrupted(LastTurn(@), "cancelled"))])
    /\ direct' = screen'
    /\ held' = NothingHeld
    /\ StreamIsOver
    /\ UNCHANGED <<usageRead, frames, made, resumes, systemLines>>

\* A timer of 40 ms: one batcher is flushed.
TextTimer ==
    LET after == FlushText([screen |-> screen, held |-> held])
    IN  /\ held.text # <<>> /\ events = <<>>
        /\ screen' = after.screen /\ held' = after.held
        /\ UNCHANGED <<streamVars, direct, usageRead, frames, made, resumes, systemLines>>

DraftTimer ==
    LET after == FlushDrafts([screen |-> screen, held |-> held])
    IN  /\ held.drafts # <<>> /\ events = <<>>
        /\ screen' = after.screen /\ held' = after.held
        /\ UNCHANGED <<streamVars, direct, usageRead, frames, made, resumes, systemLines>>

-----------------------------------------------------------------------------
(* The shell around the stream                                             *)

Opened == [Silent EXCEPT !.over = FALSE, !.closed = FALSE]

\* pushTurn, which starts the turn's counters, and the request.
PushTurn ==
    /\ reader = "none"
    /\ Cardinality({i \in DOMAIN screen.transcript : screen.transcript[i].kind = "turn"}) < MaxTurns
    /\ screen' = [Bounded(screen, Append(screen.transcript, Turn(made))) EXCEPT !.usage = 0]
    /\ direct' = screen'
    /\ reader' = "main" /\ server' = Opened
    /\ usageRead' = 0 /\ made' = made + 1
    /\ UNCHANGED <<wire, half, events, held, frames, resumes, systemLines>>

\* resumeRun: the turn is rewound when the stream says that the run has started.
ResumeStream ==
    /\ reader = "none" /\ resumes < MaxResumes
    /\ \E i \in DOMAIN screen.transcript : screen.transcript[i].kind = "turn"
    /\ reader' = "main" /\ server' = Opened
    /\ wire' = <<[type |-> "started"]>>
    /\ resumes' = resumes + 1
    /\ UNCHANGED <<half, events, screen, held, direct, usageRead, frames, made, systemLines>>

\* pushSystemLine by any other operation of the shell.
PushSystemLine ==
    /\ systemLines < MaxSystemLines /\ events = <<>>
    /\ systemLines' = systemLines + 1 /\ made' = made + 1
    /\ screen' = Bounded(screen, Append(screen.transcript, SystemEntry(made, 0)))
    /\ direct' = Bounded(direct, Append(direct.transcript, SystemEntry(made, 0)))
    /\ UNCHANGED <<streamVars, held, usageRead, frames, resumes>>

\* resolveApproval, answered by the server.
ShowResolution ==
    /\ screen.approval # 0 /\ events = <<>>
    /\ screen' = Settled(screen) /\ direct' = Settled(direct)
    /\ UNCHANGED <<streamVars, held, usageRead, frames, made, resumes, systemLines>>

ReadStep == \E n \in 1 .. 2 * Len(wire) : Read(n) \/ DrainRead(n)

TranscriptNext ==
    \/ SendText \/ SendActivity \/ SendUsage \/ SendDone \/ ServerCloses
    \/ ReadStep \/ Deliver \/ DrainEnds \/ ReaderFails \/ Cancel \/ TextTimer \/ DraftTimer
    \/ PushTurn \/ ResumeStream \/ PushSystemLine \/ ShowResolution

TranscriptSpec == TranscriptInit /\ [][TranscriptNext]_transcriptVars

-----------------------------------------------------------------------------
(* Properties                                                              *)

\* Holding text back changes when it is shown and nothing else: with what the
\* batchers hold applied, the transcript is the one every event applied at once
\* would have made, whatever timers, drafts, trims and failures came between.
BatchingIsTransparent ==
    Flush([screen |-> screen, held |-> held]).screen.transcript = direct.transcript

\* Every usage frame read is counted once, also one that comes after done in
\* later reads, whole or cut in two.
UsageIsExact == reader # "none" /\ events = <<>> => screen.usage = usageRead

\* What Ink has printed never changes and is never shortened without a new
\* epoch (store.ts: Static "assumes its item list only ever grows").
StaticOnlyGrows ==
    [][screen'.epoch # screen.epoch \/ IsPrefix(Static(screen.transcript), Static(screen'.transcript))
      ]_transcriptVars

\* A turn that is over shows no tool, skill or thought still running, however
\* its stream ended: it is printed for good.
NoCardIsLeftRunning ==
    \A i \in DOMAIN screen.transcript :
        LET x == screen.transcript[i]
        IN  x.kind = "turn" /\ ~ x.streaming =>
                \A c \in DOMAIN x.cards : x.cards[c].state \notin Running

\* The transcript is what the stream said: batching changes nothing, usage is
\* counted exactly, and no card of an ended turn is left running.
TranscriptIsExact == BatchingIsTransparent /\ UsageIsExact /\ NoCardIsLeftRunning

===============================================================================
