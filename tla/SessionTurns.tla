---------------------------- MODULE SessionTurns ----------------------------
(***************************************************************************)
(* The turns of ONE session (server/app/services/session_service.py over   *)
(* session_repo.py): pinning of the identity, the lock of the session in   *)
(* the table of all locks with its reference count and eviction, the       *)
(* window that reads the history and inserts the user's message, the       *)
(* stream, the reply written when it ends, the resume of an interrupted    *)
(* run and the replacement of its partial reply, /compress, deletion and   *)
(* restart.  Other sessions appear only as the ones whose requests evict   *)
(* locks from the table.                                                   *)
(*                                                                         *)
(* The turn lock covers the window alone: streams of the session overlap.  *)
(* A row is its role, the turn it belongs to and the request that wrote    *)
(* it.  A lock object is named after the request that created it.          *)
(***************************************************************************)
EXTENDS Naturals, SequencesExt

CONSTANTS
    NewTurns,       \* requests that send a message
    Resumes,        \* requests that resume the run of a message
    Identities,
    Wants,          \* identities clients ask for; None asks for none
    DefaultId,      \* the catalog's default identity
    HistoryLimit,   \* _HISTORY_LIMIT
    MaxSessionFaults,      \* bound: failing inserts of a reply, and restarts
    MaxCompress,    \* bound: uses of /compress
    None

ASSUME SessionAssumption ==
    /\ NewTurns \cap Resumes = {}
    /\ DefaultId \in Identities
    /\ Wants \subseteq Identities \cup {None}
    /\ HistoryLimit \in Nat \ {0}
    /\ {MaxSessionFaults, MaxCompress} \subseteq Nat
    /\ None \notin NewTurns \cup Resumes \cup Identities

VARIABLES
    rows,       \* the session's message rows, in order of rowid
    ctx,        \* context_summary_cutoff, and the rows the summary was made from
    pin,        \* identity_id of the session, or None
    exists,     \* the session has not been deleted
    slot,       \* the session's lock in _SESSION_STREAM_LOCKS, or None
    users,      \* its count in _SESSION_STREAM_LOCK_USERS
    lockHeld,       \* the lock objects that are lockHeld
    req,        \* request -> what its handler and generator hold
    run,        \* message -> state of its run
    comp,       \* what a /compress in flight has read, or None
    sessionFaults,
    compressed, \* uses of /compress
    replied,    \* history: turns that have had a reply
    stolen      \* history: turns whose reply another turn's resume deleted

lockVars == <<slot, users, lockHeld>>
rowVars == <<rows, ctx, exists, comp, compressed>>
ghosts == <<replied, stolen>>
sessionVars == <<lockVars, rowVars, ghosts, pin, req, run, sessionFaults>>

Requests == NewTurns \cup Resumes

FreshRequest == [stage |-> "idle", msg |-> None, want |-> None, id |-> None, lock |-> None,
          hist |-> {}, past |-> {}]

Ended == {"idle", "refused", "done"}

NoSummary == [cutoff |-> 0, covers |-> {}]

SessionInit ==
    /\ rows = <<>>
    /\ ctx = NoSummary
    /\ pin = None
    /\ exists = TRUE
    /\ slot = None
    /\ users = 0
    /\ lockHeld = {}
    /\ req = [t \in Requests |-> FreshRequest]
    /\ run = [m \in NewTurns |-> "none"]
    /\ comp = None
    /\ sessionFaults = 0
    /\ compressed = 0
    /\ replied = {}
    /\ stolen = {}

-----------------------------------------------------------------------------
(* Queries of session_repo                                                 *)

Larger(x, y) == IF x > y THEN x ELSE y

\* LIMIT and OFFSET: the rows a .. b that exist.
Page(q, a, b) == SubSeq(q, a, IF b < Len(q) THEN b ELSE Len(q))

UserRow(m) == [role |-> "user", of |-> m, by |-> m]
ReplyRow(m, t) == [role |-> "assistant", of |-> m, by |-> t]

\* get_recent_messages
Recent == SubSeq(rows, Larger(0, Len(rows) - HistoryLimit) + 1, Len(rows))

IndexOf(m) == CHOOSE i \in DOMAIN rows : rows[i] = UserRow(m)

\* _recent_history: the summary's rows, then the newest rows after the cutoff.
RecentHistory ==
    IF ctx.cutoff > 0
    THEN LET start == Larger(ctx.cutoff, Len(rows) - HistoryLimit) IN
         ctx.covers \cup ToSet(Page(rows, start + 1, start + HistoryLimit))
    ELSE ToSet(Recent)

\* The window of rows that ends before the message.
Before(m) == SubSeq(rows, Larger(0, IndexOf(m) - 1 - HistoryLimit) + 1, IndexOf(m) - 1)

\* Mutant: the absolute cutoff is applied to the window.
HistoryBeforeByCutoff(m) ==
    ctx.covers \cup ToSet(SubSeq(Before(m), ctx.cutoff + 1, Len(Before(m))))

\* _history_before_message: the window, less the part the summary covers.
HistoryBefore(m) ==
    LET first == IndexOf(m) - 1 - Len(Before(m))
        drop == IF ctx.cutoff > 0 THEN Larger(0, ctx.cutoff - first) ELSE 0
    IN  ctx.covers \cup ToSet(SubSeq(Before(m), drop + 1, Len(Before(m))))

\* get_messages_since finds a user row.
NewerTurn(m) == \E i \in DOMAIN rows : i > IndexOf(m) /\ rows[i].role = "user"

\* discard_assistant_messages_after_user: the replies between the message and
\* the session's next user row end at this row.
RepliesEnd(m, last) ==
    /\ \A j \in IndexOf(m) + 1 .. last : rows[j].role = "assistant"
    /\ last < Len(rows) => rows[last + 1].role = "user"

\* The rows before the cutoff are rows the summary was made from.
PrefixIsSummarized ==
    ctx.cutoff > 0 => ToSet(Page(rows, 1, ctx.cutoff)) \subseteq ctx.covers

\* History: the rows a reader may do without, which lie outside its window; all
\* of them when deletions have moved the prefix the summary stands for.
Excused(window) ==
    IF PrefixIsSummarized THEN ToSet(rows) \ ToSet(window) ELSE ToSet(rows)

-----------------------------------------------------------------------------
(* Before the stream opens                                                 *)

Becomes(t, r) == req' = [req EXCEPT ![t] = r]
Over(t, stage) == Becomes(t, [FreshRequest EXCEPT !.stage = stage])

\* _resolve_session_identity up to the claim.
Resolve(t, r) ==
    \/ /\ ~ exists \/ (r.want # None /\ pin \notin {None, r.want})
       /\ Over(t, "refused")
    \/ /\ exists /\ pin = None
       /\ Becomes(t, [r EXCEPT !.stage = "claim",
                               !.id = IF r.want # None THEN r.want ELSE DefaultId])
    \/ /\ exists /\ pin # None /\ r.want \in {None, pin}
       /\ Becomes(t, [r EXCEPT !.stage = "resolved", !.id = pin])

SendMessage(t, want) ==
    /\ req[t].stage = "idle"
    /\ Resolve(t, [FreshRequest EXCEPT !.msg = t, !.want = want])
    /\ UNCHANGED <<lockVars, rowVars, ghosts, pin, run, sessionFaults>>

\* claim_identity: UPDATE ... WHERE identity_id IS NULL.  Who loses the race
\* takes the winner's identity, or is refused if it asked for another.
ClaimIdentity(t) ==
    LET r == req[t] IN
    /\ r.stage = "claim"
    /\ pin' = IF exists /\ pin = None THEN r.id ELSE pin
    /\ IF ~ exists \/ (r.want # None /\ pin' # r.want)
       THEN Over(t, "refused")
       ELSE Becomes(t, [r EXCEPT !.stage = "resolved", !.id = pin'])
    /\ UNCHANGED <<lockVars, rowVars, ghosts, run, sessionFaults>>

\* prepare_resume_run: the run has stopped and no newer turn has begun.
PrepareResume(t, m) ==
    /\ req[t].stage = "idle"
    /\ run[m] = "stopped"
    /\ exists /\ UserRow(m) \in ToSet(rows)
    /\ ~ NewerTurn(m)
    /\ Resolve(t, [FreshRequest EXCEPT !.msg = m, !.hist = HistoryBefore(m),
                                !.past = Excused(Before(m))])
    /\ UNCHANGED <<lockVars, rowVars, ghosts, pin, run, sessionFaults>>

-----------------------------------------------------------------------------
(* The turn lock                                                           *)

\* Only an entry without a holder or a waiter is evicted.
Evictable == users = 0

\* A request of another session finds the table full (_SESSION_STREAM_LOCKS_MAX).
EvictByOthers ==
    /\ slot # None
    /\ Evictable
    /\ slot' = None
    /\ UNCHANGED <<users, lockHeld, rowVars, ghosts, pin, req, run, sessionFaults>>

\* _acquire_session_lock_slot
AcquireSlot(t) ==
    /\ req[t].stage = "resolved"
    /\ slot' = IF slot = None THEN t ELSE slot
    /\ users' = users + 1
    /\ Becomes(t, [req[t] EXCEPT !.stage = "queued", !.lock = slot'])
    /\ UNCHANGED <<lockHeld, rowVars, ghosts, pin, run, sessionFaults>>

\* The end of _session_turn_lock; the lock object stays in the table.
ReleaseTurn(t) ==
    /\ users' = Larger(1, users) - 1
    /\ lockHeld' = IF req[t].stage = "queued" THEN lockHeld ELSE lockHeld \ {req[t].lock}
    /\ UNCHANGED slot

\* A new turn reads its history under the lock.  A resume takes the lock and
\* gives it back: its window is empty.
LockTurn(t) ==
    /\ req[t].stage = "queued"
    /\ req[t].lock \notin lockHeld
    /\ \/ /\ t \in NewTurns
          /\ lockHeld' = lockHeld \cup {req[t].lock}
          /\ Becomes(t, [req[t] EXCEPT !.stage = "read", !.hist = RecentHistory,
                                     !.past = Excused(Recent)])
          /\ UNCHANGED <<slot, users>>
       \/ /\ t \in Resumes
          /\ ReleaseTurn(t)
          /\ Becomes(t, [req[t] EXCEPT !.stage = "ready"])
    /\ UNCHANGED <<rowVars, ghosts, pin, run, sessionFaults>>

\* add_message of the user's text, then run_stream_with_runtime.  A deleted
\* session fails the foreign key.
InsertUser(t) ==
    /\ req[t].stage = "read"
    /\ ReleaseTurn(t)
    /\ \/ /\ exists
          /\ rows' = Append(rows, UserRow(t))
          /\ run' = [run EXCEPT ![t] = "running"]
          /\ Becomes(t, [req[t] EXCEPT !.stage = "streaming", !.hist = {}, !.past = {}])
       \/ /\ ~ exists
          /\ Over(t, "done")
          /\ UNCHANGED <<rows, run>>
    /\ UNCHANGED <<ctx, exists, comp, compressed, ghosts, pin, sessionFaults>>

\* The client goes away while the request waits for the lock or holds it.
CancelTurn(t) ==
    /\ req[t].stage \in {"queued", "read"}
    /\ ReleaseTurn(t)
    /\ Over(t, "done")
    /\ UNCHANGED <<rowVars, ghosts, pin, run, sessionFaults>>

-----------------------------------------------------------------------------
(* The stream and what it leaves behind                                    *)

\* resume_stream_with_runtime: a resume that finds its run alive again raises,
\* and the stream ends without a reply.
ResumeTurn(t) ==
    LET m == req[t].msg IN
    /\ req[t].stage = "ready"
    /\ \/ /\ run[m] = "stopped"
          /\ run' = [run EXCEPT ![m] = "running"]
          /\ Becomes(t, [req[t] EXCEPT !.stage = "streaming", !.hist = {}, !.past = {}])
       \/ /\ run[m] # "stopped"
          /\ Over(t, "done")
          /\ UNCHANGED run
    /\ UNCHANGED <<lockVars, rowVars, ghosts, pin, sessionFaults>>

\* The run ends or the client disconnects; aclose() settles the run first.
\* What is left to write is the text the client saw and no draft withdrew.
EndStream(t) ==
    /\ req[t].stage = "streaming"
    /\ \E status \in {"completed", "stopped"} : run' = [run EXCEPT ![req[t].msg] = status]
    /\ \/ Becomes(t, [req[t] EXCEPT !.stage = "persist"])
       \/ Over(t, "done")
    /\ UNCHANGED <<lockVars, rowVars, ghosts, pin, sessionFaults>>

\* First half of _persist_replacement.
Discard(t) ==
    LET m == req[t].msg IN
    /\ t \in Resumes
    /\ req[t].stage = "persist"
    /\ IF UserRow(m) \in ToSet(rows)
       THEN \E last \in IndexOf(m) .. Len(rows) :
              /\ RepliesEnd(m, last)
              /\ rows' = SubSeq(rows, 1, IndexOf(m)) \o SubSeq(rows, last + 1, Len(rows))
              /\ stolen' = stolen \cup ({rows[i].of : i \in IndexOf(m) + 1 .. last} \ {m})
       ELSE UNCHANGED <<rows, stolen>>
    /\ Becomes(t, [req[t] EXCEPT !.stage = "discarded"])
    /\ UNCHANGED <<lockVars, ctx, exists, comp, compressed, replied, pin, run, sessionFaults>>

WritesReply(t) == req[t].stage = (IF t \in Resumes THEN "discarded" ELSE "persist")

\* The shielded insert of the reply; it may fail, and does when the session
\* has been deleted.
AddReply(t) ==
    /\ WritesReply(t)
    /\ \/ /\ exists
          /\ rows' = Append(rows, ReplyRow(req[t].msg, t))
          /\ replied' = replied \cup {req[t].msg}
          /\ UNCHANGED sessionFaults
       \/ /\ ~ exists
          /\ UNCHANGED <<rows, replied, sessionFaults>>
       \/ /\ sessionFaults < MaxSessionFaults
          /\ sessionFaults' = sessionFaults + 1
          /\ UNCHANGED <<rows, replied>>
    /\ Over(t, "done")
    /\ UNCHANGED <<lockVars, ctx, exists, comp, compressed, stolen, pin, run>>

-----------------------------------------------------------------------------
(* /compress, deletion and restart                                         *)

\* get_messages of the whole session (a prefix of it beyond 20 MB).
CompressRead ==
    /\ comp = None /\ exists /\ rows # <<>>
    /\ compressed < MaxCompress
    /\ compressed' = compressed + 1
    /\ comp' = [cutoff |-> Len(rows), covers |-> ToSet(rows)]
    /\ UNCHANGED <<lockVars, rows, ctx, exists, ghosts, pin, req, run, sessionFaults>>

\* set_context with what was read before the model was asked, or nothing if
\* its summary is not usable.
CompressWrite ==
    /\ comp # None
    /\ ctx' \in {ctx, IF exists THEN comp ELSE ctx}
    /\ comp' = None
    /\ UNCHANGED <<lockVars, rows, exists, compressed, ghosts, pin, req, run, sessionFaults>>

\* delete_session: the rows go with it, its lock only when nobody uses it.
DeleteSession ==
    /\ exists
    /\ exists' = FALSE
    /\ rows' = <<>>
    /\ ctx' = NoSummary
    /\ slot' = IF Evictable THEN None ELSE slot
    /\ UNCHANGED <<users, lockHeld, comp, compressed, ghosts, pin, req, run, sessionFaults>>

\* The process dies; startup settles the runs it left.
RestartServer ==
    /\ sessionFaults < MaxSessionFaults
    /\ \E t \in Requests : req[t].stage \notin Ended
    /\ sessionFaults' = sessionFaults + 1
    /\ slot' = None /\ users' = 0 /\ lockHeld' = {}
    /\ req' = [t \in Requests |->
                 IF req[t].stage \in Ended THEN req[t] ELSE [FreshRequest EXCEPT !.stage = "done"]]
    /\ run' = [m \in NewTurns |-> IF run[m] = "running" THEN "stopped" ELSE run[m]]
    /\ comp' = None
    /\ UNCHANGED <<rows, ctx, exists, compressed, ghosts, pin>>

-----------------------------------------------------------------------------
\* What a request does by itself once it has been made.
RequestStep(t) ==
    \/ ClaimIdentity(t) \/ AcquireSlot(t) \/ LockTurn(t) \/ InsertUser(t)
    \/ ResumeTurn(t) \/ EndStream(t) \/ Discard(t) \/ AddReply(t)

SessionNext ==
    \/ \E t \in NewTurns, want \in Wants : SendMessage(t, want)
    \/ \E t \in Resumes, m \in NewTurns : PrepareResume(t, m)
    \/ \E t \in Requests : RequestStep(t) \/ CancelTurn(t)
    \/ EvictByOthers \/ CompressRead \/ CompressWrite \/ DeleteSession \/ RestartServer

SessionSpec == SessionInit /\ [][SessionNext]_sessionVars

-----------------------------------------------------------------------------
\* The history a turn works with is complete.  When a new turn is about to
\* insert its message, every user message among the newest rows is in what it
\* read (or was beyond the window it read): no other turn came between the
\* read and the insert, whatever was evicted from the lock table, compressed
\* or deleted meanwhile.  A resume has every row of the window before its own
\* message.  (A reader whose summary stood for a prefix that had moved is
\* excused: that is the subject of SummaryCoversPrefix.)
HistoryIsComplete ==
    /\ \A t \in NewTurns :
          req[t].stage = "read" =>
            {r \in ToSet(Recent) : r.role = "user"} \subseteq req[t].hist \cup req[t].past
    /\ \A t \in Resumes :
          req[t].stage \in {"claim", "resolved", "queued", "ready"} /\ exists =>
            ToSet(Before(req[t].msg)) \subseteq req[t].hist \cup req[t].past

\* Every request past its validation runs under the identity the session is
\* pinned to (_resolve_session_identity), however the first messages race.
IdentityIsPinned ==
    \A t \in Requests :
        req[t].stage \notin Ended \cup {"claim"} => req[t].id = pin

\* A turn that has had a reply keeps one: a resume deletes the partial reply
\* only together with writing its replacement (_persist_replacement), unless
\* the process died, the insert failed, the session was deleted or the resume
\* of another turn took the reply away.
ReplyIsKept ==
    \A m \in replied \ stolen :
        sessionFaults = 0 /\ exists =>
            \/ \E r \in ToSet(rows) : r.role = "assistant" /\ r.of = m
            \/ \E t \in Resumes : req[t].msg = m /\ req[t].stage = "discarded"

\* docs/layers/43-Server.md:232: context_summary_cutoff is the number of
\* messages, from the first, that have been summarized.
SummaryCoversPrefix == PrefixIsSummarized

\* A session keeps its story: a turn sees the whole history before it, the
\* identity is claimed once, and a delivered reply is in the rows.
SessionIsSound == HistoryIsComplete /\ IdentityIsPinned /\ ReplyIsKept

=============================================================================
