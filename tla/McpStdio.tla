------------------------------- MODULE McpStdio -------------------------------
(***************************************************************************)
(* StdioMCPTransport (engine/mcp/client.py): requests and responses over   *)
(* one pipe that is shared by every call of a session.  The server is      *)
(* arbitrary: it answers late, out of order or never, sends notifications  *)
(* for ever, writes lines that are not JSON or too long, or closes stdout. *)
(***************************************************************************)
EXTENDS Naturals, Sequences

CONSTANTS
    MaxRequests,    \* bound: requests sent
    MaxPipe,        \* bound: lines waiting in the pipe
    StallLimit,     \* readline timeout, in ticks
    Deadline        \* MAX_MCP_REQUEST_SECONDS, in ticks

ASSUME StdioAssumption ==
    /\ {MaxRequests, MaxPipe, StallLimit, Deadline} \subseteq Nat
    /\ 0 < StallLimit /\ StallLimit < Deadline

VARIABLES
    requestId,  \* _request_id
    waiting,    \* the request that holds _request_lock, 0 if it is free
    elapsed,    \* ticks since it was sent
    idle,       \* ticks since it last read a line
    owed,       \* requests the server has received and not answered
    pipe,       \* lines in stdout: the id they carry, and whose answer they are
    broken,     \* _framing_broken
    eof,        \* the server has closed stdout
    answer      \* request -> whose answer it returned, 0 none yet, or Failed

stdioVars == <<requestId, waiting, elapsed, idle, owed, pipe, broken, eof, answer>>

Request == 1 .. MaxRequests
\* A line carries an id; "of" is the request it really answers: 0 for a
\* notification, and for a fragment of an oversized line that looks like one.
Line(id, of) == [id |-> id, of |-> of]
Oversized == Line(MaxRequests + 1, 0)
NotJson == Line(MaxRequests + 2, 0)
\* What a request returned: an error, or what is nobody's answer.
Failed == MaxRequests + 1
Foreign == MaxRequests + 2

StdioInit ==
    /\ requestId = 0 /\ waiting = 0 /\ elapsed = 0 /\ idle = 0
    /\ owed = {} /\ pipe = <<>>
    /\ broken = FALSE /\ eof = FALSE
    /\ answer = [r \in Request |-> 0]

-----------------------------------------------------------------------------
(* The server                                                              *)

ServerWrites ==
    /\ ~ eof /\ Len(pipe) < MaxPipe
    /\ \/ \E r \in owed : pipe' = Append(pipe, Line(r, r)) /\ owed' = owed \ {r}
       \/ pipe' = Append(pipe, Line(0, 0)) /\ UNCHANGED owed
       \/ pipe' = Append(pipe, NotJson) /\ UNCHANGED owed
       \/ \E r \in owed, id \in Request :
             pipe' = pipe \o <<Oversized, Line(id, 0)>> /\ owed' = owed \ {r}
    /\ UNCHANGED <<requestId, waiting, elapsed, idle, broken, eof, answer>>

ServerExits ==
    /\ ~ eof
    /\ eof' = TRUE
    /\ UNCHANGED <<requestId, waiting, elapsed, idle, owed, pipe, broken, answer>>

-----------------------------------------------------------------------------
(* send_request                                                            *)

\* The request ends and releases the lock.
Return(result) ==
    /\ answer' = [answer EXCEPT ![waiting] = result]
    /\ waiting' = 0 /\ elapsed' = 0 /\ idle' = 0
    /\ UNCHANGED <<requestId, owed, eof>>

\* A call takes the lock; a retired transport refuses.
SendRequest ==
    /\ waiting = 0 /\ requestId < MaxRequests
    /\ requestId' = requestId + 1
    /\ IF broken
       THEN /\ answer' = [answer EXCEPT ![requestId'] = Failed]
            /\ UNCHANGED <<waiting, owed>>
       ELSE /\ waiting' = requestId'
            /\ owed' = IF eof THEN owed ELSE owed \cup {requestId'}
            /\ UNCHANGED answer
    /\ elapsed' = 0 /\ idle' = 0
    /\ UNCHANGED <<pipe, broken, eof>>

TickLimit(n, limit) == IF n < limit THEN n + 1 ELSE n

\* Time passes while the request waits.
Tick ==
    /\ waiting # 0
    /\ elapsed < Deadline \/ idle < StallLimit
    /\ elapsed' = TickLimit(elapsed, Deadline)
    /\ idle' = TickLimit(idle, StallLimit)
    /\ UNCHANGED <<requestId, waiting, owed, pipe, broken, eof, answer>>

IsOwn(line) == line.id = waiting

\* Mutant: an oversized line does not retire the transport.
RetireNever == UNCHANGED broken

Retire == broken' = TRUE

\* Mutant: every line that arrives restarts the clock.
KeepClockFresh == elapsed' = 0

\* The deadline is of the whole request.
KeepClock == UNCHANGED elapsed

\* One line is read: an error, the answer, or a line for somebody else.
ReadLine ==
    /\ waiting # 0 /\ pipe # <<>> /\ elapsed < Deadline
    /\ pipe' = Tail(pipe)
    /\ LET line == Head(pipe) IN
       \/ /\ line = Oversized
          /\ Retire /\ Return(Failed)
       \/ /\ line = NotJson
          /\ Return(Failed) /\ UNCHANGED broken
       \/ /\ line \notin {Oversized, NotJson} /\ IsOwn(line)
          /\ \/ Return(IF line.of = 0 THEN Foreign ELSE line.of)
             \/ Return(Failed)         \* the response is an error object
          /\ UNCHANGED broken
       \/ /\ line \notin {Oversized, NotJson} /\ ~ IsOwn(line)
          /\ KeepClock /\ idle' = 0
          /\ UNCHANGED <<requestId, waiting, owed, broken, eof, answer>>

\* Nothing arrives for StallLimit: TimeoutError, and the answer may come later.
Stall ==
    /\ waiting # 0 /\ pipe = <<>> /\ idle >= StallLimit /\ elapsed < Deadline
    /\ Return(Failed)
    /\ UNCHANGED <<pipe, broken>>

\* The whole-request ceiling; the byte ceiling of a flood has the same effect.
Expire ==
    /\ waiting # 0 /\ elapsed >= Deadline
    /\ Retire /\ Return(Failed)
    /\ UNCHANGED pipe

\* EOF on stdout.
ReadEof ==
    /\ waiting # 0 /\ pipe = <<>> /\ eof
    /\ Return(Failed)
    /\ UNCHANGED <<pipe, broken>>

\* The calling turn is cancelled; the line it waited for stays in the pipe.
CancelRequest ==
    /\ waiting # 0
    /\ Return(Failed)
    /\ UNCHANGED <<pipe, broken>>

-----------------------------------------------------------------------------
StdioNext ==
    \/ ServerWrites \/ ServerExits
    \/ SendRequest \/ Tick \/ ReadLine \/ Stall \/ Expire \/ ReadEof \/ CancelRequest

\* Time passes, and the loop reads what is there.
StdioFairness == WF_stdioVars(Tick) /\ WF_stdioVars(ReadLine) /\ WF_stdioVars(Stall)
                 /\ WF_stdioVars(Expire)

StdioSpec == StdioInit /\ [][StdioNext]_stdioVars /\ StdioFairness

-----------------------------------------------------------------------------
\* A call returns its own answer or an error: never the late answer to a call
\* that timed out or was cancelled, nor the rest of an oversized line.
AnswerIsOwn == \A r \in Request : answer[r] \in {0, r, Failed}

\* Every request ends, whatever the server does: a server that keeps sending
\* notifications cannot hold the pipe for ever.
RequestEnds == \A r \in Request : waiting = r ~> waiting # r

=============================================================================
