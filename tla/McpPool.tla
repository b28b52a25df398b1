------------------------------- MODULE McpPool -------------------------------
(***************************************************************************)
(* MCPClientSessionPool (engine/mcp/session_pool.py) with the registration *)
(* that borrows from it (config.py) and the tools that evict a dead        *)
(* connection (register_mcp_tools_with_prefix of client.py).               *)
(*                                                                         *)
(* Operations on one session take its lock in the order in which they join *)
(* (asyncio.Lock is FIFO and joining does not yield); connecting and       *)
(* closing await one server after the other, and the task may be cancelled *)
(* there.  A connection is named by the task that made it and the place of *)
(* its server in the configuration.                                        *)
(***************************************************************************)
EXTENDS Naturals, FiniteSets, SequencesExt

CONSTANTS
    PoolTask,       \* turns, and the deletion of a session
    PoolSession,
    Fleet,          \* the configurations: sequences of servers
    Deleted,        \* fingerprint of no configuration: the session is released
    ShutdownTask,   \* the lifespan's close()
    MaxPoolFaults   \* bound: cancellations and dying servers

ASSUME PoolAssumption ==
    /\ MaxPoolFaults \in Nat
    /\ ShutdownTask \notin PoolTask
    /\ IsFiniteSet(PoolSession)
    /\ Fleet \subseteq Seq(UNION {Range(f) : f \in Fleet})
    /\ Deleted \notin Fleet /\ <<>> \notin Fleet

VARIABLES
    entries,    \* session -> [fingerprint, servers] or NoEntry
    queue,      \* session -> tasks that joined it; the head holds its lock
    ptask,      \* task -> its operation, session, configuration and step
    conn,       \* connection -> "none", "open", "dead" or "closed"
    wishes,     \* history: session -> tasks with what they asked for, in the order
                \* they joined, without those whose acquire failed
    orphans,    \* history: connections a cancelled close loop did not reach
    poolFaults

poolVars == <<entries, queue, ptask, conn, wishes, orphans, poolFaults>>

Connection == PoolTask \X UNION {DOMAIN f : f \in Fleet}
NoEntry == [fingerprint |-> <<>>, servers |-> <<>>]
NewTask == [op |-> "none", step |-> "new", session |-> "none", want |-> <<>>,
            servers |-> <<>>, closing |-> <<>>, failures |-> 0]

PoolInit ==
    /\ entries = [s \in PoolSession |-> NoEntry]
    /\ queue = [s \in PoolSession |-> <<>>]
    /\ ptask = [t \in PoolTask \cup {ShutdownTask} |-> NewTask]
    /\ conn = [c \in Connection |-> "none"]
    /\ wishes = [s \in PoolSession |-> <<>>]
    /\ orphans = {}
    /\ poolFaults = 0

-----------------------------------------------------------------------------
\* close() holds the lifecycle lock while it waits for the session locks.
LifecycleFree == ptask[ShutdownTask].step \notin {"join", "clear"}

\* The task holds the lock of its session.
HoldsSession(t) == Head(queue[ptask[t].session]) = t

\* A task acquires once: one wish is to be taken back.
Withdraw(t) ==
    wishes' = [wishes EXCEPT ![ptask[t].session] =
                  RemoveAt(@, CHOOSE i \in DOMAIN @ : @[i][1] = t)]

\* The holder gives the lock of its session to the next in line.
Leave(t) == queue' = [queue EXCEPT ![ptask[t].session] = Tail(@)]

\* acquire and evict (release is evict): _get_session_lock under the lifecycle
\* lock, then the queue of the session lock.
Join(t, s, want) ==
    /\ ptask[t].step \in {"new", "failed"}
    /\ LifecycleFree
    /\ want = Deleted \/ ptask[t].step = "new"
    /\ ptask[t].step = "failed" => want = Deleted /\ s = ptask[t].session
    /\ ptask' = [ptask EXCEPT ![t] =
                    [NewTask EXCEPT !.op = IF want = Deleted THEN "evict" ELSE "acquire",
                                    !.step = "wait", !.session = s, !.want = want]]
    /\ queue' = [queue EXCEPT ![s] = Append(@, t)]
    /\ wishes' = [wishes EXCEPT ![s] = Append(@, <<t, want>>)]
    /\ UNCHANGED <<entries, conn, orphans, poolFaults>>

\* acquire: the cached servers, or the connecting begins.
CheckEntry(t) ==
    LET k == ptask[t] IN
    /\ k.op = "acquire" /\ k.step = "wait" /\ HoldsSession(t)
    /\ IF entries[k.session].fingerprint = k.want
       THEN /\ ptask' = [ptask EXCEPT ![t].step = "borrowed",
                                      ![t].servers = entries[k.session].servers]
            /\ Leave(t)
       ELSE /\ ptask' = [ptask EXCEPT ![t].step = "connect"]
            /\ UNCHANGED queue
    /\ UNCHANGED <<entries, conn, wishes, orphans, poolFaults>>

\* _connect_all, one server: MCPClient.connect and list_tools, which close the
\* transport when they fail.
ConnectServer(t) ==
    LET k == ptask[t]
        n == Len(k.servers) + k.failures + 1
        c == <<t, n>>
    IN
    /\ k.step = "connect" /\ n <= Len(k.want)
    /\ \/ /\ conn' = [conn EXCEPT ![c] = "open"]
          /\ ptask' = [ptask EXCEPT ![t].servers = Append(@, c)]
          /\ UNCHANGED poolFaults
       \/ /\ poolFaults < MaxPoolFaults
          /\ poolFaults' = poolFaults + 1
          /\ conn' = [conn EXCEPT ![c] = "closed"]
          /\ ptask' = [ptask EXCEPT ![t].failures = @ + 1]
    /\ UNCHANGED <<entries, queue, wishes, orphans>>

\* An empty list is not cached when every server failed.
SomeConnected(k) == k.failures < Len(k.want)

\* All servers tried: the entry is replaced and the stale one is closed next;
\* or MCPConnectError.
StoreEntry(t) ==
    LET k == ptask[t] IN
    /\ k.step = "connect"
    /\ Len(k.servers) + k.failures = Len(k.want)
    /\ IF SomeConnected(k)
       THEN /\ entries' = [entries EXCEPT ![k.session] =
                              [fingerprint |-> k.want, servers |-> k.servers]]
            /\ ptask' = [ptask EXCEPT ![t].step = "close_stale",
                                      ![t].closing = Reverse(entries[k.session].servers)]
            /\ UNCHANGED <<queue, wishes>>
       ELSE /\ ptask' = [ptask EXCEPT ![t].step = "done"]
            /\ Withdraw(t)
            /\ Leave(t)
            /\ UNCHANGED entries
    /\ UNCHANGED <<conn, orphans, poolFaults>>

\* evict: the entry is popped, its connections are closed next.
PopEntry(t) ==
    LET k == ptask[t] IN
    /\ k.op = "evict" /\ k.step = "wait" /\ HoldsSession(t)
    /\ entries' = [entries EXCEPT ![k.session] = NoEntry]
    /\ ptask' = [ptask EXCEPT ![t].step = "close_evicted",
                              ![t].closing = Reverse(entries[k.session].servers)]
    /\ UNCHANGED <<queue, conn, wishes, orphans, poolFaults>>

\* _close_servers, one server.
CloseOne(t) ==
    LET k == ptask[t] IN
    /\ k.closing # <<>>
    /\ conn' = [conn EXCEPT ![Head(k.closing)] = "closed"]
    /\ ptask' = [ptask EXCEPT ![t].closing = Tail(@)]
    /\ UNCHANGED <<entries, queue, wishes, orphans, poolFaults>>

\* The servers are closed: the lock is left.
CloseDone(t) ==
    LET k == ptask[t] IN
    /\ k.step \in {"close_stale", "close_evicted", "close_partial"} /\ k.closing = <<>>
    /\ ptask' = [ptask EXCEPT ![t].step = IF @ = "close_stale" THEN "borrowed" ELSE "done"]
    /\ Leave(t)
    /\ UNCHANGED <<entries, conn, wishes, orphans, poolFaults>>

\* Mutant: a cancelled connect forgets what it has connected.
AbandonAll(k) == <<>>

\* _connect_all: except BaseException closes the servers connected so far.
Abandon(k) == Reverse(k.servers)

\* The task is cancelled while it connects,
CancelConnect(t) ==
    LET k == ptask[t] IN
    /\ k.step = "connect" /\ poolFaults < MaxPoolFaults
    /\ poolFaults' = poolFaults + 1
    /\ ptask' = [ptask EXCEPT ![t].step = "close_partial", ![t].closing = Abandon(k)]
    /\ Withdraw(t)
    /\ UNCHANGED <<entries, queue, conn, orphans>>

\* or while it closes: the transport kills the process it is closing, and
\* CancelledError leaves the loop of _close_servers.
CancelClose(t) ==
    LET k == ptask[t] IN
    /\ k.closing # <<>> /\ t # ShutdownTask
    /\ poolFaults < MaxPoolFaults
    /\ poolFaults' = poolFaults + 1
    /\ conn' = [conn EXCEPT ![Head(k.closing)] = "closed"]
    /\ orphans' = orphans \cup Range(Tail(k.closing))
    /\ ptask' = [ptask EXCEPT ![t].step = "done", ![t].closing = <<>>]
    /\ Leave(t)
    /\ UNCHANGED <<entries, wishes>>

\* A server dies: the subprocess exits, or the HTTP session expires.
ServerDies(c) ==
    /\ conn[c] = "open" /\ poolFaults < MaxPoolFaults
    /\ poolFaults' = poolFaults + 1
    /\ conn' = [conn EXCEPT ![c] = "dead"]
    /\ UNCHANGED <<entries, queue, ptask, wishes, orphans>>

\* A tool of the turn calls a server that is dead, or that another turn's
\* operation has closed: is_fatal_connection_error, and the turn evicts.
CallFails(t) ==
    /\ ptask[t].step = "borrowed"
    /\ \E c \in Range(ptask[t].servers) : conn[c] \in {"dead", "closed"}
    /\ ptask' = [ptask EXCEPT ![t].step = "failed"]
    /\ UNCHANGED <<entries, queue, conn, wishes, orphans, poolFaults>>

\* close(): the lifecycle lock, then every session lock in turn,
ShutdownJoin ==
    /\ ptask[ShutdownTask].step = "new"
    /\ ptask' = [ptask EXCEPT ![ShutdownTask].step = "join"]
    /\ UNCHANGED <<entries, queue, conn, wishes, orphans, poolFaults>>

\* then the entries are taken, to be closed in some order, and the locks released.
ShutdownClear ==
    /\ ptask[ShutdownTask].step = "join"
    /\ \A s \in PoolSession : queue[s] = <<>>
    /\ ptask' = [ptask EXCEPT ![ShutdownTask].step = "close",
                    ![ShutdownTask].closing =
                        SetToSeq(UNION {Range(entries[s].servers) : s \in PoolSession})]
    /\ entries' = [s \in PoolSession |-> NoEntry]
    /\ wishes' = [s \in PoolSession |-> <<>>]
    /\ UNCHANGED <<queue, conn, orphans, poolFaults>>

-----------------------------------------------------------------------------
PoolNext ==
    \/ \E t \in PoolTask :
          \/ \E s \in PoolSession, want \in Fleet \cup {Deleted} : Join(t, s, want)
          \/ CheckEntry(t) \/ ConnectServer(t) \/ StoreEntry(t) \/ PopEntry(t)
          \/ CloseDone(t) \/ CancelConnect(t) \/ CancelClose(t) \/ CallFails(t)
    \/ \E t \in PoolTask \cup {ShutdownTask} : CloseOne(t)
    \/ \E c \in Connection : ServerDies(c)
    \/ ShutdownJoin \/ ShutdownClear

PoolSpec == PoolInit /\ [][PoolNext]_poolVars

-----------------------------------------------------------------------------
\* A connection in the hands of a task: connected and not stored, or to be closed.
Held(t) ==
    Range(ptask[t].closing) \cup
    IF ptask[t].step = "connect" THEN Range(ptask[t].servers) ELSE {}

\* No connection leaks: what is open belongs to an entry of the pool or to a
\* task that will store or close it, through failures to connect, evictions,
\* changed configurations, shutdown and cancellation - but for the connections
\* behind the one at which a close loop is cancelled.
ConnectionsAreOwned ==
    \A c \in Connection :
        conn[c] \in {"open", "dead"} =>
            \/ \E s \in PoolSession : c \in Range(entries[s].servers)
            \/ \E t \in DOMAIN ptask : c \in Held(t)
            \/ c \in orphans

\* A session the pool is done with reflects the operation that joined last: a
\* slow connect cannot replace a newer configuration, nor bring back the
\* connections of a session that was deleted meanwhile.
LastJoinWins ==
    \A s \in PoolSession :
        queue[s] = <<>> =>
            entries[s].fingerprint = IF wishes[s] = <<>> \/ Last(wishes[s])[2] = Deleted
                                     THEN <<>> ELSE Last(wishes[s])[2]

\* The pool never keeps a connection it has closed itself, nor an entry whose
\* servers all failed: the next turn would borrow nothing that works.
CachedIsUsable ==
    \A s \in PoolSession :
        entries[s] # NoEntry =>
            /\ entries[s].servers # <<>>
            /\ \A c \in Range(entries[s].servers) : conn[c] # "closed"

\* The pool owns its connections: each open one belongs to somebody who will
\* close it, the last join decides the fleet, and a cached client can be used.
PoolIsSound == ConnectionsAreOwned /\ LastJoinWins /\ CachedIsUsable

=============================================================================
