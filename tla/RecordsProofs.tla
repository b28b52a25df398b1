---------------------------- MODULE RecordsProofs ----------------------------
(***************************************************************************)
(* Proofs about what turns leave behind: the ledger of tool executions     *)
(* (ToolLedger), the audit log (HashChain), traces with their summaries    *)
(* (RunRecords), the token statistics (TokenStats), the evidence log of    *)
(* the memory (MemoryLog), and the drafts that rewrite it (MemoryDraft).   *)
(*                                                                         *)
(* The ledger, for any set of operations and call ids and any bounds: its  *)
(* types, that the side effect behind a key of a non-idempotent tool       *)
(* happens at most once, that settled and claimed rows are left alone, and *)
(* that the numbering of occurrences makes a resumed attempt repeat        *)
(* nothing.  The log, for any number of processes and records: the chain   *)
(* verifies, and what was acknowledged is kept.  The traces, for any       *)
(* number of runs, crashes and failed writes: a settled summary is exact,  *)
(* and retention takes nothing that is needed.  The statistics, for any    *)
(* number of runs, turns, events and crashes: no usage event is lost       *)
(* behind the import's cursor or counted twice, and what is priced stays   *)
(* priced.  The memory, for any number of lines and crashes: no evidence   *)
(* is lost unread, and a Dream that was cut off can be finished.  Its      *)
(* drafts, for any document, change sets, evidence and budget: nothing     *)
(* vanishes unnamed, conclusions yield only to the user, every fact is     *)
(* grounded, and what is written is what was reviewed.                     *)
(***************************************************************************)
EXTENDS ToolLedger, HashChain, RunRecords, TokenStats, MemoryLog, MemoryDraft, SequenceFacts,
        SequenceTheorems, FiniteSetTheorems, WellFoundedInduction, TLAPS

\* RowsOf is a subset of an interval, so what the ledger counts is a number.
LEMMA RowsOfFinite ==
    \A op : IsFiniteSet(RowsOf(op)) /\ Cardinality(RowsOf(op)) \in Nat
  <1> SUFFICES ASSUME NEW op
               PROVE  IsFiniteSet(RowsOf(op)) /\ Cardinality(RowsOf(op)) \in Nat
    OBVIOUS
  <1>1. IsFiniteSet(Occurrences)
    BY FS_Interval, LedgerAssumption DEF Occurrences
  <1>2. RowsOf(op) \subseteq Occurrences
    BY DEF RowsOf
  <1> QED BY <1>1, <1>2, FS_Subset, FS_CardinalityType

-----------------------------------------------------------------------------
(* Type correctness                                                        *)

\* A call through begin() keeps the types: it writes a well-formed row, starts
\* a well-formed execution and notes a well-formed call.
LEMMA BeginType ==
    ASSUME TypeOK, NEW c \in CallIds, NEW op \in Ops, NEW n \in Occurrences,
           NEW nth \in Nat, Begin(c, op, n, nth)
    PROVE  /\ rows' \in [Keys -> Rows \cup {NoRow}]
           /\ working' \subseteq [key : Keys, call : CallIds, attempt : Nat]
           /\ calls' \in [CallIds -> CallRecords \cup {NoCall}]
  <1> DEFINE k == <<op, n>>
  <1>1. k \in Keys
    BY DEF Keys
  <1>2. [status |-> "running", owner |-> c] \in Rows
    BY DEF Rows
  <1>3. [key |-> k, call |-> c, attempt |-> attempt]
            \in [key : Keys, call : CallIds, attempt : Nat]
    BY <1>1 DEF TypeOK
  <1>4. \A s \in {"executing", "answered"} :
            [key |-> k, nth |-> nth, stage |-> s] \in CallRecords
    BY <1>1 DEF CallRecords
  <1>5. rows' \in [Keys -> Rows \cup {NoRow}]
    BY <1>1, <1>2 DEF Begin, TypeOK
  <1>6. working' \subseteq [key : Keys, call : CallIds, attempt : Nat]
    BY <1>3 DEF Begin, TypeOK
  <1>7. calls' \in [CallIds -> CallRecords \cup {NoCall}]
    BY <1>4 DEF Begin, TypeOK
  <1> QED BY <1>5, <1>6, <1>7

\* So does finish().
LEMMA FinishType ==
    ASSUME TypeOK, NEW c \in CallIds, Executing(c),
           NEW status \in {"completed", "uncertain"}, Finish(c, status)
    PROVE  /\ rows' \in [Keys -> Rows \cup {NoRow}]
           /\ calls' \in [CallIds -> CallRecords \cup {NoCall}]
  <1> DEFINE k == calls[c].key
  <1>1. calls[c] \in CallRecords /\ k \in Keys
    BY DEF TypeOK, Executing, CallRecords
  <1>2. [calls[c] EXCEPT !.stage = "returned"] \in CallRecords
    BY <1>1 DEF CallRecords
  <1>3. calls' \in [CallIds -> CallRecords \cup {NoCall}]
    BY <1>2 DEF Finish, TypeOK
  <1>4. rows' \in [Keys -> Rows \cup {NoRow}]
    <2>1. CASE rows[k] # NoRow /\ Owns(c, rows[k])
      <3>1. rows[k] \in Rows
        BY <1>1, <2>1 DEF TypeOK
      <3>2. [rows[k] EXCEPT !.status = status] \in Rows
        BY <3>1 DEF Rows
      <3> QED BY <2>1, <3>2, <1>1 DEF Finish, TypeOK
    <2>2. CASE ~ (rows[k] # NoRow /\ Owns(c, rows[k]))
      BY <2>2 DEF Finish, TypeOK
    <2> QED BY <2>1, <2>2
  <1> QED BY <1>3, <1>4

LEMMA TypeInit == Init => TypeOK
  BY LedgerAssumption DEF Init, TypeOK, Keys, Rows, CallRecords

LEMMA TypeStep == TypeOK /\ [Next]_vars => TypeOK'
  <1> SUFFICES ASSUME TypeOK, [Next]_vars PROVE TypeOK'
    OBVIOUS
  <1>1. ASSUME NEW c \in CallIds, NEW op \in Ops, Call(c, op) PROVE TypeOK'
    <2> DEFINE n == NextOccurrence(op)
    <2>1. n \in Occurrences /\ Begin(c, op, n, issued[op] + 1)
      BY <1>1 DEF Call
    <2>2. issued[op] + 1 \in Nat
      BY DEF TypeOK
    <2>3. n \in 0..MaxOccurrence
      BY <2>1, LedgerAssumption DEF Occurrences
    <2>4. occ' \in [Ops -> 0..MaxOccurrence] /\ issued' \in [Ops -> Nat]
      BY <1>1, <2>2, <2>3 DEF Call, TypeOK
    <2> HIDE DEF n
    <2> QED BY <1>1, <2>1, <2>2, <2>4, BeginType DEF Call, TypeOK
  <1>2. ASSUME NEW c \in CallIds, NEW op \in Ops, Repeat(c, op) PROVE TypeOK'
    <2>1. calls[c] \in CallRecords
      BY <1>2 DEF Repeat, TypeOK
    <2>2. calls[c].key[2] \in Occurrences /\ calls[c].nth \in Nat
      BY <2>1 DEF CallRecords, Keys
    <2> QED BY <1>2, <2>2, BeginType DEF Repeat, TypeOK, history
  <1>3. ASSUME NEW c \in CallIds, Succeed(c) \/ Fail(c) \/ TimeOut(c) PROVE TypeOK'
    <2>1. PICK status \in {"completed", "uncertain"} : Executing(c) /\ Finish(c, status)
      BY <1>3 DEF Succeed, Fail, TimeOut
    <2>2. working' \subseteq working
      BY <1>3 DEF Succeed, Fail, TimeOut
    <2> QED BY <1>3, <2>1, <2>2, FinishType DEF Succeed, Fail, TimeOut, TypeOK, history
  <1>4. ASSUME NEW w \in working, Act(w) PROVE TypeOK'
    <2>1. w.key \in Keys
      BY DEF TypeOK
    <2>2. effects' \in [Keys -> 0..2]
      BY <1>4, <2>1 DEF Act, TypeOK
    <2> QED BY <1>4, <2>2 DEF Act, TypeOK, history
  <1>5. ASSUME EndAttempt \/ Crash PROVE TypeOK'
    BY <1>5 DEF EndAttempt, Crash, TypeOK, history
  <1>6. ASSUME Resume PROVE TypeOK'
    <2>1. 0 \in 0..MaxOccurrence
      BY LedgerAssumption
    <2>2. occ' \in [Ops -> 0..MaxOccurrence] /\ issued' \in [Ops -> Nat]
      BY <1>6, <2>1 DEF Resume
    <2>3. found' \in [Ops -> Nat]
      BY <1>6, RowsOfFinite DEF Resume
    <2> QED BY <1>6, <2>2, <2>3 DEF Resume, TypeOK
  <1>7. ASSUME UNCHANGED vars PROVE TypeOK'
    BY <1>7 DEF vars, TypeOK
  <1> QED BY <1>1, <1>2, <1>3, <1>4, <1>5, <1>6, <1>7 DEF Next

\* The ledger's rows, counters and executions keep their shape, whatever the
\* order of calls, timeouts, cancellations, crashes and resumes.
THEOREM TypeCorrect == Spec => []TypeOK
  BY TypeInit, TypeStep, PTL DEF Spec

-----------------------------------------------------------------------------
(* At most once                                                            *)

\* What makes AtMostOnce inductive: an execution can only be under way for a
\* key that has a row, it is alone on its key and the key has no effect yet.
Claimed ==
    \A k \in Keys : k[1] \notin Idempotent =>
        /\ rows[k] = NoRow => effects[k] = 0 /\ \A w \in working : w.key # k
        /\ \A w \in working : w.key = k => effects[k] = 0
        /\ \A v, w \in working : v.key = k /\ w.key = k => v = w
        /\ effects[k] <= 1

LedgerInv == TypeOK /\ Claimed

\* begin() claims a non-idempotent key only if it has no row at all.
LEMMA BeginClaimed ==
    ASSUME LedgerInv, NEW c \in CallIds, NEW op \in Ops, NEW n \in Occurrences,
           NEW nth, Begin(c, op, n, nth), UNCHANGED effects
    PROVE  Claimed'
  <1> DEFINE key == <<op, n>>
             w0 == [key |-> key, call |-> c, attempt |-> attempt]
             row == [status |-> "running", owner |-> c]
             claims == rows[key] = NoRow \/ Reclaims(op, rows[key])
  <1>1. key \in Keys /\ key[1] = op /\ w0.key = key
    BY DEF Keys
  <1>2. row # NoRow
    BY LedgerAssumption
  <1>3. CASE ~ claims
    <2>1. rows' = rows /\ working' = working
      BY <1>3 DEF Begin
    <2> QED BY <2>1 DEF LedgerInv, Claimed
  <1>4. CASE claims
    <2>1. rows' = [rows EXCEPT ![key] = row] /\ working' = working \cup {w0}
      BY <1>4 DEF Begin
    <2>2. rows \in [Keys -> Rows \cup {NoRow}]
      BY DEF LedgerInv, TypeOK
    <2> HIDE DEF w0, row
    <2> SUFFICES ASSUME NEW k \in Keys, k[1] \notin Idempotent
                 PROVE  /\ rows'[k] = NoRow => effects[k] = 0 /\ \A w \in working' : w.key # k
                        /\ \A w \in working' : w.key = k => effects[k] = 0
                        /\ \A v, w \in working' : v.key = k /\ w.key = k => v = w
                        /\ effects[k] <= 1
      BY DEF Claimed
    <2>3. CASE k = key
      <3>1. rows[key] = NoRow
        BY <1>1, <1>4, <2>3 DEF Reclaims
      <3>2. effects[k] = 0 /\ \A w \in working : w.key # k
        BY <2>3, <3>1 DEF LedgerInv, Claimed
      <3>3. rows'[k] # NoRow
        BY <1>2, <2>1, <2>2, <2>3
      <3> QED BY <1>1, <2>1, <2>3, <3>2, <3>3
    <2>4. CASE k # key
      <3>1. rows'[k] = rows[k]
        BY <2>1, <2>2, <2>4
      <3>2. \A w \in working' : w.key = k => w \in working
        BY <1>1, <2>1, <2>4
      <3> QED BY <3>1, <3>2 DEF LedgerInv, Claimed
    <2> QED BY <2>3, <2>4
  <1> QED BY <1>3, <1>4

LEMMA ClaimedStep == LedgerInv /\ [Next]_vars => Claimed'
  <1> SUFFICES ASSUME LedgerInv, [Next]_vars PROVE Claimed'
    OBVIOUS
  <1>1. ASSUME NEW c \in CallIds, NEW op \in Ops, Call(c, op) PROVE Claimed'
    <2>1. UNCHANGED effects /\ NextOccurrence(op) \in Occurrences
      BY <1>1 DEF Call
    <2>2. Begin(c, op, NextOccurrence(op), issued[op] + 1)
      BY <1>1 DEF Call
    <2> QED BY <2>1, <2>2, BeginClaimed
  <1>2. ASSUME NEW c \in CallIds, NEW op \in Ops, Repeat(c, op) PROVE Claimed'
    <2>1. calls[c] \in CallRecords
      BY <1>2 DEF Repeat, LedgerInv, TypeOK
    <2>2. calls[c].key[2] \in Occurrences
      BY <2>1 DEF CallRecords, Keys
    <2> QED BY <1>2, <2>2, BeginClaimed DEF Repeat
  <1>3. ASSUME NEW c \in CallIds, Succeed(c) \/ Fail(c) \/ TimeOut(c) PROVE Claimed'
    <2>1. PICK status \in {"completed", "uncertain"} : Executing(c) /\ Finish(c, status)
      BY <1>3 DEF Succeed, Fail, TimeOut
    <2>2. working' \subseteq working /\ effects' = effects
      BY <1>3 DEF Succeed, Fail, TimeOut
    <2>3. \A k \in Keys : rows'[k] = NoRow => rows[k] = NoRow
      <3>1. rows \in [Keys -> Rows \cup {NoRow}]
        BY DEF LedgerInv, TypeOK
      <3>2. rows' \in [Keys -> Rows \cup {NoRow}]
        BY <2>1, FinishType DEF LedgerInv
      <3> DEFINE q == calls[c].key
      <3>3. CASE rows[q] # NoRow /\ Owns(c, rows[q])
        <4>1. q \in Keys
          BY <2>1 DEF LedgerInv, TypeOK, Executing, CallRecords
        <4>2. rows' = [rows EXCEPT ![q] = [rows[q] EXCEPT !.status = status]]
          BY <2>1, <3>3 DEF Finish
        <4>3. rows[q] \in Rows
          BY <3>1, <3>3, <4>1
        <4>4. [rows[q] EXCEPT !.status = status] \in Rows
          BY <4>3 DEF Rows
        <4>5. NoRow \notin Rows
          BY LedgerAssumption DEF Rows
        <4> QED BY <3>1, <4>1, <4>2, <4>4, <4>5
      <3>4. CASE ~ (rows[q] # NoRow /\ Owns(c, rows[q]))
        BY <2>1, <3>4 DEF Finish
      <3> QED BY <3>3, <3>4
    <2> QED BY <2>2, <2>3 DEF LedgerInv, Claimed
  <1>4. ASSUME NEW w \in working, Act(w) PROVE Claimed'
    <2>1. w.key \in Keys /\ effects \in [Keys -> 0..2]
      BY DEF LedgerInv, TypeOK
    <2>2. /\ working' = working \ {w}
          /\ rows' = rows
          /\ effects' = [effects EXCEPT ![w.key] = IF @ = 0 THEN 1 ELSE 2]
      BY <1>4 DEF Act
    <2> SUFFICES ASSUME NEW k \in Keys, k[1] \notin Idempotent
                 PROVE  /\ rows'[k] = NoRow => effects'[k] = 0 /\ \A v \in working' : v.key # k
                        /\ \A v \in working' : v.key = k => effects'[k] = 0
                        /\ \A u, v \in working' : u.key = k /\ v.key = k => u = v
                        /\ effects'[k] <= 1
      BY DEF Claimed
    <2>3. CASE k = w.key
      <3>1. effects[k] = 0 /\ rows[k] # NoRow
        BY <2>3 DEF LedgerInv, Claimed
      <3>2. \A v \in working' : v.key # k
        BY <2>2, <2>3 DEF LedgerInv, Claimed
      <3>3. effects'[k] = 1
        BY <2>1, <2>2, <2>3, <3>1
      <3> QED BY <2>2, <3>1, <3>2, <3>3
    <2>4. CASE k # w.key
      <3>1. effects'[k] = effects[k]
        BY <2>1, <2>2, <2>4
      <3> QED BY <2>2, <3>1 DEF LedgerInv, Claimed
    <2> QED BY <2>3, <2>4
  <1>5. ASSUME EndAttempt \/ Crash \/ Resume PROVE Claimed'
    BY <1>5 DEF EndAttempt, Crash, Resume, LedgerInv, Claimed
  <1>6. ASSUME UNCHANGED vars PROVE Claimed'
    BY <1>6 DEF vars, LedgerInv, Claimed
  <1> QED BY <1>1, <1>2, <1>3, <1>4, <1>5, <1>6 DEF Next

LEMMA ClaimedInit == Init => Claimed
  BY DEF Init, Claimed

LEMMA LedgerInvariant == Spec => []LedgerInv
  <1>1. Init => LedgerInv
    BY TypeInit, ClaimedInit DEF LedgerInv
  <1>2. LedgerInv /\ [Next]_vars => LedgerInv'
    BY TypeStep, ClaimedStep DEF LedgerInv
  <1> QED BY <1>1, <1>2, PTL DEF Spec

\* The side effect behind one key of a non-idempotent tool happens at most
\* once in the life of a run, through any number of crashes, cancellations,
\* timeouts and resumed attempts (ToolExecutionLedger.begin and finish).
THEOREM EffectsAtMostOnce == Spec => []AtMostOnce
  <1>1. LedgerInv => AtMostOnce
    BY DEF LedgerInv, Claimed, AtMostOnce
  <1> QED BY <1>1, LedgerInvariant, PTL

-----------------------------------------------------------------------------
(* What a single step may never do                                         *)

\* A row changes only by a claim of begin() or by its owner's finish().
LEMMA RowChanges ==
    ASSUME TypeOK, [Next]_vars, NEW k \in Keys, rows[k] # NoRow,
           rows'[k] # rows[k] \/ \E w \in working' \ working : w.key = k
    PROVE  \/ Reclaims(k[1], rows[k])
           \/ \E c \in CallIds :
                 /\ Owns(c, rows[k]) /\ calls[c] # NoCall /\ calls[c].key = k
                 /\ rows'[k].owner = rows[k].owner
                 /\ calls'[c].stage = "returned"
                 /\ working' \subseteq working
  <1> rows \in [Keys -> Rows \cup {NoRow}] /\ calls \in [CallIds -> CallRecords \cup {NoCall}]
    BY DEF TypeOK
  <1> DEFINE Goal == \/ Reclaims(k[1], rows[k])
                     \/ \E c \in CallIds :
                           /\ Owns(c, rows[k]) /\ calls[c] # NoCall /\ calls[c].key = k
                           /\ rows'[k].owner = rows[k].owner
                           /\ calls'[c].stage = "returned"
                           /\ working' \subseteq working
  <1>1. ASSUME NEW c \in CallIds, NEW op \in Ops, NEW n, NEW nth, Begin(c, op, n, nth)
        PROVE  Goal
    <2> DEFINE key == <<op, n>>
               w0 == [key |-> key, call |-> c, attempt |-> attempt]
    <2>1. CASE rows[key] = NoRow \/ Reclaims(op, rows[key])
      <3>1. /\ rows' = [rows EXCEPT ![key] = [status |-> "running", owner |-> c]]
            /\ working' = working \cup {w0}
        BY <1>1, <2>1 DEF Begin
      <3>2. key[1] = op /\ w0.key = key
        OBVIOUS
      <3> HIDE DEF w0
      <3>3. k = key
        BY <3>1, <3>2
      <3> QED BY <2>1, <3>2, <3>3
    <2>2. CASE ~ (rows[key] = NoRow \/ Reclaims(op, rows[key]))
      BY <1>1, <2>2 DEF Begin
    <2> QED BY <2>1, <2>2
  <1>2. ASSUME NEW c \in CallIds, NEW op \in Ops, Call(c, op) \/ Repeat(c, op) PROVE Goal
    BY <1>1, <1>2 DEF Call, Repeat
  <1>3. ASSUME NEW c \in CallIds, Succeed(c) \/ Fail(c) \/ TimeOut(c) PROVE Goal
    <2>1. PICK status \in {"completed", "uncertain"} : Executing(c) /\ Finish(c, status)
      BY <1>3 DEF Succeed, Fail, TimeOut
    <2>2. working' \subseteq working
      BY <1>3 DEF Succeed, Fail, TimeOut
    <2>3. rows'[k] # rows[k]
      BY <2>2
    <2> DEFINE q == calls[c].key
    <2>4. rows[q] # NoRow /\ Owns(c, rows[q])
      BY <2>1, <2>3 DEF Finish
    <2>5. calls[c] \in CallRecords /\ calls[c] # NoCall
      BY <2>1 DEF Executing
    <2>6. rows' = [rows EXCEPT ![q] = [rows[q] EXCEPT !.status = status]]
      BY <2>1, <2>4 DEF Finish
    <2>7. k = q
      BY <2>3, <2>6
    <2>8. rows[k] \in Rows
      OBVIOUS
    <2>9. rows'[k] = [rows[k] EXCEPT !.status = status]
      BY <2>6, <2>7
    <2>10. rows'[k].owner = rows[k].owner
      BY <2>8, <2>9 DEF Rows
    <2>11. calls' = [calls EXCEPT ![c] = [calls[c] EXCEPT !.stage = "returned"]]
      BY <2>1 DEF Finish
    <2>12. calls'[c].stage = "returned"
      BY <2>5, <2>11 DEF CallRecords
    <2> QED BY <2>2, <2>4, <2>5, <2>7, <2>10, <2>12
  <1>4. ASSUME NEW w \in working, Act(w) PROVE Goal
    BY <1>4 DEF Act
  <1>5. ASSUME EndAttempt \/ Crash \/ Resume \/ UNCHANGED vars PROVE Goal
    BY <1>5 DEF EndAttempt, Crash, Resume, vars
  <1> QED BY <1>2, <1>3, <1>4, <1>5 DEF Next

\* A key recorded as completed is settled for good: its row never changes and
\* no execution of it is ever started again (begin() replays it).
THEOREM CompletedStays == Spec => CompletedIsNotRerun
  <1> DEFINE RowKept == \A k \in Keys :
                 rows[k] # NoRow /\ rows[k].status = "completed" =>
                   /\ rows'[k] = rows[k]
                   /\ \A w \in working' \ working : w.key # k
  <1>1. TypeOK /\ [Next]_vars => [RowKept]_vars
    <2> SUFFICES ASSUME TypeOK, [Next]_vars, NEW k \in Keys,
                        rows[k] # NoRow, rows[k].status = "completed"
                 PROVE  /\ rows'[k] = rows[k]
                        /\ \A w \in working' \ working : w.key # k
      OBVIOUS
    <2> QED BY RowChanges DEF Reclaims, Owns
  <1> QED BY <1>1, TypeCorrect, PTL DEF Spec, CompletedIsNotRerun

\* A running row is only ever settled by the call that owns it: no other call
\* and no resumed attempt steals a claim (begin() and finish()).
THEOREM ClaimsAreNotStolen == Spec => OnlyOwnerSettles
  <1> DEFINE Kept == \A k \in Keys :
                 /\ rows[k] # NoRow
                 /\ rows[k].status = "running"
                 /\ rows'[k] # rows[k]
                 => /\ rows'[k].owner = rows[k].owner
                    /\ calls[rows[k].owner] # NoCall
                    /\ calls[rows[k].owner].key = k
                    /\ calls'[rows[k].owner].stage = "returned"
  <1>1. TypeOK /\ [Next]_vars => [Kept]_vars
    <2> SUFFICES ASSUME TypeOK, [Next]_vars, NEW k \in Keys, rows[k] # NoRow,
                        rows[k].status = "running", rows'[k] # rows[k]
                 PROVE  /\ rows'[k].owner = rows[k].owner
                        /\ calls[rows[k].owner] # NoCall
                        /\ calls[rows[k].owner].key = k
                        /\ calls'[rows[k].owner].stage = "returned"
      OBVIOUS
    <2> QED BY RowChanges DEF Reclaims, Owns
  <1> QED BY <1>1, TypeCorrect, PTL DEF Spec, OnlyOwnerSettles

-----------------------------------------------------------------------------
(* Occurrence numbers                                                      *)

\* begin() adds its occurrence to the recorded ones and removes none.
LEMMA BeginRows ==
    ASSUME TypeOK, NEW c \in CallIds, NEW op \in Ops, NEW n \in Occurrences,
           NEW nth, Begin(c, op, n, nth), NEW o \in Ops
    PROVE  RowsOf(o)' = IF o = op THEN RowsOf(o) \cup {n} ELSE RowsOf(o)
  <1> DEFINE key == <<op, n>>
             row == [status |-> "running", owner |-> c]
  <1>1. rows \in [Keys -> Rows \cup {NoRow}] /\ key \in Keys
    BY DEF TypeOK, Keys
  <1>2. row # NoRow
    BY LedgerAssumption
  <1>3. \A m \in Occurrences : <<o, m>> \in Keys /\ (<<o, m>> = key <=> o = op /\ m = n)
    BY DEF Keys
  <1>4. rows' = [rows EXCEPT ![key] = row] \/ (rows' = rows /\ rows[key] # NoRow)
    BY DEF Begin
  <1> HIDE DEF key, row
  <1>5. \A m \in Occurrences :
           rows'[<<o, m>>] # NoRow <=> (rows[<<o, m>>] # NoRow \/ (o = op /\ m = n))
    BY <1>1, <1>2, <1>3, <1>4
  <1> QED BY <1>5 DEF RowsOf

\* A row that exists stays.
LEMMA BeginKeepsRows ==
    ASSUME TypeOK, NEW c \in CallIds, NEW op \in Ops, NEW n \in Occurrences,
           NEW nth, Begin(c, op, n, nth), NEW k \in Keys, rows[k] # NoRow
    PROVE  rows'[k] # NoRow
  <1> DEFINE row == [status |-> "running", owner |-> c]
  <1>1. rows \in [Keys -> Rows \cup {NoRow}] /\ row # NoRow
    BY LedgerAssumption DEF TypeOK
  <1>2. rows' = [rows EXCEPT ![<<op, n>>] = row] \/ rows' = rows
    BY DEF Begin
  <1> QED BY <1>1, <1>2

\* No other step changes which occurrences are recorded.
LEMMA OtherRows ==
    ASSUME TypeOK, NEW c \in CallIds, Executing(c),
           NEW status \in {"completed", "uncertain"}, Finish(c, status), NEW o \in Ops
    PROVE  RowsOf(o)' = RowsOf(o)
  <1> DEFINE q == calls[c].key
             row == [rows[q] EXCEPT !.status = status]
  <1>1. rows \in [Keys -> Rows \cup {NoRow}] /\ q \in Keys
    BY DEF TypeOK, Executing, CallRecords
  <1>2. CASE rows[q] # NoRow /\ Owns(c, rows[q])
    <2>1. rows' = [rows EXCEPT ![q] = row]
      BY <1>2 DEF Finish
    <2>2. rows[q] \in Rows
      BY <1>1, <1>2
    <2>3. row \in Rows
      BY <2>2 DEF Rows
    <2>4. row # NoRow
      BY <2>3, LedgerAssumption DEF Rows
    <2> HIDE DEF q, row
    <2>5. \A k \in Keys : rows'[k] = NoRow <=> rows[k] = NoRow
      BY <1>1, <1>2, <2>1, <2>4
    <2> QED BY <2>5 DEF RowsOf, Keys
  <1>3. CASE ~ (rows[q] # NoRow /\ Owns(c, rows[q]))
    <2>1. rows' = rows
      BY <1>3 DEF Finish
    <2> QED BY <2>1 DEF RowsOf
  <1> QED BY <1>2, <1>3

\* Without gaps, the recorded occurrences are exactly the first ones.
LEMMA RowsAreFirst ==
    ASSUME NoGaps, NEW op \in Ops
    PROVE  RowsOf(op) = 1..Cardinality(RowsOf(op))
  <1> DEFINE m == Cardinality(RowsOf(op))
  <1>1. IsFiniteSet(RowsOf(op)) /\ m \in Nat
    BY RowsOfFinite
  <1>2. ASSUME NEW n \in RowsOf(op) PROVE n \in 1..m
    <2>1. n \in Nat /\ n >= 1
      BY LedgerAssumption DEF RowsOf, Occurrences
    <2>2. 1..n \subseteq RowsOf(op)
      BY DEF NoGaps
    <2>3. IsFiniteSet(1..n) /\ Cardinality(1..n) = n
      BY <2>1, FS_Interval
    <2>4. n <= m
      BY <1>1, <2>2, <2>3, FS_Subset
    <2> QED BY <1>1, <2>1, <2>4
  <1>3. IsFiniteSet(1..m) /\ Cardinality(1..m) = m
    BY <1>1, FS_Interval
  <1>4. RowsOf(op) \subseteq 1..m
    BY <1>2
  <1> QED BY <1>1, <1>3, <1>4, FS_Subset

\* The ledger never counts further than it has rows for.
Counted == \A op \in Ops : 1..occ[op] \subseteq RowsOf(op)

\* What a resumed attempt knows of its own calls: it numbers them 1, 2, ... and
\* the executions it started are those of the calls it remembers.
Replays ==
    /\ \A w \in working :
          /\ w.attempt <= attempt
          /\ w.attempt = attempt => calls[w.call] # NoCall /\ calls[w.call].key = w.key
    /\ \A c \in CallIds : calls[c] # NoCall => rows[calls[c].key] # NoRow
    /\ Replaying =>
          /\ \A op \in Ops : occ[op] = issued[op] /\ 1..found[op] \subseteq RowsOf(op)
          /\ \A c \in CallIds : calls[c] # NoCall => calls[c].key[2] = calls[c].nth

CountInv == TypeOK /\ NoGaps /\ Counted /\ Replays /\ ResumeRepeatsNothing

\* The number given to a new call leaves no occurrence out.
LEMMA NextLeavesNoGap ==
    ASSUME TypeOK, NoGaps, Counted, NEW op \in Ops
    PROVE  1..(NextOccurrence(op) - 1) \subseteq RowsOf(op)
  <1> DEFINE m == Cardinality(RowsOf(op))
  <1>1. m \in Nat /\ occ[op] \in Nat
    BY RowsOfFinite, LedgerAssumption DEF TypeOK
  <1>2. 1..m \subseteq RowsOf(op) /\ 1..occ[op] \subseteq RowsOf(op)
    BY RowsAreFirst DEF Counted
  <1>3. NextOccurrence(op) - 1 = m \/ NextOccurrence(op) - 1 = occ[op]
    BY <1>1 DEF NextOccurrence
  <1> QED BY <1>2, <1>3

LEMMA CountInit == Init => CountInv
  <1> SUFFICES ASSUME Init PROVE CountInv
    OBVIOUS
  <1>1. \A op \in Ops : RowsOf(op) = {}
    BY DEF Init, RowsOf, Keys
  <1>2. NoGaps /\ Counted
    BY <1>1 DEF Init, NoGaps, Counted
  <1>3. Replays /\ ResumeRepeatsNothing
    BY DEF Init, Replays, ResumeRepeatsNothing, Replaying
  <1> QED BY <1>2, <1>3, TypeInit DEF CountInv

LEMMA CallCounts ==
    ASSUME CountInv, TypeOK', NEW c \in CallIds, NEW op \in Ops, Call(c, op)
    PROVE  CountInv'
  <1> DEFINE n == NextOccurrence(op)
             nth == issued[op] + 1
             w0 == [key |-> <<op, n>>, call |-> c, attempt |-> attempt]
             rec(stage) == [key |-> <<op, n>>, nth |-> nth, stage |-> stage]
  <1> TypeOK /\ NoGaps /\ Counted /\ Replays /\ ResumeRepeatsNothing
    BY DEF CountInv
  <1>1. n \in Occurrences /\ n \in Nat /\ n >= 1 /\ Begin(c, op, n, nth)
    BY LedgerAssumption DEF Call, Occurrences
  <1>2. occ' = [occ EXCEPT ![op] = n] /\ issued' = [issued EXCEPT ![op] = nth]
    BY DEF Call
  <1>3. attempt' = attempt /\ found' = found /\ calls[c] = NoCall
    BY DEF Call
  <1>4. occ \in [Ops -> 0..MaxOccurrence] /\ issued \in [Ops -> Nat] /\ found \in [Ops -> Nat]
    BY DEF TypeOK
  <1>5. \A o \in Ops : RowsOf(o)' = IF o = op THEN RowsOf(o) \cup {n} ELSE RowsOf(o)
    BY <1>1, BeginRows
  <1>6. 1..(n - 1) \subseteq RowsOf(op)
    BY NextLeavesNoGap
  <1>7. 1..n \subseteq RowsOf(op)'
    BY <1>1, <1>5, <1>6
  <1>8. NoGaps'
    <2> SUFFICES ASSUME NEW o \in Ops, NEW i \in RowsOf(o)' PROVE 1..i \subseteq RowsOf(o)'
      BY DEF NoGaps
    <2>1. CASE o = op /\ i = n
      BY <1>7, <2>1
    <2>2. CASE ~ (o = op /\ i = n)
      <3>1. i \in RowsOf(o)
        BY <1>5, <2>2
      <3> QED BY <1>5, <3>1 DEF NoGaps
    <2> QED BY <2>1, <2>2
  <1>9. Counted'
    BY <1>2, <1>4, <1>5, <1>7 DEF Counted
  <1>10. working' \subseteq working \cup {w0}
    BY <1>1 DEF Begin
  <1>11. \A d \in CallIds : d # c => calls'[d] = calls[d]
    BY <1>1 DEF Begin, TypeOK
  <1>12. calls'[c] = rec("executing") \/ calls'[c] = rec("answered")
    BY <1>1 DEF Begin, TypeOK
  <1>13. calls'[c].key = <<op, n>> /\ calls'[c].nth = nth
    BY <1>12
  <1>14. calls'[c] # NoCall \/ ~ (\E w \in working' : w = w0)
    <2>1. CASE calls'[c] # NoCall
      BY <2>1
    <2>2. CASE calls'[c] = NoCall
      <3>1. NoCall \notin CallRecords
        BY LedgerAssumption DEF CallRecords, Keys, Occurrences
      <3>2. rec("executing") \in CallRecords /\ rec("answered") \in CallRecords
        BY <1>1, <1>4 DEF CallRecords, Keys
      <3> QED BY <1>12, <2>2, <3>1, <3>2
    <2> QED BY <2>1, <2>2
  <1>15. Replaying => n = nth
    BY <1>4 DEF Replaying, NextOccurrence, Replays
  <1>16. w0.key = <<op, n>> /\ w0.call = c /\ w0.attempt = attempt
    OBVIOUS
  <1>17. \A w \in working : w.call \in CallIds /\ w.attempt \in Nat /\ w.key \in Keys
    BY DEF TypeOK
  <1>18. \A w \in working : w.attempt = attempt => w.call # c
    BY <1>3 DEF Replays
  <1> HIDE DEF w0, n, nth, rec
  <1>19. Replays'
    <2>1. ASSUME NEW w \in working'
          PROVE  /\ w.attempt <= attempt
                 /\ w.attempt = attempt => calls'[w.call] # NoCall /\ calls'[w.call].key = w.key
      <3>1. CASE w = w0
        BY <1>13, <1>14, <1>16, <3>1 DEF TypeOK
      <3>2. CASE w \in working
        BY <1>11, <1>17, <1>18, <3>2 DEF Replays
      <3> QED BY <1>10, <3>1, <3>2
    <2>2. ASSUME Replaying, NEW o \in Ops
          PROVE  occ'[o] = issued'[o] /\ 1..found[o] \subseteq RowsOf(o)'
      BY <1>2, <1>4, <1>5, <1>15, <2>2 DEF Replays
    <2>3. ASSUME Replaying, NEW d \in CallIds, calls'[d] # NoCall
          PROVE  calls'[d].key[2] = calls'[d].nth
      BY <1>11, <1>13, <1>15, <2>3 DEF Replays
    <2>4. ASSUME NEW d \in CallIds, calls'[d] # NoCall PROVE rows'[calls'[d].key] # NoRow
      <3>1. CASE d = c
        BY <1>5, <1>7, <1>13, <3>1, <1>1 DEF RowsOf
      <3>2. CASE d # c
        <4>1. calls[d] # NoCall /\ calls'[d].key = calls[d].key /\ calls[d].key \in Keys
          BY <1>11, <2>4, <3>2 DEF TypeOK, CallRecords
        <4>2. rows[calls[d].key] # NoRow
          BY <4>1 DEF Replays
        <4> QED BY <1>1, <4>1, <4>2, BeginKeepsRows
      <3> QED BY <3>1, <3>2
    <2> QED BY <1>3, <2>1, <2>2, <2>3, <2>4 DEF Replays, Replaying
  <1>20. ResumeRepeatsNothing'
    <2> SUFFICES ASSUME NEW w \in working', w.attempt = attempt, Replaying,
                        calls'[w.call] # NoCall, calls'[w.call].nth <= found[w.key[1]]
                 PROVE  w.key[1] \in Idempotent
      BY <1>3 DEF ResumeRepeatsNothing, Replaying
    <2>1. CASE w \in working
      BY <1>11, <1>17, <1>18, <2>1 DEF ResumeRepeatsNothing
    <2>2. CASE w \notin working
      <3>1. w = w0 /\ w.key[1] = op
        BY <1>10, <1>16, <2>2
      <3>2. n <= found[op]
        BY <1>13, <1>15, <1>16, <3>1
      <3>3. n \in RowsOf(op)
        BY <1>1, <1>4, <3>2 DEF Replays
      <3>4. rows[<<op, n>>] # NoRow
        BY <3>3 DEF RowsOf
      <3>5. Reclaims(op, rows[<<op, n>>])
        BY <1>1, <2>2, <3>4 DEF Begin
      <3> QED BY <3>1, <3>5 DEF Reclaims
    <2> QED BY <2>1, <2>2
  <1> QED BY <1>8, <1>9, <1>19, <1>20 DEF CountInv

LEMMA RepeatCounts ==
    ASSUME CountInv, TypeOK', NEW c \in CallIds, NEW op \in Ops, Repeat(c, op)
    PROVE  CountInv'
  <1> DEFINE n == calls[c].key[2]
             nth == calls[c].nth
             w0 == [key |-> <<op, n>>, call |-> c, attempt |-> attempt]
             rec(stage) == [key |-> <<op, n>>, nth |-> nth, stage |-> stage]
  <1> TypeOK /\ NoGaps /\ Counted /\ Replays /\ ResumeRepeatsNothing
    BY DEF CountInv
  <1>1. calls[c] \in CallRecords /\ calls[c] # NoCall /\ calls[c].key[1] = op
    BY DEF Repeat, TypeOK
  <1>2. n \in Occurrences /\ nth \in Nat /\ calls[c].key = <<op, n>>
    BY <1>1 DEF CallRecords, Keys
  <1>3. /\ Begin(c, op, n, nth)
        /\ occ' = occ /\ attempt' = attempt /\ found' = found /\ issued' = issued
    BY DEF Repeat, history
  <1>4. rec("executing") # NoCall /\ rec("answered") # NoCall
    <2>1. NoCall \notin CallRecords
      BY LedgerAssumption DEF CallRecords, Keys, Occurrences
    <2>2. rec("executing") \in CallRecords /\ rec("answered") \in CallRecords
      BY <1>2 DEF CallRecords, Keys
    <2> QED BY <2>1, <2>2
  <1>5. n \in RowsOf(op)'
    BY <1>2, <1>3, BeginRows
  <1>6. \A o \in Ops : RowsOf(o)' = IF o = op THEN RowsOf(o) \cup {n} ELSE RowsOf(o)
    BY <1>2, <1>3, BeginRows
  <1>7. working' \subseteq working \cup {w0}
    BY <1>3 DEF Begin
  <1>8. \A d \in CallIds : d # c => calls'[d] = calls[d]
    BY <1>3 DEF Begin, TypeOK
  <1>9. calls'[c] = rec("executing") \/ calls'[c] = rec("answered")
    BY <1>3 DEF Begin, TypeOK
  <1>10. calls'[c].key = <<op, n>> /\ calls'[c].nth = nth /\ calls'[c] # NoCall
    BY <1>4, <1>9
  <1>11. w0.key = <<op, n>> /\ w0.call = c /\ w0.attempt = attempt
    OBVIOUS
  <1>12. \A w \in working : w.call \in CallIds /\ w.attempt \in Nat /\ w.key \in Keys
    BY DEF TypeOK
  <1>13. n \in RowsOf(op)
    BY <1>1, <1>2 DEF RowsOf, Replays
  <1>14. \A o \in Ops : RowsOf(o)' = RowsOf(o)
    BY <1>6, <1>13
  <1>15. NoGaps' /\ Counted'
    BY <1>3, <1>14 DEF NoGaps, Counted
  <1> HIDE DEF w0, n, nth, rec
  <1>16. \A d \in CallIds : calls'[d] # NoCall =>
            calls[d] # NoCall /\ calls'[d].key = calls[d].key /\ calls'[d].nth = calls[d].nth
    BY <1>1, <1>2, <1>8, <1>10 DEF nth
  <1>17. Replays'
    <2>1. ASSUME NEW w \in working'
          PROVE  /\ w.attempt <= attempt
                 /\ w.attempt = attempt => calls'[w.call] # NoCall /\ calls'[w.call].key = w.key
      <3>1. CASE w = w0
        BY <1>10, <1>11, <3>1 DEF TypeOK
      <3>2. CASE w \in working
        BY <1>2, <1>8, <1>10, <1>12, <3>2 DEF Replays
      <3> QED BY <1>7, <3>1, <3>2
    <2>2. ASSUME Replaying, NEW o \in Ops
          PROVE  occ'[o] = issued'[o] /\ 1..found[o] \subseteq RowsOf(o)'
      BY <1>3, <1>14, <2>2 DEF Replays
    <2>3. ASSUME Replaying, NEW d \in CallIds, calls'[d] # NoCall
          PROVE  calls'[d].key[2] = calls'[d].nth
      BY <1>16, <2>3 DEF Replays
    <2>4. ASSUME NEW d \in CallIds, calls'[d] # NoCall PROVE rows'[calls'[d].key] # NoRow
      <3>1. calls[d] # NoCall /\ calls'[d].key = calls[d].key /\ calls[d].key \in Keys
        BY <1>16, <2>4 DEF TypeOK, CallRecords
      <3>2. rows[calls[d].key] # NoRow
        BY <3>1 DEF Replays
      <3> QED BY <1>2, <1>3, <3>1, <3>2, BeginKeepsRows
    <2> QED BY <1>3, <2>1, <2>2, <2>3, <2>4 DEF Replays, Replaying
  <1>18. ResumeRepeatsNothing'
    <2> SUFFICES ASSUME NEW w \in working', w.attempt = attempt, Replaying,
                        calls'[w.call] # NoCall, calls'[w.call].nth <= found[w.key[1]]
                 PROVE  w.key[1] \in Idempotent
      BY <1>3 DEF ResumeRepeatsNothing, Replaying
    <2>1. CASE w \in working
      BY <1>12, <1>16, <2>1 DEF ResumeRepeatsNothing
    <2>2. CASE w \notin working
      <3>1. w = w0 /\ w.key[1] = op
        BY <1>7, <1>11, <2>2
      <3>2. rows[<<op, n>>] # NoRow
        BY <1>13 DEF RowsOf
      <3>3. Reclaims(op, rows[<<op, n>>])
        BY <1>3, <2>2, <3>2 DEF Begin
      <3> QED BY <3>1, <3>3 DEF Reclaims
    <2> QED BY <2>1, <2>2
  <1> QED BY <1>15, <1>17, <1>18 DEF CountInv

\* finish() changes neither numbers nor which rows exist.
LEMMA FinishCounts ==
    ASSUME CountInv, TypeOK', NEW c \in CallIds, Succeed(c) \/ Fail(c) \/ TimeOut(c)
    PROVE  CountInv'
  <1> TypeOK /\ NoGaps /\ Counted /\ Replays /\ ResumeRepeatsNothing
    BY DEF CountInv
  <1>1. PICK status \in {"completed", "uncertain"} : Executing(c) /\ Finish(c, status)
    BY DEF Succeed, Fail, TimeOut
  <1>2. /\ working' \subseteq working
        /\ occ' = occ /\ attempt' = attempt /\ found' = found /\ issued' = issued
    BY DEF Succeed, Fail, TimeOut, history
  <1>3. \A o \in Ops : RowsOf(o)' = RowsOf(o)
    BY <1>1, OtherRows
  <1>4. calls[c] \in CallRecords /\ calls[c] # NoCall
    BY <1>1 DEF Executing, TypeOK
  <1>5. calls' = [calls EXCEPT ![c] = [calls[c] EXCEPT !.stage = "returned"]]
    BY <1>1 DEF Finish
  <1>6. calls'[c] = [calls[c] EXCEPT !.stage = "returned"] /\ calls'[c] \in CallRecords
    BY <1>4, <1>5 DEF TypeOK, CallRecords
  <1>7. calls'[c].key = calls[c].key /\ calls'[c].nth = calls[c].nth
    BY <1>4, <1>6 DEF CallRecords
  <1>8. calls'[c] # NoCall
    BY <1>6, LedgerAssumption DEF CallRecords, Keys, Occurrences
  <1>9. \A d \in CallIds :
           /\ calls'[d] # NoCall <=> calls[d] # NoCall
           /\ calls[d] # NoCall => calls'[d].key = calls[d].key /\ calls'[d].nth = calls[d].nth
    BY <1>4, <1>5, <1>7, <1>8 DEF TypeOK
  <1>10. \A w \in working : w.call \in CallIds
    BY DEF TypeOK
  <1>11. NoGaps' /\ Counted'
    BY <1>2, <1>3 DEF NoGaps, Counted
  <1>12. ASSUME NEW d \in CallIds, calls'[d] # NoCall PROVE rows'[calls'[d].key] # NoRow
    <2>1. PICK o \in Ops, m \in Occurrences : calls[d].key = <<o, m>>
      BY <1>9, <1>12 DEF TypeOK, CallRecords, Keys
    <2>2. m \in RowsOf(o)
      BY <1>9, <1>12, <2>1 DEF Replays, RowsOf
    <2> QED BY <1>3, <1>9, <1>12, <2>1, <2>2 DEF RowsOf
  <1>13. Replays'
    BY <1>2, <1>3, <1>9, <1>10, <1>12 DEF Replays, Replaying
  <1>14. ResumeRepeatsNothing'
    BY <1>2, <1>9, <1>10 DEF ResumeRepeatsNothing, Replaying
  <1> QED BY <1>11, <1>13, <1>14 DEF CountInv

\* A resumed attempt starts its numbering over, below what the rows hold.
LEMMA ResumeCounts ==
    ASSUME CountInv, TypeOK', Resume
    PROVE  CountInv'
  <1> TypeOK /\ NoGaps /\ Counted /\ Replays /\ ResumeRepeatsNothing
    BY DEF CountInv
  <1>1. /\ occ' = [op \in Ops |-> 0] /\ issued' = [op \in Ops |-> 0]
        /\ calls' = [d \in CallIds |-> NoCall]
        /\ rows' = rows /\ working' = working /\ attempt' = attempt + 1
        /\ found' = [op \in Ops |-> Cardinality(RowsOf(op))]
    BY DEF Resume
  <1>2. \A o \in Ops : RowsOf(o)' = RowsOf(o)
    BY <1>1 DEF RowsOf
  <1>3. NoGaps' /\ Counted'
    BY <1>1, <1>2 DEF NoGaps, Counted
  <1>4. \A w \in working : w.attempt \in Nat /\ w.attempt < attempt'
    BY <1>1 DEF TypeOK, Replays
  <1>5. \A o \in Ops : 1..found'[o] \subseteq RowsOf(o)'
    BY <1>1, <1>2, RowsAreFirst
  <1>6. Replays'
    BY <1>1, <1>4, <1>5 DEF Replays, TypeOK
  <1>7. ResumeRepeatsNothing'
    BY <1>1, <1>4 DEF ResumeRepeatsNothing
  <1> QED BY <1>3, <1>6, <1>7 DEF CountInv

LEMMA CountStep == CountInv /\ [Next]_vars => CountInv'
  <1> SUFFICES ASSUME CountInv, [Next]_vars PROVE CountInv'
    OBVIOUS
  <1>1. TypeOK'
    BY TypeStep DEF CountInv
  <1>2. ASSUME NEW c \in CallIds, NEW op \in Ops, Call(c, op) PROVE CountInv'
    BY <1>1, <1>2, CallCounts
  <1>3. ASSUME NEW c \in CallIds, NEW op \in Ops, Repeat(c, op) PROVE CountInv'
    BY <1>1, <1>3, RepeatCounts
  <1>4. ASSUME NEW c \in CallIds, Succeed(c) \/ Fail(c) \/ TimeOut(c) PROVE CountInv'
    BY <1>1, <1>4, FinishCounts
  <1>5. ASSUME \/ \E w \in working : Act(w)
               \/ EndAttempt \/ Crash \/ UNCHANGED vars
        PROVE  CountInv'
    <2>1. /\ rows' = rows /\ occ' = occ /\ calls' = calls /\ attempt' = attempt
          /\ issued' = issued /\ found' = found /\ working' \subseteq working
      BY <1>5 DEF Act, EndAttempt, Crash, vars, history
    <2>2. \A o \in Ops : RowsOf(o)' = RowsOf(o)
      BY <2>1 DEF RowsOf
    <2>3. NoGaps' /\ Counted'
      BY <2>1, <2>2 DEF CountInv, NoGaps, Counted
    <2>4. Replays'
      BY <2>1, <2>2 DEF CountInv, Replays, Replaying
    <2>5. ResumeRepeatsNothing'
      BY <2>1 DEF CountInv, ResumeRepeatsNothing, Replaying
    <2> QED BY <1>1, <2>3, <2>4, <2>5 DEF CountInv
  <1>6. ASSUME Resume PROVE CountInv'
    BY <1>1, <1>6, ResumeCounts
  <1> QED BY <1>2, <1>3, <1>4, <1>5, <1>6 DEF Next

LEMMA CountInvariant == Spec => []CountInv
  BY CountInit, CountStep, PTL DEF Spec

\* The occurrences recorded for an operation are always 1, 2, ..., m: the
\* numbering of idempotency_key_for leaves none out, so a resumed attempt that
\* counts from one meets them all.
THEOREM OccurrencesHaveNoGaps == Spec => []NoGaps
  <1>1. CountInv => NoGaps
    BY DEF CountInv
  <1> QED BY <1>1, CountInvariant, PTL

\* A resumed attempt executes none of the calls its predecessors recorded,
\* save uncertain ones of idempotent tools: its n-th call of an operation is
\* answered from the n-th row.
THEOREM ResumedAttemptRepeatsNothing == Spec => []ResumeRepeatsNothing
  <1>1. CountInv => ResumeRepeatsNothing
    BY DEF CountInv
  <1> QED BY <1>1, CountInvariant, PTL

\* Occurrence numbers mean the same call in every attempt: idempotency_key_for
\* leaves no number out, and a resumed attempt repeats nothing recorded.
THEOREM OccurrencesStaySound == Spec => []OccurrencesAreSound
  <1>1. CountInv => OccurrencesAreSound
    BY DEF CountInv, OccurrencesAreSound
  <1> QED BY <1>1, CountInvariant, PTL

-----------------------------------------------------------------------------
(* The hash chain: the inductive invariant                                 *)

ChainLines == [seq : Nat, prev : Nat, hash : Nat, linked : BOOLEAN, legacy : BOOLEAN]

Heads == [loaded : BOOLEAN, next : Nat, prev : Nat, linked : BOOLEAN, size : Nat \X BOOLEAN,
          clear : BOOLEAN, stage : {"idle", "waiting", "writing", "written", "sealing"},
          rec : Nat, sync : BOOLEAN]

ChainTypeOK ==
    /\ logFile \in Seq(ChainLines)
    /\ torn \in BOOLEAN
    /\ flock \in Process \cup {Nobody}
    /\ chain \in [Process -> Heads]
    /\ synced \in 0 .. Len(logFile)
    /\ attempts \in 0 .. MaxRecords
    /\ raced \in BOOLEAN

\* Who is writing holds the lock, and found no fragment.
WriterIsAlone ==
    \A p \in Process :
        /\ chain[p].stage = "writing" <=> flock = p
        /\ chain[p].stage = "writing" => ~ torn

\* Every line has a name of its own: the legacy line, or an append attempt
\* begun so far; and none yet that of an attempt still to be written.
Pending(p) == chain[p].stage \in {"waiting", "writing"}
NamesAreOwn ==
    /\ \A i \in 1 .. Len(logFile) :
          /\ IF logFile[i].legacy THEN logFile[i].hash = LegacyName /\ logFile[i].seq = 0
             ELSE logFile[i].hash \in 1 .. attempts
          /\ \A j \in 1 .. Len(logFile) : logFile[i].hash = logFile[j].hash => i = j
    /\ \A p \in Process : Pending(p) =>
          /\ chain[p].rec \in 1 .. attempts
          /\ \A i \in 1 .. Len(logFile) : logFile[i].hash # chain[p].rec
          /\ \A q \in Process : Pending(q) /\ chain[q].rec = chain[p].rec => q = p

\* What was acknowledged is where a power loss cannot take it.
AckedIsSynced ==
    \A r \in acked : \E i \in 1 .. synced : logFile[i].hash = r

\* The cached head continues these lines.
Continues(c, lines) ==
    IF lines = <<>> THEN c.next = 1 /\ c.prev = Genesis /\ ~ c.linked
    ELSE LET end == lines[Len(lines)] IN
         c.next = end.seq + 1 /\ c.prev = end.hash /\ (end.legacy => c.linked)

\* The size it remembers is that of a file with these lines.
IsCached(c, lines) == c.loaded /\ c.size[1] = Len(lines) + 1 /\ c.stage # "written"

\* A head is current while its process writes, and whenever the size it
\* remembers is that of the file; a record just written has its own number; an
\* empty file was never written by anybody.
HeadsAreCurrent ==
    \A p \in Process :
        /\ chain[p].size[1] <= Len(logFile) + 1
        /\ logFile = <<>> => Continues(chain[p], logFile)
        /\ ~ raced /\ chain[p].stage = "writing" => Continues(chain[p], logFile)
        /\ ~ raced /\ IsCached(chain[p], logFile) => Continues(chain[p], logFile)
        /\ chain[p].stage = "written" =>
              \E i \in 1 .. Len(logFile) :
                  logFile[i].hash = chain[p].rec /\ logFile[i].seq = chain[p].next
                  /\ ~ logFile[i].legacy

\* What an anchor names, or is about to name, is synced.
AnchorIsSynced ==
    ~ raced =>
        /\ anchor # NoAnchor => \E i \in 1 .. synced : logFile[i].hash = anchor.hash
        /\ \A p \in Process : chain[p].stage = "sealing" =>
              \E i \in 1 .. synced : logFile[i].hash = chain[p].prev

ChainInv ==
    /\ ChainTypeOK /\ WriterIsAlone /\ NamesAreOwn /\ AckedIsSynced /\ HeadsAreCurrent
    /\ AnchorIsSynced
    /\ ~ raced => VerifyChain(logFile)

-----------------------------------------------------------------------------
(* What the operators do                                                   *)

\* _reload_if_externally_appended and _ensure_loaded touch the head alone, and
\* what they leave continues the file, if a head they trust does.
LEMMA ReloadFacts ==
    ASSUME NEW c \in Heads, NEW lines \in Seq(ChainLines), NEW fragment \in BOOLEAN
    PROVE  LET r == Reload(c, lines, fragment) IN
           /\ r \in Heads /\ r.stage = c.stage /\ r.rec = c.rec /\ r.sync = c.sync
           /\ r.size = c.size /\ r.clear = c.clear /\ r.loaded
           /\ /\ lines = <<>> => Continues(c, lines)
              /\ c.loaded /\ c.size[1] = Len(lines) + 1 => Continues(c, lines)
              => Continues(r, lines)
  <1> DEFINE end == lines[Len(lines)]
             empty == [c EXCEPT !.loaded = FALSE, !.next = 1, !.prev = Genesis, !.linked = FALSE]
  <1>1. lines # <<>> => end \in ChainLines /\ Last(lines) = end
    BY DEF Last
  <1>2. empty \in Heads /\ empty.next = 1 /\ empty.prev = Genesis /\ ~ empty.linked
        /\ ~ empty.loaded
        /\ empty.stage = c.stage /\ empty.rec = c.rec /\ empty.sync = c.sync
        /\ empty.size = c.size /\ empty.clear = c.clear
    BY DEF Heads, Genesis
  <1>3. ASSUME NEW d \in Heads, ~ d.loaded
        PROVE  LET r == Load(d, lines) IN
               /\ r \in Heads /\ r.stage = d.stage /\ r.rec = d.rec /\ r.sync = d.sync
               /\ r.size = d.size /\ r.clear = d.clear /\ r.loaded
               /\ (lines = <<>> => Continues(d, lines)) => Continues(r, lines)
    <2>1. CASE lines = <<>>
      BY <1>3, <2>1 DEF Load, Heads, Continues
    <2>2. CASE lines # <<>>
      <3>1. Load(d, lines) = [d EXCEPT !.loaded = TRUE, !.prev = end.hash, !.linked = end.legacy,
                                       !.next = end.seq + 1]
        BY <1>1, <1>3, <2>2 DEF Load
      <3>2. end.seq \in Nat /\ end.hash \in Nat /\ end.legacy \in BOOLEAN
        BY <1>1, <2>2 DEF ChainLines
      <3> HIDE DEF end
      <3>3. /\ Load(d, lines) \in Heads /\ Load(d, lines).loaded
            /\ Load(d, lines).stage = d.stage /\ Load(d, lines).rec = d.rec
            /\ Load(d, lines).sync = d.sync /\ Load(d, lines).size = d.size
            /\ Load(d, lines).clear = d.clear
        <4> DEFINE d1 == [d EXCEPT !.loaded = TRUE]
                   d2 == [d1 EXCEPT !.prev = end.hash]
                   d3 == [d2 EXCEPT !.linked = end.legacy]
                   Same(x) == /\ x \in Heads /\ x.loaded /\ x.stage = d.stage /\ x.rec = d.rec
                              /\ x.sync = d.sync /\ x.size = d.size /\ x.clear = d.clear
        <4>1. Same(d1)
          BY DEF Heads
        <4> HIDE DEF d1
        <4>2. Same(d2)
          BY <3>2, <4>1 DEF Heads
        <4> HIDE DEF d2
        <4>3. Same(d3)
          BY <3>2, <4>2 DEF Heads
        <4> HIDE DEF d3
        <4>4. Same([d3 EXCEPT !.next = end.seq + 1])
          <5>1. \A n \in Nat : Same([d3 EXCEPT !.next = n])
            BY <4>3 DEF Heads
          <5>2. end.seq + 1 \in Nat
            BY <3>2
          <5> HIDE DEF Same
          <5> QED BY <5>1, <5>2, Zenon
        <4>5. Load(d, lines) = [d3 EXCEPT !.next = end.seq + 1]
          BY <3>1 DEF d1, d2, d3
        <4> QED BY <4>4, <4>5
      <3>4. /\ Load(d, lines).next = end.seq + 1 /\ Load(d, lines).prev = end.hash
            /\ Load(d, lines).linked = end.legacy
        BY <3>1, <3>2 DEF Heads
      <3>5. Continues(Load(d, lines), lines)
        BY <2>2, <3>4 DEF Continues, end
      <3> QED BY <3>3, <3>5
    <2> QED BY <2>1, <2>2
  <1>4. CASE c.loaded /\ c.size # SizeOf(lines, fragment)
    <2>1. Reload(c, lines, fragment) = Load(empty, lines)
      BY <1>4 DEF Reload
    <2>2. lines = <<>> => Continues(empty, lines)
      BY <1>2 DEF Continues
    <2> HIDE DEF empty
    <2> QED BY <1>2, <1>3, <2>1, <2>2
  <1>5. CASE c.loaded /\ c.size = SizeOf(lines, fragment)
    <2>1. Reload(c, lines, fragment) = c
      BY <1>5 DEF Reload, Load
    <2>2. c.size[1] = Len(lines) + 1
      BY <1>5 DEF SizeOf
    <2> QED BY <1>5, <2>1, <2>2
  <1>6. CASE ~ c.loaded
    <2>1. Reload(c, lines, fragment) = Load(c, lines)
      BY <1>6 DEF Reload
    <2> QED BY <1>3, <1>6, <2>1
  <1> QED BY <1>4, <1>5, <1>6

\* A record written under a head that continues the file keeps it verifiable.
LEMMA AppendVerifies ==
    ASSUME NEW lines \in Seq(ChainLines), NEW c \in Heads, NEW line \in ChainLines,
           VerifyChain(lines), Continues(c, lines),
           \A i \in 1 .. Len(lines) : lines[i].legacy => lines[i].seq = 0,
           line.seq = c.next, line.prev = c.prev, ~ line.legacy,
           line.linked = (c.linked /\ c.next = 1)
    PROVE  VerifyChain(Append(lines, line))
  <1> DEFINE more == Append(lines, line)
  <1>1. /\ Len(more) = Len(lines) + 1 /\ more[Len(lines) + 1] = line
        /\ DOMAIN more = 1 .. Len(lines) + 1 /\ DOMAIN lines = 1 .. Len(lines)
        /\ \A i \in 1 .. Len(lines) : more[i] = lines[i]
    OBVIOUS
  <1> HIDE DEF more
  <1>2. ASSUME NEW i \in 1 .. Len(lines)
        PROVE  /\ more[i].legacy => \A j \in 1 .. i : more[j].legacy
               /\ ~ more[i].legacy =>
                    IF i = 1 \/ more[i - 1].legacy
                    THEN /\ more[i].linked = (i > 1)
                         /\ more[i].prev = IF i > 1 THEN more[i - 1].hash ELSE Genesis
                    ELSE /\ more[i].seq = more[i - 1].seq + 1
                         /\ more[i].prev = more[i - 1].hash
    <2>1. \A j \in 1 .. i : more[j] = lines[j]
      BY <1>1
    <2>2. i # 1 => more[i - 1] = lines[i - 1]
      BY <1>1
    <2> QED BY <1>1, <2>1, <2>2 DEF VerifyChain
  <1>3. ASSUME NEW i \in 1 .. Len(lines) + 1, i = Len(lines) + 1
        PROVE  /\ ~ more[i].legacy
               /\ IF i = 1 \/ more[i - 1].legacy
                  THEN /\ more[i].linked = (i > 1)
                       /\ more[i].prev = IF i > 1 THEN more[i - 1].hash ELSE Genesis
                  ELSE /\ more[i].seq = more[i - 1].seq + 1
                       /\ more[i].prev = more[i - 1].hash
    <2>1. CASE lines = <<>>
      BY <1>1, <1>3, <2>1 DEF Continues
    <2>2. CASE lines # <<>>
      <3>1. Len(lines) \in 1 .. Len(lines) /\ i # 1 /\ i - 1 = Len(lines) /\ i > 1
            /\ more[i - 1] = lines[Len(lines)] /\ more[i] = line
        BY <1>1, <1>3, <2>2
      <3>2. /\ c.next = lines[Len(lines)].seq + 1 /\ c.prev = lines[Len(lines)].hash
            /\ lines[Len(lines)].legacy => c.linked /\ c.next = 1
        BY <2>2, <3>1 DEF Continues
      <3> QED BY <3>1, <3>2
    <2> QED BY <2>1, <2>2
  <1> QED BY <1>1, <1>2, <1>3 DEF VerifyChain

\* So does every prefix of it: what a power loss leaves.
LEMMA PrefixVerifies ==
    ASSUME NEW lines \in Seq(ChainLines), NEW n \in 0 .. Len(lines), VerifyChain(lines)
    PROVE  VerifyChain(SubSeq(lines, 1, n))
  <1> DEFINE less == SubSeq(lines, 1, n)
  <1>1. /\ DOMAIN less = 1 .. n /\ DOMAIN lines = 1 .. Len(lines)
        /\ \A i \in 1 .. n : less[i] = lines[i]
    OBVIOUS
  <1> HIDE DEF less
  <1>2. ASSUME NEW i \in 1 .. n
        PROVE  /\ less[i].legacy => \A j \in 1 .. i : less[j].legacy
               /\ ~ less[i].legacy =>
                    IF i = 1 \/ less[i - 1].legacy
                    THEN /\ less[i].linked = (i > 1)
                         /\ less[i].prev = IF i > 1 THEN less[i - 1].hash ELSE Genesis
                    ELSE /\ less[i].seq = less[i - 1].seq + 1
                         /\ less[i].prev = less[i - 1].hash
    <2>0. i \in 1 .. Len(lines)
      OBVIOUS
    <2>1. \A j \in 1 .. i : less[j] = lines[j]
      BY <1>1
    <2>2. i # 1 => less[i - 1] = lines[i - 1]
      BY <1>1
    <2> QED BY <1>1, <2>0, <2>1, <2>2 DEF VerifyChain
  <1> QED BY <1>1, <1>2 DEF VerifyChain

-----------------------------------------------------------------------------
(* Steps that leave the lines alone                                        *)

LEMMA OneHead ==
    ASSUME ChainTypeOK, NEW p \in Process, NEW c \in Heads, chain' = [chain EXCEPT ![p] = c]
    PROVE  /\ chain' \in [Process -> Heads] /\ chain'[p] = c
           /\ \A q \in Process \ {p} : chain'[q] = chain[q]
  BY DEF ChainTypeOK

\* One process changes its head and its stage: what has to be said of the new
\* head, the lock and the anchor for ChainInv to hold on.
LEMMA HeadMoves ==
    ASSUME ChainInv, NEW p \in Process, NEW c \in Heads, chain' = [chain EXCEPT ![p] = c],
           logFile' = logFile, acked' = acked,
           synced' \in synced .. Len(logFile), attempts' \in attempts .. MaxRecords,
           torn' \in BOOLEAN, raced' \in BOOLEAN, raced => raced',
           flock' \in Process \cup {Nobody}, WriterIsAlone',
           c.stage \in {"waiting", "writing"} =>
              \/ Pending(p) /\ c.rec = chain[p].rec
              \/ attempts' = attempts + 1 /\ c.rec = attempts',
           c.size[1] <= Len(logFile) + 1,
           logFile = <<>> => Continues(c, logFile),
           ~ raced' /\ c.stage = "writing" => Continues(c, logFile),
           ~ raced' /\ IsCached(c, logFile) => Continues(c, logFile),
           c.stage # "written",
           ~ raced' /\ c.stage = "sealing" => \E i \in 1 .. synced' : logFile[i].hash = c.prev,
           ~ raced' => \/ anchor' \in {anchor, NoAnchor}
                       \/ \E i \in 1 .. synced' : logFile[i].hash = anchor'.hash
    PROVE  ChainInv'
  <1> USE DEF ChainInv
  <1>0. /\ chain' \in [Process -> Heads] /\ chain'[p] = c
        /\ \A q \in Process \ {p} : chain'[q] = chain[q]
    BY OneHead
  <1>a. synced \in Nat /\ Len(logFile) \in Nat /\ attempts \in Nat /\ MaxRecords \in Nat
        /\ synced' \in Nat /\ attempts' \in Nat /\ synced <= synced' /\ attempts <= attempts'
    BY HashChainAssumption DEF ChainTypeOK
  <1>1. ChainTypeOK'
    BY <1>0, <1>a DEF ChainTypeOK
  <1>2. NamesAreOwn'
    <2>1. \A i \in 1 .. Len(logFile) :
            /\ IF logFile[i].legacy THEN logFile[i].hash = LegacyName /\ logFile[i].seq = 0
               ELSE logFile[i].hash \in 1 .. attempts
            /\ \A j \in 1 .. Len(logFile) : logFile[i].hash = logFile[j].hash => i = j
      BY DEF NamesAreOwn
    <2>2. \A i \in 1 .. Len(logFile) : logFile[i].hash \in 1 .. attempts => logFile[i].hash \in 1 .. attempts'
      BY <1>a
    <2>3. ASSUME attempts' = attempts + 1
          PROVE  \A i \in 1 .. Len(logFile) : logFile[i].hash # attempts'
      BY <1>a, <2>1, <2>3 DEF LegacyName
    <2>4. ASSUME NEW q \in Process, Pending(q)
          PROVE  /\ chain[q].rec \in 1 .. attempts
                 /\ \A i \in 1 .. Len(logFile) : logFile[i].hash # chain[q].rec
                 /\ \A r \in Process : Pending(r) /\ chain[r].rec = chain[q].rec => r = q
      BY <2>4 DEF NamesAreOwn
    <2>5. ASSUME NEW q \in Process, Pending(q)'
          PROVE  /\ chain'[q].rec \in 1 .. attempts'
                 /\ \A i \in 1 .. Len(logFile) : logFile[i].hash # chain'[q].rec
                 /\ \A r \in Process : Pending(r)' /\ chain'[r].rec = chain'[q].rec => r = q
      <3>1. ASSUME NEW r \in Process, Pending(r)'
            PROVE  \/ Pending(r) /\ chain'[r].rec = chain[r].rec
                   \/ r = p /\ attempts' = attempts + 1 /\ chain'[r].rec = attempts'
        <4>1. CASE r = p
          BY <1>0, <3>1, <4>1 DEF Pending
        <4>2. CASE r # p
          <5>1. chain'[r] = chain[r]
            BY <1>0, <4>2
          <5> QED BY <3>1, <5>1 DEF Pending
        <4> QED BY <4>1, <4>2
      <3>2. CASE Pending(q) /\ chain'[q].rec = chain[q].rec
        <4>1. /\ chain'[q].rec \in 1 .. attempts
              /\ \A i \in 1 .. Len(logFile) : logFile[i].hash # chain'[q].rec
          BY <2>4, <3>2
        <4>2. chain'[q].rec \in 1 .. attempts'
          BY ONLY <4>1, <1>a
        <4>3. ASSUME NEW r \in Process, Pending(r)', chain'[r].rec = chain'[q].rec PROVE r = q
          <5>1. CASE Pending(r) /\ chain'[r].rec = chain[r].rec
            BY <2>4, <3>2, <4>3, <5>1
          <5>2. CASE attempts' = attempts + 1 /\ chain'[r].rec = attempts'
            BY ONLY <1>a, <4>1, <4>3, <5>2
          <5> QED BY <3>1, <4>3, <5>1, <5>2
        <4> QED BY <4>1, <4>2, <4>3
      <3>3. CASE q = p /\ attempts' = attempts + 1 /\ chain'[q].rec = attempts'
        <4>1. chain'[q].rec \in 1 .. attempts'
          BY ONLY <1>a, <3>3
        <4>2. ASSUME NEW r \in Process, Pending(r)', chain'[r].rec = chain'[q].rec PROVE r = q
          <5>1. CASE Pending(r) /\ chain'[r].rec = chain[r].rec
            <6>1. chain[r].rec \in 1 .. attempts /\ chain[r].rec = attempts + 1
              BY <2>4, <3>3, <4>2, <5>1
            <6> QED BY ONLY <1>a, <6>1
          <5>2. CASE r = p
            BY <3>3, <5>2
          <5> QED BY <3>1, <4>2, <5>1, <5>2
        <4> QED BY <2>3, <3>3, <4>1, <4>2
      <3> QED BY <2>5, <3>1, <3>2, <3>3
    <2> QED BY <2>1, <2>2, <2>5 DEF NamesAreOwn
  <1>3. AckedIsSynced'
    BY <1>a DEF AckedIsSynced
  <1>4. HeadsAreCurrent'
    BY <1>0, <1>a DEF HeadsAreCurrent, IsCached
  <1>5. AnchorIsSynced'
    <2>1. \A h : (\E i \in 1 .. synced : logFile[i].hash = h) => \E i \in 1 .. synced' : logFile[i].hash = h
      BY <1>a
    <2>2. ASSUME ~ raced' PROVE anchor' # NoAnchor => \E i \in 1 .. synced' : logFile'[i].hash = anchor'.hash
      <3>1. ~ raced
        BY <2>2
      <3> QED BY <2>1, <2>2, <3>1 DEF AnchorIsSynced
    <2>3. ASSUME ~ raced', NEW q \in Process, chain'[q].stage = "sealing"
          PROVE  \E i \in 1 .. synced' : logFile'[i].hash = chain'[q].prev
      <3>1. CASE q = p
        BY <1>0, <2>3, <3>1
      <3>2. CASE q # p
        <4>1. chain'[q] = chain[q] /\ ~ raced
          BY <1>0, <2>3, <3>2
        <4> QED BY <2>1, <2>3, <4>1 DEF AnchorIsSynced
      <3> QED BY <3>1, <3>2
    <2> QED BY <2>2, <2>3 DEF AnchorIsSynced
  <1> QED BY <1>1, <1>2, <1>3, <1>4, <1>5 DEF VerifyChain

LEMMA BeginAppendStep ==
    ASSUME ChainInv, NEW p \in Process, NEW durable \in BOOLEAN, BeginAppend(p, durable)
    PROVE  ChainInv'
  <1> USE DEF ChainInv, BeginAppend
  <1> DEFINE c == [chain[p] EXCEPT !.clear = FALSE, !.stage = "waiting",
                                   !.rec = attempts + 1, !.sync = durable]
  <1>0. chain[p] \in Heads /\ attempts \in Nat /\ MaxRecords \in Nat /\ attempts < MaxRecords
    BY HashChainAssumption DEF ChainTypeOK
  <1>1. /\ c \in Heads /\ c.stage = "waiting" /\ c.rec = attempts + 1 /\ c.size = chain[p].size
        /\ c.next = chain[p].next /\ c.prev = chain[p].prev /\ c.linked = chain[p].linked
        /\ c.loaded = chain[p].loaded
    <2>1. attempts + 1 \in Nat
      BY <1>0
    <2> QED BY <1>0, <2>1 DEF Heads
  <1>2. chain' = [chain EXCEPT ![p] = c] /\ attempts' = attempts + 1 /\ chain[p].stage = "idle"
    OBVIOUS
  <1> HIDE DEF c
  <1>3. /\ c.size[1] <= Len(logFile) + 1
        /\ logFile = <<>> => Continues(c, logFile)
        /\ ~ raced /\ IsCached(c, logFile) => Continues(c, logFile)
    BY <1>1, <1>2 DEF HeadsAreCurrent, Continues, IsCached
  <1>4. WriterIsAlone'
    BY <1>1, <1>2, OneHead DEF WriterIsAlone
  <1>5. attempts' \in attempts .. MaxRecords /\ synced' \in synced .. Len(logFile)
    BY <1>0, <1>2 DEF ChainTypeOK
  <1> QED BY <1>1, <1>2, <1>3, <1>4, <1>5, HeadMoves DEF ChainTypeOK

LEMMA EnterAppendStep ==
    ASSUME ChainInv, NEW p \in Process, EnterAppend(p)
    PROVE  ChainInv'
  <1> USE DEF ChainInv, EnterAppend, RepairTornTail
  <1> DEFINE r == Reload(chain[p], logFile, FALSE)
             c == [r EXCEPT !.stage = "writing"]
  <1>0. chain[p] \in Heads /\ logFile \in Seq(ChainLines) /\ chain[p].stage = "waiting"
    BY DEF ChainTypeOK
  <1>1. /\ r \in Heads /\ r.rec = chain[p].rec /\ r.size = chain[p].size
        /\ ~ raced => Continues(r, logFile)
        /\ logFile = <<>> => Continues(r, logFile)
    BY <1>0, ReloadFacts DEF HeadsAreCurrent, IsCached
  <1>2. chain' = [chain EXCEPT ![p] = c]
    OBVIOUS
  <1> HIDE DEF r
  <1>3. /\ c \in Heads /\ c.stage = "writing" /\ c.rec = chain[p].rec /\ c.size = chain[p].size
        /\ c.next = r.next /\ c.prev = r.prev /\ c.linked = r.linked
    BY <1>1 DEF Heads
  <1> HIDE DEF c
  <1>4. /\ c.size[1] <= Len(logFile) + 1
        /\ ~ raced => Continues(c, logFile)
        /\ logFile = <<>> => Continues(c, logFile)
    BY <1>1, <1>3 DEF HeadsAreCurrent, Continues
  <1>5. WriterIsAlone'
    <2>1. chain'[p] = c /\ \A q \in Process \ {p} : chain'[q] = chain[q]
      BY <1>2, <1>3, OneHead
    <2>2. flock = Nobody /\ flock' = p /\ ~ torn' /\ Nobody \notin Process
      BY HashChainAssumption
    <2>3. \A q \in Process : chain[q].stage # "writing"
      BY <2>2 DEF WriterIsAlone
    <2> QED BY <1>3, <2>1, <2>2, <2>3 DEF WriterIsAlone
  <1>6. attempts' \in attempts .. MaxRecords /\ synced' \in synced .. Len(logFile) /\ Pending(p)
    BY <1>0, HashChainAssumption DEF ChainTypeOK, Pending
  <1> QED BY <1>2, <1>3, <1>4, <1>5, <1>6, HeadMoves DEF ChainTypeOK

LEMMA RememberSizeStep ==
    ASSUME ChainInv, NEW p \in Process, RememberSize(p)
    PROVE  ChainInv'
  <1> USE DEF ChainInv, RememberSize
  <1> DEFINE c == [chain[p] EXCEPT !.stage = "idle", !.prev = chain[p].rec,
                                   !.next = chain[p].next + 1, !.size = SizeOf(logFile, torn)]
  <1>0. chain[p] \in Heads /\ logFile \in Seq(ChainLines) /\ chain[p].stage = "written"
        /\ chain[p].next \in Nat /\ chain[p].rec \in Nat
    BY DEF ChainTypeOK, Heads
  <1>1. /\ c \in Heads /\ c.stage = "idle" /\ c.rec = chain[p].rec /\ c.prev = chain[p].rec
        /\ c.size[1] = Len(logFile) + 1 /\ c.next = chain[p].next + 1
    <2>1. chain[p].next + 1 \in Nat /\ SizeOf(logFile, torn) \in Nat \X BOOLEAN
          /\ SizeOf(logFile, torn)[1] = Len(logFile) + 1
      BY <1>0 DEF SizeOf, ChainTypeOK
    <2> QED BY <1>0, <2>1 DEF Heads
  <1>2. chain' = [chain EXCEPT ![p] = c]
    OBVIOUS
  <1> HIDE DEF c
  <1>3. PICK i \in 1 .. Len(logFile) :
          logFile[i].hash = chain[p].rec /\ logFile[i].seq = chain[p].next /\ ~ logFile[i].legacy
    BY <1>0 DEF HeadsAreCurrent
  <1>4. logFile # <<>>
    BY <1>0, <1>3
  <1>5. ASSUME ~ raced' PROVE Continues(c, logFile)
    <2>0. Last(logFile).hash = chain[p].rec
      BY <1>5, Zenon
    <2>1. Len(logFile) \in 1 .. Len(logFile) /\ logFile[Len(logFile)].hash = chain[p].rec
      BY <1>0, <1>4, <2>0 DEF Last
    <2>2. i = Len(logFile)
      BY <1>3, <2>1 DEF NamesAreOwn
    <2> QED BY <1>1, <1>3, <1>4, <2>2 DEF Continues
  <1>6. WriterIsAlone'
    BY <1>0, <1>1, <1>2, OneHead DEF WriterIsAlone
  <1>7. /\ attempts' \in attempts .. MaxRecords /\ synced' \in synced .. Len(logFile)
        /\ raced' \in BOOLEAN /\ (raced => raced')
    BY HashChainAssumption DEF ChainTypeOK
  <1>8. c.size[1] <= Len(logFile) + 1
    BY <1>0, <1>1
  <1> QED BY <1>1, <1>2, <1>4, <1>5, <1>6, <1>7, <1>8, HeadMoves DEF ChainTypeOK

LEMMA BeginSealStep ==
    ASSUME ChainInv, NEW p \in Process, BeginSeal(p)
    PROVE  ChainInv'
  <1> USE DEF ChainInv, BeginSeal, SyncLog
  <1> DEFINE r == Reload(chain[p], logFile, torn)
             c == [r EXCEPT !.stage = "sealing"]
  <1>0. chain[p] \in Heads /\ logFile \in Seq(ChainLines) /\ chain[p].stage = "idle"
        /\ torn \in BOOLEAN /\ logFile # <<>>
    BY DEF ChainTypeOK
  <1>1. /\ r \in Heads /\ r.size = chain[p].size /\ (~ raced => Continues(r, logFile))
    BY <1>0, ReloadFacts DEF HeadsAreCurrent, IsCached
  <1>2. chain' = [chain EXCEPT ![p] = c]
    OBVIOUS
  <1> HIDE DEF r
  <1>3. /\ c \in Heads /\ c.stage = "sealing" /\ c.size = chain[p].size
        /\ c.next = r.next /\ c.prev = r.prev /\ c.linked = r.linked
    BY <1>1 DEF Heads
  <1> HIDE DEF c
  <1>4. /\ c.size[1] <= Len(logFile) + 1
        /\ ~ raced => Continues(c, logFile)
    BY <1>1, <1>3 DEF HeadsAreCurrent, Continues
  <1>5. WriterIsAlone'
    BY <1>0, <1>2, <1>3, OneHead DEF WriterIsAlone
  <1>6. /\ attempts' \in attempts .. MaxRecords /\ synced' \in synced .. Len(logFile)
        /\ Len(logFile) \in 1 .. synced'
    BY <1>0, HashChainAssumption DEF ChainTypeOK
  <1>7. ~ raced => \E i \in 1 .. synced' : logFile[i].hash = c.prev
    BY <1>0, <1>4, <1>6 DEF Continues
  <1> QED BY <1>0, <1>2, <1>3, <1>4, <1>5, <1>6, <1>7, HeadMoves DEF ChainTypeOK

\* A step that moves no number but the stage of p, to idle.
LEMMA GoIdle ==
    ASSUME ChainInv, NEW p \in Process, NEW c \in Heads, chain' = [chain EXCEPT ![p] = c],
           c.stage = "idle", chain[p].stage # "written",
           c.next = chain[p].next /\ c.prev = chain[p].prev /\ c.linked = chain[p].linked,
           c.loaded = chain[p].loaded /\ c.size = chain[p].size,
           chain[p].stage # "writing",
           UNCHANGED <<logFile, torn, flock, synced, attempts, acked, raced>>,
           ~ raced => \/ anchor' \in {anchor, NoAnchor}
                      \/ \E i \in 1 .. synced : logFile[i].hash = anchor'.hash
    PROVE  ChainInv'
  <1> USE DEF ChainInv
  <1>1. /\ c.size[1] <= Len(logFile) + 1
        /\ logFile = <<>> => Continues(c, logFile)
        /\ ~ raced /\ IsCached(c, logFile) => Continues(c, logFile)
    BY DEF HeadsAreCurrent, Continues, IsCached
  <1>2. WriterIsAlone'
    BY OneHead DEF WriterIsAlone
  <1>3. attempts' \in attempts .. MaxRecords /\ synced' \in synced .. Len(logFile)
    BY HashChainAssumption DEF ChainTypeOK
  <1> QED BY <1>1, <1>2, <1>3, HeadMoves DEF ChainTypeOK

LEMMA WriteAnchorStep ==
    ASSUME ChainInv, NEW p \in Process, WriteAnchor(p)
    PROVE  ChainInv'
  <1> USE DEF ChainInv, WriteAnchor
  <1>0. chain[p] \in Heads /\ chain[p].stage = "sealing"
    BY DEF ChainTypeOK
  <1>1. CASE chain' = [chain EXCEPT ![p] = [chain[p] EXCEPT !.stage = "idle", !.clear = TRUE]]
             /\ anchor' = [seq |-> chain[p].next - 1, hash |-> chain[p].prev]
    <2> DEFINE c == [chain[p] EXCEPT !.stage = "idle", !.clear = TRUE]
    <2>1. /\ c \in Heads /\ c.stage = "idle" /\ c.next = chain[p].next /\ c.prev = chain[p].prev
          /\ c.linked = chain[p].linked /\ c.loaded = chain[p].loaded /\ c.size = chain[p].size
      BY <1>0 DEF Heads
    <2>2. chain' = [chain EXCEPT ![p] = c]
      BY <1>1
    <2> HIDE DEF c
    <2>3. ~ raced => \E i \in 1 .. synced : logFile[i].hash = anchor'.hash
      BY <1>0, <1>1 DEF AnchorIsSynced
    <2> QED BY <1>0, <2>1, <2>2, <2>3, GoIdle
  <1>2. CASE chain' = [chain EXCEPT ![p].stage = "idle"] /\ anchor' = anchor
    <2> DEFINE c == [chain[p] EXCEPT !.stage = "idle"]
    <2>1. /\ c \in Heads /\ c.stage = "idle" /\ c.next = chain[p].next /\ c.prev = chain[p].prev
          /\ c.linked = chain[p].linked /\ c.loaded = chain[p].loaded /\ c.size = chain[p].size
      BY <1>0 DEF Heads
    <2>2. chain' = [chain EXCEPT ![p] = c]
      BY <1>2
    <2> HIDE DEF c
    <2> QED BY <1>0, <1>2, <2>1, <2>2, GoIdle
  <1> QED BY <1>1, <1>2

LEMMA UnsealStep ==
    ASSUME ChainInv, NEW p \in Process, Unseal(p)
    PROVE  ChainInv'
  <1>1. chain' = [chain EXCEPT ![p] = chain[p]] /\ chain[p] \in Heads /\ chain[p].stage = "idle"
    BY DEF ChainInv, ChainTypeOK, Unseal
  <1> QED BY <1>1, GoIdle DEF Unseal

\* A HashChainLog that was just made continues nothing but an empty file.
LEMMA FreshFacts ==
    /\ FreshChain \in Heads /\ FreshChain.stage = "idle" /\ ~ FreshChain.loaded
    /\ FreshChain.size[1] = 0 /\ FreshChain.next = 1 /\ FreshChain.prev = Genesis
    /\ ~ FreshChain.linked
  BY DEF FreshChain, Heads, Unknown, Genesis

LEMMA KillStep ==
    ASSUME ChainInv, NEW p \in Process, Kill(p)
    PROVE  ChainInv'
  <1> USE DEF ChainInv, Kill
  <1>1. /\ FreshChain.size[1] <= Len(logFile) + 1
        /\ logFile = <<>> => Continues(FreshChain, logFile)
        /\ ~ IsCached(FreshChain, logFile)
    BY FreshFacts DEF Continues, IsCached, ChainTypeOK
  <1>2. torn' \in BOOLEAN /\ flock' \in Process \cup {Nobody}
    BY DEF ChainTypeOK
  <1>3. WriterIsAlone'
    BY FreshFacts, OneHead, HashChainAssumption DEF WriterIsAlone, ChainTypeOK
  <1>4. attempts' \in attempts .. MaxRecords /\ synced' \in synced .. Len(logFile)
    BY HashChainAssumption DEF ChainTypeOK
  <1> QED BY <1>1, <1>2, <1>3, <1>4, FreshFacts, HeadMoves DEF ChainTypeOK

-----------------------------------------------------------------------------
(* Steps that change the lines                                             *)

\* The line p adds to the file while it holds the lock, with its head as it
\* stands, and the record acknowledged only if it is synced.
LEMMA LineAdded ==
    ASSUME ChainInv, NEW p \in Process, chain[p].stage = "writing",
           logFile' = Append(logFile, ChainedLine(p)),
           NEW c \in Heads, chain' = [chain EXCEPT ![p] = c],
           c.size[1] <= Len(logFile) + 1,
           \/ c.stage = "written" /\ c.rec = chain[p].rec /\ c.next = chain[p].next
           \/ c.stage = "idle",
           torn' = FALSE, flock' = Nobody, UNCHANGED <<anchor, attempts, raced>>,
           \/ synced' = synced /\ acked' = acked
           \/ synced' = Len(logFile') /\ acked' \in {acked, acked \cup {chain[p].rec}}
    PROVE  ChainInv'
  <1> USE DEF ChainInv
  <1> DEFINE line == ChainedLine(p)
  <1>a. /\ logFile \in Seq(ChainLines) /\ chain[p] \in Heads /\ Len(logFile) \in Nat
        /\ synced \in Nat /\ synced <= Len(logFile) /\ attempts \in Nat /\ MaxRecords \in Nat
        /\ attempts <= MaxRecords
    BY HashChainAssumption DEF ChainTypeOK
  <1>b. /\ chain' \in [Process -> Heads] /\ chain'[p] = c
        /\ \A q \in Process \ {p} : chain'[q] = chain[q]
    BY OneHead
  <1>c. ~ torn /\ flock = p /\ Pending(p)
    BY DEF WriterIsAlone, Pending
  <1>d. /\ line \in ChainLines /\ line.seq = chain[p].next /\ line.prev = chain[p].prev
        /\ line.hash = chain[p].rec /\ ~ line.legacy
        /\ line.linked = (chain[p].linked /\ chain[p].next = 1)
    BY <1>a, <1>c DEF ChainedLine, ChainLines, Heads
  <1>e. logFile' = Append(logFile, line)
    OBVIOUS
  <1> HIDE DEF line
  <1>f. /\ logFile' \in Seq(ChainLines) /\ Len(logFile') = Len(logFile) + 1
        /\ \A i \in 1 .. Len(logFile) : logFile'[i] = logFile[i]
        /\ logFile'[Len(logFile) + 1] = line
        /\ logFile' # <<>>
    BY <1>a, <1>d, <1>e
  <1>g. \A i \in 1 .. Len(logFile') : i \in 1 .. Len(logFile) \/ i = Len(logFile) + 1
    BY <1>a, <1>f
  <1>h. synced' \in Nat /\ synced <= synced' /\ synced' <= Len(logFile')
    BY <1>a, <1>f
  <1>1. ChainTypeOK'
    <2>1. synced' \in 0 .. Len(logFile')
      BY <1>a, <1>f, <1>h
    <2>2. torn' \in BOOLEAN /\ raced' \in BOOLEAN /\ flock' \in Process \cup {Nobody}
      BY DEF ChainTypeOK
    <2>3. attempts' \in 0 .. MaxRecords
      BY DEF ChainTypeOK
    <2> QED BY <1>b, <1>f, <2>1, <2>2, <2>3 DEF ChainTypeOK
  <1>2. WriterIsAlone'
    BY <1>b, <1>c, HashChainAssumption DEF WriterIsAlone
  <1>3. NamesAreOwn'
    <2>1. /\ chain[p].rec \in 1 .. attempts
          /\ \A i \in 1 .. Len(logFile) : logFile[i].hash # chain[p].rec
          /\ \A q \in Process : Pending(q) /\ chain[q].rec = chain[p].rec => q = p
      BY <1>c DEF NamesAreOwn
    <2>2. \A i \in 1 .. Len(logFile') :
            IF logFile'[i].legacy THEN logFile'[i].hash = LegacyName /\ logFile'[i].seq = 0
            ELSE logFile'[i].hash \in 1 .. attempts
      BY <1>d, <1>f, <1>g, <2>1 DEF NamesAreOwn
    <2>3. \A i, j \in 1 .. Len(logFile') : logFile'[i].hash = logFile'[j].hash => i = j
      BY <1>d, <1>f, <1>g, <2>1 DEF NamesAreOwn
    <2>4. \A q \in Process : Pending(q)' => q # p /\ Pending(q) /\ chain'[q] = chain[q]
      BY <1>b DEF Pending
    <2>5. \A q \in Process : Pending(q)' =>
            /\ chain'[q].rec \in 1 .. attempts
            /\ \A i \in 1 .. Len(logFile') : logFile'[i].hash # chain'[q].rec
            /\ \A r \in Process : Pending(r)' /\ chain'[r].rec = chain'[q].rec => r = q
      BY <1>d, <1>f, <1>g, <2>1, <2>4 DEF NamesAreOwn
    <2> QED BY <2>2, <2>3, <2>5 DEF NamesAreOwn, LegacyName
  <1>4. AckedIsSynced'
    <2>1. ASSUME NEW r \in acked PROVE \E i \in 1 .. synced' : logFile'[i].hash = r
      <3>1. PICK i \in 1 .. synced : logFile[i].hash = r
        BY DEF AckedIsSynced
      <3>2. i \in 1 .. synced' /\ logFile'[i] = logFile[i]
        BY <1>a, <1>f, <1>h
      <3> QED BY <3>1, <3>2
    <2>2. synced' = Len(logFile') => \E i \in 1 .. synced' : logFile'[i].hash = chain[p].rec
      <3>1. synced' = Len(logFile') => Len(logFile) + 1 \in 1 .. synced'
        BY <1>a, <1>f
      <3> QED BY <1>d, <1>f, <3>1
    <2> QED BY <2>1, <2>2 DEF AckedIsSynced
  <1>5. HeadsAreCurrent'
    <2>1. ASSUME NEW q \in Process
          PROVE  chain'[q].size[1] <= Len(logFile') /\ chain'[q].size[1] \in Nat
      <3>1. chain'[q] \in Heads /\ chain'[q].size[1] <= Len(logFile) + 1
        BY <1>b DEF HeadsAreCurrent
      <3> QED BY <1>f, <3>1 DEF Heads
    <2>2. ASSUME NEW q \in Process PROVE ~ IsCached(chain[q], logFile)'
      BY <1>a, <1>f, <2>1 DEF IsCached
    <2>3. ASSUME NEW q \in Process PROVE chain'[q].stage # "writing"
      BY <1>2, HashChainAssumption DEF WriterIsAlone
    <2>4. ASSUME NEW q \in Process, chain'[q].stage = "written"
          PROVE  \E i \in 1 .. Len(logFile') :
                    logFile'[i].hash = chain'[q].rec /\ logFile'[i].seq = chain'[q].next
                    /\ ~ logFile'[i].legacy
      <3>1. CASE q = p
        <4>1. Len(logFile) + 1 \in 1 .. Len(logFile')
          BY <1>a, <1>f
        <4> QED BY <1>b, <1>d, <1>f, <2>4, <3>1, <4>1
      <3>2. CASE q # p
        <4>1. PICK i \in 1 .. Len(logFile) :
                 logFile[i].hash = chain[q].rec /\ logFile[i].seq = chain[q].next
                 /\ ~ logFile[i].legacy
          BY <1>b, <2>4, <3>2 DEF HeadsAreCurrent
        <4>2. i \in 1 .. Len(logFile') /\ logFile'[i] = logFile[i] /\ chain'[q] = chain[q]
          <5>1. q \in Process \ {p}
            BY <3>2
          <5>2. i \in 1 .. Len(logFile')
            BY ONLY <1>a, <1>f, i \in 1 .. Len(logFile)
          <5> QED BY <1>b, <1>f, <5>1, <5>2
        <4> QED BY <4>1, <4>2
      <3> QED BY <3>1, <3>2
    <2>5. ASSUME NEW q \in Process PROVE chain'[q].size[1] <= Len(logFile') + 1
      BY <1>a, <1>f, <2>1
    <2> QED BY <1>f, <2>2, <2>3, <2>4, <2>5 DEF HeadsAreCurrent
  <1>6. AnchorIsSynced'
    <2>1. \A h : (\E i \in 1 .. synced : logFile[i].hash = h) => \E i \in 1 .. synced' : logFile'[i].hash = h
      BY <1>a, <1>f, <1>h
    <2>2. raced' = raced /\ anchor' = anchor
      OBVIOUS
    <2>3. ASSUME NEW q \in Process, chain'[q].stage = "sealing"
          PROVE  chain[q].stage = "sealing" /\ chain'[q].prev = chain[q].prev
      <3>1. q \in Process \ {p}
        BY <1>b, <2>3
      <3> QED BY <1>b, <2>3, <3>1
    <2>4. ASSUME ~ raced' PROVE anchor' # NoAnchor => \E i \in 1 .. synced' : logFile'[i].hash = anchor'.hash
      <3>1. anchor # NoAnchor => \E i \in 1 .. synced : logFile[i].hash = anchor.hash
        BY <2>2, <2>4 DEF AnchorIsSynced
      <3> QED BY ONLY <2>1, <2>2, <3>1, Zenon
    <2>5. ASSUME ~ raced', NEW q \in Process, chain'[q].stage = "sealing"
          PROVE  \E i \in 1 .. synced' : logFile'[i].hash = chain'[q].prev
      <3>1. \E i \in 1 .. synced : logFile[i].hash = chain[q].prev
        BY <2>2, <2>3, <2>5 DEF AnchorIsSynced
      <3>2. chain'[q].prev = chain[q].prev
        BY <2>3, <2>5
      <3> QED BY ONLY <2>1, <3>1, <3>2, Zenon
    <2> QED BY ONLY <2>4, <2>5 DEF AnchorIsSynced
  <1>7. ~ raced' => VerifyChain(logFile)'
    <2>1. ~ raced => VerifyChain(logFile) /\ Continues(chain[p], logFile)
      BY DEF HeadsAreCurrent
    <2>2. \A i \in 1 .. Len(logFile) : logFile[i].legacy => logFile[i].seq = 0
      BY DEF NamesAreOwn
    <2>3. ~ raced => VerifyChain(Append(logFile, line))
      BY <1>a, <1>d, <2>1, <2>2, AppendVerifies
    <2>4. VerifyChain(logFile)' = VerifyChain(logFile')
      BY DEF VerifyChain
    <2> QED BY <1>e, <2>3, <2>4
  <1> QED BY <1>1, <1>2, <1>3, <1>4, <1>5, <1>6, <1>7

LEMMA WriteRecordStep ==
    ASSUME ChainInv, NEW p \in Process, WriteRecord(p)
    PROVE  ChainInv'
  <1> DEFINE c == [chain[p] EXCEPT !.stage = "written"]
  <1>0. chain[p] \in Heads /\ chain[p].size[1] <= Len(logFile) + 1
    BY DEF ChainInv, ChainTypeOK, HeadsAreCurrent
  <1>1. /\ c \in Heads /\ c.stage = "written" /\ c.rec = chain[p].rec /\ c.next = chain[p].next
        /\ c.size = chain[p].size
    BY <1>0 DEF Heads
  <1>2. chain' = [chain EXCEPT ![p] = c]
    BY DEF WriteRecord
  <1> HIDE DEF c
  <1>3. \/ synced' = synced /\ acked' = acked
        \/ synced' = Len(logFile') /\ acked' \in {acked, acked \cup {chain[p].rec}}
    BY DEF WriteRecord, SyncRecord
  <1> QED BY <1>0, <1>1, <1>2, <1>3, LineAdded DEF WriteRecord

LEMMA WriteFailsStep ==
    ASSUME ChainInv, NEW p \in Process, WriteFails(p)
    PROVE  ChainInv'
  <1> DEFINE c == [chain[p] EXCEPT !.loaded = FALSE, !.size = Unknown, !.stage = "idle"]
  <1>0. chain[p] \in Heads /\ chain[p].stage = "writing" /\ Len(logFile) \in Nat
    BY DEF ChainInv, ChainTypeOK, WriteFails
  <1>1. /\ c \in Heads /\ c.stage = "idle" /\ ~ c.loaded /\ c.size[1] = 0
        /\ c.next = chain[p].next /\ c.prev = chain[p].prev /\ c.linked = chain[p].linked
    <2>1. Unknown \in Nat \X BOOLEAN /\ Unknown[1] = 0
      BY DEF Unknown
    <2> QED BY <1>0, <2>1 DEF Heads
  <1>2. chain' = [chain EXCEPT ![p] = c]
    BY DEF WriteFails, Forget
  <1> HIDE DEF c
  <1>3. c.size[1] <= Len(logFile) + 1
    BY <1>0, <1>1
  <1>4. CASE logFile' = Append(logFile, ChainedLine(p)) /\ torn' = FALSE
    BY <1>0, <1>1, <1>2, <1>3, <1>4, LineAdded DEF WriteFails
  <1>5. CASE logFile' = logFile /\ (torn' = torn \/ torn' = TRUE)
    <2>1. WriterIsAlone'
      BY <1>0, <1>1, <1>2, OneHead, HashChainAssumption DEF ChainInv, WriterIsAlone, WriteFails
    <2>2. /\ logFile = <<>> => Continues(c, logFile)
          /\ ~ IsCached(c, logFile)
      BY <1>1 DEF ChainInv, HeadsAreCurrent, Continues, IsCached
    <2>3. attempts' \in attempts .. MaxRecords /\ synced' \in synced .. Len(logFile)
      BY HashChainAssumption DEF ChainInv, ChainTypeOK, WriteFails
    <2> QED BY <1>1, <1>2, <1>3, <1>5, <2>1, <2>2, <2>3, HeadMoves
            DEF WriteFails, ChainInv, ChainTypeOK
  <1> QED BY <1>4, <1>5 DEF WriteFails

LEMMA PowerLossStep ==
    ASSUME ChainInv, PowerLoss
    PROVE  ChainInv'
  <1> USE DEF ChainInv
  <1>a. /\ logFile \in Seq(ChainLines) /\ Len(logFile) \in Nat /\ synced \in Nat
        /\ synced <= Len(logFile)
    BY DEF ChainTypeOK
  <1>b. PICK n \in synced .. Len(logFile) :
          logFile' = SubSeq(logFile, 1, n) /\ synced' = n /\ torn' \in BOOLEAN
    BY DEF PowerLoss, ChainTypeOK
  <1>c. /\ logFile' \in Seq(ChainLines) /\ Len(logFile') = n /\ n \in Nat
        /\ \A i \in 1 .. n : logFile'[i] = logFile[i] /\ i \in 1 .. Len(logFile)
    BY <1>a, <1>b
  <1>d. \A p \in Process : chain'[p] = FreshChain
    BY DEF PowerLoss
  <1>e. UNCHANGED <<anchor, attempts, acked, raced>> /\ flock' = Nobody
    BY DEF PowerLoss
  <1>1. ChainTypeOK'
    <2>1. chain' \in [Process -> Heads]
      BY FreshFacts DEF PowerLoss
    <2> QED BY <1>a, <1>b, <1>c, <1>e, <2>1 DEF ChainTypeOK
  <1>2. WriterIsAlone'
    BY <1>d, <1>e, FreshFacts, HashChainAssumption DEF WriterIsAlone
  <1>3. NamesAreOwn'
    BY <1>c, <1>d, <1>e, FreshFacts DEF NamesAreOwn, Pending, LegacyName
  <1>4. AckedIsSynced'
    <2>1. \A i \in 1 .. synced : i \in 1 .. synced' /\ logFile'[i] = logFile[i]
      BY <1>a, <1>b, <1>c
    <2> QED BY <1>e, <2>1 DEF AckedIsSynced
  <1>5. HeadsAreCurrent'
    BY <1>c, <1>d, FreshFacts DEF HeadsAreCurrent, Continues, IsCached
  <1>6. AnchorIsSynced'
    <2>1. \A i \in 1 .. synced : i \in 1 .. synced' /\ logFile'[i] = logFile[i]
      BY <1>a, <1>b, <1>c
    <2> QED BY <1>d, <1>e, <2>1, FreshFacts DEF AnchorIsSynced
  <1>7. ~ raced' => VerifyChain(logFile)'
    <2>1. n \in 0 .. Len(logFile)
      BY <1>a
    <2>2. ~ raced => VerifyChain(SubSeq(logFile, 1, n))
      BY <1>a, <2>1, PrefixVerifies
    <2>3. VerifyChain(logFile)' = VerifyChain(logFile')
      BY DEF VerifyChain
    <2> QED BY <1>b, <1>e, <2>2, <2>3
  <1> QED BY <1>1, <1>2, <1>3, <1>4, <1>5, <1>6, <1>7

LEMMA ChainStart == ChainInit => ChainInv
  <1> SUFFICES ASSUME ChainInit PROVE ChainInv
    OBVIOUS
  <1> USE DEF ChainInit
  <1>a. LegacyLine \in ChainLines /\ LegacyLine.legacy /\ LegacyLine.seq = 0
        /\ LegacyLine.hash = LegacyName
    BY HashChainAssumption DEF LegacyLine, ChainLines, LegacyName, Genesis
  <1>b. \/ logFile = <<>> /\ Len(logFile) = 0
        \/ logFile = <<LegacyLine>> /\ Len(logFile) = 1 /\ logFile[1] = LegacyLine
    OBVIOUS
  <1>c. logFile \in Seq(ChainLines) /\ DOMAIN logFile = 1 .. Len(logFile) /\ Len(logFile) \in Nat
    <2>1. CASE logFile = <<>>
      BY <2>1
    <2>2. CASE logFile = <<LegacyLine>>
      <3>1. <<LegacyLine>> \in Seq(ChainLines)
        BY <1>a
      <3> QED BY <2>2, <3>1
    <2> QED BY <1>b, <2>1, <2>2
  <1>d. \A i \in 1 .. Len(logFile) : i = 1 /\ logFile[i] = LegacyLine
    BY <1>b
  <1>e. \A p \in Process : chain[p] = FreshChain
    OBVIOUS
  <1>1. ChainTypeOK
    <2>1. chain \in [Process -> Heads]
      BY FreshFacts
    <2>2. attempts \in 0 .. MaxRecords /\ synced \in 0 .. Len(logFile)
      BY <1>c, HashChainAssumption
    <2> QED BY <1>c, <2>1, <2>2 DEF ChainTypeOK
  <1>2. WriterIsAlone
    BY <1>e, FreshFacts, HashChainAssumption DEF WriterIsAlone
  <1>3. NamesAreOwn
    BY <1>a, <1>d, <1>e, FreshFacts DEF NamesAreOwn, Pending
  <1>4. AckedIsSynced
    BY DEF AckedIsSynced
  <1>5. HeadsAreCurrent
    BY <1>c, <1>e, FreshFacts DEF HeadsAreCurrent, Continues, IsCached
  <1>6. AnchorIsSynced
    BY <1>e, FreshFacts DEF AnchorIsSynced
  <1>7. VerifyChain(logFile)
    BY <1>a, <1>c, <1>d DEF VerifyChain
  <1> QED BY <1>1, <1>2, <1>3, <1>4, <1>5, <1>6, <1>7 DEF ChainInv

-----------------------------------------------------------------------------
(* The theorems                                                            *)

\* ChainInv is an invariant of the log, for any number of processes, records,
\* seals and faults.
THEOREM ChainInvariant == ChainSpec => []ChainInv
  <1>1. ChainInv /\ [ChainNext]_chainVars => ChainInv'
    <2> SUFFICES ASSUME ChainInv, [ChainNext]_chainVars PROVE ChainInv'
      OBVIOUS
    <2>1. ASSUME NEW p \in Process, \E durable \in BOOLEAN : BeginAppend(p, durable) PROVE ChainInv'
      BY <2>1, BeginAppendStep
    <2>2. ASSUME NEW p \in Process, EnterAppend(p) \/ WriteRecord(p) \/ WriteFails(p) \/ RememberSize(p)
          PROVE  ChainInv'
      BY <2>2, EnterAppendStep, WriteRecordStep, WriteFailsStep, RememberSizeStep
    <2>3. ASSUME NEW p \in Process, BeginSeal(p) \/ WriteAnchor(p) \/ Unseal(p) \/ Kill(p)
          PROVE  ChainInv'
      BY <2>3, BeginSealStep, WriteAnchorStep, UnsealStep, KillStep
    <2>4. CASE PowerLoss
      BY <2>4, PowerLossStep
    <2>5. CASE UNCHANGED chainVars
      BY <2>5 DEF chainVars, ChainInv, ChainTypeOK, WriterIsAlone, NamesAreOwn, Pending,
                  AckedIsSynced, HeadsAreCurrent, AnchorIsSynced, VerifyChain, IsCached
    <2> QED BY <2>1, <2>2, <2>3, <2>4, <2>5 DEF ChainNext
  <1> QED BY <1>1, ChainStart, PTL DEF ChainSpec

\* A log that only this code wrote verifies, and its anchor never names a
\* record the file does not hold: torn tails, failed writes, kills and power
\* losses never look like tampering (but for the window of RememberSize).
THEOREM ChainAlwaysVerifies == ChainSpec => []ChainVerifies
  <1>1. ChainInv => ChainVerifies
    <2> SUFFICES ASSUME ChainInv PROVE ChainVerifies
      OBVIOUS
    <2>1. AppendedLogVerifies
      BY DEF ChainInv, AppendedLogVerifies
    <2>2. AnchorIsNotAhead
      <3>1. \A i \in 1 .. synced : i \in DOMAIN logFile
        BY DEF ChainInv, ChainTypeOK
      <3> QED BY <3>1 DEF ChainInv, AnchorIsSynced, AnchorIsNotAhead
    <2> QED BY <2>1, <2>2 DEF ChainVerifies
  <1> QED BY <1>1, ChainInvariant, PTL

\* A record whose append(sync=True) returned is in the log for good, and once.
THEOREM AckedIsAlwaysKept == ChainSpec => []AckedIsKept
  <1>1. ChainInv => AckedIsKept
    <2> SUFFICES ASSUME ChainInv, NEW r \in acked
                 PROVE  Cardinality({i \in DOMAIN logFile : logFile[i].hash = r}) = 1
      BY DEF AckedIsKept
    <2>1. DOMAIN logFile = 1 .. Len(logFile) /\ synced \in 0 .. Len(logFile) /\ Len(logFile) \in Nat
      BY DEF ChainInv, ChainTypeOK
    <2>2. PICK k \in 1 .. synced : logFile[k].hash = r
      BY DEF ChainInv, AckedIsSynced
    <2>3. {i \in DOMAIN logFile : logFile[i].hash = r} = {k}
      BY <2>1, <2>2 DEF ChainInv, NamesAreOwn
    <2> QED BY <2>3, FS_Singleton
  <1> QED BY <1>1, ChainInvariant, PTL

-----------------------------------------------------------------------------
(* Traces and summaries: the inductive invariant                           *)

TraceEvents == {"event"} \cup Finals
SummaryFiles == [count : Nat, outcome : Finals \cup {"none"}]
ClosingWork == [step : {"state", "save", "index", "recover_save"}, run : RunId, count : Nat,
                outcome : Finals]
RetentionWork == [step : {"retain", "unlink"}, run : RunId, left : SUBSET RunId,
                  gone : SUBSET RunId]

RecordsTypeOK ==
    /\ up \in BOOLEAN
    /\ runState \in [RunId -> {"none", "live", "gone"} \cup Finals]
    /\ trace \in [RunId -> Seq(TraceEvents)]
    /\ summary \in [RunId -> SummaryFiles]
    /\ index \in [RunId -> Nat]
    /\ live \in [RunId -> Nat]
    /\ work \in {Idle} \cup ClosingWork \cup RetentionWork
    /\ todo \subseteq RunId \X Finals
    /\ clock \in Nat
    /\ lost \subseteq RunId

\* The run whose terminal event is being recorded, or whose summary is next.
Closing(r, steps) == work.step \in steps /\ work.run = r

\* What a server that is up, and one in its startup, can be doing.
PhasesAreApart ==
    /\ up => todo = {} /\ work.step # "recover_save"
    /\ work.step = "state" => up /\ runState[work.run] = "live" /\ work.count = live[work.run] + 1
    /\ \A r \in RunId :
          /\ live[r] # NotLive => runState[r] = "live"
          /\ runState[r] = "live" => up
          /\ Closing(r, {"save", "recover_save"}) => runState[r] \in {work.outcome, "gone"}
          /\ \A s \in Finals : <<r, s>> \in todo => runState[r] \in {s, "gone"}

\* Retention works on runs of the index, and unlinks what it has pruned.
RetentionIsListed ==
    /\ work.step \in {"retain", "unlink"} => \A r \in work.left : index[r] > 0
    /\ work.step = "unlink" =>
          \A r \in work.gone : index[r] > 0 /\ runState[r] = "gone" /\ r \notin work.left

\* A run that retention removed: nobody will write its summary.
PrunedIsOut ==
    /\ pruned \subseteq RunId
    /\ \A r \in pruned :
          /\ runState[r] = "gone" /\ ~ Listed(r)
          /\ ~ Closing(r, {"state", "save", "recover_save"})
          /\ summary[r] # NoSummaryFile => index[r] > 0

\* The summary covers the trace up to a terminal event.
Covers(r) ==
    LET n == summary[r].count IN
    /\ n <= Len(trace[r])
    /\ n = 0 => summary[r] = NoSummaryFile
    /\ n > 0 => trace[r][n] = summary[r].outcome /\ summary[r].outcome \in Finals
                /\ summary[r] # NoSummaryFile
NoFinalAfter(r, n) == \A i \in n + 1 .. Len(trace[r]) : trace[r][i] \notin Finals

\* What is still to be counted of the trace of a run, by where it is.
TraceIsCounted(r) ==
    /\ Covers(r)
    /\ runState[r] = "none" => trace[r] = <<>> /\ summary[r] = NoSummaryFile
    /\ runState[r] = "live" => live[r] # NotLive
    /\ live[r] # NotLive /\ ~ Closing(r, {"state"}) =>
          Len(trace[r]) = summary[r].count + live[r] /\ NoFinalAfter(r, summary[r].count)
    /\ Closing(r, {"state", "save", "recover_save"}) =>
          /\ Len(trace[r]) = summary[r].count + work.count /\ work.count > 0
          /\ trace[r][Len(trace[r])] = work.outcome
    /\ Listed(r) =>
          IF summary[r].count > 0 THEN NoFinalAfter(r, summary[r].count)
          ELSE NoFinalAfter(r, 0) \/ trace[r][Len(trace[r])] \in Finals
    /\ runState[r] \in Finals /\ ~ Listed(r) /\ ~ Closing(r, {"save", "recover_save"}) =>
          Len(trace[r]) = summary[r].count

RecordsInv ==
    /\ RecordsTypeOK /\ PhasesAreApart /\ RetentionIsListed /\ PrunedIsOut
    /\ \A r \in RunId : r \notin lost /\ runState[r] # "gone" => TraceIsCounted(r)

-----------------------------------------------------------------------------
(* Lemmas                                                                  *)

\* LastFinal finds the terminal event behind which there is none.
LEMMA LastFinalIs ==
    ASSUME NEW r \in RunId, trace[r] \in Seq(TraceEvents), NEW n \in 0 .. Len(trace[r]),
           NoFinalAfter(r, n), n > 0 => trace[r][n] \in Finals
    PROVE  LastFinal(r) = n
  <1> DEFINE finals == {i \in DOMAIN trace[r] : trace[r][i] \in Finals}
  <1>0. DOMAIN trace[r] = 1 .. Len(trace[r]) /\ Len(trace[r]) \in Nat
    OBVIOUS
  <1>1. \A j \in finals : j \in Nat /\ j <= n
    BY <1>0 DEF NoFinalAfter
  <1>2. CASE n = 0
    <2>1. finals = {}
      BY <1>0, <1>1, <1>2
    <2> QED BY <1>2, <2>1 DEF LastFinal
  <1>3. CASE n > 0
    <2>1. n \in finals
      BY <1>0, <1>3
    <2> HIDE DEF finals
    <2>2. \E k \in finals : \A j \in finals : j <= k
      BY <1>1, <2>1
    <2>3. \A k \in finals : (\A j \in finals : j <= k) => k = n
      BY <1>1, <2>1
    <2>4. (CHOOSE k \in finals : \A j \in finals : j <= k) = n
      BY <2>2, <2>3, Zenon
    <2>5. finals # {}
      BY <2>1
    <2> QED BY <2>4, <2>5 DEF LastFinal, finals
  <1> QED BY <1>2, <1>3

\* A run that a step leaves alone.
LEMMA CountedElsewhere ==
    ASSUME NEW r \in RunId, TraceIsCounted(r),
           trace'[r] = trace[r], summary'[r] = summary[r], runState'[r] = runState[r],
           live'[r] = live[r], Listed(r)' <=> Listed(r),
           ~ Closing(r, {"state", "save", "recover_save"}),
           ~ Closing(r, {"state", "save", "recover_save"})'
    PROVE  TraceIsCounted(r)'
  <1>1. /\ ~ Closing(r, {"state"}) /\ ~ Closing(r, {"state"})'
        /\ ~ Closing(r, {"save", "recover_save"}) /\ ~ Closing(r, {"save", "recover_save"})'
    BY DEF Closing
  <1> QED BY <1>1 DEF TraceIsCounted, Covers, NoFinalAfter

\* The shapes of work, told apart by its step.
LEMMA WorkShapes ==
    ASSUME RecordsTypeOK
    PROVE  /\ work = Idle <=> work.step = "none"
           /\ work.step \in {"state", "save", "index", "recover_save"} => work \in ClosingWork
           /\ work.step \in {"retain", "unlink"} => work \in RetentionWork
           /\ work.step \in {"none", "state", "save", "index", "recover_save", "retain", "unlink"}
  BY DEF RecordsTypeOK, Idle, ClosingWork, RetentionWork

LEMMA RecordsStart == RecordsInit => RecordsInv
  <1> SUFFICES ASSUME RecordsInit PROVE RecordsInv
    OBVIOUS
  <1> USE RecordsAssumption DEF RecordsInit
  <1>1. RecordsTypeOK
    BY DEF RecordsTypeOK, SummaryFiles, NoSummaryFile, TraceEvents, NotLive
  <1>2. PhasesAreApart
    BY DEF PhasesAreApart, Closing, Idle, NotLive
  <1>3. RetentionIsListed /\ PrunedIsOut
    BY DEF RetentionIsListed, PrunedIsOut, Idle
  <1>4. ASSUME NEW r \in RunId PROVE TraceIsCounted(r)
    BY DEF TraceIsCounted, Covers, Closing, Listed, Idle, NoSummaryFile, Finals
  <1> QED BY <1>1, <1>2, <1>3, <1>4 DEF RecordsInv

-----------------------------------------------------------------------------
(* The recorder                                                            *)

LEMMA StartAttemptStep ==
    ASSUME RecordsInv, NEW r \in RunId, StartAttempt(r)
    PROVE  RecordsInv'
  <1> USE DEF RecordsInv
  <1>a. /\ runState \in [RunId -> {"none", "live", "gone"} \cup Finals] /\ live \in [RunId -> Nat]
        /\ MaxEvents \in Nat /\ work = Idle /\ up /\ todo = {}
    BY RecordsAssumption DEF RecordsTypeOK, StartAttempt, PhasesAreApart
  <1>b. /\ runState'[r] = "live" /\ live'[r] = 0 /\ NotLive # 0
        /\ \A q \in RunId \ {r} : runState'[q] = runState[q] /\ live'[q] = live[q]
        /\ runState[r] \in {"none", "cancelled", "interrupted"}
        /\ UNCHANGED <<up, trace, summary, index, work, todo, clock, crashes, lost, pruned>>
    BY <1>a DEF StartAttempt, NotLive
  <1>c. work.step = "none" /\ \A q \in RunId : ~ Listed(q) /\ ~ Listed(q)'
    BY <1>a, <1>b DEF Idle, Listed
  <1>1. RecordsTypeOK'
    BY <1>a, <1>b DEF RecordsTypeOK, StartAttempt
  <1>2. PhasesAreApart'
    BY <1>a, <1>b, <1>c DEF PhasesAreApart, Closing
  <1>3. RetentionIsListed'
    BY <1>b, <1>c DEF RetentionIsListed
  <1>4. PrunedIsOut'
    BY <1>b, <1>c DEF PrunedIsOut, Closing
  <1>5. ASSUME NEW q \in RunId, q \notin lost', runState'[q] # "gone" PROVE TraceIsCounted(q)'
    <2>1. CASE q = r
      <3>1. runState[r] # "gone" /\ (runState[r] = "none" \/ runState[r] \in Finals)
        BY <1>b DEF Finals
      <3>2. TraceIsCounted(r)
        BY <1>5, <1>b, <2>1, <3>1
      <3>3. Len(trace[r]) = summary[r].count /\ Len(trace[r]) \in Nat
        BY <1>c, <3>1, <3>2 DEF TraceIsCounted, Closing, NoSummaryFile, RecordsTypeOK
      <3>4. NoFinalAfter(r, summary[r].count)
        BY <3>3 DEF NoFinalAfter
      <3> QED BY <1>b, <1>c, <2>1, <3>2, <3>3, <3>4 DEF TraceIsCounted, Covers, NoFinalAfter, Closing, Finals
    <2>2. CASE q # r
      BY <1>5, <1>b, <1>c, <2>2, CountedElsewhere DEF Closing
    <2> QED BY <2>1, <2>2
  <1> QED BY <1>1, <1>2, <1>3, <1>4, <1>5

LEMMA RecordEventStep ==
    ASSUME RecordsInv, NEW r \in RunId, RecordEvent(r)
    PROVE  RecordsInv'
  <1> USE DEF RecordsInv
  <1>a. /\ live \in [RunId -> Nat] /\ MaxEvents \in Nat /\ work = Idle /\ up
        /\ trace \in [RunId -> Seq(TraceEvents)] /\ live[r] # NotLive /\ live[r] \in Nat
        /\ Len(trace[r]) + 1 < MaxEvents /\ Len(trace[r]) \in Nat
    BY RecordsAssumption DEF RecordsTypeOK, RecordEvent
  <1>b. /\ live'[r] = live[r] + 1
        /\ \A q \in RunId \ {r} : trace'[q] = trace[q] /\ live'[q] = live[q]
        /\ lost \subseteq lost'
        /\ r \notin lost' => trace'[r] = Append(trace[r], "event")
        /\ UNCHANGED <<up, runState, summary, index, work, todo, clock, pruned>>
    BY <1>a DEF RecordEvent
  <1>c. work.step = "none" /\ \A q \in RunId : Listed(q)' <=> Listed(q)
    BY <1>a, <1>b DEF Idle, Listed
  <1>1. RecordsTypeOK'
    <2>1. trace' \in [RunId -> Seq(TraceEvents)]
      <3>1. CASE trace' = [trace EXCEPT ![r] = Append(@, "event")]
        BY <1>a, <3>1 DEF TraceEvents
      <3>2. CASE trace' = trace
        BY <1>a, <3>2
      <3> QED BY <3>1, <3>2 DEF RecordEvent
    <2>2. live' \in [RunId -> Nat] /\ lost' \subseteq RunId
      BY <1>a DEF RecordEvent, RecordsTypeOK
    <2> QED BY <1>b, <2>1, <2>2 DEF RecordsTypeOK
  <1>2. PhasesAreApart'
    BY <1>a, <1>b, <1>c DEF PhasesAreApart, Closing
  <1>3. RetentionIsListed'
    BY <1>b, <1>c DEF RetentionIsListed
  <1>4. PrunedIsOut'
    BY <1>b, <1>c DEF PrunedIsOut, Closing
  <1>5. ASSUME NEW q \in RunId, q \notin lost', runState'[q] # "gone" PROVE TraceIsCounted(q)'
    <2>1. CASE q = r
      <3>0. TraceIsCounted(r) /\ runState[r] = "live"
        BY <1>5, <1>a, <1>b, <2>1 DEF PhasesAreApart
      <3>1. trace'[r] = Append(trace[r], "event")
        BY <1>5, <1>b, <2>1
      <3>2. /\ Len(trace'[r]) = Len(trace[r]) + 1 /\ trace'[r][Len(trace[r]) + 1] = "event"
            /\ \A i \in 1 .. Len(trace[r]) : trace'[r][i] = trace[r][i]
        BY <1>a, <3>1
      <3>3. /\ Len(trace[r]) = summary[r].count + live[r] /\ NoFinalAfter(r, summary[r].count)
            /\ summary[r].count \in Nat /\ summary[r].count <= Len(trace[r])
        BY <1>a, <1>c, <3>0 DEF TraceIsCounted, Covers, Closing, RecordsTypeOK, SummaryFiles
      <3>a. summary'[r] = summary[r] /\ Covers(r)
        BY <1>b, <3>0 DEF TraceIsCounted
      <3>4. Covers(r)'
        BY <3>a, <3>2, <3>3 DEF Covers
      <3>5. live'[r] # NotLive
        BY <1>a, <1>b, <3>3 DEF NotLive
      <3>6. NoFinalAfter(r, summary[r].count)'
        <4> SUFFICES ASSUME NEW i \in summary[r].count + 1 .. Len(trace'[r])
                     PROVE  trace'[r][i] \notin Finals
          BY <3>a DEF NoFinalAfter
        <4>1. CASE i = Len(trace[r]) + 1
          BY <3>2, <4>1 DEF Finals
        <4>2. CASE i # Len(trace[r]) + 1
          <5>1. i \in summary[r].count + 1 .. Len(trace[r]) /\ i \in 1 .. Len(trace[r])
            <6>1. /\ Len(trace'[r]) = Len(trace[r]) + 1 /\ Len(trace[r]) \in Nat /\ summary[r].count \in Nat
                  /\ i \in summary[r].count + 1 .. Len(trace'[r])
              BY <3>2, <3>3, <1>a
            <6> QED BY ONLY <4>2, <6>1
          <5> QED BY <3>2, <3>3, <5>1 DEF NoFinalAfter
        <4> QED BY <4>1, <4>2
      <3>7. Len(trace'[r]) = summary'[r].count + live'[r]
        <4>1. live'[r] = live[r] + 1 /\ live[r] \in Nat
          BY <1>a, <1>b
        <4> QED BY <3>a, <3>2, <3>3, <4>1
      <3>8. ~ Listed(r)
        BY <1>a DEF PhasesAreApart, Listed
      <3> QED BY <1>b, <1>c, <2>1, <3>0, <3>4, <3>5, <3>6, <3>7, <3>8 DEF TraceIsCounted, Closing, Finals
    <2>2. CASE q # r
      BY <1>5, <1>b, <1>c, <2>2, CountedElsewhere DEF Closing
    <2> QED BY <2>1, <2>2
  <1> QED BY <1>1, <1>2, <1>3, <1>4, <1>5

LEMMA FinishTraceStep ==
    ASSUME RecordsInv, NEW r \in RunId, NEW status1 \in Finals, FinishTrace(r, status1)
    PROVE  RecordsInv'
  <1> USE DEF RecordsInv
  <1>a. /\ work = Idle /\ up /\ trace \in [RunId -> Seq(TraceEvents)]
        /\ live[r] # NotLive /\ live[r] \in Nat /\ Len(trace[r]) \in Nat
        /\ runState[r] = "live"
    BY DEF RecordsTypeOK, FinishTrace, PhasesAreApart
  <1>b. /\ trace'[r] = Append(trace[r], status1)
        /\ \A q \in RunId \ {r} : trace'[q] = trace[q]
        /\ work' = [step |-> "state", run |-> r, count |-> live[r] + 1, outcome |-> status1]
        /\ UNCHANGED <<up, runState, summary, index, live, todo, clock, crashes, lost, pruned>>
    BY <1>a DEF FinishTrace
  <1>c. /\ work.step = "none" /\ \A q \in RunId : Listed(q)' <=> Listed(q)
        /\ work'.step = "state" /\ work'.run = r /\ work'.count = live[r] + 1
        /\ work'.outcome = status1
    BY <1>a, <1>b DEF Idle, Listed
  <1>1. RecordsTypeOK'
    <2>1. trace' \in [RunId -> Seq(TraceEvents)]
      BY <1>a DEF FinishTrace, TraceEvents
    <2>2. work' \in ClosingWork
      BY <1>a, <1>b DEF ClosingWork
    <2> QED BY <1>b, <2>1, <2>2 DEF RecordsTypeOK
  <1>2. PhasesAreApart'
    BY <1>a, <1>b, <1>c DEF PhasesAreApart, Closing
  <1>3. RetentionIsListed'
    BY <1>b, <1>c DEF RetentionIsListed
  <1>4. PrunedIsOut'
    BY <1>a, <1>b, <1>c DEF PrunedIsOut, Closing
  <1>5. ASSUME NEW q \in RunId, q \notin lost', runState'[q] # "gone" PROVE TraceIsCounted(q)'
    <2>1. CASE q = r
      <3>0. TraceIsCounted(r)
        BY <1>5, <1>a, <1>b, <2>1
      <3>2. /\ Len(trace'[r]) = Len(trace[r]) + 1 /\ trace'[r][Len(trace[r]) + 1] = status1
            /\ \A i \in 1 .. Len(trace[r]) : trace'[r][i] = trace[r][i]
        BY <1>a, <1>b
      <3>3. /\ Len(trace[r]) = summary[r].count + live[r]
            /\ summary[r].count \in Nat /\ summary[r].count <= Len(trace[r])
        BY <1>a, <1>c, <3>0 DEF TraceIsCounted, Covers, Closing, RecordsTypeOK, SummaryFiles
      <3>4. Covers(r)'
        BY <1>a, <1>b, <3>0, <3>2, <3>3 DEF TraceIsCounted, Covers
      <3>5. /\ Len(trace'[r]) = summary'[r].count + work'.count /\ work'.count > 0
            /\ trace'[r][Len(trace'[r])] = work'.outcome
        BY <1>a, <1>b, <1>c, <3>2, <3>3
      <3>6. ~ Listed(r)
        BY <1>a DEF PhasesAreApart, Listed
      <3> QED BY <1>a, <1>b, <1>c, <2>1, <3>4, <3>5, <3>6 DEF TraceIsCounted, Closing, Finals
    <2>2. CASE q # r
      BY <1>5, <1>b, <1>c, <2>2, CountedElsewhere DEF Closing
    <2> QED BY <2>1, <2>2
  <1> QED BY <1>1, <1>2, <1>3, <1>4, <1>5

LEMMA FinishStateStep ==
    ASSUME RecordsInv, FinishState
    PROVE  RecordsInv'
  <1> USE DEF RecordsInv
  <1> DEFINE r == work.run
  <1>a. /\ work \in ClosingWork /\ work.step = "state" /\ up /\ r \in RunId
        /\ runState[r] = "live" /\ work.outcome \in Finals /\ todo = {}
    BY WorkShapes DEF FinishState, PhasesAreApart, ClosingWork
  <1>b. /\ runState'[r] = work.outcome /\ live'[r] = NotLive
        /\ \A q \in RunId \ {r} : runState'[q] = runState[q] /\ live'[q] = live[q]
        /\ work' = [work EXCEPT !.step = "save"]
        /\ UNCHANGED <<up, trace, summary, index, todo, clock, crashes, lost, pruned>>
    BY <1>a DEF FinishState, RecordsTypeOK
  <1>c. /\ work' \in ClosingWork /\ work'.step = "save" /\ work'.run = r
        /\ work'.count = work.count /\ work'.outcome = work.outcome
    BY <1>a, <1>b DEF ClosingWork
  <1>d. \A q \in RunId : ~ Listed(q) /\ ~ Listed(q)'
    BY <1>a, <1>b DEF Listed
  <1> HIDE DEF r
  <1>1. RecordsTypeOK'
    <2>1. runState' \in [RunId -> {"none", "live", "gone"} \cup Finals]
      BY <1>a DEF FinishState, RecordsTypeOK, r
    <2>a. NotLive \in Nat /\ live \in [RunId -> Nat]
      BY RecordsAssumption DEF NotLive, RecordsTypeOK
    <2>2. live' \in [RunId -> Nat]
      BY <2>a DEF FinishState
    <2> QED BY <1>b, <1>c, <2>1, <2>2 DEF RecordsTypeOK
  <1>2. PhasesAreApart'
    BY <1>a, <1>b, <1>c DEF PhasesAreApart, Closing, Finals
  <1>3. RetentionIsListed'
    BY <1>c DEF RetentionIsListed
  <1>4. PrunedIsOut'
    BY <1>a, <1>b, <1>c, <1>d DEF PrunedIsOut, Closing
  <1>5. ASSUME NEW q \in RunId, q \notin lost', runState'[q] # "gone" PROVE TraceIsCounted(q)'
    <2>1. CASE q = r
      <3>1. TraceIsCounted(r)
        BY <1>5, <1>a, <1>b, <2>1
      <3>2. Closing(r, {"state", "save", "recover_save"})
        BY <1>a DEF Closing, r
      <3>3. /\ Len(trace[r]) = summary[r].count + work.count /\ work.count > 0
            /\ trace[r][Len(trace[r])] = work.outcome /\ Covers(r)
        BY <3>1, <3>2 DEF TraceIsCounted
      <3> QED BY <1>a, <1>b, <1>c, <1>d, <2>1, <3>3 DEF TraceIsCounted, Covers, Closing, Finals
    <2>2. CASE q # r
      BY <1>5, <1>a, <1>b, <1>c, <1>d, <2>2, CountedElsewhere DEF Closing, r
    <2> QED BY <2>1, <2>2
  <1> QED BY <1>1, <1>2, <1>3, <1>4, <1>5

-----------------------------------------------------------------------------
(* The summary, its index, and the retention                               *)

LEMMA SaveSummaryStep ==
    ASSUME RecordsInv, SaveSummary
    PROVE  RecordsInv'
  <1> USE DEF RecordsInv
  <1>0. work \in ClosingWork /\ work.step = "save"
    BY WorkShapes DEF SaveSummary
  <1>r. PICK r \in RunId : r = work.run
    BY <1>0 DEF ClosingWork
  <1>a. /\ work.step = "save" /\ r = work.run /\ work.outcome \in Finals /\ work.count \in Nat
        /\ work \in ClosingWork
    BY <1>0, <1>r DEF ClosingWork
  <1>b. /\ summary \in [RunId -> SummaryFiles] /\ summary[r].count \in Nat
        /\ summary'[r] = [count |-> summary[r].count + work.count, outcome |-> work.outcome]
        /\ \A q \in RunId \ {r} : summary'[q] = summary[q]
        /\ work' = [work EXCEPT !.step = "index"]
        /\ UNCHANGED <<up, runState, trace, index, live, todo, clock, crashes, lost, pruned>>
    BY <1>a DEF SaveSummary, RecordsTypeOK, Merge, SummaryFiles
  <1>c. /\ work' \in ClosingWork /\ work'.step = "index" /\ work'.run = r
        /\ summary'[r].count = summary[r].count + work.count /\ summary'[r].outcome = work.outcome
    BY <1>a, <1>b DEF ClosingWork
  <1>d. \A q \in RunId : Listed(q)' <=> Listed(q)
    BY <1>b DEF Listed
  <1>e. r \notin pruned
    BY <1>a DEF PrunedIsOut, Closing
  <1>1. RecordsTypeOK'
    <2>1. summary' \in [RunId -> SummaryFiles]
      <3>1. [count |-> summary[r].count + work.count, outcome |-> work.outcome] \in SummaryFiles
        BY <1>a, <1>b DEF SummaryFiles
      <3> QED BY <1>b, <3>1 DEF SaveSummary, Merge
    <2> QED BY <1>b, <1>c, <2>1 DEF RecordsTypeOK
  <1>2. PhasesAreApart'
    BY <1>b, <1>c DEF PhasesAreApart, Closing
  <1>3. RetentionIsListed'
    BY <1>c DEF RetentionIsListed
  <1>4. PrunedIsOut'
    BY <1>b, <1>c, <1>d, <1>e DEF PrunedIsOut, Closing
  <1>5. ASSUME NEW q \in RunId, q \notin lost', runState'[q] # "gone" PROVE TraceIsCounted(q)'
    <2>1. CASE q = r
      <3>1. TraceIsCounted(r)
        BY <1>5, <1>b, <2>1
      <3>2. Closing(r, {"state", "save", "recover_save"}) /\ Closing(r, {"save", "recover_save"})
        BY <1>a DEF Closing
      <3>3. /\ Len(trace[r]) = summary'[r].count /\ summary'[r].count > 0 /\ summary'[r].count \in Nat
            /\ trace[r][Len(trace[r])] = work.outcome
        BY <1>a, <1>b, <1>c, <3>1, <3>2 DEF TraceIsCounted
      <3>4. runState[r] \in Finals /\ runState[r] # "none" /\ runState[r] # "live" /\ live[r] = NotLive
        BY <1>5, <1>a, <1>b, <2>1, <3>2 DEF PhasesAreApart, Finals
      <3>a. trace'[r] = trace[r] /\ NoSummaryFile.count = 0
        BY <1>b DEF NoSummaryFile
      <3>5. Covers(r)'
        BY <1>a, <1>c, <3>a, <3>3 DEF Covers
      <3>6. NoFinalAfter(r, summary[r].count)'
        BY <3>a, <3>3 DEF NoFinalAfter
      <3>7. runState'[r] = runState[r] /\ live'[r] = live[r]
        BY <1>b
      <3> QED BY <1>c, <2>1, <3>a, <3>3, <3>4, <3>5, <3>6, <3>7 DEF TraceIsCounted, Closing
    <2>2. CASE q # r
      BY <1>5, <1>a, <1>b, <1>c, <1>d, <2>2, CountedElsewhere DEF Closing
    <2> QED BY <2>1, <2>2
  <1> QED BY <1>1, <1>2, <1>3, <1>4, <1>5

\* A step of the index and the retention that keeps the summaries and traces
\* of the runs that are not pruned.
LEMMA RecordsKept ==
    ASSUME RecordsInv,
           work.step \in {"index", "retain", "unlink", "none"},
           work'.step \in {"index", "retain", "unlink", "none"},
           UNCHANGED <<live, todo, lost>>,
           \A q \in RunId : runState'[q] # "gone" =>
               runState'[q] = runState[q] /\ trace'[q] = trace[q] /\ summary'[q] = summary[q]
    PROVE  \A q \in RunId : q \notin lost' /\ runState'[q] # "gone" => TraceIsCounted(q)'
  <1> SUFFICES ASSUME NEW q \in RunId, q \notin lost', runState'[q] # "gone" PROVE TraceIsCounted(q)'
    OBVIOUS
  <1>1. TraceIsCounted(q)
    BY DEF RecordsInv
  <1>2. Listed(q)' <=> Listed(q)
    BY DEF Listed
  <1> QED BY <1>1, <1>2, CountedElsewhere DEF Closing

LEMMA IndexSummaryStep ==
    ASSUME RecordsInv, IndexSummary
    PROVE  RecordsInv'
  <1> USE DEF RecordsInv
  <1> DEFINE r == work.run
  <1>a. /\ work \in ClosingWork /\ work.step = "index" /\ r \in RunId /\ clock \in Nat
        /\ clock' = clock + 1 /\ index \in [RunId -> Nat]
        /\ UNCHANGED <<up, runState, trace, summary, live, todo, lost, pruned>>
    BY WorkShapes DEF IndexSummary, ClosingWork, RecordsTypeOK
  <1>b. ASSUME NEW ix \in [RunId -> Nat], NEW c \in Candidates(ix)
        PROVE  c \subseteq RunId /\ \A q \in c : ix[q] > 0
    BY <1>b DEF Candidates
  <1>1. /\ work' = Idle \/ (work' \in RetentionWork /\ work'.step = "retain")
        /\ work'.step = "retain" => \A q \in work'.left : index'[q] > 0
        /\ index' \in [RunId -> Nat]
        /\ \A q \in RunId : index[q] > 0 => index'[q] > 0
    <2>0. \/ /\ index' = [index EXCEPT ![r] = clock']
             /\ \E c \in Candidates(index') :
                   work' = [step |-> "retain", run |-> r, left |-> c, gone |-> {}]
          \/ index' = index /\ work' = Idle
      BY Zenon DEF IndexSummary
    <2>1. CASE /\ index' = [index EXCEPT ![r] = clock']
               /\ \E c \in Candidates(index') :
                     work' = [step |-> "retain", run |-> r, left |-> c, gone |-> {}]
      <3>1. index' \in [RunId -> Nat] /\ \A q \in RunId : index[q] > 0 => index'[q] > 0
        BY <1>a, <2>1
      <3>2. PICK c \in Candidates(index') :
                work' = [step |-> "retain", run |-> r, left |-> c, gone |-> {}]
        BY <2>1
      <3>3. c \subseteq RunId /\ \A q \in c : index'[q] > 0
        BY <1>b, <3>1
      <3> QED BY <1>a, <3>1, <3>2, <3>3 DEF RetentionWork
    <2>2. CASE index' = index /\ work' = Idle
      <3>1. Idle.step = "none"
        BY DEF Idle
      <3> QED BY <1>a, <2>2, <3>1
    <2> QED BY <2>0, <2>1, <2>2
  <1>c. work'.step \in {"none", "retain"}
    BY <1>1 DEF Idle
  <1>d. \A q \in RunId : Listed(q)' <=> Listed(q)
    BY <1>a DEF Listed
  <1> HIDE DEF r
  <1>2. RecordsTypeOK'
    BY <1>a, <1>1 DEF RecordsTypeOK
  <1>3. PhasesAreApart'
    BY <1>a, <1>c DEF PhasesAreApart, Closing
  <1>4. RetentionIsListed'
    BY <1>1, <1>c DEF RetentionIsListed
  <1>5. PrunedIsOut'
    BY <1>a, <1>c, <1>d, <1>1 DEF PrunedIsOut, Closing
  <1>6. \A q \in RunId : q \notin lost' /\ runState'[q] # "gone" => TraceIsCounted(q)'
    BY <1>a, <1>c, RecordsKept
  <1> QED BY <1>2, <1>3, <1>4, <1>5, <1>6

LEMMA RetainStateStep ==
    ASSUME RecordsInv, NEW r \in RunId, RetainState(r)
    PROVE  RecordsInv'
  <1> USE DEF RecordsInv
  <1>a. /\ work \in RetentionWork /\ work.step = "retain" /\ r \in work.left /\ index[r] > 0
        /\ runState \in [RunId -> {"none", "live", "gone"} \cup Finals]
        /\ UNCHANGED <<up, trace, summary, index, live, todo, clock, crashes, lost>>
    BY WorkShapes DEF RetainState, RetentionIsListed, RecordsTypeOK
  <1>b. \A q \in RunId : Listed(q)' <=> Listed(q)
    BY <1>a DEF Listed
  <1>1. CASE Prunable(r)
    <2>1. /\ runState' = [runState EXCEPT ![r] = "gone"] /\ runState[r] # "live"
          /\ work' = [work EXCEPT !.left = @ \ {r}, !.gone = {r}, !.step = "unlink"]
          /\ pruned' = IF Listed(r) THEN pruned ELSE pruned \cup {r}
      BY <1>1 DEF RetainState, PruneState, Prunable
    <2>2. /\ work' \in RetentionWork /\ work'.step = "unlink" /\ work'.left = work.left \ {r}
          /\ work'.gone = {r}
      BY <1>a, <2>1 DEF RetentionWork
    <2>3. /\ runState' \in [RunId -> {"none", "live", "gone"} \cup Finals] /\ runState'[r] = "gone"
          /\ \A q \in RunId \ {r} : runState'[q] = runState[q]
      BY <1>a, <2>1
    <2>4. RecordsTypeOK'
      BY <1>a, <2>2, <2>3 DEF RecordsTypeOK
    <2>5. PhasesAreApart'
      BY <1>a, <2>1, <2>2, <2>3 DEF PhasesAreApart, Closing
    <2>6. RetentionIsListed'
      BY <1>a, <2>2, <2>3 DEF RetentionIsListed
    <2>7. PrunedIsOut'
      <3>1. pruned' \subseteq RunId
        BY <2>1 DEF PrunedIsOut
      <3>2. ASSUME NEW q \in pruned'
            PROVE  /\ runState'[q] = "gone" /\ ~ Listed(q)' /\ (summary'[q] # NoSummaryFile => index'[q] > 0)
        <4>1. CASE q = r
          <5>1. ~ Listed(r)
            BY <2>1, <3>2, <4>1 DEF PrunedIsOut
          <5> QED BY <1>a, <1>b, <2>3, <4>1, <5>1
        <4>2. CASE q # r
          BY <1>a, <1>b, <2>1, <2>3, <3>2, <4>2 DEF PrunedIsOut
        <4> QED BY <4>1, <4>2
      <3> QED BY <2>2, <3>1, <3>2 DEF PrunedIsOut, Closing
    <2>8. \A q \in RunId : q \notin lost' /\ runState'[q] # "gone" => TraceIsCounted(q)'
      BY <1>a, <2>2, <2>3, RecordsKept
    <2> QED BY <2>4, <2>5, <2>6, <2>7, <2>8
  <1>2. CASE ~ Prunable(r)
    <2>1. work' = [work EXCEPT !.left = @ \ {r}] /\ UNCHANGED <<runState, pruned>>
      BY <1>2 DEF RetainState
    <2>2. work' \in RetentionWork /\ work'.step = "retain" /\ work'.left = work.left \ {r}
      BY <1>a, <2>1 DEF RetentionWork
    <2>3. RecordsTypeOK' /\ RetentionIsListed'
      BY <1>a, <2>1, <2>2 DEF RecordsTypeOK, RetentionIsListed
    <2>4. PhasesAreApart'
      BY <1>a, <2>1, <2>2 DEF PhasesAreApart, Closing
    <2>5. PrunedIsOut'
      BY <1>a, <1>b, <2>1, <2>2 DEF PrunedIsOut, Closing
    <2>6. \A q \in RunId : q \notin lost' /\ runState'[q] # "gone" => TraceIsCounted(q)'
      BY <1>a, <2>1, <2>2, RecordsKept
    <2> QED BY <2>3, <2>4, <2>5, <2>6
  <1> QED BY <1>1, <1>2

LEMMA RetainFilesStep ==
    ASSUME RecordsInv, RetainFiles
    PROVE  RecordsInv'
  <1> USE DEF RecordsInv
  <1>a. /\ work \in RetentionWork /\ work.step = "unlink" /\ work.gone \subseteq RunId
        /\ \A q \in work.gone : runState[q] = "gone" /\ q \notin work.left
        /\ UNCHANGED <<up, runState, live, todo, clock, crashes, lost, pruned>>
    BY WorkShapes DEF RetainFiles, RetentionIsListed, RetentionWork
  <1>b. work' \in RetentionWork /\ work'.step = "retain" /\ work'.left = work.left
    BY <1>a DEF RetainFiles, RetentionWork
  <1>c. /\ \A q \in RunId : q \notin work.gone =>
              summary'[q] = summary[q] /\ trace'[q] = trace[q] /\ index'[q] = index[q]
        /\ \A q \in work.gone : summary'[q] = NoSummaryFile
    BY <1>a DEF RetainFiles
  <1>d. \A q \in RunId : Listed(q)' <=> Listed(q)
    BY <1>a DEF Listed
  <1>1. RecordsTypeOK'
    <2>1. NoSummaryFile \in SummaryFiles /\ <<>> \in Seq(TraceEvents)
      BY DEF NoSummaryFile, SummaryFiles
    <2>2. summary' \in [RunId -> SummaryFiles]
      BY <2>1 DEF RetainFiles, RecordsTypeOK
    <2>3. trace' \in [RunId -> Seq(TraceEvents)]
      BY <2>1 DEF RetainFiles, RecordsTypeOK
    <2>4. index' \in [RunId -> Nat]
      BY DEF RetainFiles, RecordsTypeOK
    <2> QED BY <1>a, <1>b, <2>2, <2>3, <2>4 DEF RecordsTypeOK
  <1>2. PhasesAreApart'
    BY <1>a, <1>b DEF PhasesAreApart, Closing
  <1>3. RetentionIsListed'
    <2>1. work.left \subseteq RunId
      BY <1>a DEF RetentionWork
    <2> QED BY <1>a, <1>b, <1>c, <2>1 DEF RetentionIsListed
  <1>4. PrunedIsOut'
    BY <1>a, <1>b, <1>c, <1>d DEF PrunedIsOut, Closing
  <1>5. \A q \in RunId : q \notin lost' /\ runState'[q] # "gone" => TraceIsCounted(q)'
    BY <1>a, <1>b, <1>c, RecordsKept
  <1> QED BY <1>1, <1>2, <1>3, <1>4, <1>5

LEMMA RetainDoneStep ==
    ASSUME RecordsInv, RetainDone
    PROVE  RecordsInv'
  <1> USE DEF RecordsInv
  <1>a. /\ work.step = "retain" /\ work' = Idle /\ work'.step = "none"
        /\ UNCHANGED <<up, runState, trace, summary, index, live, todo, clock, crashes, lost, pruned>>
    BY DEF RetainDone, Idle
  <1>b. \A q \in RunId : Listed(q)' <=> Listed(q)
    BY <1>a DEF Listed
  <1>1. RecordsTypeOK' /\ PhasesAreApart' /\ RetentionIsListed'
    BY <1>a DEF RecordsTypeOK, PhasesAreApart, RetentionIsListed, Closing
  <1>2. PrunedIsOut'
    BY <1>a, <1>b DEF PrunedIsOut, Closing
  <1>3. \A q \in RunId : q \notin lost' /\ runState'[q] # "gone" => TraceIsCounted(q)'
    BY <1>a, RecordsKept
  <1> QED BY <1>1, <1>2, <1>3

-----------------------------------------------------------------------------
(* Crash, and the startup                                                  *)

LEMMA CrashStep ==
    ASSUME RecordsInv, CrashAndRecover
    PROVE  RecordsInv'
  <1> USE DEF RecordsInv
  <1> DEFINE after == [q \in RunId |-> IF runState[q] = "live" THEN "interrupted" ELSE runState[q]]
             listed == {q \in RunId : runState[q] = "live"
                                      \/ (after[q] \in Finals /\ summary[q] = NoSummaryFile)}
  <1>a. /\ up' = FALSE /\ runState' = after /\ live' = [q \in RunId |-> NotLive] /\ work' = Idle
        /\ todo' = {<<q, after[q]>> : q \in listed}
        /\ lost' = lost \cup {q \in RunId : summary[q] # NoSummaryFile /\ BeingClosed(q)}
        /\ UNCHANGED <<trace, summary, index, clock, pruned>>
    BY DEF CrashAndRecover
  <1>b. /\ runState \in [RunId -> {"none", "live", "gone"} \cup Finals]
        /\ NotLive \in Nat /\ work'.step = "none"
    BY <1>a, RecordsAssumption DEF RecordsTypeOK, NotLive, Idle
  <1>c. \A q \in RunId : /\ runState[q] = "live" => runState'[q] = "interrupted"
                         /\ runState[q] # "live" => runState'[q] = runState[q]
                         /\ live'[q] = NotLive /\ runState'[q] # "live"
    BY <1>a
  <1>d. \A q \in RunId :
            Listed(q)' <=> (runState[q] = "live"
                            \/ (runState[q] \in Finals /\ summary[q] = NoSummaryFile))
    <2> SUFFICES ASSUME NEW q \in RunId
                 PROVE  Listed(q)' <=> (runState[q] = "live"
                            \/ (runState[q] \in Finals /\ summary[q] = NoSummaryFile))
      OBVIOUS
    <2>1. Listed(q)' <=> q \in listed /\ after[q] \in Finals
      BY <1>a DEF Listed
    <2> QED BY <1>a, <1>c, <2>1 DEF Finals
  <1>e. \A q \in RunId, s \in Finals : <<q, s>> \in todo' => runState'[q] = s
    BY <1>a
  <1>1. RecordsTypeOK'
    <2>1. runState' \in [RunId -> {"none", "live", "gone"} \cup Finals]
      BY <1>a, <1>b DEF Finals
    <2>2. todo' \subseteq RunId \X Finals
      BY <1>a DEF Finals
    <2>3. live' \in [RunId -> Nat] /\ lost' \subseteq RunId
      BY <1>a, <1>b DEF RecordsTypeOK
    <2> QED BY <1>a, <2>1, <2>2, <2>3 DEF RecordsTypeOK
  <1> HIDE DEF after, listed
  <1>2. PhasesAreApart'
    BY <1>a, <1>b, <1>c, <1>e DEF PhasesAreApart, Closing
  <1>3. RetentionIsListed'
    BY <1>b DEF RetentionIsListed
  <1>4. PrunedIsOut'
    BY <1>a, <1>b, <1>c, <1>d DEF PrunedIsOut, Closing, Finals
  <1>5. ASSUME NEW q \in RunId, q \notin lost', runState'[q] # "gone" PROVE TraceIsCounted(q)'
    <2>1. TraceIsCounted(q) /\ (summary[q] = NoSummaryFile \/ ~ BeingClosed(q))
      BY <1>5, <1>a, <1>c
    <2>2. /\ trace'[q] = trace[q] /\ summary'[q] = summary[q]
          /\ ~ Closing(q, {"state"})' /\ ~ Closing(q, {"state", "save", "recover_save"})'
          /\ ~ Closing(q, {"save", "recover_save"})'
      BY <1>a, <1>b DEF Closing
    <2>3. ~ BeingClosed(q) => /\ ~ Closing(q, {"state"}) /\ ~ Closing(q, {"save", "recover_save"})
                              /\ ~ Listed(q)
      BY DEF BeingClosed, Closing, PhasesAreApart, Listed
    <2>4. summary[q].count \in Nat /\ Len(trace[q]) \in Nat
      BY DEF RecordsTypeOK, SummaryFiles
    <2>5. Covers(q)' /\ Covers(q)
      BY <2>1, <2>2 DEF TraceIsCounted, Covers
    <2>6. summary[q] = NoSummaryFile <=> summary[q].count = 0
      BY <2>4, <2>5 DEF Covers, NoSummaryFile
    <2>7. ASSUME Listed(q)', summary[q].count > 0 PROVE NoFinalAfter(q, summary[q].count)'
      <3>1. runState[q] = "live" /\ ~ BeingClosed(q)
        BY <1>d, <2>1, <2>6, <2>7
      <3>2. live[q] # NotLive /\ ~ Closing(q, {"state"})
        BY <2>1, <2>3, <3>1 DEF TraceIsCounted
      <3> QED BY <2>1, <2>2, <3>2 DEF TraceIsCounted, NoFinalAfter
    <2>8. ASSUME Listed(q)', summary[q].count = 0
          PROVE  NoFinalAfter(q, 0) \/ trace[q][Len(trace[q])] \in Finals
      <3>1. CASE Closing(q, {"state", "save", "recover_save"})
        <4>1. work.outcome \in Finals
          BY <3>1, WorkShapes DEF Closing, ClosingWork
        <4> QED BY <2>1, <3>1, <4>1 DEF TraceIsCounted
      <3>2. CASE ~ Closing(q, {"state", "save", "recover_save"}) /\ Listed(q)
        BY <2>1, <2>8, <3>2 DEF TraceIsCounted
      <3>3. CASE ~ Closing(q, {"state", "save", "recover_save"}) /\ ~ Listed(q)
        <4>1. ~ Closing(q, {"state"}) /\ ~ Closing(q, {"save", "recover_save"})
          BY <3>3 DEF Closing
        <4>2. CASE runState[q] = "live"
          BY <2>1, <2>8, <4>1, <4>2 DEF TraceIsCounted
        <4>3. CASE runState[q] \in Finals
          <5>1. Len(trace[q]) = 0
            BY <2>1, <2>8, <3>3, <4>1, <4>3 DEF TraceIsCounted
          <5> QED BY <5>1 DEF NoFinalAfter
        <4> QED BY <1>d, <2>8, <4>2, <4>3
      <3> QED BY <3>1, <3>2, <3>3
    <2>9. runState'[q] \in Finals /\ ~ Listed(q)' => Len(trace[q]) = summary[q].count
      <3> SUFFICES ASSUME runState'[q] \in Finals, ~ Listed(q)' PROVE Len(trace[q]) = summary[q].count
        OBVIOUS
      <3>1. runState[q] \in Finals /\ ~ BeingClosed(q)
        BY <1>c, <1>d, <2>1
      <3> QED BY <2>1, <2>3, <3>1 DEF TraceIsCounted
    <2>10. runState'[q] = "none" => trace[q] = <<>> /\ summary[q] = NoSummaryFile
      BY <1>c, <2>1 DEF TraceIsCounted
    <2>11. Listed(q)' =>
             IF summary'[q].count > 0 THEN NoFinalAfter(q, summary[q].count)'
             ELSE NoFinalAfter(q, 0)' \/ trace'[q][Len(trace'[q])] \in Finals
      BY <2>2, <2>4, <2>7, <2>8 DEF NoFinalAfter
    <2> QED BY <1>c, <2>2, <2>5, <2>9, <2>10, <2>11 DEF TraceIsCounted
  <1> QED BY <1>1, <1>2, <1>3, <1>4, <1>5

\* LastFinal is a place of the trace, or 0.
LEMMA LastFinalType ==
    ASSUME NEW r \in RunId, trace[r] \in Seq(TraceEvents)
    PROVE  LastFinal(r) \in 0 .. Len(trace[r])
  <1> DEFINE finals == {i \in DOMAIN trace[r] : trace[r][i] \in Finals}
             n == Len(trace[r])
             behind == {n - i : i \in finals}
  <1>0. n \in Nat /\ \A i \in finals : i \in 1 .. n /\ n - i \in Nat
    OBVIOUS
  <1>1. CASE finals = {}
    BY <1>0, <1>1 DEF LastFinal
  <1>2. CASE finals # {}
    <2> HIDE DEF finals, n
    <2>1. behind \subseteq Nat /\ behind # {}
      BY <1>0, <1>2
    <2>2. PICK x \in behind : \A y \in behind : ~ (<<y, x>> \in OpToRel(<, Nat))
      BY <2>1, NatLessThanWellFounded, WFMin
    <2>3. \A y \in behind : ~ (y < x)
      BY <2>1, <2>2 DEF OpToRel
    <2>4. PICK k \in finals : x = n - k
      OBVIOUS
    <2>5. \A j \in finals : j <= k
      BY <1>0, <2>3, <2>4
    <2>6. (CHOOSE i \in finals : \A j \in finals : j <= i) \in finals
      BY <2>5, Zenon
    <2>7. LastFinal(r) = CHOOSE i \in finals : \A j \in finals : j <= i
      BY <1>2, Zenon DEF LastFinal, finals
    <2>8. LastFinal(r) \in finals
      BY <2>6, <2>7
    <2> QED BY <1>0, <2>8 DEF n
  <1> QED BY <1>1, <1>2

LEMMA ReconcileStep ==
    ASSUME RecordsInv, NEW r \in RunId, NEW status1 \in Finals, Reconcile(r, status1)
    PROVE  RecordsInv'
  <1> USE DEF RecordsInv
  <1> DEFINE base == IF summary[r] = NoSummaryFile THEN 0 ELSE LastFinal(r)
             closing(n) == [step |-> "recover_save", run |-> r, count |-> n, outcome |-> status1]
             matches == LastFinal(r) > 0 /\ trace[r][LastFinal(r)] = status1
  <1>a. /\ ~ up /\ work = Idle /\ work.step = "none" /\ <<r, status1>> \in todo
        /\ todo' = todo \ {<<r, status1>>}
        /\ trace \in [RunId -> Seq(TraceEvents)] /\ lost \subseteq RunId
        /\ UNCHANGED <<up, runState, summary, index, live, clock, crashes, pruned>>
    BY DEF Reconcile, RecordsTypeOK, Idle
  <1>b. LastFinal(r) \in 0 .. Len(trace[r]) /\ Len(trace[r]) \in Nat
    BY <1>a, LastFinalType
  <1>c. \/ /\ matches /\ summary[r] # NoSummaryFile /\ trace' = trace /\ work' = work
           /\ lost' = IF LastFinal(r) < Len(trace[r]) THEN lost \cup {r} ELSE lost
        \/ /\ matches /\ summary[r] = NoSummaryFile /\ trace' = trace /\ lost' = lost
           /\ work' = closing(Len(trace[r]))
        \/ /\ ~ matches /\ lost' = lost
           /\ trace' = [trace EXCEPT ![r] = Append(@, status1)]
           /\ work' = closing(Len(trace[r]) + 1 - base)
    BY <1>b DEF Reconcile
  <1>d. /\ runState[r] \in {status1, "gone"} /\ Listed(r) /\ r \notin pruned
        /\ \A q \in RunId \ {r} : Listed(q)' <=> Listed(q)
        /\ \A q \in RunId : Listed(q)' => Listed(q)
        /\ runState[r] # "gone" => ~ Listed(r)'
    BY <1>a DEF PhasesAreApart, Listed, PrunedIsOut, Finals
  <1>e. /\ work' = Idle \/ (work' \in ClosingWork /\ work'.step = "recover_save"
                            /\ work'.run = r /\ work'.outcome = status1)
        /\ lost \subseteq lost' /\ lost' \subseteq RunId
    <2>1. Len(trace[r]) + 1 - base \in Nat
      BY <1>b
    <2> HIDE DEF base, matches
    <2> QED BY <1>a, <1>b, <1>c, <2>1 DEF ClosingWork
  <1>f. work'.step \in {"none", "recover_save"} /\ (work'.step = "recover_save" => work' # Idle)
    BY <1>e DEF Idle
  <1> HIDE DEF base, matches, closing
  <1>1. RecordsTypeOK'
    <2>1. trace' \in [RunId -> Seq(TraceEvents)]
      <3>1. CASE trace' = trace
        BY <1>a, <3>1
      <3>2. CASE trace' = [trace EXCEPT ![r] = Append(@, status1)]
        BY <1>a, <3>2 DEF TraceEvents
      <3> QED BY <1>c, <3>1, <3>2
    <2> QED BY <1>a, <1>e, <2>1 DEF RecordsTypeOK
  <1>2. PhasesAreApart'
    BY <1>a, <1>d, <1>e, <1>f DEF PhasesAreApart, Closing
  <1>3. RetentionIsListed'
    BY <1>f DEF RetentionIsListed
  <1>4. PrunedIsOut'
    BY <1>a, <1>d, <1>e, <1>f DEF PrunedIsOut, Closing
  <1>5. ASSUME NEW q \in RunId, q \notin lost', runState'[q] # "gone" PROVE TraceIsCounted(q)'
    <2>1. CASE q # r
      <3>1. trace'[q] = trace[q]
        BY <1>a, <1>c, <2>1
      <3>2. ~ Closing(q, {"state", "save", "recover_save"})'
        BY <1>e, <1>f, <2>1 DEF Closing
      <3> QED BY <1>5, <1>a, <1>d, <1>e, <2>1, <3>1, <3>2, CountedElsewhere DEF Closing
    <2>2. CASE q = r
      <3> DEFINE n == summary[r].count
      <3>1. /\ TraceIsCounted(r) /\ runState[r] = status1 /\ ~ Listed(r)' /\ r \notin lost'
            /\ live[r] = NotLive /\ runState[r] # "none" /\ runState[r] # "live"
        BY <1>5, <1>a, <1>d, <1>e, <2>2 DEF PhasesAreApart, Finals
      <3>2. /\ n \in Nat /\ n <= Len(trace[r]) /\ (n = 0 <=> summary[r] = NoSummaryFile)
            /\ n > 0 => trace[r][n] = summary[r].outcome /\ summary[r].outcome \in Finals
        BY <3>1 DEF TraceIsCounted, Covers, NoSummaryFile, RecordsTypeOK, SummaryFiles
      <3>3. n > 0 => LastFinal(r) = n
        <4> SUFFICES ASSUME n > 0 PROVE LastFinal(r) = n
          OBVIOUS
        <4>1. NoFinalAfter(r, n) /\ n \in 0 .. Len(trace[r]) /\ trace[r][n] \in Finals
          BY <1>b, <1>d, <3>1, <3>2 DEF TraceIsCounted
        <4> HIDE DEF n
        <4> QED BY <1>a, <4>1, LastFinalIs
      <3>4. n = 0 => LastFinal(r) = 0 \/ LastFinal(r) = Len(trace[r])
        <4> SUFFICES ASSUME n = 0 PROVE LastFinal(r) = 0 \/ LastFinal(r) = Len(trace[r])
          OBVIOUS
        <4>1. NoFinalAfter(r, 0) \/ trace[r][Len(trace[r])] \in Finals
          BY <1>d, <3>1 DEF TraceIsCounted
        <4>2. CASE NoFinalAfter(r, 0)
          BY <1>a, <1>b, <4>2, LastFinalIs
        <4>3. CASE trace[r][Len(trace[r])] \in Finals
          <5>1. NoFinalAfter(r, Len(trace[r]))
            BY <1>b DEF NoFinalAfter
          <5> QED BY <1>a, <1>b, <4>3, <5>1, LastFinalIs
        <4> QED BY <4>1, <4>2, <4>3
      <3>5. summary'[r] = summary[r] /\ runState'[r] = runState[r] /\ live'[r] = live[r]
        BY <1>a
      <3>6. CASE matches /\ work' = work /\ trace' = trace /\ n > 0
        <4>1. Len(trace[r]) = n
          BY <1>b, <1>c, <3>1, <3>2, <3>3, <3>6 DEF matches, closing, Idle
        <4> QED BY <1>a, <2>2, <3>1, <3>5, <3>6, <4>1 DEF TraceIsCounted, Covers, Closing
      <3>7. CASE matches /\ n = 0 /\ trace' = trace /\ work' = closing(Len(trace[r]))
        <4>1. Len(trace[r]) > 0 /\ trace[r][Len(trace[r])] = status1
          BY <1>b, <3>4, <3>7 DEF matches
        <4>2. /\ work'.count = Len(trace[r]) /\ work'.outcome = status1
              /\ work'.step = "recover_save" /\ work'.run = r
          BY <3>7 DEF closing
        <4> QED BY <1>b, <2>2, <3>1, <3>2, <3>5, <3>7, <4>1, <4>2 DEF TraceIsCounted, Covers, Closing
      <3>8. CASE /\ trace' = [trace EXCEPT ![r] = Append(@, status1)]
                 /\ work' = closing(Len(trace[r]) + 1 - base)
        <4>1. base = n
          BY <3>2, <3>3 DEF base
        <4>2. /\ work'.count = Len(trace[r]) + 1 - n /\ work'.outcome = status1
              /\ work'.step = "recover_save" /\ work'.run = r
          BY <3>8, <4>1 DEF closing
        <4>3. trace'[r] = Append(trace[r], status1) /\ trace[r] \in Seq(TraceEvents)
          BY <1>a, <3>8
        <4>4. /\ Len(trace'[r]) = Len(trace[r]) + 1 /\ trace'[r][Len(trace[r]) + 1] = status1
              /\ \A i \in 1 .. Len(trace[r]) : trace'[r][i] = trace[r][i]
          BY <4>3
        <4>5. Covers(r)'
          BY <1>b, <3>1, <3>2, <3>5, <4>4 DEF TraceIsCounted, Covers
        <4>6. /\ Len(trace'[r]) = summary'[r].count + work'.count /\ work'.count > 0
              /\ trace'[r][Len(trace'[r])] = work'.outcome
          BY <1>b, <3>2, <3>5, <4>2, <4>4
        <4> QED BY <2>2, <3>1, <3>5, <4>2, <4>5, <4>6 DEF TraceIsCounted, Closing
      <3> QED BY <1>c, <3>2, <3>6, <3>7, <3>8
    <2> QED BY <2>1, <2>2
  <1> QED BY <1>1, <1>2, <1>3, <1>4, <1>5

LEMMA RecoverSaveStep ==
    ASSUME RecordsInv, RecoverSave
    PROVE  RecordsInv'
  <1> USE DEF RecordsInv
  <1>a. /\ work \in ClosingWork /\ work.step = "recover_save"
        /\ work' \in ClosingWork /\ work'.step = "save" /\ work'.run = work.run
        /\ work'.count = work.count /\ work'.outcome = work.outcome
        /\ UNCHANGED <<up, runState, trace, summary, index, live, todo, clock, crashes, lost, pruned>>
    BY WorkShapes DEF RecoverSave, ClosingWork
  <1>b. \A q \in RunId : Listed(q)' <=> Listed(q)
    BY <1>a DEF Listed
  <1>1. RecordsTypeOK' /\ PhasesAreApart' /\ RetentionIsListed'
    BY <1>a DEF RecordsTypeOK, PhasesAreApart, RetentionIsListed, Closing
  <1>2. PrunedIsOut'
    BY <1>a, <1>b DEF PrunedIsOut, Closing
  <1>3. ASSUME NEW q \in RunId, q \notin lost', runState'[q] # "gone" PROVE TraceIsCounted(q)'
    BY <1>3, <1>a, <1>b DEF TraceIsCounted, Covers, NoFinalAfter, Closing
  <1> QED BY <1>1, <1>2, <1>3

LEMMA StartupDoneStep ==
    ASSUME RecordsInv, StartupDone
    PROVE  RecordsInv'
  <1> USE DEF RecordsInv
  <1>a. /\ work = Idle /\ work.step = "none" /\ todo = {} /\ up' = TRUE
        /\ UNCHANGED <<runState, trace, summary, index, live, work, todo, clock, crashes, lost, pruned>>
    BY DEF StartupDone, Idle
  <1>b. \A q \in RunId : Listed(q)' <=> Listed(q)
    BY <1>a DEF Listed
  <1>1. RecordsTypeOK' /\ PhasesAreApart' /\ RetentionIsListed'
    BY <1>a DEF RecordsTypeOK, PhasesAreApart, RetentionIsListed, Closing
  <1>2. PrunedIsOut'
    BY <1>a, <1>b DEF PrunedIsOut, Closing
  <1>3. \A q \in RunId : q \notin lost' /\ runState'[q] # "gone" => TraceIsCounted(q)'
    BY <1>a, RecordsKept
  <1> QED BY <1>1, <1>2, <1>3

-----------------------------------------------------------------------------
(* The theorems about traces and summaries                                 *)

LEMMA RecordsStep == RecordsInv /\ [RecordsNext]_recordVars => RecordsInv'
  <1> SUFFICES ASSUME RecordsInv, [RecordsNext]_recordVars PROVE RecordsInv'
    OBVIOUS
  <1>1. CASE UNCHANGED recordVars
    BY <1>1 DEF recordVars, RecordsInv, RecordsTypeOK, PhasesAreApart, RetentionIsListed, PrunedIsOut,
                TraceIsCounted, Covers, NoFinalAfter, Closing, Listed
  <1>2. CASE \E r \in RunId : StartAttempt(r)
    BY <1>2, StartAttemptStep
  <1>3. CASE \E r \in RunId : RecordEvent(r)
    BY <1>3, RecordEventStep
  <1>4. CASE \E r \in RunId : RetainState(r)
    BY <1>4, RetainStateStep
  <1>5. CASE \E r \in RunId, status \in {"completed", "cancelled"} : FinishTrace(r, status)
    <2>1. PICK r \in RunId, status \in {"completed", "cancelled"} : FinishTrace(r, status)
      BY <1>5
    <2>2. status \in Finals
      BY DEF Finals
    <2> QED BY <2>1, <2>2, FinishTraceStep
  <1>6. CASE \E r \in RunId, status \in Finals : Reconcile(r, status)
    BY <1>6, ReconcileStep
  <1>7. CASE FinishState \/ SaveSummary \/ IndexSummary \/ RetainFiles \/ RetainDone
    BY <1>7, FinishStateStep, SaveSummaryStep, IndexSummaryStep, RetainFilesStep, RetainDoneStep
  <1>8. CASE CrashAndRecover \/ RecoverSave \/ StartupDone
    BY <1>8, CrashStep, RecoverSaveStep, StartupDoneStep
  <1> QED BY <1>1, <1>2, <1>3, <1>4, <1>5, <1>6, <1>7, <1>8 DEF RecordsNext

\* The recorder, the retention and the startup keep traces, summaries and
\* index together (recorder.py, index.py, finalize_interrupted_run): for every
\* number of runs, crashes and failed writes, and every retention policy.
THEOREM RecordsInvariant == RecordsSpec => []RecordsInv
  <1>1. RecordsInit => RecordsInv
    BY RecordsStart
  <1>2. RecordsInv /\ [RecordsNext]_recordVars => RecordsInv'
    BY RecordsStep
  <1> QED BY <1>1, <1>2, PTL DEF RecordsSpec

\* Once a run is over its summary counts every event of its trace exactly
\* once, over all attempts and recoveries, and has the outcome of the last one
\* (RunSummaryStore.save, finalize_interrupted_run).
THEOREM SummaryIsAlwaysExact == RecordsSpec => []SummaryIsExact
  <1>1. RecordsInv => SummaryIsExact
    <2> SUFFICES ASSUME RecordsInv, NEW r \in RunId, Settled(r), r \notin lost
                 PROVE  /\ summary[r].count = Len(trace[r])
                        /\ trace[r] # <<>> => summary[r].outcome = Last(trace[r])
      BY DEF SummaryIsExact
    <2>1. TraceIsCounted(r) /\ ~ Listed(r) /\ ~ Closing(r, {"save", "recover_save"})
      BY DEF RecordsInv, Settled, Finals, PhasesAreApart, Listed, Closing, Idle
    <2>2. Len(trace[r]) = summary[r].count /\ Covers(r)
      BY <2>1 DEF TraceIsCounted, Settled
    <2>3. ASSUME trace[r] # <<>> PROVE summary[r].outcome = Last(trace[r])
      <3>1. Len(trace[r]) > 0
        BY <2>3 DEF RecordsInv, RecordsTypeOK
      <3> QED BY <2>2, <3>1 DEF Covers, Last
    <2> QED BY <2>2, <2>3
  <1> QED BY <1>1, RecordsInvariant, PTL

\* Retention never takes the trace of a run that is being recorded, and what
\* it has removed is not written again (_apply_retention, RunStateStore.prune).
THEOREM RetentionIsAlwaysSafe == RecordsSpec => []RetentionIsSafe
  <1>1. RecordsInv => LiveRunKeepsItsTrace
    <2> SUFFICES ASSUME RecordsInv, NEW r \in RunId, live[r] # NotLive, r \notin lost
                 PROVE  Len(trace[r]) >= live[r] + summary[r].count
      BY DEF LiveRunKeepsItsTrace
    <2>1. /\ TraceIsCounted(r) /\ live[r] \in Nat /\ summary[r].count \in Nat /\ Len(trace[r]) \in Nat
      BY DEF RecordsInv, PhasesAreApart, RecordsTypeOK, SummaryFiles
    <2>2. CASE Closing(r, {"state"})
      <3>1. /\ work.count = live[r] + 1 /\ Closing(r, {"state", "save", "recover_save"})
        BY <2>2 DEF RecordsInv, PhasesAreApart, Closing
      <3>2. Len(trace[r]) = summary[r].count + work.count
        BY <2>1, <3>1 DEF TraceIsCounted
      <3> QED BY <2>1, <3>1, <3>2
    <2>3. CASE ~ Closing(r, {"state"})
      <3>1. Len(trace[r]) = summary[r].count + live[r]
        BY <2>1, <2>3 DEF TraceIsCounted
      <3> QED BY <2>1, <3>1
    <2> QED BY <2>2, <2>3
  <1>2. RecordsInv => PrunedStaysGone
    BY DEF RecordsInv, PrunedIsOut, PrunedStaysGone
  <1>3. RecordsInv => RetentionIsSafe
    BY <1>1, <1>2 DEF RetentionIsSafe
  <1> QED BY <1>3, RecordsInvariant, PTL


-----------------------------------------------------------------------------
(* Token statistics                                                        *)

Phases == {"scan", "live", "read", "import", "estimates", "select", "backfill", "done", "failed"}
TraceKinds == {"trace", "traceEstimate"}
Row == [kind : LiveKinds \cup TraceKinds \cup {"message"}, run : UsageRuns \cup {"none"},
        seq : Nat, turn : Nat]
Event == [turn : Nat, reported : BOOLEAN]

StatTypeOK ==
    /\ liveRuns \in SUBSET UsageRuns /\ streaming \in SUBSET UsageRuns /\ ended \in SUBSET UsageRuns
    /\ chatTurn \in Nat /\ answers \in Nat /\ statCrashes \in Nat
    /\ transcript \in SUBSET (Nat \X Nat)
    /\ runTurn \in [UsageRuns -> Nat] /\ traceCursor \in [UsageRuns -> Nat]
    /\ usageTrace \in [UsageRuns -> Seq(Event)]
    /\ inFlight \in SUBSET (UsageRuns \X Nat)
    /\ usageRows \in SUBSET Row
    /\ sync \in [phase : Phases, runs : SUBSET UsageRuns, live : SUBSET UsageRuns,
                 from : [UsageRuns -> Nat], pos : [UsageRuns -> Nat], to : [UsageRuns -> Nat],
                 messages : SUBSET (Nat \X Nat)]
    /\ txn \in [open : BOOLEAN, rows : SUBSET Row, cursors : Seq(UsageRuns \X Nat)]
    /\ overtaken \in [runs : SUBSET UsageRuns, turns : SUBSET Nat]

\* The events of a live run lie in one turn, which is the session's while the
\* run streams.
TurnsAreOne ==
    \A r \in UsageRuns :
        /\ runTurn[r] <= chatTurn /\ Len(usageTrace[r]) <= MaxUsageEvents
        /\ r \in liveRuns \cap streaming => runTurn[r] = chatTurn /\ chatTurn # 0
        /\ r \in liveRuns /\ runTurn[r] = 0 => usageTrace[r] = <<>>
        /\ \A k \in DOMAIN usageTrace[r] :
              usageTrace[r][k].turn = IF r \in liveRuns THEN runTurn[r] ELSE 0

StoredMessage(m) == m[1] <= chatTurn /\ m[2] <= answers
MessagesAreKnown == \A m \in transcript \cup sync.messages : StoredMessage(m)

\* What a row was written for.
RowIsReal(x) ==
    /\ x.kind \in LiveKinds =>
          /\ x.run \in liveRuns /\ x.turn = runTurn[x.run]
          /\ x.seq \in DOMAIN usageTrace[x.run]
    /\ x.kind \in TraceKinds =>
          /\ x.run \in UsageRuns /\ x.seq \in DOMAIN usageTrace[x.run]
          /\ x = TraceRow(x.run, x.seq)
    /\ x.kind = "message" => x.run = "none" /\ x.seq <= answers /\ x.turn <= chatTurn
RowsAreReal == \A x \in usageRows \cup txn.rows : RowIsReal(x)

\* A live record is written once.
RecordsAreSingle ==
    /\ \A p \in inFlight : /\ p[1] \in liveRuns \cap streaming
                           /\ p[2] \in DOMAIN usageTrace[p[1]]
                           /\ \A x \in usageRows : x.kind \in LiveKinds => <<x.run, x.seq>> # p
    /\ \A x, y \in usageRows :
          x.kind \in LiveKinds /\ y.kind \in LiveKinds /\ x.run = y.run /\ x.seq = y.seq => x = y

TxnIsImports ==
    /\ ~ txn.open => txn.rows = {} /\ txn.cursors = <<>>
    /\ txn.open => sync.phase \in {"import", "backfill"}
    /\ \A x \in txn.rows : x.kind \notin LiveKinds
    /\ sync.phase = "backfill" => \A x \in txn.rows : x.kind = "message"

HasLive(r) == \E x \in usageRows : x.kind \in LiveKinds /\ x.run = r
HasTrace(r) == \E x \in usageRows \cup txn.rows : x.kind \in TraceKinds /\ x.run = r

\* A run that is imported is not recorded live, but by a record that overtook
\* the import.
ImportIsApart ==
    /\ sync.phase = "import" =>
          \A r \in sync.runs : r \notin sync.live /\ sync.to[r] <= Len(usageTrace[r])
    /\ sync.phase \in {"read", "import"} =>
          \A r \in UsageRuns : HasLive(r) => r \in sync.live \cup overtaken.runs
    /\ sync.phase \in {"read", "import", "estimates", "select", "backfill", "done"} =>
          \A r \in UsageRuns : HasLive(r) /\ HasTrace(r) => r \in overtaken.runs

\* The first n events of a run are in the rows, or it is recorded live.
RowsCover(r, n, table) ==
    HasLive(r) \/ \A k \in 1 .. n : \E x \in table : x.run = r /\ x.seq = k
CursorsAreCovered ==
    /\ \A r \in UsageRuns : RowsCover(r, traceCursor[r], usageRows)
    /\ sync.phase \in {"live", "read"} => \A r \in UsageRuns : RowsCover(r, sync.from[r], usageRows)
    /\ sync.phase = "import" => \A r \in UsageRuns : RowsCover(r, sync.pos[r], usageRows \cup txn.rows)
    /\ \A i \in DOMAIN txn.cursors :
          RowsCover(txn.cursors[i][1], txn.cursors[i][2], usageRows \cup txn.rows)

EventOf(t) == \E x \in usageRows : x.kind # "message" /\ x.turn = t
PricesAreSingle ==
    /\ sync.phase \in {"select", "backfill", "done"} =>
          \A m \in transcript :
              MessageRow(m) \in usageRows \cup txn.rows /\ EventOf(m[1]) => m[1] \in overtaken.turns
    /\ sync.phase = "backfill" =>
          \A m \in sync.messages : EventOf(m[1]) => m[1] \in overtaken.turns

StatInv ==
    /\ StatTypeOK /\ TurnsAreOne /\ MessagesAreKnown /\ RowsAreReal /\ RecordsAreSingle
    /\ TxnIsImports /\ ImportIsApart /\ CursorsAreCovered /\ PricesAreSingle

-----------------------------------------------------------------------------
LEMMA MessageShape ==
    ASSUME NEW m \in Nat \X Nat
    PROVE  /\ MessageRow(m) \in Row /\ m[1] \in Nat /\ m[2] \in Nat
           /\ MessageRow(m).kind = "message" /\ MessageRow(m).run = "none"
           /\ MessageRow(m).seq = m[2] /\ MessageRow(m).turn = m[1]
  <1>1. m[1] \in Nat /\ m[2] \in Nat
    OBVIOUS
  <1> QED  BY <1>1 DEF MessageRow, Row

LEMMA MessageRowsDiffer ==
    ASSUME NEW m \in Nat \X Nat, NEW n \in Nat \X Nat, MessageRow(m) = MessageRow(n)
    PROVE  m = n
  <1>1. m = <<m[1], m[2]>> /\ n = <<n[1], n[2]>>
    OBVIOUS
  <1>2. m[1] = n[1] /\ m[2] = n[2]
    BY MessageShape
  <1> QED  BY <1>1, <1>2

LEMMA TraceShape ==
    ASSUME StatTypeOK, NEW r \in UsageRuns
    PROVE  /\ usageTrace[r] \in Seq(Event) /\ Len(usageTrace[r]) \in Nat
           /\ DOMAIN usageTrace[r] = 1 .. Len(usageTrace[r])
           /\ \A k \in DOMAIN usageTrace[r] :
                 /\ usageTrace[r][k] \in Event /\ k \in Nat
                 /\ TraceRow(r, k) \in Row /\ TraceRow(r, k).kind \in TraceKinds
                 /\ TraceRow(r, k).run = r /\ TraceRow(r, k).seq = k
                 /\ TraceRow(r, k).turn = usageTrace[r][k].turn
  <1>1. usageTrace[r] \in Seq(Event)
    BY DEF StatTypeOK
  <1>2. /\ Len(usageTrace[r]) \in Nat /\ DOMAIN usageTrace[r] = 1 .. Len(usageTrace[r])
        /\ \A k \in DOMAIN usageTrace[r] : usageTrace[r][k] \in Event /\ k \in Nat
    BY <1>1
  <1>3. ASSUME NEW k \in DOMAIN usageTrace[r]
        PROVE  /\ TraceRow(r, k) \in Row /\ TraceRow(r, k).kind \in TraceKinds
               /\ TraceRow(r, k).run = r /\ TraceRow(r, k).seq = k
               /\ TraceRow(r, k).turn = usageTrace[r][k].turn
    BY <1>2 DEF TraceRow, SourceSeq, Row, TraceKinds, Event
  <1> QED  BY <1>1, <1>2, <1>3

LEMMA KindsDiffer ==
    /\ LiveKinds \cap TraceKinds = {} /\ "message" \notin LiveKinds /\ "message" \notin TraceKinds
    /\ LiveKinds = {"live", "liveEstimate"} /\ TraceKinds = {"trace", "traceEstimate"}
  BY DEF LiveKinds, TraceKinds

LEMMA LiveRecordedForm ==
    ASSUME NEW r
    PROVE  r \in LiveRecorded(usageRows) <=> HasLive(r)
  BY DEF LiveRecorded, HasLive

\* The table and the import, when a request leaves them alone.
LEMMA TableKept ==
    ASSUME StatInv, StatTypeOK', UNCHANGED <<usageRows, traceCursor, sync, txn, overtaken, liveRuns>>,
           chatTurn' >= chatTurn, answers' >= answers,
           \A r \in UsageRuns : \/ usageTrace'[r] = usageTrace[r]
                                \/ \E e \in Event : usageTrace'[r] = Append(usageTrace[r], e),
           \A r \in UsageRuns : usageTrace[r] # <<>> => runTurn'[r] = runTurn[r]
    PROVE  /\ RowsAreReal' /\ TxnIsImports' /\ ImportIsApart' /\ CursorsAreCovered'
           /\ \A m \in sync.messages : StoredMessage(m)'
           /\ \A m \in transcript : StoredMessage(m)'
           /\ \A r \in UsageRuns : \A k \in DOMAIN usageTrace[r] :
                 k \in DOMAIN usageTrace'[r] /\ usageTrace'[r][k] = usageTrace[r][k]
  <1> USE DEF StatInv
  <1>1. /\ chatTurn \in Nat /\ chatTurn' \in Nat /\ answers \in Nat /\ answers' \in Nat
        /\ sync.messages \in SUBSET (Nat \X Nat) /\ transcript \in SUBSET (Nat \X Nat)
        /\ usageRows \in SUBSET Row /\ txn.rows \in SUBSET Row
    BY DEF StatTypeOK
  <1>2. \A r \in UsageRuns : /\ Len(usageTrace[r]) <= Len(usageTrace'[r])
                             /\ \A k \in DOMAIN usageTrace[r] :
                                   k \in DOMAIN usageTrace'[r] /\ usageTrace'[r][k] = usageTrace[r][k]
    BY TraceShape
  <1>3. ASSUME NEW m \in Nat \X Nat, StoredMessage(m) PROVE StoredMessage(m)'
    BY <1>1, <1>3 DEF StoredMessage
  <1>4. ASSUME NEW x \in Row, RowIsReal(x) PROVE RowIsReal(x)'
    <2>0. x.seq \in Nat /\ x.turn \in Nat
      BY DEF Row
    <2>1. CASE x.kind \in LiveKinds
      <3>1. x.run \in UsageRuns /\ usageTrace[x.run] # <<>>
        BY <1>4, <2>1, TraceShape DEF RowIsReal, StatTypeOK
      <3> QED  BY <1>2, <1>4, <2>1, <3>1, KindsDiffer DEF RowIsReal
    <2>2. CASE x.kind \in TraceKinds
      <3>1. x.run \in UsageRuns /\ x.seq \in DOMAIN usageTrace[x.run] /\ x = TraceRow(x.run, x.seq)
        BY <1>4, <2>2 DEF RowIsReal
      <3>2. TraceRow(x.run, x.seq)' = TraceRow(x.run, x.seq)
        BY <1>2, <3>1 DEF TraceRow, SourceSeq
      <3> QED  BY <1>2, <2>2, <3>1, <3>2, KindsDiffer DEF RowIsReal
    <2>3. CASE x.kind = "message"
      BY <1>1, <1>4, <2>0, <2>3, KindsDiffer DEF RowIsReal
    <2> QED  BY <2>1, <2>2, <2>3 DEF Row
  <1>5. RowsAreReal'
    BY <1>1, <1>4 DEF RowsAreReal
  <1>6. TxnIsImports' /\ CursorsAreCovered'
    BY DEF TxnIsImports, CursorsAreCovered, RowsCover, HasLive
  <1>7. ImportIsApart'
    <2>1. ASSUME NEW r \in UsageRuns, sync.to[r] <= Len(usageTrace[r])
          PROVE  sync.to[r] <= Len(usageTrace'[r])
      <3>1. sync.to[r] \in Nat /\ Len(usageTrace[r]) \in Nat /\ Len(usageTrace'[r]) \in Nat
        BY DEF StatTypeOK
      <3> QED  BY <1>2, <2>1, <3>1
    <2>2. sync.runs \in SUBSET UsageRuns
      BY DEF StatTypeOK
    <2> QED  BY <2>1, <2>2 DEF ImportIsApart, HasLive, HasTrace
  <1> QED  BY <1>1, <1>2, <1>3, <1>5, <1>6, <1>7 DEF MessagesAreKnown

\* A new message has no row yet.
LEMMA PricesKept ==
    ASSUME StatInv, UNCHANGED <<usageRows, sync, txn, overtaken>>,
           \A m \in transcript' : m \in transcript \/ MessageRow(m) \notin usageRows \cup txn.rows
    PROVE  PricesAreSingle'
  BY DEF StatInv, PricesAreSingle, EventOf

LEMMA AddUserTurnStep ==
    ASSUME StatInv, AddUserTurn
    PROVE  StatInv'
  <1> USE DEF StatInv
  <1>0. /\ streaming \cap liveRuns = {} /\ chatTurn' = chatTurn + 1
        /\ transcript' = transcript \cup {<<chatTurn + 1, 0>>}
        /\ UNCHANGED <<answers, runTurn, streaming, ended, usageTrace, inFlight, usageRows, traceCursor,
                       sync, txn, overtaken, statCrashes, liveRuns>>
    BY DEF AddUserTurn
  <1>1. chatTurn \in Nat /\ chatTurn + 1 \in Nat /\ answers \in Nat
    BY DEF StatTypeOK
  <1>2. StatTypeOK'
    <2>1. <<chatTurn + 1, 0>> \in Nat \X Nat
      BY <1>1
    <2> QED  BY <1>0, <1>1, <2>1 DEF StatTypeOK
  <1>3. chatTurn' >= chatTurn /\ answers' >= answers
    BY <1>0, <1>1
  <1>4. /\ RowsAreReal' /\ TxnIsImports' /\ ImportIsApart' /\ CursorsAreCovered'
        /\ \A m \in sync.messages : StoredMessage(m)'
        /\ \A m \in transcript : StoredMessage(m)'
    BY <1>0, <1>2, <1>3, TableKept
  <1>5. MessagesAreKnown'
    <2>1. ASSUME NEW m, m = <<chatTurn + 1, 0>> PROVE StoredMessage(m)'
      BY <1>0, <1>1, <2>1 DEF StoredMessage
    <2> QED  BY <1>0, <1>4, <2>1 DEF MessagesAreKnown
  <1>6. TurnsAreOne'
    <2>1. \A r \in UsageRuns : runTurn[r] <= chatTurn + 1
      <3>1. \A r \in UsageRuns : runTurn[r] \in Nat
        BY DEF StatTypeOK
      <3> QED  BY <1>1, <3>1 DEF TurnsAreOne
    <2> QED  BY <1>0, <2>1 DEF TurnsAreOne
  <1>7. RecordsAreSingle'
    BY <1>0 DEF RecordsAreSingle
  <1>8. PricesAreSingle'
    <2>1. <<chatTurn + 1, 0>> \in Nat \X Nat /\ <<chatTurn + 1, 0>>[1] = chatTurn + 1
      BY <1>1
    <2>2. MessageRow(<<chatTurn + 1, 0>>) \notin usageRows \cup txn.rows
      <3> SUFFICES ASSUME MessageRow(<<chatTurn + 1, 0>>) \in usageRows \cup txn.rows PROVE FALSE
        OBVIOUS
      <3>1. chatTurn + 1 <= chatTurn
        BY <2>1, MessageShape DEF RowsAreReal, RowIsReal
      <3> QED  BY <1>1, <3>1
    <2> QED  BY <1>0, <2>2, PricesKept
  <1> QED  BY <1>2, <1>4, <1>5, <1>6, <1>7, <1>8

LEMMA StartRunStep ==
    ASSUME StatInv, NEW r \in UsageRuns, StartRun(r) \/ ResumeRun(r)
    PROVE  StatInv'
  <1> USE DEF StatInv
  <1>0. /\ streaming' = streaming \cup {r}
        /\ UNCHANGED <<chatTurn, transcript, answers, ended, usageTrace, inFlight, usageRows, traceCursor,
                       sync, txn, overtaken, statCrashes, liveRuns>>
        /\ r \notin liveRuns => runTurn' = runTurn
        /\ r \in liveRuns => chatTurn # 0 /\ runTurn[r] \in {0, chatTurn}
                             /\ runTurn' = [runTurn EXCEPT ![r] = chatTurn]
    <2>1. runTurn \in [UsageRuns -> Nat]
      BY DEF StatTypeOK
    <2>2. CASE StartRun(r)
      <3>1. chatTurn \in Nat
        BY DEF StatTypeOK
      <3> QED  BY <2>2, <3>1 DEF StartRun
    <2>3. CASE ResumeRun(r)
      BY <2>1, <2>3 DEF ResumeRun
    <2> QED  BY <2>2, <2>3
  <1>1. chatTurn \in Nat /\ answers \in Nat /\ runTurn \in [UsageRuns -> Nat]
    BY DEF StatTypeOK
  <1>2. /\ runTurn' \in [UsageRuns -> Nat] /\ \A q \in UsageRuns : q # r => runTurn'[q] = runTurn[q]
        /\ r \in liveRuns => runTurn'[r] = chatTurn
        /\ usageTrace[r] # <<>> => runTurn'[r] = runTurn[r]
    BY <1>0, <1>1 DEF TurnsAreOne
  <1>3. StatTypeOK'
    BY <1>0, <1>2 DEF StatTypeOK
  <1>4. chatTurn' >= chatTurn /\ answers' >= answers
    BY <1>0, <1>1
  <1>5. /\ RowsAreReal' /\ TxnIsImports' /\ ImportIsApart' /\ CursorsAreCovered'
        /\ \A m \in sync.messages : StoredMessage(m)'
        /\ \A m \in transcript : StoredMessage(m)'
    BY <1>0, <1>2, <1>3, <1>4, TableKept
  <1>6. MessagesAreKnown'
    BY <1>0, <1>5 DEF MessagesAreKnown
  <1>7. TurnsAreOne'
    <2> SUFFICES ASSUME NEW q \in UsageRuns
                 PROVE  /\ runTurn'[q] <= chatTurn /\ Len(usageTrace[q]) <= MaxUsageEvents
                        /\ q \in liveRuns \cap streaming' => runTurn'[q] = chatTurn /\ chatTurn # 0
                        /\ q \in liveRuns /\ runTurn'[q] = 0 => usageTrace[q] = <<>>
                        /\ \A k \in DOMAIN usageTrace[q] :
                              usageTrace[q][k].turn = IF q \in liveRuns THEN runTurn'[q] ELSE 0
      BY <1>0 DEF TurnsAreOne
    <2>1. CASE q # r
      BY <1>0, <1>2, <2>1 DEF TurnsAreOne
    <2>2. CASE q = r /\ r \notin liveRuns
      BY <1>0, <2>2 DEF TurnsAreOne
    <2>3. CASE q = r /\ r \in liveRuns
      <3>1. runTurn'[q] = chatTurn /\ chatTurn # 0 /\ chatTurn <= chatTurn
        BY <1>0, <1>1, <1>2, <2>3
      <3>2. \A k \in DOMAIN usageTrace[q] : usageTrace[q] # <<>>
        BY TraceShape
      <3> QED  BY <1>2, <2>3, <3>1, <3>2 DEF TurnsAreOne
    <2> QED  BY <2>1, <2>2, <2>3
  <1>8. RecordsAreSingle'
    BY <1>0 DEF RecordsAreSingle
  <1>9. PricesAreSingle'
    BY <1>0, PricesKept
  <1> QED  BY <1>3, <1>5, <1>6, <1>7, <1>8, <1>9

LEMMA TraceUsageStep ==
    ASSUME StatInv, NEW r \in UsageRuns, NEW reported \in BOOLEAN, TraceUsage(r, reported)
    PROVE  StatInv'
  <1> USE DEF StatInv
  <1> DEFINE e == [turn |-> IF r \in liveRuns THEN chatTurn ELSE 0, reported |-> reported]
             q == usageTrace[r]
  <1>0. /\ r \in streaming /\ usageTrace' = [usageTrace EXCEPT ![r] = Append(q, e)]
        /\ Len(q) < MaxUsageEvents
        /\ inFlight' = IF r \in liveRuns THEN inFlight \cup {<<r, Len(q) + 1>>} ELSE inFlight
        /\ UNCHANGED <<chatTurn, transcript, answers, runTurn, streaming, ended, usageRows, traceCursor,
                       sync, txn, overtaken, statCrashes, liveRuns>>
    BY DEF TraceUsage
  <1>1. chatTurn \in Nat /\ answers \in Nat /\ e \in Event
    <2>1. chatTurn \in Nat /\ answers \in Nat
      BY DEF StatTypeOK
    <2> QED  BY <2>1 DEF Event
  <1>2. q \in Seq(Event) /\ Len(q) \in Nat /\ DOMAIN q = 1 .. Len(q)
    BY TraceShape
  <1>3. /\ Append(q, e) \in Seq(Event) /\ DOMAIN Append(q, e) = 1 .. Len(q) + 1
        /\ Append(q, e)[Len(q) + 1] = e
        /\ \A k \in 1 .. Len(q) : Append(q, e)[k] = q[k]
    BY <1>1, <1>2
  <1>4. usageTrace'[r] = Append(q, e) /\ \A p \in UsageRuns : p # r => usageTrace'[p] = usageTrace[p]
    BY <1>0 DEF StatTypeOK
  <1> HIDE DEF e, q
  <1>5. StatTypeOK'
    <2>1. inFlight' \in SUBSET (UsageRuns \X Nat)
      <3>1. Len(q) + 1 \in Nat /\ inFlight \in SUBSET (UsageRuns \X Nat)
        BY <1>2 DEF StatTypeOK
      <3>2. <<r, Len(q) + 1>> \in UsageRuns \X Nat
        BY <3>1
      <3> QED  BY <1>0, <3>1, <3>2
    <2>2. usageTrace' \in [UsageRuns -> Seq(Event)]
      BY <1>0, <1>3 DEF StatTypeOK
    <2> QED  BY <1>0, <2>1, <2>2 DEF StatTypeOK
  <1>6. chatTurn' >= chatTurn /\ answers' >= answers
    BY <1>0, <1>1
  <1>7. /\ RowsAreReal' /\ TxnIsImports' /\ ImportIsApart' /\ CursorsAreCovered'
        /\ \A m \in sync.messages : StoredMessage(m)'
        /\ \A m \in transcript : StoredMessage(m)'
        /\ \A p \in UsageRuns : \A k \in DOMAIN usageTrace[p] :
              k \in DOMAIN usageTrace'[p] /\ usageTrace'[p][k] = usageTrace[p][k]
    <2>1. \A p \in UsageRuns : \/ usageTrace'[p] = usageTrace[p]
                               \/ \E ev \in Event : usageTrace'[p] = Append(usageTrace[p], ev)
      BY <1>1, <1>4 DEF q
    <2> QED  BY <1>0, <1>5, <1>6, <2>1, TableKept
  <1>8. MessagesAreKnown'
    BY <1>0, <1>7 DEF MessagesAreKnown
  <1>9. r \in liveRuns => runTurn[r] = chatTurn /\ chatTurn # 0
    BY <1>0 DEF TurnsAreOne
  <1>10. TurnsAreOne'
    <2>1. e.turn = IF r \in liveRuns THEN runTurn[r] ELSE 0
      BY <1>9 DEF e
    <2>2. \A k \in 1 .. Len(q) + 1 : k \in 1 .. Len(q) \/ k = Len(q) + 1
      BY <1>2
    <2>3. \A k \in DOMAIN usageTrace'[r] :
             usageTrace'[r][k].turn = IF r \in liveRuns THEN runTurn[r] ELSE 0
      BY <1>2, <1>3, <1>4, <2>1, <2>2 DEF TurnsAreOne, q
    <2>4. Len(usageTrace'[r]) <= MaxUsageEvents
      BY <1>0, <1>1, <1>2, <1>4, TokenStatsAssumption
    <2> QED  BY <1>0, <1>4, <1>9, <2>3, <2>4 DEF TurnsAreOne
  <1>11. RecordsAreSingle'
    <2>1. ASSUME NEW p \in inFlight' 
          PROVE  /\ p[1] \in liveRuns \cap streaming /\ p[2] \in DOMAIN usageTrace'[p[1]]
                 /\ \A x \in usageRows : x.kind \in LiveKinds => <<x.run, x.seq>> # p
      <3>1. CASE p \in inFlight
        <4>1. p[1] \in UsageRuns
          BY <3>1 DEF StatTypeOK
        <4> QED  BY <1>7, <3>1, <4>1 DEF RecordsAreSingle
      <3>2. CASE p \notin inFlight
        <4>1. p = <<r, Len(q) + 1>> /\ r \in liveRuns
          BY <1>0, <2>1, <3>2
        <4>2. Len(q) + 1 \in DOMAIN usageTrace'[r] /\ Len(q) + 1 \notin DOMAIN q
          BY <1>2, <1>3, <1>4
        <4>3. ASSUME NEW x \in usageRows, x.kind \in LiveKinds, <<x.run, x.seq>> = p PROVE FALSE
          <5>1. x.seq \in DOMAIN usageTrace[x.run] /\ x.run = r /\ x.seq = Len(q) + 1
            BY <4>1, <4>3 DEF RowsAreReal, RowIsReal
          <5> QED  BY <4>2, <5>1 DEF q
        <4> QED  BY <1>0, <4>1, <4>2, <4>3
      <3> QED  BY <3>1, <3>2
    <2> QED  BY <1>0, <2>1 DEF RecordsAreSingle
  <1>12. PricesAreSingle'
    BY <1>0, PricesKept
  <1> QED  BY <1>5, <1>7, <1>8, <1>10, <1>11, <1>12

LEMMA RecordFailsStep ==
    ASSUME StatInv, NEW r \in UsageRuns, NEW k \in Nat, RecordFails(r, k)
    PROVE  StatInv'
  <1> USE DEF StatInv
  <1>0. /\ inFlight' = inFlight \ {<<r, k>>}
        /\ UNCHANGED <<chatTurn, transcript, answers, runTurn, streaming, ended, usageTrace, usageRows,
                       traceCursor, sync, txn, overtaken, statCrashes, liveRuns>>
    BY DEF RecordFails
  <1>1. StatTypeOK'
    BY <1>0 DEF StatTypeOK
  <1>2. chatTurn' >= chatTurn /\ answers' >= answers
    BY <1>0 DEF StatTypeOK
  <1>3. RowsAreReal' /\ TxnIsImports' /\ ImportIsApart' /\ CursorsAreCovered'
    BY <1>0, <1>1, <1>2, TableKept
  <1>4. MessagesAreKnown' /\ TurnsAreOne' /\ RecordsAreSingle'
    BY <1>0 DEF MessagesAreKnown, StoredMessage, TurnsAreOne, RecordsAreSingle
  <1>5. PricesAreSingle'
    BY <1>0, PricesKept
  <1> QED  BY <1>1, <1>3, <1>4, <1>5

LEMMA StopRunStep ==
    ASSUME StatInv, NEW r \in UsageRuns, NEW final \in BOOLEAN, NEW hasReply \in BOOLEAN,
           StopRun(r, final, hasReply)
    PROVE  StatInv'
  <1> USE DEF StatInv
  <1>0. /\ streaming' = streaming \ {r}
        /\ ended' = IF final THEN ended \cup {r} ELSE ended
        /\ ~ \E k \in 1 .. MaxUsageEvents : <<r, k>> \in inFlight
        /\ answers' = IF hasReply THEN answers + 1 ELSE answers
        /\ transcript' = IF hasReply
                         THEN {m \in transcript : m[1] # runTurn[r] \/ m[2] = 0}
                                  \cup {<<runTurn[r], answers'>>}
                         ELSE transcript
        /\ UNCHANGED <<chatTurn, runTurn, usageTrace, inFlight, usageRows, traceCursor, sync, txn,
                       overtaken, statCrashes, liveRuns>>
    BY DEF StopRun
  <1>1. answers \in Nat /\ chatTurn \in Nat /\ runTurn[r] \in Nat
    BY DEF StatTypeOK
  <1>2. answers' \in Nat /\ answers' >= answers /\ chatTurn' >= chatTurn
    BY <1>0, <1>1
  <1>3. StatTypeOK'
    <2>1. transcript' \in SUBSET (Nat \X Nat)
      <3>1. <<runTurn[r], answers'>> \in Nat \X Nat /\ transcript \in SUBSET (Nat \X Nat)
        BY <1>1, <1>2 DEF StatTypeOK
      <3> QED  BY <1>0, <3>1
    <2> QED  BY <1>0, <1>2, <2>1 DEF StatTypeOK
  <1>4. /\ RowsAreReal' /\ TxnIsImports' /\ ImportIsApart' /\ CursorsAreCovered'
        /\ \A m \in sync.messages : StoredMessage(m)'
        /\ \A m \in transcript : StoredMessage(m)'
    BY <1>0, <1>2, <1>3, TableKept
  <1> DEFINE n == <<runTurn[r], answers + 1>>
  <1>5. \A m \in transcript' : m \in transcript \/ (m = n /\ hasReply)
    BY <1>0
  <1>6. n \in Nat \X Nat /\ n[1] = runTurn[r] /\ n[2] = answers + 1
    BY <1>1
  <1>7. MessagesAreKnown'
    <2>1. ASSUME hasReply, NEW m, m = n PROVE StoredMessage(m)'
      BY <1>0, <1>1, <1>6, <2>1 DEF StoredMessage, TurnsAreOne
    <2> QED  BY <1>0, <1>4, <1>5, <2>1 DEF MessagesAreKnown
  <1> HIDE DEF n
  <1>8. TurnsAreOne'
    BY <1>0 DEF TurnsAreOne
  <1>9. PricesAreSingle'
    <2>1. MessageRow(n) \notin usageRows \cup txn.rows
      <3> SUFFICES ASSUME MessageRow(n) \in usageRows \cup txn.rows PROVE FALSE
        OBVIOUS
      <3>1. answers + 1 <= answers
        BY <1>6, MessageShape DEF RowsAreReal, RowIsReal
      <3> QED  BY <1>1, <3>1
    <2> QED  BY <1>0, <1>5, <2>1, PricesKept
  <1>10. RecordsAreSingle'
    <2>1. ASSUME NEW p \in inFlight PROVE p[1] # r
      <3>1. p[1] \in UsageRuns /\ p[2] \in DOMAIN usageTrace[p[1]] /\ p = <<p[1], p[2]>>
        BY DEF RecordsAreSingle, StatTypeOK
      <3>2. p[2] \in 1 .. MaxUsageEvents
        <4>1. Len(usageTrace[p[1]]) <= MaxUsageEvents
          BY <3>1 DEF TurnsAreOne
        <4>2. Len(usageTrace[p[1]]) \in Nat /\ p[2] \in 1 .. Len(usageTrace[p[1]])
          BY <3>1, TraceShape
        <4> QED  BY <4>1, <4>2, TokenStatsAssumption
      <3> QED  BY <1>0, <3>1, <3>2
    <2> QED  BY <1>0, <2>1 DEF RecordsAreSingle
  <1> QED  BY <1>3, <1>4, <1>7, <1>8, <1>9, <1>10

\* The row record_usage adds to the table.
IsRecord(n, r, k) ==
    /\ n.kind \in LiveKinds /\ n.run = r /\ n.seq = k /\ n.turn = chatTurn
    /\ n \in usageRows'
    /\ \A x \in usageRows' : x \in usageRows \/ x = n

\* What record_usage leaves of the table.
LEMMA RecordFacts ==
    ASSUME StatInv, NEW r \in liveRuns, NEW k \in Nat, RecordUsage(r, k)
    PROVE  /\ r \in UsageRuns /\ <<r, k>> \in inFlight /\ txn.rows = {} /\ txn.cursors = <<>>
           /\ runTurn[r] = chatTurn /\ k \in DOMAIN usageTrace[r]
           /\ \E n \in Row : IsRecord(n, r, k)
           /\ \A x \in usageRows :
                 x.kind # "message" /\ ~ (x.kind \in TraceKinds /\ x.run = r) => x \in usageRows'
           /\ \A x \in usageRows' : ~ (x.kind \in TraceKinds /\ x.run = r)
           /\ \A m \in transcript : MessageRow(m) \in usageRows' =>
                 ~ \E x \in usageRows' : x.kind # "message" /\ x.turn = m[1]
           /\ \A m \in transcript : MessageRow(m) \in usageRows /\ MessageRow(m) \notin usageRows' =>
                 \E x \in usageRows' : x.kind # "message" /\ x.turn = m[1]
  <1> USE DEF StatInv
  <1> DEFINE n == LiveRow(r, k, chatTurn, usageTrace[r][k].reported)
             rs == usageRows \cup {n}
  <1>0. /\ <<r, k>> \in inFlight /\ ~ txn.open
        /\ usageRows' = (rs \ Superseded(rs)) \ Imported(rs, r)
    BY DEF RecordUsage, MayWrite, ClearsEstimates, ClearsImported
  <1>1. r \in UsageRuns /\ chatTurn \in Nat
    BY DEF StatTypeOK
  <1>2. runTurn[r] = chatTurn /\ k \in DOMAIN usageTrace[r]
    <2>1. <<r, k>>[1] = r /\ <<r, k>>[2] = k
      OBVIOUS
    <2> QED  BY <1>0, <1>1, <2>1 DEF RecordsAreSingle, TurnsAreOne
  <1>3. n \in Row /\ n.kind \in LiveKinds /\ n.run = r /\ n.seq = k /\ n.turn = chatTurn
    BY <1>1 DEF LiveRow, Row, LiveKinds
  <1> HIDE DEF n
  <1>4. \A x \in Superseded(rs) : x.kind = "message" /\ \E m \in transcript : x = MessageRow(m)
    <2>1. transcript \in SUBSET (Nat \X Nat)
      BY DEF StatTypeOK
    <2> QED  BY <2>1, MessageShape DEF Superseded
  <1>5. \A x : x \in Imported(rs, r) <=> x \in rs /\ x.run = r /\ x.kind \in TraceKinds
    BY DEF Imported, TraceKinds
  <1>6. n \in usageRows'
    BY <1>0, <1>3, <1>4, <1>5, KindsDiffer
  <1>7. \A x \in usageRows : x.kind # "message" /\ ~ (x.kind \in TraceKinds /\ x.run = r) => x \in usageRows'
    BY <1>0, <1>4, <1>5
  <1>8. /\ \A x \in usageRows' : x \in usageRows \/ x = n
        /\ \A x \in usageRows' : ~ (x.kind \in TraceKinds /\ x.run = r)
    BY <1>0, <1>5
  <1>9. ASSUME NEW m \in transcript, MessageRow(m) \in usageRows',
               NEW x \in usageRows', x.kind # "message", x.turn = m[1]
        PROVE  FALSE
    <2>1. x \in rs
      BY <1>0
    <2>2. PricedByEvent(rs, m)
      BY <1>9, <2>1 DEF PricedByEvent, SameTurn
    <2>3. MessageRow(m) \in Superseded(rs)
      BY <2>2 DEF Superseded
    <2> QED  BY <1>0, <1>9, <2>3
  <1>10. ASSUME NEW m \in transcript, MessageRow(m) \in usageRows, MessageRow(m) \notin usageRows'
         PROVE  \E x \in usageRows' : x.kind # "message" /\ x.turn = m[1]
    <2>0. m \in Nat \X Nat /\ MessageRow(m).kind = "message" /\ transcript \in SUBSET (Nat \X Nat)
      BY MessageShape DEF StatTypeOK
    <2>1. MessageRow(m) \in Superseded(rs)
      BY <1>0, <1>5, <1>10, <2>0, KindsDiffer
    <2>2. PICK l \in transcript : MessageRow(l) = MessageRow(m) /\ PricedByEvent(rs, l)
      BY <2>1 DEF Superseded
    <2>3. l = m
      BY <2>0, <2>2, MessageRowsDiffer
    <2>4. PICK x \in rs : x.kind # "message" /\ x.turn = m[1]
      BY <2>2, <2>3 DEF PricedByEvent, SameTurn
    <2>5. CASE x.kind \in TraceKinds /\ x.run = r
      <3>1. x \in usageRows /\ RowIsReal(x)
        BY <1>3, <2>5, KindsDiffer DEF RowsAreReal
      <3>2. x.seq \in DOMAIN usageTrace[r] /\ x = TraceRow(r, x.seq)
        BY <2>5, <3>1 DEF RowIsReal
      <3>3. x.turn = usageTrace[r][x.seq].turn
        BY <1>1, <3>2, TraceShape
      <3>4. x.turn = chatTurn
        BY <1>1, <1>2, <3>2, <3>3 DEF TurnsAreOne
      <3> QED  BY <1>3, <1>6, <2>4, <3>4, KindsDiffer
    <2>6. CASE ~ (x.kind \in TraceKinds /\ x.run = r)
      BY <1>6, <1>7, <2>4, <2>6
    <2> QED  BY <2>5, <2>6
  <1>11. txn.rows = {} /\ txn.cursors = <<>>
    BY <1>0 DEF TxnIsImports
  <1>12. n \in Row /\ IsRecord(n, r, k)
    BY <1>3, <1>6, <1>8 DEF IsRecord
  <1> QED  BY <1>0, <1>1, <1>2, <1>7, <1>8, <1>9, <1>10, <1>11, <1>12

LEMMA RecordUsageStep ==
    ASSUME StatInv, NEW r \in liveRuns, NEW k \in Nat, RecordUsage(r, k)
    PROVE  StatInv'
  <1> USE DEF StatInv
  <1>0. /\ inFlight' = inFlight \ {<<r, k>>}
        /\ overtaken' = [runs |-> IF sync.phase \in {"read", "import"}
                                  THEN overtaken.runs \cup {r} ELSE overtaken.runs \ {r},
                         turns |-> IF sync.phase = "backfill"
                                   THEN overtaken.turns \cup {chatTurn} ELSE {}]
        /\ UNCHANGED <<chatTurn, transcript, answers, runTurn, streaming, ended, usageTrace, traceCursor,
                       sync, txn, statCrashes, liveRuns>>
    BY DEF RecordUsage
  <1>1. /\ r \in UsageRuns /\ <<r, k>> \in inFlight /\ txn.rows = {} /\ txn.cursors = <<>>
        /\ runTurn[r] = chatTurn /\ k \in DOMAIN usageTrace[r]
        /\ \A x \in usageRows :
              x.kind # "message" /\ ~ (x.kind \in TraceKinds /\ x.run = r) => x \in usageRows'
        /\ \A x \in usageRows' : ~ (x.kind \in TraceKinds /\ x.run = r)
        /\ \A m \in transcript : MessageRow(m) \in usageRows' =>
              ~ \E x \in usageRows' : x.kind # "message" /\ x.turn = m[1]
    BY RecordFacts
  <1>a. PICK n \in Row : IsRecord(n, r, k)
    BY RecordFacts
  <1>2. /\ n.kind \in LiveKinds /\ n.run = r /\ n.seq = k /\ n.turn = chatTurn
        /\ n \in Row /\ n \in usageRows'
        /\ \A x \in usageRows' : x \in usageRows \/ x = n
    BY <1>a DEF IsRecord
  <1>3. /\ overtaken'.runs = IF sync.phase \in {"read", "import"}
                             THEN overtaken.runs \cup {r} ELSE overtaken.runs \ {r}
        /\ overtaken'.turns = IF sync.phase = "backfill" THEN overtaken.turns \cup {chatTurn} ELSE {}
    BY <1>0
  <1>4. StatTypeOK'
    <2>1. overtaken' \in [runs : SUBSET UsageRuns, turns : SUBSET Nat]
      <3>1. overtaken.runs \in SUBSET UsageRuns /\ overtaken.turns \in SUBSET Nat /\ chatTurn \in Nat
        BY DEF StatTypeOK
      <3> QED  BY <1>0, <1>1, <3>1
    <2>2. usageRows' \in SUBSET Row
      BY <1>2 DEF StatTypeOK
    <2> QED  BY <1>0, <2>1, <2>2 DEF StatTypeOK
  <1>5. TurnsAreOne' /\ MessagesAreKnown'
    BY <1>0 DEF TurnsAreOne, MessagesAreKnown, StoredMessage
  <1>6. RowsAreReal'
    <2>1. \A x : RowIsReal(x) => RowIsReal(x)'
      BY <1>0 DEF RowIsReal, TraceRow, SourceSeq
    <2>2. RowIsReal(n)'
      BY <1>0, <1>1, <1>2, KindsDiffer DEF RowIsReal
    <2> QED  BY <1>0, <1>2, <2>1, <2>2 DEF RowsAreReal
  <1>7. RecordsAreSingle'
    <2>1. \A x \in usageRows : x.kind \in LiveKinds => ~ (x.run = r /\ x.seq = k)
      BY <1>1 DEF RecordsAreSingle
    <2>2. \A p \in inFlight' : p \in inFlight /\ p # <<r, k>>
      BY <1>0
    <2>3. \A p \in inFlight' : /\ p[1] \in liveRuns \cap streaming /\ p[2] \in DOMAIN usageTrace[p[1]]
                               /\ \A x \in usageRows' : x.kind \in LiveKinds => <<x.run, x.seq>> # p
      BY <1>2, <2>2 DEF RecordsAreSingle
    <2>4. \A x, y \in usageRows' :
             x.kind \in LiveKinds /\ y.kind \in LiveKinds /\ x.run = y.run /\ x.seq = y.seq => x = y
      BY <1>2, <2>1 DEF RecordsAreSingle
    <2> QED  BY <1>0, <2>3, <2>4 DEF RecordsAreSingle
  <1>8. TxnIsImports'
    BY <1>0 DEF TxnIsImports
  <1>9. \A q : HasLive(q) => HasLive(q)'
    <2>1. \A x \in usageRows : x.kind \in LiveKinds => x \in usageRows'
      BY <1>1, KindsDiffer
    <2> QED  BY <2>1 DEF HasLive
  <1>10. HasLive(r)' /\ \A q : HasLive(q)' => HasLive(q) \/ q = r
    BY <1>2 DEF HasLive
  <1>11. \A q : HasTrace(q)' => HasTrace(q) /\ q # r
    BY <1>0, <1>1, <1>2, KindsDiffer DEF HasTrace
  <1>12. ImportIsApart'
    <2>1. sync'.phase = "import" =>
             \A q \in sync'.runs : q \notin sync'.live /\ sync'.to[q] <= Len(usageTrace'[q])
      BY <1>0 DEF ImportIsApart
    <2>2. sync'.phase \in {"read", "import"} =>
             \A q \in UsageRuns : HasLive(q)' => q \in sync'.live \cup overtaken'.runs
      BY <1>0, <1>3, <1>10 DEF ImportIsApart
    <2>3. sync'.phase \in {"read", "import", "estimates", "select", "backfill", "done"} =>
             \A q \in UsageRuns : HasLive(q)' /\ HasTrace(q)' => q \in overtaken'.runs
      BY <1>0, <1>3, <1>10, <1>11 DEF ImportIsApart
    <2> QED  BY <2>1, <2>2, <2>3 DEF ImportIsApart
  <1>13. ASSUME NEW q \in UsageRuns, NEW j \in Nat, RowsCover(q, j, usageRows)
         PROVE  HasLive(q)' \/ \A i \in 1 .. j : \E x \in usageRows' : x.run = q /\ x.seq = i
    <2>1. CASE q = r \/ HasLive(q)
      BY <1>9, <1>10, <2>1
    <2>2. CASE q # r /\ ~ HasLive(q)
      <3>1. \A x \in usageRows : x.run = q => x \in usageRows'
        BY <1>1, <2>2, TokenStatsAssumption DEF RowsAreReal, RowIsReal
      <3> QED  BY <1>13, <2>2, <3>1 DEF RowsCover
    <2> QED  BY <2>1, <2>2
  <1>14. CursorsAreCovered'
    <2>1. /\ \A q \in UsageRuns : traceCursor[q] \in Nat /\ sync.from[q] \in Nat /\ sync.pos[q] \in Nat
          /\ usageRows \cup txn.rows = usageRows /\ usageRows' \cup txn'.rows = usageRows'
      BY <1>0, <1>1 DEF StatTypeOK
    <2>2. \A q \in UsageRuns, j \in Nat : RowsCover(q, j, usageRows) => RowsCover(q, j, usageRows)'
      BY <1>13 DEF RowsCover
    <2>3. \A i \in DOMAIN txn.cursors : FALSE
      BY <1>1
    <2>4. \A q \in UsageRuns : RowsCover(q, traceCursor[q], usageRows)'
      BY <1>0, <2>1, <1>13 DEF RowsCover, CursorsAreCovered
    <2>5. sync.phase \in {"live", "read"} => \A q \in UsageRuns : RowsCover(q, sync.from[q], usageRows)'
      BY <1>0, <2>1, <1>13 DEF RowsCover, CursorsAreCovered
    <2>6. sync.phase = "import" => \A q \in UsageRuns : RowsCover(q, sync.pos[q], usageRows)'
      BY <1>0, <2>1, <1>13 DEF RowsCover, CursorsAreCovered
    <2> QED  BY <1>0, <2>1, <2>3, <2>4, <2>5, <2>6 DEF CursorsAreCovered, RowsCover
  <1>15. PricesAreSingle'
    <2>1. \A m \in transcript : MessageRow(m) \in usageRows' \cup txn'.rows => ~ EventOf(m[1])'
      BY <1>0, <1>1 DEF EventOf
    <2>2. \A t : EventOf(t)' => EventOf(t) \/ t = chatTurn
      BY <1>2 DEF EventOf
    <2>3. sync.phase = "backfill" =>
             \A m \in sync.messages : EventOf(m[1])' => m[1] \in overtaken'.turns
      BY <1>3, <2>2 DEF PricesAreSingle
    <2> QED  BY <1>0, <2>1, <2>3 DEF PricesAreSingle, EventOf
  <1> QED  BY <1>4, <1>5, <1>6, <1>7, <1>8, <1>12, <1>14, <1>15
-----------------------------------------------------------------------------
\* A step of the import leaves the requests alone.
LEMMA RequestsKept ==
    ASSUME StatInv, UNCHANGED requestVars,
           usageRows' \in SUBSET Row,
           \A x \in usageRows' : x.kind \in LiveKinds => x \in usageRows
    PROVE  /\ TurnsAreOne' /\ RecordsAreSingle'
           /\ \A x : RowIsReal(x) => RowIsReal(x)'
           /\ \A m : StoredMessage(m) => StoredMessage(m)'
           /\ UNCHANGED <<liveRuns, chatTurn, transcript, answers, runTurn, streaming, ended,
                          usageTrace, inFlight>>
  <1>1. UNCHANGED <<liveRuns, chatTurn, transcript, answers, runTurn, streaming, ended, usageTrace, inFlight>>
    BY DEF requestVars
  <1>2. TurnsAreOne'
    BY <1>1 DEF StatInv, TurnsAreOne
  <1>3. RecordsAreSingle'
    BY <1>1 DEF StatInv, RecordsAreSingle
  <1>4. \A x : RowIsReal(x) => RowIsReal(x)'
    BY <1>1 DEF RowIsReal, TraceRow, SourceSeq
  <1>5. \A m : StoredMessage(m) => StoredMessage(m)'
    BY <1>1 DEF StoredMessage
  <1> QED  BY <1>1, <1>2, <1>3, <1>4, <1>5

\* So does one that only moves the import's locals.
LEMMA LocalStep ==
    ASSUME StatInv, UNCHANGED <<requestVars, usageRows, traceCursor, txn, overtaken, statCrashes>>,
           sync' \in [phase : Phases, runs : SUBSET UsageRuns, live : SUBSET UsageRuns,
                      from : [UsageRuns -> Nat], pos : [UsageRuns -> Nat], to : [UsageRuns -> Nat],
                      messages : SUBSET (Nat \X Nat)],
           \A m \in sync'.messages : m \in transcript \/ m \in sync.messages,
           txn.open => sync'.phase \in {"import", "backfill"},
           sync'.phase = "backfill" => \A x \in txn.rows : x.kind = "message",
           ImportIsApart', CursorsAreCovered', PricesAreSingle'
    PROVE  StatInv'
  <1> USE DEF StatInv
  <1>1. usageRows' \in SUBSET Row /\ \A x \in usageRows' : x.kind \in LiveKinds => x \in usageRows
    BY DEF StatTypeOK
  <1>2. /\ TurnsAreOne' /\ RecordsAreSingle'
        /\ \A x : RowIsReal(x) => RowIsReal(x)'
        /\ \A m : StoredMessage(m) => StoredMessage(m)'
        /\ UNCHANGED <<liveRuns, chatTurn, transcript, answers, runTurn, streaming, ended,
                       usageTrace, inFlight>>
    BY <1>1, RequestsKept
  <1>3. StatTypeOK'
    BY <1>2 DEF StatTypeOK
  <1>4. RowsAreReal'
    BY <1>2 DEF RowsAreReal
  <1>5. MessagesAreKnown'
    BY <1>2 DEF MessagesAreKnown
  <1>6. TxnIsImports'
    BY DEF TxnIsImports
  <1> QED  BY <1>2, <1>3, <1>4, <1>5, <1>6

LEMMA SyncShape ==
    ASSUME StatTypeOK
    PROVE  /\ sync = [phase |-> sync.phase, runs |-> sync.runs, live |-> sync.live, from |-> sync.from,
                      pos |-> sync.pos, to |-> sync.to, messages |-> sync.messages]
           /\ sync.phase \in Phases /\ sync.runs \in SUBSET UsageRuns /\ sync.live \in SUBSET UsageRuns
           /\ sync.from \in [UsageRuns -> Nat] /\ sync.pos \in [UsageRuns -> Nat]
           /\ sync.to \in [UsageRuns -> Nat] /\ sync.messages \in SUBSET (Nat \X Nat)
           /\ traceCursor \in [UsageRuns -> Nat] /\ transcript \in SUBSET (Nat \X Nat)
  BY DEF StatTypeOK

LEMMA SyncScanStep ==
    ASSUME StatInv, SyncScan
    PROVE  StatInv'
  <1> USE DEF StatInv
  <1>0. /\ sync.phase = "scan"
        /\ sync' = [sync EXCEPT !.phase = "live", !.from = traceCursor,
                                !.runs = {r \in UsageRuns : usageTrace[r] # <<>>}]
        /\ UNCHANGED <<requestVars, usageRows, traceCursor, txn, overtaken, statCrashes>>
    BY DEF SyncScan
  <1>1. /\ sync'.phase = "live" /\ sync'.from = traceCursor /\ sync'.messages = sync.messages
        /\ sync' \in [phase : Phases, runs : SUBSET UsageRuns, live : SUBSET UsageRuns,
                      from : [UsageRuns -> Nat], pos : [UsageRuns -> Nat], to : [UsageRuns -> Nat],
                      messages : SUBSET (Nat \X Nat)]
    BY <1>0, SyncShape DEF Phases
  <1>2. ~ txn.open /\ txn.cursors = <<>>
    BY <1>0 DEF TxnIsImports
  <1>3. ImportIsApart' /\ PricesAreSingle'
    BY <1>1 DEF ImportIsApart, PricesAreSingle
  <1>4. CursorsAreCovered'
    <2>1. \A r \in UsageRuns : RowsCover(r, traceCursor[r], usageRows)'
      BY <1>0 DEF CursorsAreCovered, RowsCover, HasLive
    <2>2. \A i \in DOMAIN txn'.cursors : FALSE
      BY <1>0, <1>2
    <2> QED  BY <1>0, <1>1, <2>1, <2>2 DEF CursorsAreCovered, RowsCover, HasLive
  <1> QED  BY <1>0, <1>1, <1>2, <1>3, <1>4, LocalStep

LEMMA SyncReadStep ==
    ASSUME StatInv, SyncRead
    PROVE  StatInv'
  <1> USE DEF StatInv
  <1>0. /\ sync.phase = "read"
        /\ UNCHANGED <<requestVars, usageRows, traceCursor, txn, overtaken, statCrashes>>
    BY DEF SyncRead
  <1>a. PICK skipped \in SUBSET (sync.runs \ sync.live) :
          LET taken == (sync.runs \ sync.live) \ skipped IN
          sync' = [sync EXCEPT !.phase = "import", !.runs = taken, !.pos = sync.from,
                       !.to = [r \in UsageRuns |-> IF r \in taken THEN Len(usageTrace[r])
                                                   ELSE sync.from[r]]]
    BY DEF SyncRead
  <1> DEFINE taken == (sync.runs \ sync.live) \ skipped
             ends == [r \in UsageRuns |-> IF r \in taken THEN Len(usageTrace[r]) ELSE sync.from[r]]
  <1>b. ends \in [UsageRuns -> Nat] /\ taken \in SUBSET UsageRuns
        /\ \A r \in taken : ends[r] = Len(usageTrace[r]) /\ ends[r] \in Nat
    BY SyncShape, TraceShape
  <1>1. /\ sync'.phase = "import" /\ sync'.pos = sync.from /\ sync'.messages = sync.messages
        /\ sync'.runs = taken /\ sync'.to = ends /\ sync'.live = sync.live
        /\ sync' \in [phase : Phases, runs : SUBSET UsageRuns, live : SUBSET UsageRuns,
                      from : [UsageRuns -> Nat], pos : [UsageRuns -> Nat], to : [UsageRuns -> Nat],
                      messages : SUBSET (Nat \X Nat)]
    <2> HIDE DEF taken, ends
    <2>1. sync' = [sync EXCEPT !.phase = "import", !.runs = taken, !.pos = sync.from, !.to = ends]
      BY <1>a DEF taken, ends
    <2> QED  BY <1>b, <2>1, SyncShape DEF Phases
  <1> HIDE DEF ends
  <1>2. ~ txn.open /\ txn.cursors = <<>> /\ txn.rows = {}
    BY <1>0 DEF TxnIsImports
  <1>3. PricesAreSingle'
    BY <1>1 DEF PricesAreSingle
  <1>4. ImportIsApart'
    <2>1. \A r \in taken : r \notin sync.live /\ ends[r] <= Len(usageTrace[r])
      BY <1>b
    <2>2. usageTrace' = usageTrace
      BY <1>0 DEF requestVars
    <2>3. \A r : HasLive(r)' = HasLive(r) /\ HasTrace(r)' = HasTrace(r)
      BY <1>0 DEF HasLive, HasTrace
    <2> QED  BY <1>0, <1>1, <2>1, <2>2, <2>3 DEF ImportIsApart
  <1>5. CursorsAreCovered'
    BY <1>0, <1>1, <1>2 DEF CursorsAreCovered, RowsCover, HasLive
  <1> QED  BY <1>0, <1>1, <1>2, <1>3, <1>4, <1>5, LocalStep

LEMMA SyncImportedStep ==
    ASSUME StatInv, SyncImported
    PROVE  StatInv'
  <1> USE DEF StatInv
  <1>0. /\ sync.phase = "import" /\ ~ txn.open /\ sync' = [sync EXCEPT !.phase = "estimates"]
        /\ UNCHANGED <<requestVars, usageRows, traceCursor, txn, overtaken, statCrashes>>
    BY DEF SyncImported
  <1>1. /\ sync'.phase = "estimates" /\ sync'.messages = sync.messages
        /\ sync' \in [phase : Phases, runs : SUBSET UsageRuns, live : SUBSET UsageRuns,
                      from : [UsageRuns -> Nat], pos : [UsageRuns -> Nat], to : [UsageRuns -> Nat],
                      messages : SUBSET (Nat \X Nat)]
    BY <1>0, SyncShape DEF Phases
  <1>2. \A r : HasLive(r)' = HasLive(r) /\ HasTrace(r)' = HasTrace(r)
    BY <1>0 DEF HasLive, HasTrace
  <1>3. ImportIsApart' /\ PricesAreSingle' /\ CursorsAreCovered'
    BY <1>0, <1>1, <1>2 DEF ImportIsApart, PricesAreSingle, CursorsAreCovered, RowsCover, HasLive
  <1> QED  BY <1>0, <1>1, <1>3, LocalStep

LEMMA SyncSelectStep ==
    ASSUME StatInv, SyncSelect
    PROVE  StatInv'
  <1> USE DEF StatInv
  <1>0. /\ sync.phase = "select"
        /\ sync' = [sync EXCEPT !.phase = "backfill", !.messages = Unpriced(usageRows)]
        /\ UNCHANGED <<requestVars, usageRows, traceCursor, txn, overtaken, statCrashes>>
    BY DEF SyncSelect
  <1>1. Unpriced(usageRows) \in SUBSET transcript /\ \A m \in Unpriced(usageRows) : ~ EventOf(m[1])
    BY DEF Unpriced, PricedByEvent, SameTurn, EventOf
  <1>2. /\ sync'.phase = "backfill" /\ sync'.messages = Unpriced(usageRows)
        /\ sync' \in [phase : Phases, runs : SUBSET UsageRuns, live : SUBSET UsageRuns,
                      from : [UsageRuns -> Nat], pos : [UsageRuns -> Nat], to : [UsageRuns -> Nat],
                      messages : SUBSET (Nat \X Nat)]
    BY <1>0, <1>1, SyncShape DEF Phases
  <1>3. ~ txn.open /\ txn.rows = {} /\ txn.cursors = <<>>
    BY <1>0 DEF TxnIsImports
  <1>4. \A r : HasLive(r)' = HasLive(r) /\ HasTrace(r)' = HasTrace(r)
    BY <1>0 DEF HasLive, HasTrace
  <1>5. ImportIsApart' /\ CursorsAreCovered'
    BY <1>0, <1>2, <1>3, <1>4 DEF ImportIsApart, CursorsAreCovered, RowsCover, HasLive
  <1>6. PricesAreSingle'
    <2>1. transcript' = transcript
      BY <1>0 DEF requestVars
    <2> QED  BY <1>0, <1>1, <1>2, <2>1 DEF PricesAreSingle, EventOf
  <1> QED  BY <1>0, <1>1, <1>2, <1>3, <1>5, <1>6, LocalStep

LEMMA SyncDoneStep ==
    ASSUME StatInv, SyncDone
    PROVE  StatInv'
  <1> USE DEF StatInv
  <1>0. /\ sync.phase = "backfill" /\ ~ txn.open /\ sync' = [NoSync EXCEPT !.phase = "done"]
        /\ UNCHANGED <<requestVars, usageRows, traceCursor, txn, overtaken, statCrashes>>
    BY DEF SyncDone
  <1>1. /\ sync'.phase = "done" /\ sync'.messages = {}
        /\ sync' \in [phase : Phases, runs : SUBSET UsageRuns, live : SUBSET UsageRuns,
                      from : [UsageRuns -> Nat], pos : [UsageRuns -> Nat], to : [UsageRuns -> Nat],
                      messages : SUBSET (Nat \X Nat)]
    BY <1>0 DEF Phases, NoSync
  <1>2. \A r : HasLive(r)' = HasLive(r) /\ HasTrace(r)' = HasTrace(r)
    BY <1>0 DEF HasLive, HasTrace
  <1>3. ImportIsApart' /\ CursorsAreCovered'
    BY <1>0, <1>1, <1>2 DEF ImportIsApart, CursorsAreCovered, RowsCover, HasLive
  <1>4. PricesAreSingle'
    <2>1. transcript' = transcript
      BY <1>0 DEF requestVars
    <2> QED  BY <1>0, <1>1, <2>1 DEF PricesAreSingle, EventOf
  <1> QED  BY <1>0, <1>1, <1>3, <1>4, LocalStep

\* The import starts anew or gives up.
LEMMA SyncStops ==
    ASSUME StatInv, SyncFails \/ StatCrash
    PROVE  StatInv'
  <1> USE DEF StatInv
  <1>0. /\ UNCHANGED <<chatTurn, transcript, answers, runTurn, ended, usageTrace, usageRows, traceCursor,
                       overtaken, liveRuns>>
        /\ txn' = NoTxn /\ sync' \in {NoSync, [NoSync EXCEPT !.phase = "failed"]}
        /\ \/ streaming' = streaming /\ inFlight' = inFlight /\ statCrashes' = statCrashes
           \/ streaming' = {} /\ inFlight' = {} /\ statCrashes' = statCrashes + 1
    BY DEF SyncFails, StatCrash, requestVars
  <1>1. /\ sync'.phase \in {"scan", "failed"} /\ sync'.messages = {}
        /\ sync' \in [phase : Phases, runs : SUBSET UsageRuns, live : SUBSET UsageRuns,
                      from : [UsageRuns -> Nat], pos : [UsageRuns -> Nat], to : [UsageRuns -> Nat],
                      messages : SUBSET (Nat \X Nat)]
        /\ txn'.open = FALSE /\ txn'.rows = {} /\ txn'.cursors = <<>>
    BY <1>0 DEF Phases, NoSync, NoTxn
  <1>2. StatTypeOK'
    <2>1. txn' \in [open : BOOLEAN, rows : SUBSET Row, cursors : Seq(UsageRuns \X Nat)]
      BY <1>0 DEF NoTxn
    <2> QED  BY <1>0, <1>1, <2>1 DEF StatTypeOK
  <1>3. TurnsAreOne'
    BY <1>0 DEF TurnsAreOne
  <1>4. MessagesAreKnown'
    BY <1>0, <1>1 DEF MessagesAreKnown, StoredMessage
  <1>5. RowsAreReal'
    <2>1. \A x : RowIsReal(x) => RowIsReal(x)'
      BY <1>0 DEF RowIsReal, TraceRow, SourceSeq
    <2> QED  BY <1>0, <1>1, <2>1 DEF RowsAreReal
  <1>6. RecordsAreSingle'
    BY <1>0 DEF RecordsAreSingle
  <1>7. TxnIsImports' /\ ImportIsApart' /\ PricesAreSingle'
    BY <1>1 DEF TxnIsImports, ImportIsApart, PricesAreSingle
  <1>8. CursorsAreCovered'
    BY <1>0, <1>1 DEF CursorsAreCovered, RowsCover, HasLive
  <1> QED  BY <1>2, <1>3, <1>4, <1>5, <1>6, <1>7, <1>8

LEMMA SyncHealStep ==
    ASSUME StatInv, SyncHeal
    PROVE  /\ StatInv'
           /\ \A x \in usageRows : x.kind = "message" => x \in usageRows'
           /\ \A x \in usageRows : x.kind # "message" =>
                 \E y \in usageRows' : y.kind # "message" /\ y.turn = x.turn
  <1> USE DEF StatInv
  <1>0. /\ sync.phase = "live"
        /\ sync' = [sync EXCEPT !.phase = "read", !.live = LiveRecorded(usageRows)]
        /\ usageRows' = usageRows \ UNION {Imported(usageRows, r) : r \in LiveRecorded(usageRows)}
        /\ overtaken' = [overtaken EXCEPT !.runs = {}]
        /\ UNCHANGED <<requestVars, traceCursor, txn, statCrashes>>
    BY DEF SyncHeal
  <1>1. /\ usageRows \in SUBSET Row /\ liveRuns \in SUBSET UsageRuns
        /\ overtaken \in [runs : SUBSET UsageRuns, turns : SUBSET Nat]
    BY DEF StatTypeOK
  <1>2. \A r \in LiveRecorded(usageRows) : HasLive(r) /\ r \in UsageRuns
    BY <1>1, LiveRecordedForm DEF HasLive, RowsAreReal, RowIsReal
  <1>3. \A x : x \in usageRows' <=> x \in usageRows /\ ~ (x.kind \in TraceKinds /\ HasLive(x.run))
    BY <1>0, LiveRecordedForm DEF Imported, TraceKinds
  <1>4. /\ sync'.phase = "read" /\ sync'.live = LiveRecorded(usageRows) /\ sync'.from = sync.from
        /\ sync'.messages = sync.messages
        /\ sync' \in [phase : Phases, runs : SUBSET UsageRuns, live : SUBSET UsageRuns,
                      from : [UsageRuns -> Nat], pos : [UsageRuns -> Nat], to : [UsageRuns -> Nat],
                      messages : SUBSET (Nat \X Nat)]
    BY <1>0, <1>2, SyncShape DEF Phases
  <1>5. ~ txn.open /\ txn.rows = {} /\ txn.cursors = <<>>
    BY <1>0 DEF TxnIsImports
  <1>6. usageRows' \in SUBSET Row /\ \A x \in usageRows' : x.kind \in LiveKinds => x \in usageRows
    BY <1>1, <1>3
  <1>7. /\ TurnsAreOne' /\ RecordsAreSingle'
        /\ \A x : RowIsReal(x) => RowIsReal(x)'
        /\ \A m : StoredMessage(m) => StoredMessage(m)'
        /\ UNCHANGED <<liveRuns, chatTurn, transcript, answers, runTurn, streaming, ended,
                       usageTrace, inFlight>>
    BY <1>0, <1>6, RequestsKept
  <1>8. StatTypeOK'
    <2>1. overtaken' \in [runs : SUBSET UsageRuns, turns : SUBSET Nat]
      BY <1>0, <1>1
    <2> QED  BY <1>0, <1>4, <1>6, <1>7, <2>1 DEF StatTypeOK
  <1>9. RowsAreReal' /\ MessagesAreKnown'
    BY <1>0, <1>3, <1>4, <1>7 DEF RowsAreReal, MessagesAreKnown
  <1>10. TxnIsImports' /\ PricesAreSingle'
    BY <1>0, <1>4, <1>5 DEF TxnIsImports, PricesAreSingle
  <1>11. \A r : HasLive(r)' <=> HasLive(r)
    BY <1>3, KindsDiffer DEF HasLive
  <1>12. ImportIsApart'
    <2>1. \A r \in UsageRuns : HasLive(r)' => r \in sync'.live
      BY <1>4, <1>11, LiveRecordedForm
    <2>2. \A r \in UsageRuns : ~ (HasLive(r)' /\ HasTrace(r)')
      BY <1>0, <1>3, <1>5, <1>11 DEF HasTrace
    <2> QED  BY <1>4, <2>1, <2>2 DEF ImportIsApart
  <1>13. \A r \in UsageRuns, n \in Nat : RowsCover(r, n, usageRows) =>
            HasLive(r)' \/ \A k \in 1 .. n : \E x \in usageRows' : x.run = r /\ x.seq = k
    BY <1>3, <1>11 DEF RowsCover
  <1>14. CursorsAreCovered'
    <2>1. \A r \in UsageRuns : traceCursor[r] \in Nat /\ sync.from[r] \in Nat
      BY SyncShape
    <2>2. \A r \in UsageRuns : RowsCover(r, traceCursor[r], usageRows)'
      BY <1>0, <1>13, <2>1 DEF RowsCover, CursorsAreCovered
    <2>3. \A r \in UsageRuns : RowsCover(r, sync.from[r], usageRows)'
      BY <1>0, <1>4, <1>13, <2>1 DEF RowsCover, CursorsAreCovered
    <2>4. \A i \in DOMAIN txn'.cursors : FALSE
      BY <1>0, <1>5
    <2> QED  BY <1>0, <1>4, <2>2, <2>3, <2>4 DEF CursorsAreCovered
  <1>15. \A x \in usageRows : x.kind = "message" => x \in usageRows'
    BY <1>3, KindsDiffer
  <1>16. ASSUME NEW x \in usageRows, x.kind # "message"
         PROVE  \E y \in usageRows' : y.kind # "message" /\ y.turn = x.turn
    <2>1. CASE ~ (x.kind \in TraceKinds /\ HasLive(x.run))
      BY <1>3, <1>16, <2>1
    <2>2. CASE x.kind \in TraceKinds /\ HasLive(x.run)
      <3>1. PICK y \in usageRows : y.kind \in LiveKinds /\ y.run = x.run
        BY <2>2 DEF HasLive
      <3>2. y \in usageRows' /\ y.kind # "message"
        BY <1>3, <3>1, KindsDiffer
      <3>3. RowIsReal(x) /\ RowIsReal(y)
        BY DEF RowsAreReal
      <3>4. y.turn = runTurn[x.run] /\ x.run \in liveRuns /\ x.run \in UsageRuns
        BY <1>1, <3>1, <3>3 DEF RowIsReal
      <3>5. x.seq \in DOMAIN usageTrace[x.run] /\ x = TraceRow(x.run, x.seq)
        BY <2>2, <3>3 DEF RowIsReal
      <3>6. x.turn = runTurn[x.run]
        BY <3>4, <3>5, TraceShape DEF TurnsAreOne
      <3> QED  BY <3>2, <3>4, <3>6
    <2> QED  BY <2>1, <2>2
  <1> QED  BY <1>7, <1>8, <1>9, <1>10, <1>12, <1>14, <1>15, <1>16

\* The transaction, grown by a row the import writes or by a cursor.
LEMMA TxnStep ==
    ASSUME StatInv, UNCHANGED <<requestVars, usageRows, traceCursor, overtaken, statCrashes>>,
           sync' \in [phase : Phases, runs : SUBSET UsageRuns, live : SUBSET UsageRuns,
                      from : [UsageRuns -> Nat], pos : [UsageRuns -> Nat], to : [UsageRuns -> Nat],
                      messages : SUBSET (Nat \X Nat)],
           sync'.phase = sync.phase, sync'.messages \in SUBSET sync.messages,
           sync.phase \in {"import", "backfill"},
           txn' \in [open : BOOLEAN, rows : SUBSET Row, cursors : Seq(UsageRuns \X Nat)],
           txn'.open,
           \A x \in txn'.rows : \/ x \in txn.rows
                                \/ /\ RowIsReal(x) /\ x.kind \notin LiveKinds
                                   /\ sync.phase = "backfill" => x.kind = "message",
           ImportIsApart', CursorsAreCovered', PricesAreSingle'
    PROVE  StatInv'
  <1> USE DEF StatInv
  <1>1. usageRows' \in SUBSET Row /\ \A x \in usageRows' : x.kind \in LiveKinds => x \in usageRows
    BY DEF StatTypeOK
  <1>2. /\ TurnsAreOne' /\ RecordsAreSingle'
        /\ \A x : RowIsReal(x) => RowIsReal(x)'
        /\ \A m : StoredMessage(m) => StoredMessage(m)'
        /\ UNCHANGED <<liveRuns, chatTurn, transcript, answers, runTurn, streaming, ended,
                       usageTrace, inFlight>>
    BY <1>1, RequestsKept
  <1>3. StatTypeOK'
    BY <1>2 DEF StatTypeOK
  <1>4. RowsAreReal'
    BY <1>2 DEF RowsAreReal
  <1>5. MessagesAreKnown'
    BY <1>2 DEF MessagesAreKnown
  <1>6. TxnIsImports'
    BY DEF TxnIsImports
  <1> QED  BY <1>2, <1>3, <1>4, <1>5, <1>6

LEMMA TxnShape ==
    ASSUME StatTypeOK
    PROVE  /\ txn = [open |-> txn.open, rows |-> txn.rows, cursors |-> txn.cursors]
           /\ txn.open \in BOOLEAN /\ txn.rows \in SUBSET Row
           /\ txn.cursors \in Seq(UsageRuns \X Nat)
  BY DEF StatTypeOK

LEMMA SyncInsertStep ==
    ASSUME StatInv, NEW r \in UsageRuns, SyncInsert(r)
    PROVE  StatInv'
  <1> USE DEF StatInv
  <1> DEFINE n == TraceRow(r, sync.pos[r] + 1)
  <1>0. /\ sync.phase = "import" /\ r \in sync.runs /\ sync.pos[r] < sync.to[r]
        /\ sync' = [sync EXCEPT !.pos[r] = @ + 1]
        /\ txn' = [txn EXCEPT !.open = TRUE, !.rows = @ \cup {n}]
        /\ UNCHANGED <<requestVars, usageRows, traceCursor, overtaken, statCrashes>>
    BY DEF SyncInsert
  <1>1. /\ sync.pos \in [UsageRuns -> Nat] /\ sync.pos[r] \in Nat /\ sync.to[r] \in Nat
        /\ sync.pos[r] + 1 \in Nat
    BY SyncShape
  <1>2. sync.pos[r] + 1 \in DOMAIN usageTrace[r]
    <2>1. sync.to[r] <= Len(usageTrace[r])
      BY <1>0 DEF ImportIsApart
    <2> QED  BY <1>0, <1>1, <2>1, TraceShape
  <1>3. n \in Row /\ n.kind \in TraceKinds /\ n.run = r /\ n.seq = sync.pos[r] + 1 /\ RowIsReal(n)
    <2>1. n \in Row /\ n.kind \in TraceKinds /\ n.run = r /\ n.seq = sync.pos[r] + 1
      BY <1>2, TraceShape
    <2> QED  BY <1>2, <2>1, KindsDiffer DEF RowIsReal
  <1> HIDE DEF n
  <1>4. /\ sync'.phase = "import" /\ sync'.runs = sync.runs /\ sync'.live = sync.live
        /\ sync'.to = sync.to /\ sync'.messages = sync.messages
        /\ sync'.pos = [sync.pos EXCEPT ![r] = @ + 1] /\ sync'.pos \in [UsageRuns -> Nat]
        /\ sync' \in [phase : Phases, runs : SUBSET UsageRuns, live : SUBSET UsageRuns,
                      from : [UsageRuns -> Nat], pos : [UsageRuns -> Nat], to : [UsageRuns -> Nat],
                      messages : SUBSET (Nat \X Nat)]
    BY <1>0, <1>1, SyncShape DEF Phases
  <1>5. /\ txn'.open /\ txn'.rows = txn.rows \cup {n} /\ txn'.cursors = txn.cursors
        /\ txn' \in [open : BOOLEAN, rows : SUBSET Row, cursors : Seq(UsageRuns \X Nat)]
    BY <1>0, <1>3, TxnShape
  <1>6. usageTrace' = usageTrace
    BY <1>0 DEF requestVars
  <1>7. \A q : HasLive(q)' <=> HasLive(q)
    BY <1>0 DEF HasLive
  <1>8. \A q : HasTrace(q)' => HasTrace(q) \/ q = r
    BY <1>0, <1>3, <1>5 DEF HasTrace
  <1>9. ImportIsApart'
    BY <1>0, <1>4, <1>6, <1>7, <1>8 DEF ImportIsApart
  <1>10. CursorsAreCovered'
    <2>1. \A q, j : RowsCover(q, j, usageRows \cup txn.rows) =>
             HasLive(q) \/ \A k \in 1 .. j : \E x \in usageRows' \cup txn'.rows : x.run = q /\ x.seq = k
      BY <1>0, <1>5 DEF RowsCover
    <2>2. ASSUME NEW q \in UsageRuns, ~ HasLive(q), NEW k \in 1 .. sync'.pos[q]
          PROVE  \E x \in usageRows' \cup txn'.rows : x.run = q /\ x.seq = k
      <3>1. CASE q = r /\ k = sync.pos[r] + 1
        BY <1>3, <1>5, <3>1
      <3>2. CASE ~ (q = r /\ k = sync.pos[r] + 1)
        <4>1. k \in 1 .. sync.pos[q]
          BY <1>1, <1>4, <3>2
        <4>2. RowsCover(q, sync.pos[q], usageRows \cup txn.rows)
          BY <1>0 DEF CursorsAreCovered
        <4> QED  BY <2>1, <2>2, <4>1, <4>2
      <3> QED  BY <3>1, <3>2
    <2>3. \A q \in UsageRuns : RowsCover(q, sync.pos[q], usageRows \cup txn.rows)'
      BY <1>7, <2>2 DEF RowsCover
    <2>4. \A q \in UsageRuns : RowsCover(q, traceCursor[q], usageRows)'
      BY <1>0 DEF CursorsAreCovered, RowsCover, HasLive
    <2>5. \A i \in DOMAIN txn'.cursors :
             RowsCover(txn.cursors[i][1], txn.cursors[i][2], usageRows \cup txn.rows)'
      BY <1>0, <1>5, <1>7, <2>1 DEF CursorsAreCovered, RowsCover
    <2> QED  BY <1>4, <2>3, <2>4, <2>5 DEF CursorsAreCovered
  <1>11. PricesAreSingle'
    BY <1>4 DEF PricesAreSingle
  <1>12. \A x \in txn'.rows : \/ x \in txn.rows
                              \/ /\ RowIsReal(x) /\ x.kind \notin LiveKinds
                                 /\ sync.phase = "backfill" => x.kind = "message"
    BY <1>0, <1>3, <1>5, KindsDiffer
  <1> QED  BY <1>0, <1>4, <1>5, <1>9, <1>10, <1>11, <1>12, TxnStep

LEMMA SyncCursorStep ==
    ASSUME StatInv, NEW r \in UsageRuns, SyncCursor(r)
    PROVE  StatInv'
  <1> USE DEF StatInv
  <1> DEFINE c == <<r, sync.to[r]>>
  <1>0. /\ sync.phase = "import" /\ r \in sync.runs /\ sync.pos[r] = sync.to[r]
        /\ sync' = [sync EXCEPT !.runs = IF sync.pos[r] = sync.to[r] THEN @ \ {r} ELSE @]
        /\ txn' = [txn EXCEPT !.open = TRUE, !.cursors = Append(@, c)]
        /\ UNCHANGED <<requestVars, usageRows, traceCursor, overtaken, statCrashes>>
    BY DEF SyncCursor, CursorDue
  <1>1. c \in UsageRuns \X Nat /\ c[1] = r /\ c[2] = sync.pos[r]
    BY <1>0, SyncShape
  <1> HIDE DEF c
  <1>2. /\ sync'.phase = "import" /\ sync'.runs \in SUBSET sync.runs /\ sync'.live = sync.live
        /\ sync'.to = sync.to /\ sync'.messages = sync.messages /\ sync'.pos = sync.pos
        /\ sync' \in [phase : Phases, runs : SUBSET UsageRuns, live : SUBSET UsageRuns,
                      from : [UsageRuns -> Nat], pos : [UsageRuns -> Nat], to : [UsageRuns -> Nat],
                      messages : SUBSET (Nat \X Nat)]
    BY <1>0, SyncShape DEF Phases
  <1>3. /\ txn'.open /\ txn'.rows = txn.rows /\ txn'.cursors = Append(txn.cursors, c)
        /\ txn' \in [open : BOOLEAN, rows : SUBSET Row, cursors : Seq(UsageRuns \X Nat)]
    <2>1. txn.cursors \in Seq(UsageRuns \X Nat) /\ Append(txn.cursors, c) \in Seq(UsageRuns \X Nat)
      BY <1>1, TxnShape
    <2> QED  BY <1>0, <2>1, TxnShape
  <1>4. \A i \in DOMAIN txn'.cursors :
           \/ i \in DOMAIN txn.cursors /\ txn'.cursors[i] = txn.cursors[i]
           \/ txn'.cursors[i] = c
    <2>1. txn.cursors \in Seq(UsageRuns \X Nat)
      BY TxnShape
    <2> QED  BY <1>1, <1>3, <2>1
  <1>5. usageTrace' = usageTrace
    BY <1>0 DEF requestVars
  <1>6. \A q : (HasLive(q)' <=> HasLive(q)) /\ (HasTrace(q)' <=> HasTrace(q))
    BY <1>0, <1>3 DEF HasLive, HasTrace
  <1>7. ImportIsApart'
    BY <1>0, <1>2, <1>5, <1>6 DEF ImportIsApart
  <1>8. CursorsAreCovered'
    <2>1. \A q, j : RowsCover(q, j, usageRows \cup txn.rows) =>
             HasLive(q)' \/ \A k \in 1 .. j : \E x \in usageRows' \cup txn'.rows : x.run = q /\ x.seq = k
      BY <1>0, <1>3, <1>6 DEF RowsCover
    <2>2. \A q \in UsageRuns : RowsCover(q, sync.pos[q], usageRows \cup txn.rows)
      BY <1>0 DEF CursorsAreCovered
    <2>3. \A q \in UsageRuns : RowsCover(q, sync.pos[q], usageRows \cup txn.rows)'
      BY <1>2, <2>1, <2>2 DEF RowsCover
    <2>4. \A q \in UsageRuns : RowsCover(q, traceCursor[q], usageRows)'
      BY <1>0, <1>6 DEF CursorsAreCovered, RowsCover
    <2>5. ASSUME NEW i \in DOMAIN txn'.cursors
          PROVE  RowsCover(txn.cursors[i][1], txn.cursors[i][2], usageRows \cup txn.rows)'
      <3>1. CASE txn'.cursors[i] = c
        BY <1>1, <2>1, <2>2, <3>1 DEF RowsCover
      <3>2. CASE i \in DOMAIN txn.cursors /\ txn'.cursors[i] = txn.cursors[i]
        <4>1. RowsCover(txn.cursors[i][1], txn.cursors[i][2], usageRows \cup txn.rows)
          BY <3>2 DEF CursorsAreCovered
        <4> QED  BY <2>1, <3>2, <4>1 DEF RowsCover
      <3> QED  BY <1>4, <3>1, <3>2
    <2> QED  BY <1>2, <2>3, <2>4, <2>5 DEF CursorsAreCovered
  <1>9. PricesAreSingle'
    BY <1>2 DEF PricesAreSingle
  <1> QED  BY <1>0, <1>2, <1>3, <1>7, <1>8, <1>9, TxnStep

LEMMA SyncEstimateStep ==
    ASSUME StatInv, NEW m \in sync.messages, SyncEstimate(m)
    PROVE  StatInv'
  <1> USE DEF StatInv
  <1> DEFINE n == MessageRow(m)
  <1>0. /\ sync.phase = "backfill"
        /\ sync' = [sync EXCEPT !.messages = @ \ {m}]
        /\ txn' = [txn EXCEPT !.open = TRUE, !.rows = @ \cup {n}]
        /\ UNCHANGED <<requestVars, usageRows, traceCursor, overtaken, statCrashes>>
    BY DEF SyncEstimate
  <1>1. m \in Nat \X Nat /\ transcript \in SUBSET (Nat \X Nat)
    BY SyncShape
  <1>2. n \in Row /\ n.kind = "message" /\ RowIsReal(n)
    <2>1. n \in Row /\ n.kind = "message" /\ n.run = "none" /\ n.seq = m[2] /\ n.turn = m[1]
      BY <1>1, MessageShape
    <2>2. StoredMessage(m)
      BY DEF MessagesAreKnown
    <2> QED  BY <2>1, <2>2, KindsDiffer DEF RowIsReal, StoredMessage
  <1>3. \A l \in transcript : MessageRow(l) = n => l = m
    BY <1>1, MessageRowsDiffer
  <1> HIDE DEF n
  <1>4. /\ sync'.phase = "backfill" /\ sync'.messages \in SUBSET sync.messages
        /\ sync' \in [phase : Phases, runs : SUBSET UsageRuns, live : SUBSET UsageRuns,
                      from : [UsageRuns -> Nat], pos : [UsageRuns -> Nat], to : [UsageRuns -> Nat],
                      messages : SUBSET (Nat \X Nat)]
    BY <1>0, SyncShape DEF Phases
  <1>5. /\ txn'.open /\ txn'.rows = txn.rows \cup {n} /\ txn'.cursors = txn.cursors
        /\ txn' \in [open : BOOLEAN, rows : SUBSET Row, cursors : Seq(UsageRuns \X Nat)]
    BY <1>0, <1>2, TxnShape
  <1>6. \A q : (HasLive(q)' <=> HasLive(q)) /\ (HasTrace(q)' <=> HasTrace(q))
    BY <1>0, <1>2, <1>5, KindsDiffer DEF HasLive, HasTrace
  <1>7. ImportIsApart'
    BY <1>0, <1>4, <1>6 DEF ImportIsApart
  <1>8. CursorsAreCovered'
    <2>1. \A q \in UsageRuns : RowsCover(q, traceCursor[q], usageRows)'
      BY <1>0, <1>6 DEF CursorsAreCovered, RowsCover
    <2>2. \A i \in DOMAIN txn'.cursors :
             RowsCover(txn.cursors[i][1], txn.cursors[i][2], usageRows \cup txn.rows)'
      BY <1>0, <1>5, <1>6 DEF CursorsAreCovered, RowsCover
    <2> QED  BY <1>4, <2>1, <2>2 DEF CursorsAreCovered
  <1>9. PricesAreSingle'
    <2>1. transcript' = transcript /\ overtaken' = overtaken /\ \A t : EventOf(t)' <=> EventOf(t)
      BY <1>0 DEF requestVars, EventOf
    <2>2. EventOf(m[1]) => m[1] \in overtaken.turns
      BY <1>0 DEF PricesAreSingle
    <2>3. \A l \in transcript : MessageRow(l) \in usageRows' \cup txn'.rows /\ EventOf(l[1])
             => l[1] \in overtaken.turns
      BY <1>0, <1>3, <1>5, <2>2 DEF PricesAreSingle
    <2> QED  BY <1>0, <1>4, <2>1, <2>3 DEF PricesAreSingle
  <1>10. \A x \in txn'.rows : \/ x \in txn.rows
                              \/ /\ RowIsReal(x) /\ x.kind \notin LiveKinds
                                 /\ sync.phase = "backfill" => x.kind = "message"
    BY <1>2, <1>5, KindsDiffer
  <1> QED  BY <1>0, <1>4, <1>5, <1>7, <1>8, <1>9, <1>10, TxnStep

LEMMA SyncCommitStep ==
    ASSUME StatInv, SyncCommit
    PROVE  StatInv'
  <1> USE DEF StatInv
  <1>0. /\ txn.open /\ usageRows' = usageRows \cup txn.rows
        /\ traceCursor' = [r \in UsageRuns |->
               IF \E k \in DOMAIN txn.cursors : txn.cursors[k][1] = r
               THEN (CHOOSE p \in ToSet(txn.cursors) : p[1] = r)[2] ELSE traceCursor[r]]
        /\ txn' = NoTxn
        /\ UNCHANGED <<requestVars, sync, overtaken, statCrashes>>
    BY DEF SyncCommit
  <1>1. /\ usageRows \in SUBSET Row /\ txn.rows \in SUBSET Row
        /\ txn.cursors \in Seq(UsageRuns \X Nat) /\ traceCursor \in [UsageRuns -> Nat]
    BY TxnShape DEF StatTypeOK
  <1>2. /\ txn'.open = FALSE /\ txn'.rows = {} /\ txn'.cursors = <<>>
        /\ txn' \in [open : BOOLEAN, rows : SUBSET Row, cursors : Seq(UsageRuns \X Nat)]
    BY <1>0 DEF NoTxn
  <1>3. sync.phase \in {"import", "backfill"} /\ \A x \in txn.rows : x.kind \notin LiveKinds
    BY <1>0 DEF TxnIsImports
  <1>4. usageRows' \in SUBSET Row /\ \A x \in usageRows' : x.kind \in LiveKinds => x \in usageRows
    BY <1>0, <1>1, <1>3
  <1>5. /\ TurnsAreOne' /\ RecordsAreSingle'
        /\ \A x : RowIsReal(x) => RowIsReal(x)'
        /\ \A m : StoredMessage(m) => StoredMessage(m)'
        /\ UNCHANGED <<liveRuns, chatTurn, transcript, answers, runTurn, streaming, ended,
                       usageTrace, inFlight>>
    BY <1>0, <1>4, RequestsKept
  <1>6. \A r \in UsageRuns :
           \/ traceCursor'[r] = traceCursor[r]
           \/ \E i \in DOMAIN txn.cursors : txn.cursors[i][1] = r /\ traceCursor'[r] = txn.cursors[i][2]
    <2> SUFFICES ASSUME NEW r \in UsageRuns,
                        \E k \in DOMAIN txn.cursors : txn.cursors[k][1] = r
                 PROVE  \E i \in DOMAIN txn.cursors :
                           txn.cursors[i][1] = r /\ traceCursor'[r] = txn.cursors[i][2]
      BY <1>0
    <2> DEFINE p == CHOOSE p \in ToSet(txn.cursors) : p[1] = r
    <2>1. traceCursor'[r] = p[2]
      BY <1>0
    <2>2. \E q \in ToSet(txn.cursors) : q[1] = r
      BY DEF ToSet
    <2>3. p \in ToSet(txn.cursors) /\ p[1] = r
      BY <2>2
    <2>4. \E i \in DOMAIN txn.cursors : p = txn.cursors[i]
      BY <2>3 DEF ToSet
    <2> QED  BY <2>1, <2>3, <2>4
  <1>7. traceCursor' \in [UsageRuns -> Nat]
    <2>1. \A r \in UsageRuns : traceCursor'[r] \in Nat
      <3>1. \A i \in DOMAIN txn.cursors : txn.cursors[i] \in UsageRuns \X Nat
        BY <1>1
      <3> QED  BY <1>1, <1>6, <3>1
    <2>2. traceCursor' = [r \in UsageRuns |-> traceCursor'[r]]
      BY <1>0
    <2> QED  BY <2>1, <2>2
  <1>8. StatTypeOK'
    BY <1>0, <1>2, <1>4, <1>5, <1>7 DEF StatTypeOK
  <1>9. RowsAreReal' /\ MessagesAreKnown'
    BY <1>0, <1>2, <1>5 DEF RowsAreReal, MessagesAreKnown
  <1>10. TxnIsImports'
    BY <1>2 DEF TxnIsImports
  <1>11. \A q : (HasLive(q)' <=> HasLive(q)) /\ (HasTrace(q)' <=> HasTrace(q))
    BY <1>0, <1>2, <1>3 DEF HasLive, HasTrace
  <1>12. ImportIsApart'
    BY <1>0, <1>5, <1>11 DEF ImportIsApart
  <1>13. CursorsAreCovered'
    <2>1. \A q, j : RowsCover(q, j, usageRows \cup txn.rows) =>
             HasLive(q)' \/ \A k \in 1 .. j : \E x \in usageRows' : x.run = q /\ x.seq = k
      BY <1>0, <1>11 DEF RowsCover
    <2>2. \A q, j : RowsCover(q, j, usageRows) => RowsCover(q, j, usageRows \cup txn.rows)
      BY DEF RowsCover
    <2>3. ASSUME NEW r \in UsageRuns PROVE RowsCover(r, traceCursor'[r], usageRows \cup txn.rows)
      BY <1>6, <2>2 DEF CursorsAreCovered
    <2>4. \A r \in UsageRuns : RowsCover(r, traceCursor[r], usageRows)'
      BY <2>1, <2>3 DEF RowsCover
    <2>5. sync.phase = "import" =>
             \A r \in UsageRuns : RowsCover(r, sync.pos[r], usageRows \cup txn.rows)'
      BY <1>0, <2>1 DEF CursorsAreCovered, RowsCover
    <2>6. sync'.phase \notin {"live", "read"} /\ \A i \in DOMAIN txn'.cursors : FALSE
      BY <1>0, <1>2, <1>3
    <2> QED  BY <1>0, <2>4, <2>5, <2>6 DEF CursorsAreCovered
  <1>14. PricesAreSingle'
    <2>1. sync.phase = "backfill" => \A t : EventOf(t)' <=> EventOf(t)
      BY <1>0 DEF TxnIsImports, EventOf
    <2>2. \A m \in transcript : MessageRow(m) \in usageRows' \cup txn'.rows
             <=> MessageRow(m) \in usageRows \cup txn.rows
      BY <1>0, <1>2
    <2> QED  BY <1>0, <1>3, <1>5, <2>1, <2>2 DEF PricesAreSingle
  <1> QED  BY <1>5, <1>8, <1>9, <1>10, <1>12, <1>13, <1>14

LEMMA SyncCleanupStep ==
    ASSUME StatInv, SyncCleanup
    PROVE  /\ StatInv'
           /\ \A x \in usageRows : x.kind # "message" => x \in usageRows'
           /\ \A m \in transcript : MessageRow(m) \in usageRows /\ MessageRow(m) \notin usageRows'
                 => EventOf(m[1])
  <1> USE DEF StatInv
  <1>0. /\ sync.phase = "estimates"
        /\ usageRows' = (usageRows \ Superseded(usageRows)) \ Orphaned(usageRows)
        /\ overtaken' = [overtaken EXCEPT !.turns = {}]
        /\ sync' = [sync EXCEPT !.phase = "select"]
        /\ UNCHANGED <<requestVars, traceCursor, txn, statCrashes>>
    BY DEF SyncCleanup
  <1>1. /\ usageRows \in SUBSET Row /\ transcript \in SUBSET (Nat \X Nat)
        /\ overtaken \in [runs : SUBSET UsageRuns, turns : SUBSET Nat]
    BY DEF StatTypeOK
  <1>2. \A x : x \in usageRows /\ x.kind # "message" => x \in usageRows'
    <2>1. \A x \in Superseded(usageRows) : x.kind = "message"
      BY <1>1, MessageShape DEF Superseded
    <2>2. \A x \in Orphaned(usageRows) : x.kind = "message"
      BY DEF Orphaned
    <2> QED  BY <1>0, <2>1, <2>2
  <1>3. \A x \in usageRows' : x \in usageRows
    BY <1>0
  <1>4. \A t : EventOf(t)' <=> EventOf(t)
    BY <1>2, <1>3 DEF EventOf
  <1>5. \A m \in transcript : MessageRow(m) \in usageRows' => ~ EventOf(m[1])
    BY <1>0 DEF Superseded, PricedByEvent, SameTurn, EventOf
  <1>6. ASSUME NEW m \in transcript, MessageRow(m) \in usageRows, MessageRow(m) \notin usageRows'
        PROVE  EventOf(m[1])
    <2>1. MessageRow(m) \notin Orphaned(usageRows)
      BY DEF Orphaned, IsEstimateOf
    <2>2. PICK l \in transcript : MessageRow(l) = MessageRow(m) /\ PricedByEvent(usageRows, l)
      BY <1>0, <1>6, <2>1 DEF Superseded
    <2>3. l = m
      BY <1>1, <2>2, MessageRowsDiffer
    <2> QED  BY <2>2, <2>3 DEF PricedByEvent, SameTurn, EventOf
  <1>7. ~ txn.open /\ txn.rows = {} /\ txn.cursors = <<>>
    BY <1>0 DEF TxnIsImports
  <1>8. /\ sync'.phase = "select" /\ sync'.messages = sync.messages
        /\ sync' \in [phase : Phases, runs : SUBSET UsageRuns, live : SUBSET UsageRuns,
                      from : [UsageRuns -> Nat], pos : [UsageRuns -> Nat], to : [UsageRuns -> Nat],
                      messages : SUBSET (Nat \X Nat)]
    BY <1>0, SyncShape DEF Phases
  <1>9. /\ TurnsAreOne' /\ RecordsAreSingle'
        /\ \A x : RowIsReal(x) => RowIsReal(x)'
        /\ \A m : StoredMessage(m) => StoredMessage(m)'
        /\ UNCHANGED <<liveRuns, chatTurn, transcript, answers, runTurn, streaming, ended,
                       usageTrace, inFlight>>
    <2>1. usageRows' \in SUBSET Row
      BY <1>1, <1>3
    <2> QED  BY <1>0, <1>3, <2>1, RequestsKept
  <1>10. StatTypeOK'
    <2>1. overtaken' \in [runs : SUBSET UsageRuns, turns : SUBSET Nat]
      BY <1>0, <1>1
    <2>2. usageRows' \in SUBSET Row
      BY <1>1, <1>3
    <2> QED  BY <1>0, <1>8, <1>9, <2>1, <2>2 DEF StatTypeOK
  <1>11. RowsAreReal' /\ MessagesAreKnown'
    BY <1>0, <1>3, <1>8, <1>9 DEF RowsAreReal, MessagesAreKnown
  <1>12. TxnIsImports'
    BY <1>0, <1>7, <1>8 DEF TxnIsImports
  <1>13. \A q : (HasLive(q)' <=> HasLive(q)) /\ (HasTrace(q)' <=> HasTrace(q))
    BY <1>0, <1>2, <1>3, <1>7, KindsDiffer DEF HasLive, HasTrace
  <1>14. ImportIsApart'
    <2>1. overtaken'.runs = overtaken.runs
      BY <1>0, <1>1
    <2> QED  BY <1>0, <1>8, <1>13, <2>1 DEF ImportIsApart
  <1>15. CursorsAreCovered'
    <2>1. \A x \in usageRows : x.run \in UsageRuns => x \in usageRows'
      BY <1>2, TokenStatsAssumption DEF RowsAreReal, RowIsReal
    <2>2. \A r \in UsageRuns : RowsCover(r, traceCursor[r], usageRows)'
      BY <1>0, <1>13, <2>1 DEF CursorsAreCovered, RowsCover
    <2>3. \A i \in DOMAIN txn'.cursors : FALSE
      BY <1>0, <1>7
    <2> QED  BY <1>8, <2>2, <2>3 DEF CursorsAreCovered
  <1>16. PricesAreSingle'
    BY <1>0, <1>4, <1>5, <1>7, <1>8, <1>9 DEF PricesAreSingle
  <1> QED  BY <1>2, <1>6, <1>9, <1>10, <1>11, <1>12, <1>14, <1>15, <1>16

-----------------------------------------------------------------------------
LEMMA StatInitially == StatInit => StatInv
  <1> SUFFICES ASSUME StatInit PROVE StatInv
    OBVIOUS
  <1> USE DEF StatInit, NoSync, NoTxn
  <1>1. StatTypeOK
    BY DEF StatTypeOK, Phases
  <1>2. TurnsAreOne
    BY TokenStatsAssumption DEF TurnsAreOne
  <1>3. MessagesAreKnown /\ RowsAreReal /\ RecordsAreSingle /\ TxnIsImports
    BY DEF MessagesAreKnown, RowsAreReal, RecordsAreSingle, TxnIsImports
  <1>4. ImportIsApart /\ CursorsAreCovered /\ PricesAreSingle
    BY DEF ImportIsApart, CursorsAreCovered, RowsCover, PricesAreSingle
  <1> QED  BY <1>1, <1>2, <1>3, <1>4 DEF StatInv

LEMMA StatStep == StatInv /\ [StatNext]_statVars => StatInv'
  <1> SUFFICES ASSUME StatInv, [StatNext]_statVars PROVE StatInv'
    OBVIOUS
  <1>0. liveRuns \in SUBSET UsageRuns /\ \A k \in 1 .. MaxUsageEvents : k \in Nat
    BY TokenStatsAssumption DEF StatInv, StatTypeOK
  <1>1. CASE AddUserTurn
    BY <1>1, AddUserTurnStep
  <1>2. CASE \E r \in UsageRuns : StartRun(r)
    BY <1>2, StartRunStep
  <1>3. CASE \E r \in liveRuns : ResumeRun(r)
    BY <1>0, <1>3, StartRunStep
  <1>4. CASE \E r \in UsageRuns, reported \in BOOLEAN : TraceUsage(r, reported)
    BY <1>4, TraceUsageStep
  <1>5. CASE \E r \in liveRuns, k \in 1 .. MaxUsageEvents : RecordUsage(r, k) \/ RecordFails(r, k)
    BY <1>0, <1>5, RecordUsageStep, RecordFailsStep
  <1>6. CASE \E r \in UsageRuns, final, replied \in BOOLEAN : StopRun(r, final, replied)
    BY <1>6, StopRunStep
  <1>7. CASE StatCrash \/ SyncFails
    BY <1>7, SyncStops
  <1>8. CASE SyncScan \/ SyncHeal \/ SyncRead
    BY <1>8, SyncScanStep, SyncHealStep, SyncReadStep
  <1>9. CASE \E r \in UsageRuns : SyncInsert(r) \/ SyncCursor(r)
    BY <1>9, SyncInsertStep, SyncCursorStep
  <1>10. CASE SyncCommit \/ SyncImported \/ SyncCleanup \/ SyncSelect
    BY <1>10, SyncCommitStep, SyncImportedStep, SyncCleanupStep, SyncSelectStep
  <1>11. CASE \E m \in sync.messages : SyncEstimate(m)
    BY <1>11, SyncEstimateStep
  <1>12. CASE SyncDone
    BY <1>12, SyncDoneStep
  <1>13. CASE UNCHANGED statVars
    BY <1>13 DEF statVars, StatInv, StatTypeOK, TurnsAreOne, MessagesAreKnown, StoredMessage, RowsAreReal,
                 RowIsReal, TraceRow, SourceSeq, RecordsAreSingle, TxnIsImports, ImportIsApart, HasLive,
                 HasTrace, CursorsAreCovered, RowsCover, PricesAreSingle, EventOf
  <1> QED  BY <1>1, <1>2, <1>3, <1>4, <1>5, <1>6, <1>7, <1>8, <1>9, <1>10, <1>11, <1>12, <1>13 DEF StatNext

(* The statistics' inductive invariant: every row of the table and of the   *)
(* import's open transaction was written for an event or a message that     *)
(* exists, an import is apart from the live records but for those that      *)
(* overtook it, and the rows cover the cursors, the committed ones and the  *)
(* import's own.                                                            *)
THEOREM StatInvariant == StatSpec => []StatInv
  BY StatInitially, StatStep, PTL DEF StatSpec

(* No usage event behind the durable cursor is missing from the statistics  *)
(* and, after an import, none is counted twice unless a live record         *)
(* overtook it: sync_from_traces beside record_usage, for every number of   *)
(* runs, events, crashes and every place where the import commits.          *)
THEOREM UsageIsAlwaysCounted == StatSpec => []UsageIsCounted
  <1>1. ASSUME StatInv PROVE UsageIsCounted
    <2> USE DEF StatInv
    <2>1. CursorCoversImported
      <3>1. \A r \in UsageRuns : RowsCover(r, traceCursor[r], usageRows)
        BY <1>1 DEF CursorsAreCovered
      <3> QED  BY <3>1, LiveRecordedForm DEF CursorCoversImported, RowsCover, RunUsageRows
    <2>2. ASSUME sync.phase = "done", NEW r \in UsageRuns \ overtaken.runs, NEW k,
                 NEW x \in RunUsageRows(r, k), NEW y \in RunUsageRows(r, k)
          PROVE  x = y
      <3>1. /\ x \in usageRows /\ x.run = r /\ x.seq = k /\ RowIsReal(x)
            /\ y \in usageRows /\ y.run = r /\ y.seq = k /\ RowIsReal(y)
        BY <1>1 DEF RunUsageRows, RowsAreReal
      <3>2. x.kind \in LiveKinds \cup TraceKinds /\ y.kind \in LiveKinds \cup TraceKinds
        BY <1>1, <3>1, TokenStatsAssumption DEF RowIsReal, StatTypeOK, Row
      <3>3. CASE x.kind \in LiveKinds /\ y.kind \in LiveKinds
        BY <1>1, <3>1, <3>3 DEF RecordsAreSingle
      <3>4. CASE x.kind \in TraceKinds /\ y.kind \in TraceKinds
        BY <3>1, <3>4 DEF RowIsReal
      <3>5. ~ (HasLive(r) /\ HasTrace(r))
        BY <1>1, <2>2 DEF ImportIsApart
      <3> QED  BY <3>1, <3>2, <3>3, <3>4, <3>5 DEF HasLive, HasTrace
    <2>3. ASSUME sync.phase = "done", NEW r \in UsageRuns \ overtaken.runs, NEW k
          PROVE  Cardinality(RunUsageRows(r, k)) <= 1
      <3>1. CASE RunUsageRows(r, k) = {}
        <4>1. Cardinality(RunUsageRows(r, k)) = 0
          BY <3>1, FS_EmptySet
        <4> QED  BY <4>1
      <3>2. CASE RunUsageRows(r, k) # {}
        <4>1. PICK x : x \in RunUsageRows(r, k)
          BY <3>2
        <4>2. RunUsageRows(r, k) = {x}
          BY <2>2, <2>3, <4>1
        <4>3. Cardinality(RunUsageRows(r, k)) = 1
          BY <4>2, FS_Singleton
        <4> QED  BY <4>3
      <3> QED  BY <3>1, <3>2
    <2>4. ASSUME sync.phase = "done", NEW m \in transcript, m[1] \notin overtaken.turns
          PROVE  ~ (MessageRow(m) \in usageRows /\ PricedByEvent(usageRows, m))
      BY <1>1, <2>4 DEF PricesAreSingle, PricedByEvent, SameTurn, EventOf
    <2>5. CountedOnce
      BY <2>3, <2>4 DEF CountedOnce
    <2> QED  BY <2>1, <2>5 DEF UsageIsCounted
  <1> QED  BY <1>1, StatInvariant, PTL

(* A priced message stays priced while it is stored: record_usage and       *)
(* sync_from_traces delete an estimate only for an event of its turn, and   *)
(* an imported event only for a live record of the same turn.               *)
THEOREM PricedOnceStaysPriced == StatSpec => PricedStaysPriced
  <1> DEFINE A == \A m \in transcript \cap transcript' :
                     IsPriced(usageRows, m) => IsPriced(usageRows', m)
  <1>1. ASSUME StatInv, [StatNext]_statVars PROVE A
    <2>0. /\ transcript \in SUBSET (Nat \X Nat) /\ liveRuns \in SUBSET UsageRuns
          /\ \A k \in 1 .. MaxUsageEvents : k \in Nat
      BY <1>1, TokenStatsAssumption DEF StatInv, StatTypeOK
    <2>1. ASSUME \A x \in usageRows : x \in usageRows' PROVE A
      BY <2>1 DEF IsPriced
    <2>2. CASE usageRows' = usageRows
      BY <2>1, <2>2
    <2>3. CASE \E r \in liveRuns, k \in 1 .. MaxUsageEvents : RecordUsage(r, k)
      <3>1. PICK r \in liveRuns, k \in 1 .. MaxUsageEvents : RecordUsage(r, k)
        BY <2>3
      <3>2. k \in Nat
        BY <2>0
      <3>3. /\ r \in UsageRuns /\ runTurn[r] = chatTurn
            /\ \A x \in usageRows :
                  x.kind # "message" /\ ~ (x.kind \in TraceKinds /\ x.run = r) => x \in usageRows'
            /\ \A m \in transcript : MessageRow(m) \in usageRows /\ MessageRow(m) \notin usageRows' =>
                  \E x \in usageRows' : x.kind # "message" /\ x.turn = m[1]
        BY <1>1, <3>1, <3>2, RecordFacts
      <3>a. PICK n \in Row : IsRecord(n, r, k)
        BY <1>1, <3>1, <3>2, RecordFacts
      <3>4. n.kind # "message" /\ n.turn = chatTurn /\ n \in usageRows'
        BY <3>a, KindsDiffer DEF IsRecord
      <3>5. ASSUME NEW x \in usageRows, x.kind # "message"
            PROVE  \E y \in usageRows' : y.kind # "message" /\ y.turn = x.turn
        <4>1. CASE ~ (x.kind \in TraceKinds /\ x.run = r)
          BY <3>3, <3>5, <4>1
        <4>2. CASE x.kind \in TraceKinds /\ x.run = r
          <5>1. x.seq \in DOMAIN usageTrace[r] /\ x = TraceRow(r, x.seq)
            BY <1>1, <4>2 DEF StatInv, RowsAreReal, RowIsReal
          <5>2. x.turn = usageTrace[r][x.seq].turn
            BY <1>1, <3>3, <5>1, TraceShape DEF StatInv
          <5>3. x.turn = chatTurn
            BY <1>1, <3>1, <3>3, <5>1, <5>2 DEF StatInv, TurnsAreOne
          <5> QED  BY <3>4, <5>3
        <4> QED  BY <4>1, <4>2
      <3> QED  BY <3>3, <3>5 DEF IsPriced
    <2>4. CASE SyncHeal
      <3>1. /\ \A x \in usageRows : x.kind = "message" => x \in usageRows'
            /\ \A x \in usageRows : x.kind # "message" =>
                  \E y \in usageRows' : y.kind # "message" /\ y.turn = x.turn
        BY <1>1, <2>4, SyncHealStep
      <3>2. \A m \in transcript : MessageRow(m).kind = "message"
        BY <2>0, MessageShape
      <3> QED  BY <3>1, <3>2 DEF IsPriced
    <2>5. CASE SyncCommit
      <3>1. \A x \in usageRows : x \in usageRows'
        BY <2>5 DEF SyncCommit
      <3> QED  BY <2>1, <3>1
    <2>6. CASE SyncCleanup
      <3>1. /\ \A x \in usageRows : x.kind # "message" => x \in usageRows'
            /\ \A m \in transcript : MessageRow(m) \in usageRows /\ MessageRow(m) \notin usageRows'
                  => EventOf(m[1])
        BY <1>1, <2>6, SyncCleanupStep
      <3> QED  BY <3>1 DEF IsPriced, EventOf
    <2>7. CASE \/ AddUserTurn \/ \E r \in UsageRuns : StartRun(r)
               \/ \E r \in liveRuns : ResumeRun(r)
               \/ \E r \in UsageRuns, reported \in BOOLEAN : TraceUsage(r, reported)
               \/ \E r \in liveRuns, k \in 1 .. MaxUsageEvents : RecordFails(r, k)
               \/ \E r \in UsageRuns, final, replied \in BOOLEAN : StopRun(r, final, replied)
               \/ StatCrash
      <3>1. usageRows' = usageRows
        BY <2>7 DEF AddUserTurn, StartRun, ResumeRun, TraceUsage, RecordFails, StopRun, StatCrash
      <3> QED  BY <2>2, <3>1
    <2>8. CASE \/ SyncScan \/ SyncRead \/ \E r \in UsageRuns : SyncInsert(r) \/ SyncCursor(r)
               \/ SyncImported \/ SyncSelect \/ \E m \in sync.messages : SyncEstimate(m)
               \/ SyncDone \/ SyncFails \/ UNCHANGED statVars
      <3>1. usageRows' = usageRows
        BY <2>8 DEF SyncScan, SyncRead, SyncInsert, SyncCursor, SyncImported, SyncSelect, SyncEstimate,
                    SyncDone, SyncFails, statVars
      <3> QED  BY <2>2, <3>1
    <2> QED  BY <1>1, <2>3, <2>4, <2>5, <2>6, <2>7, <2>8 DEF StatNext
  <1>2. StatSpec => [][A]_statVars
    BY <1>1, StatInvariant, PTL DEF StatSpec
  <1> QED  BY <1>2 DEF PricedStaysPriced

-----------------------------------------------------------------------------
(***************************************************************************)
(* MemoryLog: EvidenceIsRead.  It is not inductive.  What a compilation    *)
(* has taken must still be what lies between its cursor and the line it    *)
(* will write, which needs that the log only grows while it awaits; what   *)
(* a recovery writes over the cursors must be right for the log it finds,  *)
(* which needs that the log is one of the two the journal names, and that  *)
(* the two cannot be confused: the first line of the old log is never in   *)
(* the new one, because a line is unique.                                  *)
(***************************************************************************)

Line == [id : Nat, kind : {"work", "preference", "correction"}]
JournalRecord == [old : Seq(Line), new : Seq(Line), cursor : [View -> Nat]]
JobSteps == {"none", "load", "draft", "cursor", "skip", "fp", "recover", "cleanup", "replace", "durable",
            "durable_last", "context", "context_last", "drop", "drop_last", "wedged"}
JobRecord ==
    [kind : {"none", "compile", "dream"}, by : {"none", "task", "tick"}, step : JobSteps, view : View,
     errs : SUBSET (View \X {"deferred", "rejected", "failed"}), context : BOOLEAN,
     batch : SUBSET Line, all : SUBSET Line, through : Nat]

MemoryTypeOK ==
    /\ log \in Seq(Line) /\ cursor \in [View -> Nat] /\ journal \in JournalRecord
    /\ noted \in SUBSET Line /\ IsFiniteSet(noted)
    /\ read \in [View -> SUBSET Line] /\ givenUp \in [View -> SUBSET Line]
    /\ job \in JobRecord

\* The id of a line is fresh: it counts the lines before it.
LinesAreFresh ==
    /\ \A l \in noted : l.id <= Cardinality(noted)
    /\ \A i \in DOMAIN log : log[i] \in noted
    /\ \A i, j \in DOMAIN log : log[i] = log[j] => i = j

Replaced == journal # NoJournal /\ ~ IsPrefix(journal.old, log)

\* The log is the one the journal replaces or the one it puts in its place,
\* with what has been appended since.
JournalMatches ==
    journal # NoJournal =>
        /\ Len(journal.old) > 0
        /\ \A i \in DOMAIN journal.old : journal.old[i] \in noted
        /\ IsPrefix(journal.old, log) \/ IsPrefix(journal.new, log)
        /\ ~ IsPrefix(journal.old, log) => \A i \in DOMAIN log : log[i] # journal.old[1]

CursorsAreInside ==
    /\ ~ Replaced => \A v \in View : cursor[v] <= Len(log)
    /\ Replaced => \A v \in View : journal.cursor[v] <= Len(log)

\* What a Dream that holds both locks knows.
DreamIsInStep ==
    job.kind = "dream" =>
        /\ job.step \in {"recover", "cleanup", "replace", "durable", "durable_last", "context",
                        "context_last", "drop", "drop_last"}
        /\ job.step = "cleanup" => journal = NoJournal
        /\ job.step = "replace" =>
              /\ journal # NoJournal /\ journal.old = log
              /\ \E k \in 1 .. Len(log) :
                    /\ \A v \in View : k <= cursor[v] /\ journal.cursor[v] = cursor[v] - k
                    /\ journal.new = SubSeq(log, k + 1, Len(log))
        /\ job.step \in {"durable", "durable_last", "context", "context_last", "drop_last"} => Replaced
        /\ job.step \in {"context", "context_last"} => cursor["durable"] = journal.cursor["durable"]
        /\ job.step = "drop_last" \/ (job.step = "drop" /\ Replaced) => cursor = journal.cursor

\* What a compilation that awaits its models has taken from the log.
BatchIsTaken ==
    job.kind = "compile" /\ job.step \in {"draft", "cursor", "skip"} =>
        /\ job.through <= Len(log)
        /\ \A i \in DOMAIN log :
              cursor[job.view] < i /\ i <= job.through /\ Relevant(job.view, log[i]) => log[i] \in job.batch
        /\ job.step = "cursor" => job.batch \subseteq read[job.view]
        /\ job.step = "skip" => job.batch \subseteq givenUp[job.view]

MemoryInv ==
    /\ MemoryTypeOK /\ LinesAreFresh /\ JournalMatches /\ CursorsAreInside
    /\ DreamIsInStep /\ BatchIsTaken /\ EvidenceIsAccounted

-----------------------------------------------------------------------------
LEMMA MemoryShape ==
    ASSUME MemoryTypeOK
    PROVE  /\ log \in Seq(Line) /\ Len(log) \in Nat /\ DOMAIN log = 1 .. Len(log)
           /\ journal.old \in Seq(Line) /\ Len(journal.old) \in Nat /\ DOMAIN journal.old = 1 .. Len(journal.old)
           /\ journal.new \in Seq(Line) /\ Len(journal.new) \in Nat /\ DOMAIN journal.new = 1 .. Len(journal.new)
           /\ \A v \in View : cursor[v] \in Nat /\ journal.cursor[v] \in Nat
           /\ job.kind \in {"none", "compile", "dream"} /\ job.step \in JobSteps /\ job.view \in View
           /\ job.through \in Nat /\ job.batch \in SUBSET Line
  <1>1. log \in Seq(Line) /\ journal.old \in Seq(Line) /\ journal.new \in Seq(Line) /\ journal.cursor \in [View -> Nat]
    BY DEF MemoryTypeOK, JournalRecord
  <1>2. /\ job.kind \in {"none", "compile", "dream"} /\ job.step \in JobSteps /\ job.view \in View
        /\ job.through \in Nat /\ job.batch \in SUBSET Line
    BY DEF MemoryTypeOK, JobRecord
  <1> QED  BY <1>1, <1>2 DEF MemoryTypeOK

\* What IsPrefix says, line by line.
LEMMA PrefixByLines ==
    ASSUME NEW S, NEW s \in Seq(S), NEW t \in Seq(S)
    PROVE  IsPrefix(s, t) <=> Len(s) <= Len(t) /\ \A i \in 1 .. Len(s) : s[i] = t[i]
  <1>1. ASSUME Len(s) <= Len(t)
        PROVE  SubSeq(s, 1, Len(s)) = SubSeq(t, 1, Len(s)) <=> \A i \in 1 .. Len(s) : s[i] = t[i]
    <2>1. /\ SubSeq(s, 1, Len(s)) \in Seq(S) /\ Len(SubSeq(s, 1, Len(s))) = Len(s)
          /\ \A i \in 1 .. Len(s) : SubSeq(s, 1, Len(s))[i] = s[i]
      OBVIOUS
    <2>2. /\ SubSeq(t, 1, Len(s)) \in Seq(S) /\ Len(SubSeq(t, 1, Len(s))) = Len(s)
          /\ \A i \in 1 .. Len(s) : SubSeq(t, 1, Len(s))[i] = t[i]
      BY <1>1
    <2>3. ASSUME NEW a \in Seq(S), NEW b \in Seq(S), Len(a) = Len(b), \A i \in 1 .. Len(a) : a[i] = b[i]
          PROVE  a = b
      BY <2>3
    <2>4. SubSeq(s, 1, Len(s)) = SubSeq(t, 1, Len(s)) => \A i \in 1 .. Len(s) : s[i] = t[i]
      BY <2>1, <2>2
    <2>5. (\A i \in 1 .. Len(s) : s[i] = t[i]) => SubSeq(s, 1, Len(s)) = SubSeq(t, 1, Len(s))
      BY <2>1, <2>2, <2>3
    <2> QED  BY <2>4, <2>5
  <1> QED  BY <1>1 DEF IsPrefix

\* A job that has just begun, or none.
JustBegun(j) ==
    /\ j \in JobRecord
    /\ \/ j.kind = "none"
       \/ j.kind = "dream" /\ j.step = "recover"
       \/ j.kind = "compile" /\ j.step = "load"

LEMMA BeginsFresh ==
    /\ JustBegun(NoOp)
    /\ \A k \in Maintenance, by \in {"task", "tick"} : JustBegun(BeginOp(k, by))
  <1>1. NoOp \in JobRecord /\ NoOp.kind = "none"
    BY DEF NoOp, JobRecord, JobSteps, View
  <1>2. ASSUME NEW k \in Maintenance, NEW by \in {"task", "tick"}
        PROVE  JustBegun(BeginOp(k, by))
    BY DEF BeginOp, NoOp, JobRecord, JobSteps, View, Maintenance, JustBegun
  <1> QED  BY <1>1, <1>2 DEF JustBegun

\* The end of an operation, and of a view, leaves a job that has just begun.
LEMMA ReleaseBegins ==
    ASSUME NEW ok, NEW backoff, Release(ok, backoff)
    PROVE  JustBegun(job')
  BY BeginsFresh DEF Release, Maintenance

LEMMA NextViewBegins ==
    ASSUME MemoryTypeOK, NEW errs \in SUBSET (View \X {"deferred", "rejected", "failed"}),
           NEW compiled \in BOOLEAN, NextView(errs, compiled)
    PROVE  JustBegun(job')
  <1>1. CASE job.view = "context"
    <2>1. job' = [BeginOp("compile", job.by) EXCEPT !.view = "durable", !.errs = errs, !.context = compiled]
      BY <1>1 DEF NextView
    <2>2. job.by \in {"none", "task", "tick"}
      BY DEF MemoryTypeOK, JobRecord
    <2>3. /\ BeginOp("compile", job.by) \in JobRecord
          /\ BeginOp("compile", job.by).kind = "compile" /\ BeginOp("compile", job.by).step = "load"
      BY <2>2 DEF BeginOp, NoOp, JobRecord, JobSteps, View
    <2>4. job' \in JobRecord /\ job'.kind = "compile" /\ job'.step = "load"
      BY <2>1, <2>3 DEF JobRecord, View
    <2> QED  BY <2>4 DEF JustBegun
  <1>2. CASE job.view # "context"
    BY <1>2, ReleaseBegins DEF NextView
  <1> QED  BY <1>1, <1>2

LEMMA BegunIsInStep ==
    ASSUME JustBegun(job')
    PROVE  DreamIsInStep' /\ BatchIsTaken' /\ job' \in JobRecord
  BY DEF JustBegun, DreamIsInStep, BatchIsTaken

\* The files stay; what is read or given up only grows.
LEMMA FilesKept ==
    ASSUME MemoryInv, UNCHANGED <<log, cursor, journal, noted>>,
           \A v \in View : read[v] \subseteq read'[v] /\ givenUp[v] \subseteq givenUp'[v]
    PROVE  LinesAreFresh' /\ JournalMatches' /\ CursorsAreInside' /\ EvidenceIsAccounted'
  <1> USE DEF MemoryInv
  <1>1. LinesAreFresh' /\ JournalMatches' /\ CursorsAreInside'
    BY DEF LinesAreFresh, JournalMatches, CursorsAreInside, Replaced
  <1>2. EvidenceIsAccounted'
    BY DEF EvidenceIsAccounted, ReadsFrom
  <1> QED  BY <1>1, <1>2

LEMMA QuietMemoryStep ==
    ASSUME MemoryInv, UNCHANGED <<log, cursor, journal, noted, read, givenUp>>,
           JustBegun(job') \/ UNCHANGED job
    PROVE  MemoryInv'
  <1>1. LinesAreFresh' /\ JournalMatches' /\ CursorsAreInside' /\ EvidenceIsAccounted'
    BY FilesKept
  <1>2. DreamIsInStep' /\ BatchIsTaken' /\ job' \in JobRecord
    <2>1. CASE JustBegun(job')
      BY <2>1, BegunIsInStep
    <2>2. CASE UNCHANGED job
      <3>1. job' \in JobRecord
        BY <2>2 DEF MemoryInv, MemoryTypeOK
      <3>2. DreamIsInStep'
        BY <2>2 DEF MemoryInv, DreamIsInStep, Replaced
      <3>3. BatchIsTaken'
        BY <2>2 DEF MemoryInv, BatchIsTaken
      <3> QED  BY <3>1, <3>2, <3>3
    <2> QED  BY <2>1, <2>2
  <1>3. MemoryTypeOK'
    BY <1>2 DEF MemoryInv, MemoryTypeOK
  <1> QED  BY <1>1, <1>2, <1>3 DEF MemoryInv
-----------------------------------------------------------------------------
(* A turn is recorded                                                      *)

LEMMA NewLines ==
    ASSUME NEW kinds \in Turns, NEW n \in Nat, NEW new,
           new = [i \in DOMAIN kinds |-> [id |-> n + i, kind |-> kinds[i]]]
    PROVE  /\ new \in Seq(Line) /\ Len(new) \in {1, 2} /\ DOMAIN new = 1 .. Len(new)
           /\ \A i \in 1 .. Len(new) : new[i] \in Line /\ new[i].id = n + i
  <1> DEFINE K == {"work", "preference", "correction"}
  <1>1. kinds \in Seq(K) /\ Len(kinds) \in {1, 2}
    <2>1. CASE kinds = <<"work">>
      BY <2>1
    <2>2. CASE kinds = <<"preference">>
      BY <2>2
    <2>3. CASE kinds = <<"work", "correction">>
      BY <2>3
    <2> QED  BY <2>1, <2>2, <2>3 DEF Turns
  <1>2. DOMAIN kinds = 1 .. Len(kinds) /\ \A i \in 1 .. Len(kinds) : kinds[i] \in K
    BY <1>1
  <1>3. \A i \in 1 .. Len(kinds) : new[i] = [id |-> n + i, kind |-> kinds[i]] /\ n + i \in Nat
    BY <1>1, <1>2
  <1>4. \A i \in 1 .. Len(kinds) : new[i] \in Line /\ new[i].id = n + i
    BY <1>2, <1>3 DEF Line
  <1>5. new \in Seq(Line) /\ Len(new) = Len(kinds)
    <2>1. new \in [1 .. Len(kinds) -> Line]
      BY <1>2, <1>4
    <2> QED  BY <1>1, <2>1
  <1> QED  BY <1>1, <1>2, <1>4, <1>5

\* The new lines are fresh, and counted.
LEMMA LinesCounted ==
    ASSUME MemoryTypeOK, LinesAreFresh,
           NEW new \in Seq(Line), Len(new) \in {1, 2},
           \A i \in 1 .. Len(new) : new[i].id = Cardinality(noted) + i
    PROVE  /\ IsFiniteSet(noted \cup Range(new)) /\ Cardinality(noted \cup Range(new)) = Cardinality(noted) + Len(new)
           /\ \A i \in 1 .. Len(new) : new[i] \notin noted
           /\ \A i, j \in 1 .. Len(new) : new[i] = new[j] => i = j
  <1>0. Cardinality(noted) \in Nat
    BY FS_CardinalityType DEF MemoryTypeOK
  <1>1. \A i \in 1 .. Len(new) : new[i] \notin noted
    <2>1. \A l \in noted : l.id \in Nat /\ l.id <= Cardinality(noted)
      BY DEF LinesAreFresh, MemoryTypeOK, Line
    <2> QED  BY <1>0, <2>1
  <1>2. \A i, j \in 1 .. Len(new) : new[i] = new[j] => i = j
    <2>1. SUFFICES ASSUME NEW i \in 1 .. Len(new), NEW j \in 1 .. Len(new), new[i] = new[j] PROVE i = j
      OBVIOUS
    <2>2. i \in Int /\ j \in Int
      BY <2>1
    <2>3. Cardinality(noted) + i = Cardinality(noted) + j
      BY <2>1
    <2> QED  BY ONLY <1>0, <2>2, <2>3
  <1>3. IsFiniteSet(noted \cup {new[1]}) /\ Cardinality(noted \cup {new[1]}) = Cardinality(noted) + 1
    <2>1. new[1] \notin noted
      BY <1>1
    <2> QED  BY <2>1, FS_AddElement DEF MemoryTypeOK
  <1>4. CASE Len(new) = 1
    <2>1. Range(new) = {new[1]}
      BY <1>4 DEF Range
    <2> QED  BY <1>1, <1>2, <1>3, <1>4, <2>1
  <1>5. CASE Len(new) = 2
    <2>1. Range(new) = {new[1], new[2]}
      BY <1>5 DEF Range
    <2>2. new[2] \notin noted \cup {new[1]}
      BY <1>1, <1>2, <1>5
    <2>3. /\ IsFiniteSet((noted \cup {new[1]}) \cup {new[2]})
          /\ Cardinality((noted \cup {new[1]}) \cup {new[2]}) = Cardinality(noted) + 1 + 1
      <3> DEFINE T == noted \cup {new[1]}
                 x == new[2]
      <3>1. IsFiniteSet(T) /\ x \notin T /\ Cardinality(T) = Cardinality(noted) + 1
        BY <1>3, <2>2
      <3> HIDE DEF T, x
      <3>2. IsFiniteSet(T \cup {x}) /\ Cardinality(T \cup {x}) = Cardinality(T) + 1
        BY ONLY <3>1, FS_AddElement
      <3> QED  BY <3>1, <3>2 DEF T, x
    <2>4. noted \cup Range(new) = (noted \cup {new[1]}) \cup {new[2]}
      BY <2>1
    <2>5. Cardinality(noted) + 1 + 1 = Cardinality(noted) + 2
      BY <1>0
    <2> QED  BY <1>1, <1>2, <1>5, <2>3, <2>4, <2>5
  <1> QED  BY <1>4, <1>5

LEMMA LogGrows ==
    ASSUME NEW q \in Seq(Line), NEW new \in Seq(Line), NEW p, p = q \o new
    PROVE  /\ p \in Seq(Line) /\ Len(p) = Len(q) + Len(new) /\ DOMAIN p = 1 .. Len(q) + Len(new)
           /\ \A i \in 1 .. Len(q) : p[i] = q[i]
           /\ \A i \in 1 .. Len(q) + Len(new) : i > Len(q) => i - Len(q) \in 1 .. Len(new) /\ p[i] = new[i - Len(q)]
           /\ \A i \in 1 .. Len(new) : p[Len(q) + i] = new[i]
  OBVIOUS

LEMMA RecordTurnStep ==
    ASSUME MemoryInv, NEW kinds \in Turns, RecordTurn(kinds)
    PROVE  MemoryInv'
  <1> USE DEF MemoryInv
  <1> DEFINE n == Cardinality(noted)
             q == Len(log)
  <1>0. n \in Nat /\ q \in Nat /\ DOMAIN log = 1 .. q /\ log \in Seq(Line)
    BY FS_CardinalityType, MemoryShape DEF MemoryTypeOK
  <1>1. PICK new : new = [i \in DOMAIN kinds |-> [id |-> n + i, kind |-> kinds[i]]]
    OBVIOUS
  <1>2. /\ job.kind # "dream" /\ log' = log \o new /\ noted' = noted \cup Range(new)
        /\ UNCHANGED <<cursor, journal, job, read, givenUp>>
    BY <1>1 DEF RecordTurn, EvidenceFree
  <1>3. /\ new \in Seq(Line) /\ Len(new) \in {1, 2} /\ DOMAIN new = 1 .. Len(new)
        /\ \A i \in 1 .. Len(new) : new[i] \in Line /\ new[i].id = n + i
    BY <1>0, <1>1, NewLines
  <1>4. /\ IsFiniteSet(noted') /\ Cardinality(noted') = n + Len(new)
        /\ \A i \in 1 .. Len(new) : new[i] \notin noted
        /\ \A i, j \in 1 .. Len(new) : new[i] = new[j] => i = j
    <2>1. /\ IsFiniteSet(noted \cup Range(new)) /\ Cardinality(noted \cup Range(new)) = Cardinality(noted) + Len(new)
          /\ \A i \in 1 .. Len(new) : new[i] \notin noted
          /\ \A i, j \in 1 .. Len(new) : new[i] = new[j] => i = j
      BY <1>3, LinesCounted
    <2> QED  BY <1>2, <2>1
  <1>5. /\ log' \in Seq(Line) /\ Len(log') = q + Len(new) /\ DOMAIN log' = 1 .. q + Len(new)
        /\ \A i \in 1 .. q : log'[i] = log[i]
        /\ \A i \in 1 .. q + Len(new) : i > q => i - q \in 1 .. Len(new) /\ log'[i] = new[i - q]
        /\ \A i \in 1 .. Len(new) : log'[q + i] = new[i]
    BY <1>0, <1>2, <1>3, LogGrows
  <1> HIDE DEF n, q
  <1>6. \A l : l \in noted' <=> l \in noted \/ \E i \in 1 .. Len(new) : l = new[i]
    BY <1>2, <1>3 DEF Range
  <1>7. MemoryTypeOK'
    <2>1. noted' \in SUBSET Line
      BY <1>3, <1>6 DEF MemoryTypeOK
    <2> QED  BY <1>2, <1>4, <1>5, <2>1 DEF MemoryTypeOK
  <1>8. LinesAreFresh'
    <2>1. ASSUME NEW l \in noted' PROVE l.id <= Cardinality(noted')
      <3>1. CASE l \in noted
        <4>1. l.id \in Nat /\ l.id <= n
          BY <3>1 DEF LinesAreFresh, MemoryTypeOK, Line, n
        <4> QED  BY <1>0, <1>3, <1>4, <4>1
      <3>2. CASE \E i \in 1 .. Len(new) : l = new[i]
        BY <1>0, <1>3, <1>4, <3>2
      <3> QED  BY <1>6, <3>1, <3>2
    <2>2. ASSUME NEW i \in DOMAIN log' PROVE log'[i] \in noted'
      <3>1. CASE i \in 1 .. q
        BY <1>0, <1>5, <1>6, <3>1 DEF LinesAreFresh
      <3>2. CASE i > q
        BY <1>5, <1>6, <3>2
      <3> QED  BY <1>0, <1>3, <1>5, <3>1, <3>2
    <2>3. ASSUME NEW i \in DOMAIN log', NEW j \in DOMAIN log', log'[i] = log'[j] PROVE i = j
      <3>1. \A k \in DOMAIN log' : k \in 1 .. q \/ (k > q /\ k \in Nat)
        BY <1>0, <1>3, <1>5
      <3>2. \A k \in 1 .. q : log'[k] \in noted
        BY <1>0, <1>5 DEF LinesAreFresh
      <3>3. \A k \in DOMAIN log' : k > q => log'[k] \notin noted /\ k - q \in 1 .. Len(new) /\ log'[k] = new[k - q]
        BY <1>4, <1>5
      <3>4. CASE i \in 1 .. q
        BY <1>0, <1>5, <2>3, <3>1, <3>2, <3>3, <3>4 DEF LinesAreFresh
      <3>5. CASE i > q
        <4>1. j > q /\ i \in Nat /\ j \in Nat
          BY <2>3, <3>1, <3>2, <3>3, <3>5
        <4>2. i - q = j - q
          BY <1>4, <2>3, <3>3, <3>5, <4>1
        <4> QED  BY <1>0, <4>1, <4>2
      <3> QED  BY <3>1, <3>4, <3>5
    <2> QED  BY <2>1, <2>2, <2>3 DEF LinesAreFresh
  <1>9. journal # NoJournal => (IsPrefix(journal.old, log') <=> IsPrefix(journal.old, log))
    <2>1. SUFFICES ASSUME journal # NoJournal
                   PROVE  IsPrefix(journal.old, log') <=> IsPrefix(journal.old, log)
      OBVIOUS
    <2>2. journal.old \in Seq(Line) /\ Len(journal.old) \in Nat /\ Len(journal.old) > 0 /\ DOMAIN journal.old = 1 .. Len(journal.old)
      BY <2>1, MemoryShape DEF JournalMatches
    <2>3. /\ IsPrefix(journal.old, log) <=> Len(journal.old) <= q /\ \A i \in 1 .. Len(journal.old) : journal.old[i] = log[i]
          /\ IsPrefix(journal.old, log') <=> Len(journal.old) <= q + Len(new) /\ \A i \in 1 .. Len(journal.old) : journal.old[i] = log'[i]
      <3>1. IsPrefix(journal.old, log) <=> Len(journal.old) <= Len(log) /\ \A i \in 1 .. Len(journal.old) : journal.old[i] = log[i]
        BY <1>0, <2>2, PrefixByLines
      <3>2. IsPrefix(journal.old, log') <=> Len(journal.old) <= Len(log') /\ \A i \in 1 .. Len(journal.old) : journal.old[i] = log'[i]
        BY <1>5, <2>2, PrefixByLines
      <3> QED  BY <1>5, <3>1, <3>2 DEF q
    <2>4. ASSUME IsPrefix(journal.old, log) PROVE IsPrefix(journal.old, log')
      BY <1>0, <1>3, <1>5, <2>2, <2>3, <2>4
    <2>5. ASSUME ~ IsPrefix(journal.old, log) PROVE ~ IsPrefix(journal.old, log')
      <3>1. \A i \in 1 .. q : log[i] # journal.old[1]
        BY <1>0, <2>1, <2>5 DEF JournalMatches
      <3>2. journal.old[1] \in noted
        BY <2>1, <2>2 DEF JournalMatches
      <3>3. log'[1] # journal.old[1]
        <4>1. CASE q > 0
          BY <1>0, <1>5, <3>1, <4>1
        <4>2. CASE q = 0
          <5>1. log'[1] = new[1] /\ 1 \in 1 .. Len(new)
            BY <1>3, <1>5, <4>2
          <5> QED  BY <1>4, <3>2, <5>1
        <4> QED  BY <1>0, <4>1, <4>2
      <3> QED  BY <2>2, <2>3, <3>3
    <2> QED  BY <2>4, <2>5
  <1>10. JournalMatches'
    <2>1. SUFFICES ASSUME journal # NoJournal PROVE JournalMatches'
      BY <1>2 DEF JournalMatches, NoJournal
    <2>2. journal.new \in Seq(Line) /\ Len(journal.new) \in Nat /\ journal.old[1] \in noted
      BY <2>1, MemoryShape DEF JournalMatches
    <2>3. IsPrefix(journal.new, log) => IsPrefix(journal.new, log')
      <3>1. /\ IsPrefix(journal.new, log) <=> Len(journal.new) <= q /\ \A i \in 1 .. Len(journal.new) : journal.new[i] = log[i]
            /\ IsPrefix(journal.new, log') <=> Len(journal.new) <= q + Len(new) /\ \A i \in 1 .. Len(journal.new) : journal.new[i] = log'[i]
        <4>1. log \in Seq(Line) /\ log' \in Seq(Line) /\ journal.new \in Seq(Line)
          BY <1>0, <1>5, <2>2
        <4>2. Len(log) = q /\ Len(log') = q + Len(new)
          BY <1>5 DEF q
        <4>3. IsPrefix(journal.new, log) <=> Len(journal.new) <= Len(log) /\ \A i \in 1 .. Len(journal.new) : journal.new[i] = log[i]
          BY ONLY <4>1, PrefixByLines
        <4>4. IsPrefix(journal.new, log') <=> Len(journal.new) <= Len(log') /\ \A i \in 1 .. Len(journal.new) : journal.new[i] = log'[i]
          BY ONLY <4>1, PrefixByLines
        <4> QED  BY ONLY <4>2, <4>3, <4>4
      <3> QED  BY <1>0, <1>3, <1>5, <2>2, <3>1
    <2>4. ~ IsPrefix(journal.old, log') => \A i \in DOMAIN log' : log'[i] # journal.old[1]
      <3>1. SUFFICES ASSUME ~ IsPrefix(journal.old, log), NEW i \in DOMAIN log'
                     PROVE  log'[i] # journal.old[1]
        BY <1>9, <2>1
      <3>2. CASE i \in 1 .. q
        BY <1>0, <1>5, <2>1, <3>1, <3>2 DEF JournalMatches
      <3>3. CASE i > q
        <4>1. log'[i] \notin noted
          BY <1>4, <1>5, <3>3
        <4> QED  BY <2>2, <4>1
      <3> QED  BY <1>0, <1>3, <1>5, <3>2, <3>3
    <2> QED  BY <1>2, <1>6, <1>9, <2>1, <2>3, <2>4 DEF JournalMatches, NoJournal
  <1>11. Replaced' <=> Replaced
    BY <1>2, <1>9 DEF Replaced, NoJournal
  <1>12. \A v \in View : cursor[v] \in Nat /\ journal.cursor[v] \in Nat
    BY MemoryShape
  <1>13. CursorsAreInside'
    <2>1. \A c \in Nat : c <= q => c <= Len(log')
      BY <1>0, <1>3, <1>5
    <2> QED  BY <1>2, <1>11, <1>12, <2>1 DEF CursorsAreInside, q
  <1>14. DreamIsInStep' /\ BatchIsTaken'
    <2>1. DreamIsInStep'
      BY <1>2 DEF DreamIsInStep
    <2>2. ASSUME job.kind = "compile" /\ job.step \in {"draft", "cursor", "skip"}
          PROVE  /\ job.through <= Len(log')
                 /\ \A i \in DOMAIN log' : cursor[job.view] < i /\ i <= job.through /\ Relevant(job.view, log'[i])
                                              => log'[i] \in job.batch
      <3>1. job.through \in Nat /\ job.through <= q
        BY <2>2, MemoryShape DEF BatchIsTaken, q
      <3>2. \A i \in DOMAIN log' : i <= job.through => i \in 1 .. q /\ log'[i] = log[i]
        BY <1>0, <1>5, <3>1
      <3>3. job.through <= Len(log')
        BY <1>0, <1>3, <1>5, <3>1
      <3> QED  BY <1>0, <2>2, <3>2, <3>3 DEF BatchIsTaken
    <2>3. BatchIsTaken'
      BY <1>2, <2>2 DEF BatchIsTaken, Relevant
    <2> QED  BY <2>1, <2>3
  <1>15. EvidenceIsAccounted'
    <2>1. ASSUME NEW v \in View, NEW l \in noted', Relevant(v, l), l \notin read[v] \cup givenUp[v]
          PROVE  \E i \in DOMAIN log' : i > ReadsFrom(v) /\ log'[i] = l
      <3>1. ReadsFrom(v) \in Nat /\ ReadsFrom(v) <= q
        BY <1>12 DEF ReadsFrom, CursorsAreInside, Replaced, q
      <3>2. CASE l \in noted
        <4>1. PICK i \in DOMAIN log : i > ReadsFrom(v) /\ log[i] = l
          BY <2>1, <3>2 DEF EvidenceIsAccounted
        <4>2. i \in DOMAIN log' /\ log'[i] = l
          BY <1>0, <1>3, <1>5, <4>1
        <4> QED  BY <4>1, <4>2
      <3>3. CASE \E i \in 1 .. Len(new) : l = new[i]
        <4>1. PICK i \in 1 .. Len(new) : l = new[i]
          BY <3>3
        <4>2. q + i \in DOMAIN log' /\ q + i > ReadsFrom(v) /\ log'[q + i] = l
          BY <1>0, <1>3, <1>5, <3>1, <4>1
        <4> QED  BY <4>2
      <3> QED  BY <1>6, <3>2, <3>3
    <2>2. \A v \in View : ReadsFrom(v)' = ReadsFrom(v)
      BY <1>2, <1>11 DEF ReadsFrom, Replaced, NoJournal
    <2> QED  BY <1>2, <2>1, <2>2 DEF EvidenceIsAccounted, Relevant
  <1> QED  BY <1>7, <1>8, <1>10, <1>13, <1>14, <1>15
-----------------------------------------------------------------------------
(* A compilation                                                           *)

\* The cursor of a view moves over lines the view has no more need of.
LEMMA CursorMoves ==
    ASSUME MemoryInv, NEW v \in View, NEW c \in Nat, cursor' = [cursor EXCEPT ![v] = c],
           UNCHANGED <<log, journal, noted, read, givenUp>>,
           ~ Replaced => c <= Len(log),
           ~ Replaced => \A i \in DOMAIN log : cursor[v] < i /\ i <= c /\ Relevant(v, log[i])
                                               => log[i] \in read[v] \cup givenUp[v]
    PROVE  /\ cursor' \in [View -> Nat] /\ LinesAreFresh' /\ JournalMatches' /\ CursorsAreInside'
           /\ EvidenceIsAccounted'
  <1> USE DEF MemoryInv
  <1>1. cursor' \in [View -> Nat] /\ \A u \in View : cursor'[u] = IF u = v THEN c ELSE cursor[u]
    BY DEF MemoryTypeOK
  <1>2. LinesAreFresh' /\ JournalMatches'
    BY DEF LinesAreFresh, JournalMatches
  <1>3. Replaced' <=> Replaced
    BY DEF Replaced
  <1>4. CursorsAreInside'
    BY <1>1, <1>3 DEF CursorsAreInside
  <1>5. EvidenceIsAccounted'
    <2>1. ASSUME NEW u \in View, NEW l \in noted, Relevant(u, l), l \notin read[u] \cup givenUp[u]
          PROVE  \E i \in DOMAIN log : i > ReadsFrom(u)' /\ log[i] = l
      <3>1. PICK i \in DOMAIN log : i > ReadsFrom(u) /\ log[i] = l
        BY <2>1 DEF EvidenceIsAccounted
      <3>2. CASE Replaced \/ u # v
        <4>1. ReadsFrom(u)' = ReadsFrom(u)
          BY <1>1, <3>2 DEF ReadsFrom, Replaced
        <4> QED  BY <3>1, <4>1
      <3>3. CASE ~ Replaced /\ u = v
        <4>1. ReadsFrom(u) = cursor[v] /\ ReadsFrom(u)' = c
          BY <1>1, <1>3, <3>3 DEF ReadsFrom, Replaced
        <4>2. i \in Nat /\ ~ (i <= c)
          BY <2>1, <3>1, <3>3, <4>1, MemoryShape
        <4> QED  BY <3>1, <4>1, <4>2
      <3> QED  BY <3>2, <3>3
    <2> QED  BY <2>1 DEF EvidenceIsAccounted
  <1> QED  BY <1>1, <1>2, <1>4, <1>5

LEMMA LoadEntriesStep ==
    ASSUME MemoryInv, LoadEntries
    PROVE  MemoryInv'
  <1> USE DEF MemoryInv
  <1>0. /\ job.kind = "compile" /\ job.step = "load" /\ UNCHANGED <<log, journal, noted, read, givenUp>>
        /\ job \in JobRecord /\ job.view \in View
        /\ job.errs \in SUBSET (View \X {"deferred", "rejected", "failed"})
    BY MemoryShape DEF LoadEntries, MemoryTypeOK, JobRecord
  <1>1. PICK v \in View : v = job.view
    BY <1>0
  <1>2. /\ log \in Seq(Line) /\ Len(log) \in Nat /\ DOMAIN log = 1 .. Len(log) /\ cursor[v] \in Nat
    BY MemoryShape
  <1>3. /\ Ahead(v) \subseteq DOMAIN log
        /\ \A i \in DOMAIN log : cursor[v] < i /\ Relevant(v, log[i]) => i \in Ahead(v)
    BY <1>2 DEF Ahead, Smallest
  <1>4. CASE /\ {log[i] : i \in Ahead(v)} = {} /\ NextView(job.errs, FALSE)
             /\ cursor' = [cursor EXCEPT ![v] = IF Len(log) > @ THEN Len(log) ELSE @]
    <2> DEFINE c == IF Len(log) > cursor[v] THEN Len(log) ELSE cursor[v]
    <2>1. c \in Nat /\ cursor' = [cursor EXCEPT ![v] = c]
      BY <1>2, <1>4 DEF MemoryTypeOK
    <2>2. ~ Replaced => c <= Len(log)
      BY <1>2 DEF CursorsAreInside
    <2> HIDE DEF c
    <2>3. \A i \in DOMAIN log : ~ (cursor[v] < i /\ Relevant(v, log[i]))
      BY <1>3, <1>4
    <2>4. /\ cursor' \in [View -> Nat] /\ LinesAreFresh' /\ JournalMatches' /\ CursorsAreInside'
          /\ EvidenceIsAccounted'
      BY <1>0, <2>1, <2>2, <2>3, CursorMoves
    <2>5. DreamIsInStep' /\ BatchIsTaken' /\ job' \in JobRecord
      BY <1>0, <1>4, NextViewBegins, BegunIsInStep
    <2>6. MemoryTypeOK'
      BY <1>0, <2>4, <2>5 DEF MemoryTypeOK
    <2> QED  BY <2>4, <2>5, <2>6
  <1>5. CASE NextView(job.errs, FALSE) /\ UNCHANGED cursor
    BY <1>0, <1>5, NextViewBegins, QuietMemoryStep
  <1>6. CASE /\ UNCHANGED cursor
             /\ \E last \in Ahead(v) :
                  job' = [job EXCEPT !.step = "draft", !.all = {log[i] : i \in Ahead(v)}, !.through = last,
                                     !.batch = {log[i] : i \in {a \in Ahead(v) : a <= last}}]
    <2>1. PICK last \in Ahead(v) :
             job' = [job EXCEPT !.step = "draft", !.all = {log[i] : i \in Ahead(v)}, !.through = last,
                                !.batch = {log[i] : i \in {a \in Ahead(v) : a <= last}}]
      BY <1>6
    <2>2. PICK all, taken : /\ all = {log[i] : i \in Ahead(v)}
                            /\ taken = {log[i] : i \in {a \in Ahead(v) : a <= last}}
      OBVIOUS
    <2>3. last \in Nat /\ last <= Len(log) /\ all \in SUBSET Line /\ taken \in SUBSET Line
      BY <1>2, <1>3, <2>2
    <2>4. job' = [job EXCEPT !.step = "draft", !.all = all, !.through = last, !.batch = taken]
      BY <2>1, <2>2
    <2>5. /\ job' \in JobRecord /\ job'.kind = "compile" /\ job'.step = "draft" /\ job'.view = v
          /\ job'.through = last /\ job'.batch = taken
      BY <1>0, <1>1, <2>3, <2>4 DEF JobRecord, JobSteps
    <2>6. LinesAreFresh' /\ JournalMatches' /\ CursorsAreInside' /\ EvidenceIsAccounted'
      BY <1>0, <1>6, FilesKept
    <2>7. DreamIsInStep'
      BY <2>5 DEF DreamIsInStep
    <2>8. BatchIsTaken'
      <3>1. \A i \in DOMAIN log : cursor[v] < i /\ i <= last /\ Relevant(v, log[i]) => log[i] \in taken
        BY <1>3, <2>2
      <3> QED  BY <1>0, <1>6, <2>3, <2>5, <3>1 DEF BatchIsTaken, Relevant
    <2>9. MemoryTypeOK'
      BY <1>0, <1>6, <2>5 DEF MemoryTypeOK
    <2> QED  BY <2>6, <2>7, <2>8, <2>9
  <1> QED  BY <1>1, <1>4, <1>5, <1>6 DEF LoadEntries

LEMMA CommitViewStep ==
    ASSUME MemoryInv, CommitView
    PROVE  MemoryInv'
  <1> USE DEF MemoryInv
  <1>0. /\ job.kind = "compile" /\ job.step = "draft" /\ UNCHANGED <<log, cursor, journal, noted, givenUp>>
        /\ job' = [job EXCEPT !.step = "cursor"] /\ job \in JobRecord /\ job.view \in View
        /\ job.batch \in SUBSET Line /\ read' = [read EXCEPT ![job.view] = @ \cup job.batch]
    BY MemoryShape DEF CommitView, MemoryTypeOK
  <1>1. /\ job' \in JobRecord /\ job'.kind = "compile" /\ job'.step = "cursor" /\ job'.view = job.view
        /\ job'.through = job.through /\ job'.batch = job.batch
    BY <1>0 DEF JobRecord, JobSteps
  <1>2. /\ read' \in [View -> SUBSET Line] /\ job.batch \subseteq read'[job.view]
        /\ \A v \in View : read[v] \subseteq read'[v]
    BY <1>0 DEF MemoryTypeOK
  <1>3. LinesAreFresh' /\ JournalMatches' /\ CursorsAreInside' /\ EvidenceIsAccounted'
    BY <1>0, <1>2, FilesKept
  <1>4. DreamIsInStep'
    BY <1>1 DEF DreamIsInStep
  <1>5. BatchIsTaken'
    BY <1>0, <1>1, <1>2 DEF BatchIsTaken, Relevant
  <1>6. MemoryTypeOK'
    BY <1>0, <1>1, <1>2 DEF MemoryTypeOK
  <1> QED  BY <1>3, <1>4, <1>5, <1>6

LEMMA DraftFailsStep ==
    ASSUME MemoryInv, NEW status \in {"deferred", "rejected", "failed"}, DraftFails(status)
    PROVE  MemoryInv'
  <1> USE DEF MemoryInv
  <1>0. /\ job.kind = "compile" /\ job.step = "draft" /\ UNCHANGED <<log, cursor, journal, noted, read>>
        /\ job \in JobRecord /\ job.view \in View /\ job.batch \in SUBSET Line
    BY MemoryShape DEF DraftFails, MemoryTypeOK
  <1>1. PICK errs : errs = job.errs \cup {<<job.view, status>>}
    OBVIOUS
  <1>2. errs \in SUBSET (View \X {"deferred", "rejected", "failed"})
    BY <1>0, <1>1 DEF JobRecord
  <1>3. CASE NextView(errs, FALSE) /\ UNCHANGED givenUp
    BY <1>0, <1>2, <1>3, NextViewBegins, QuietMemoryStep
  <1>4. CASE /\ givenUp' = [givenUp EXCEPT ![job.view] = @ \cup job.batch]
             /\ job' = [job EXCEPT !.step = "skip", !.errs = errs]
    <2>1. /\ job' \in JobRecord /\ job'.kind = "compile" /\ job'.step = "skip" /\ job'.view = job.view
          /\ job'.through = job.through /\ job'.batch = job.batch
      BY <1>0, <1>2, <1>4 DEF JobRecord, JobSteps
    <2>2. /\ givenUp' \in [View -> SUBSET Line] /\ job.batch \subseteq givenUp'[job.view]
          /\ \A v \in View : givenUp[v] \subseteq givenUp'[v]
      BY <1>0, <1>4 DEF MemoryTypeOK
    <2>3. LinesAreFresh' /\ JournalMatches' /\ CursorsAreInside' /\ EvidenceIsAccounted'
      BY <1>0, <2>2, FilesKept
    <2>4. DreamIsInStep'
      BY <2>1 DEF DreamIsInStep
    <2>5. BatchIsTaken'
      BY <1>0, <2>1, <2>2 DEF BatchIsTaken, Relevant
    <2>6. MemoryTypeOK'
      BY <1>0, <2>1, <2>2 DEF MemoryTypeOK
    <2> QED  BY <2>3, <2>4, <2>5, <2>6
  <1> QED  BY <1>1, <1>3, <1>4 DEF DraftFails

LEMMA WriteCursorStep ==
    ASSUME MemoryInv, WriteCursor
    PROVE  MemoryInv'
  <1> USE DEF MemoryInv
  <1>0. /\ job.kind = "compile" /\ job.step \in {"cursor", "skip"}
        /\ UNCHANGED <<log, journal, noted, read, givenUp>>
        /\ cursor' = [cursor EXCEPT ![job.view] = job.through]
        /\ job \in JobRecord /\ job.view \in View /\ job.through \in Nat
        /\ job.errs \in SUBSET (View \X {"deferred", "rejected", "failed"})
    BY MemoryShape DEF WriteCursor, MemoryTypeOK, JobRecord
  <1>1. /\ job.through <= Len(log)
        /\ \A i \in DOMAIN log : cursor[job.view] < i /\ i <= job.through /\ Relevant(job.view, log[i])
                                   => log[i] \in read[job.view] \cup givenUp[job.view]
    BY <1>0 DEF BatchIsTaken
  <1>2. /\ cursor' \in [View -> Nat] /\ LinesAreFresh' /\ JournalMatches' /\ CursorsAreInside'
        /\ EvidenceIsAccounted'
    BY <1>0, <1>1, CursorMoves
  <1>3. DreamIsInStep' /\ BatchIsTaken' /\ job' \in JobRecord
    <2>1. CASE job' = [job EXCEPT !.step = "fp"]
      <3>1. job' \in JobRecord /\ job'.kind = "compile" /\ job'.step = "fp"
        BY <1>0, <2>1 DEF JobRecord, JobSteps
      <3> QED  BY <3>1 DEF DreamIsInStep, BatchIsTaken
    <2>2. CASE NextView(job.errs, FALSE)
      BY <1>0, <2>2, NextViewBegins, BegunIsInStep
    <2> QED  BY <2>1, <2>2 DEF WriteCursor
  <1>4. MemoryTypeOK'
    BY <1>0, <1>2, <1>3 DEF MemoryTypeOK
  <1> QED  BY <1>2, <1>3, <1>4
-----------------------------------------------------------------------------
(* Dream                                                                   *)

\* The Dream moves to another step and writes no file.
LEMMA RecoverCleanupStep ==
    ASSUME MemoryInv, RecoverCleanup
    PROVE  MemoryInv'
  <1> USE DEF MemoryInv
  <1>0. /\ job.kind = "dream" /\ UNCHANGED <<log, cursor, journal, noted, read, givenUp>> /\ job \in JobRecord
        /\ job' = [job EXCEPT !.step =
                IF journal = NoJournal THEN "cleanup"
                ELSE IF Matches(journal.old) THEN "drop"
                ELSE IF Matches(journal.new) THEN "durable"
                ELSE "wedged"]
    BY DEF RecoverCleanup, MemoryTypeOK
  <1>1. journal # NoJournal => Matches(journal.old) \/ Matches(journal.new)
    BY DEF JournalMatches, Matches
  <1>2. /\ job' \in JobRecord /\ job'.kind = "dream"
        /\ \/ job'.step = "cleanup" /\ journal = NoJournal
           \/ job'.step = "drop" /\ ~ Replaced
           \/ job'.step = "durable" /\ Replaced
    BY <1>0, <1>1 DEF JobRecord, JobSteps, Replaced, Matches
  <1>3. LinesAreFresh' /\ JournalMatches' /\ CursorsAreInside' /\ EvidenceIsAccounted'
    BY <1>0, FilesKept
  <1>4. DreamIsInStep' /\ BatchIsTaken'
    <2>1. Replaced' <=> Replaced
      BY <1>0 DEF Replaced
    <2> QED  BY <1>0, <1>2, <2>1 DEF DreamIsInStep, BatchIsTaken
  <1>5. MemoryTypeOK'
    BY <1>0, <1>2 DEF MemoryTypeOK
  <1> QED  BY <1>3, <1>4, <1>5

LEMMA WriteJournalStep ==
    ASSUME MemoryInv, WriteJournal
    PROVE  MemoryInv'
  <1> USE DEF MemoryInv
  <1>0. /\ job.kind = "dream" /\ job.step = "cleanup" /\ UNCHANGED <<log, cursor, noted, read, givenUp>>
        /\ job \in JobRecord /\ job' = [job EXCEPT !.step = "replace"] /\ journal = NoJournal
    BY DEF WriteJournal, MemoryTypeOK, DreamIsInStep
  <1>1. /\ log \in Seq(Line) /\ Len(log) \in Nat /\ DOMAIN log = 1 .. Len(log)
        /\ \A v \in View : cursor[v] \in Nat
    BY MemoryShape
  <1>2. PICK k \in 1 .. Smallest(Reclaimable, Len(log)) :
            journal' = [old |-> log, new |-> SubSeq(log, k + 1, Len(log)), cursor |-> Rebase(k)]
    BY DEF WriteJournal
  <1>3. k \in 1 .. Len(log) /\ \A v \in View : k <= cursor[v]
    <2>1. cursor["durable"] \in Nat /\ cursor["context"] \in Nat
      BY <1>1 DEF View
    <2> QED  BY <1>1, <2>1 DEF Smallest, Reclaimable, View
  <1>4. Rebase(k) \in [View -> Nat] /\ \A v \in View : Rebase(k)[v] = cursor[v] - k
    BY <1>1, <1>3 DEF Rebase
  <1>5. SubSeq(log, k + 1, Len(log)) \in Seq(Line)
    BY <1>1, <1>3
  <1>6. /\ journal'.old = log /\ journal'.new = SubSeq(log, k + 1, Len(log)) /\ journal'.cursor = Rebase(k)
        /\ journal' \in JournalRecord
    BY <1>1, <1>2, <1>4, <1>5 DEF JournalRecord
  <1>7. journal' # NoJournal
    <2>1. log # <<>>
      BY <1>1, <1>3
    <2> QED  BY <1>6, <2>1 DEF NoJournal
  <1>8. IsPrefix(journal'.old, log) /\ ~ Replaced /\ ~ Replaced'
    <2>1. IsPrefix(log, log)
      BY <1>1, PrefixByLines
    <2> QED  BY <1>0, <1>6, <2>1 DEF Replaced
  <1>9. job' \in JobRecord /\ job'.kind = "dream" /\ job'.step = "replace"
    BY <1>0 DEF JobRecord, JobSteps
  <1>10. LinesAreFresh'
    BY <1>0 DEF LinesAreFresh
  <1>11. JournalMatches'
    <2>1. Len(journal'.old) > 0 /\ \A i \in DOMAIN journal'.old : journal'.old[i] \in noted
      BY <1>1, <1>3, <1>6 DEF LinesAreFresh
    <2> QED  BY <1>0, <1>8, <2>1 DEF JournalMatches
  <1>12. CursorsAreInside'
    BY <1>0, <1>8 DEF CursorsAreInside
  <1>13. DreamIsInStep' /\ BatchIsTaken'
    <2>1. \A v \in View : k <= cursor'[v] /\ journal'.cursor[v] = cursor'[v] - k
      BY <1>0, <1>3, <1>4, <1>6
    <2>2. \E j \in 1 .. Len(log') : /\ \A v \in View : j <= cursor'[v] /\ journal'.cursor[v] = cursor'[v] - j
                                    /\ journal'.new = SubSeq(log', j + 1, Len(log'))
      BY <1>0, <1>3, <1>6, <2>1
    <2>3. DreamIsInStep'
      BY <1>0, <1>6, <1>7, <1>9, <2>2 DEF DreamIsInStep
    <2> QED  BY <1>9, <2>3 DEF BatchIsTaken
  <1>14. EvidenceIsAccounted'
    <2>1. \A v \in View : ReadsFrom(v)' = cursor[v] /\ ReadsFrom(v) = cursor[v]
      BY <1>0, <1>8 DEF ReadsFrom, Replaced
    <2> QED  BY <1>0, <2>1 DEF EvidenceIsAccounted
  <1>15. MemoryTypeOK'
    BY <1>0, <1>6, <1>9 DEF MemoryTypeOK
  <1> QED  BY <1>10, <1>11, <1>12, <1>13, <1>14, <1>15

\* The lines after the k-th, each k places further to the front.
LEMMA TailLines ==
    ASSUME NEW q \in Seq(Line), NEW k \in 1 .. Len(q), NEW p, p = SubSeq(q, k + 1, Len(q))
    PROVE  /\ p \in Seq(Line) /\ Len(p) = Len(q) - k /\ DOMAIN p = 1 .. Len(q) - k
           /\ \A i \in 1 .. Len(q) - k : p[i] = q[i + k]
  <1>1. k + 1 \in 1 .. Len(q) + 1 /\ Len(q) \in Nat /\ k \in 0 .. Len(q)
    OBVIOUS
  <1>2. p \in Seq(Line) /\ Len(p) = IF k + 1 <= Len(q) THEN Len(q) - (k + 1) + 1 ELSE 0
    BY <1>1
  <1>3. \A i \in 1 .. Len(q) - k : p[i] = q[(k + 1) + i - 1] /\ (k + 1) + i - 1 = i + k
    BY <1>1
  <1>4. Len(p) = Len(q) - k /\ DOMAIN p = 1 .. Len(q) - k
    BY <1>1, <1>2
  <1> QED  BY <1>2, <1>3, <1>4

LEMMA ReplaceLogStep ==
    ASSUME MemoryInv, ReplaceLog
    PROVE  MemoryInv'
  <1> USE DEF MemoryInv
  <1>0. /\ job.kind = "dream" /\ job.step = "replace" /\ UNCHANGED <<cursor, journal, noted, read, givenUp>>
        /\ job \in JobRecord /\ job' = [job EXCEPT !.step = "durable_last"] /\ log' = journal.new
        /\ journal # NoJournal /\ journal.old = log
    BY DEF ReplaceLog, MemoryTypeOK, DreamIsInStep
  <1>1. PICK k \in 1 .. Len(log) : /\ \A v \in View : k <= cursor[v] /\ journal.cursor[v] = cursor[v] - k
                                   /\ journal.new = SubSeq(log, k + 1, Len(log))
    BY <1>0 DEF DreamIsInStep
  <1>2. /\ log \in Seq(Line) /\ Len(log) \in Nat /\ DOMAIN log = 1 .. Len(log)
        /\ \A v \in View : cursor[v] \in Nat
    BY MemoryShape
  <1>3. /\ log' \in Seq(Line) /\ Len(log') = Len(log) - k /\ DOMAIN log' = 1 .. Len(log) - k
        /\ \A i \in 1 .. Len(log) - k : log'[i] = log[i + k]
    <2>1. log' = SubSeq(log, k + 1, Len(log))
      BY <1>0, <1>1
    <2> QED  BY <1>2, <2>1, TailLines
  <1>4. \A i \in DOMAIN log' : i + k \in DOMAIN log /\ log'[i] = log[i + k] /\ i \in Nat
    BY <1>2, <1>3
  <1>5. LinesAreFresh'
    <2>1. \A i, j \in DOMAIN log' : log'[i] = log'[j] => i = j
      <3>1. SUFFICES ASSUME NEW i \in DOMAIN log', NEW j \in DOMAIN log', log'[i] = log'[j] PROVE i = j
        OBVIOUS
      <3>2. i + k = j + k /\ i \in Nat /\ j \in Nat
        BY <1>4, <3>1 DEF LinesAreFresh
      <3> QED  BY <3>2
    <2>2. \A i \in DOMAIN log' : log'[i] \in noted'
      BY <1>0, <1>4 DEF LinesAreFresh
    <2> QED  BY <1>0, <2>1, <2>2 DEF LinesAreFresh
  <1>6. \A i \in DOMAIN log' : log'[i] # log[1]
    <2>1. SUFFICES ASSUME NEW i \in DOMAIN log', log'[i] = log[1] PROVE FALSE
      OBVIOUS
    <2>2. i + k = 1 /\ i \in Nat /\ i >= 1
      <3>1. 1 \in DOMAIN log
        BY <1>2
      <3>2. i >= 1
        BY <1>2, <1>3
      <3> QED  BY <1>4, <2>1, <3>1, <3>2 DEF LinesAreFresh
    <2> QED  BY <2>2
  <1>7. ~ IsPrefix(log, log') /\ Replaced'
    <2>1. IsPrefix(log, log') => Len(log) <= Len(log')
      BY <1>2, <1>3, PrefixByLines
    <2> QED  BY <1>0, <1>2, <1>3, <2>1 DEF Replaced, NoJournal
  <1>8. JournalMatches'
    <2>1. IsPrefix(log', log')
      BY <1>3, PrefixByLines
    <2> QED  BY <1>0, <1>2, <1>6, <2>1 DEF JournalMatches, NoJournal
  <1>9. ~ Replaced /\ \A v \in View : cursor[v] <= Len(log)
    <2>1. IsPrefix(log, log)
      BY <1>2, PrefixByLines
    <2> QED  BY <1>0, <2>1 DEF Replaced, CursorsAreInside
  <1>10. CursorsAreInside'
    <2>1. \A v \in View : journal.cursor[v] <= Len(log')
      BY <1>1, <1>2, <1>3, <1>9
    <2> QED  BY <1>0, <1>7, <2>1 DEF CursorsAreInside
  <1>11. job' \in JobRecord /\ job'.kind = "dream" /\ job'.step = "durable_last"
    BY <1>0 DEF JobRecord, JobSteps
  <1>12. DreamIsInStep' /\ BatchIsTaken'
    BY <1>7, <1>11 DEF DreamIsInStep, BatchIsTaken
  <1>13. EvidenceIsAccounted'
    <2>1. \A v \in View : ReadsFrom(v)' = cursor[v] - k /\ ReadsFrom(v) = cursor[v]
      BY <1>0, <1>1, <1>7, <1>9 DEF ReadsFrom, Replaced
    <2>2. ASSUME NEW v \in View, NEW l \in noted, Relevant(v, l), l \notin read[v] \cup givenUp[v]
          PROVE  \E i \in DOMAIN log' : i > ReadsFrom(v)' /\ log'[i] = l
      <3>1. PICK j \in DOMAIN log : j > cursor[v] /\ log[j] = l
        BY <2>1, <2>2 DEF EvidenceIsAccounted
      <3>2. j - k \in DOMAIN log' /\ j - k + k = j /\ j - k > cursor[v] - k
        BY <1>1, <1>2, <1>3, <3>1
      <3>3. log'[j - k] = l
        BY <1>4, <3>1, <3>2
      <3> QED  BY <2>1, <3>2, <3>3
    <2> QED  BY <1>0, <2>2 DEF EvidenceIsAccounted, Relevant
  <1>14. MemoryTypeOK'
    BY <1>0, <1>3, <1>11 DEF MemoryTypeOK
  <1> QED  BY <1>5, <1>8, <1>10, <1>12, <1>13, <1>14

LEMMA RebaseCursorStep ==
    ASSUME MemoryInv, RebaseCursor
    PROVE  MemoryInv'
  <1> USE DEF MemoryInv
  <1>0. /\ job.kind = "dream" /\ job.step \in {"durable", "durable_last", "context", "context_last"}
        /\ UNCHANGED <<log, journal, noted, read, givenUp>> /\ job \in JobRecord
    BY DEF RebaseCursor, MemoryTypeOK
  <1>1. Replaced /\ journal.cursor \in [View -> Nat] /\ cursor \in [View -> Nat]
    BY <1>0 DEF DreamIsInStep, MemoryTypeOK, JournalRecord
  <1>2. PICK v \in View, step \in JobSteps :
            /\ cursor' = [cursor EXCEPT ![v] = journal.cursor[v]]
            /\ job' = [job EXCEPT !.step = step]
            /\ \/ job.step \in {"durable", "durable_last"} /\ v = "durable" /\ step \in {"context", "context_last"}
               \/ job.step = "context" /\ v = "context" /\ step = "drop"
               \/ job.step = "context_last" /\ v = "context" /\ step = "drop_last"
    <2> DEFINE next == [durable |-> "context", durable_last |-> "context_last",
                        context |-> "drop", context_last |-> "drop_last"]
               view == IF job.step \in {"durable", "durable_last"} THEN "durable" ELSE "context"
    <2>1. /\ cursor' = [cursor EXCEPT ![view] = journal.cursor[view]]
          /\ job' = [job EXCEPT !.step = next[job.step]]
      BY DEF RebaseCursor
    <2>2. /\ next["durable"] = "context" /\ next["durable_last"] = "context_last"
          /\ next["context"] = "drop" /\ next["context_last"] = "drop_last"
      OBVIOUS
    <2> HIDE DEF next
    <2>3. view \in View /\ next[job.step] \in JobSteps
      BY <1>0, <2>2 DEF View, JobSteps
    <2>4. \/ job.step \in {"durable", "durable_last"} /\ view = "durable" /\ next[job.step] \in {"context", "context_last"}
          \/ job.step = "context" /\ view = "context" /\ next[job.step] = "drop"
          \/ job.step = "context_last" /\ view = "context" /\ next[job.step] = "drop_last"
      BY <1>0, <2>2
    <2> HIDE DEF view
    <2> QED  BY <2>1, <2>3, <2>4
  <1>3. job' \in JobRecord /\ job'.kind = "dream" /\ job'.step = step
    BY <1>0, <1>2 DEF JobRecord
  <1>4. /\ cursor' \in [View -> Nat] /\ LinesAreFresh' /\ JournalMatches' /\ CursorsAreInside'
        /\ EvidenceIsAccounted'
    <2>1. journal.cursor[v] \in Nat
      BY <1>1
    <2> QED  BY <1>0, <1>1, <1>2, <2>1, CursorMoves
  <1>5. Replaced'
    BY <1>0, <1>1 DEF Replaced
  <1>6. DreamIsInStep'
    <2>1. \A u \in View : cursor'[u] = IF u = v THEN journal.cursor[u] ELSE cursor[u]
      BY <1>1, <1>2
    <2>2. CASE v = "durable"
      <3>1. cursor'["durable"] = journal'.cursor["durable"]
        BY <1>0, <2>1, <2>2
      <3> QED  BY <1>0, <1>2, <1>3, <1>5, <2>2, <3>1 DEF DreamIsInStep
    <2>3. CASE v = "context"
      <3>1. cursor["durable"] = journal.cursor["durable"]
        BY <1>0, <1>2, <2>3 DEF DreamIsInStep
      <3>2. \A u \in View : cursor'[u] = journal.cursor[u]
        BY <2>1, <2>3, <3>1 DEF View
      <3>3. cursor' = journal.cursor
        BY <1>1, <1>4, <3>2
      <3> QED  BY <1>0, <1>2, <1>3, <1>5, <2>3, <3>3 DEF DreamIsInStep
    <2> QED  BY <2>2, <2>3 DEF View
  <1>7. BatchIsTaken'
    BY <1>3 DEF BatchIsTaken
  <1>8. MemoryTypeOK'
    BY <1>0, <1>3, <1>4 DEF MemoryTypeOK
  <1> QED  BY <1>4, <1>6, <1>7, <1>8

LEMMA ClearJournalStep ==
    ASSUME MemoryInv, ClearJournal
    PROVE  MemoryInv'
  <1> USE DEF MemoryInv
  <1>0. /\ job.kind = "dream" /\ job.step \in {"drop", "drop_last"} /\ journal' = NoJournal
        /\ UNCHANGED <<log, cursor, noted, read, givenUp>> /\ job \in JobRecord
    BY DEF ClearJournal, MemoryTypeOK
  <1>1. /\ ~ Replaced' /\ NoJournal \in JournalRecord
        /\ Replaced => cursor = journal.cursor
    BY <1>0 DEF Replaced, DreamIsInStep, NoJournal, JournalRecord
  <1>2. \A v \in View : ReadsFrom(v)' = cursor[v] /\ ReadsFrom(v) = cursor[v]
    BY <1>0, <1>1 DEF ReadsFrom, Replaced
  <1>3. EvidenceIsAccounted'
    BY <1>0, <1>2 DEF EvidenceIsAccounted, Relevant
  <1>4. CursorsAreInside'
    BY <1>0, <1>1 DEF CursorsAreInside
  <1>5. LinesAreFresh' /\ JournalMatches'
    BY <1>0 DEF LinesAreFresh, JournalMatches, NoJournal
  <1>6. DreamIsInStep' /\ BatchIsTaken' /\ job' \in JobRecord
    <2>1. CASE job' = [job EXCEPT !.step = "cleanup"]
      <3>1. job' \in JobRecord /\ job'.kind = "dream" /\ job'.step = "cleanup"
        BY <1>0, <2>1 DEF JobRecord, JobSteps
      <3> QED  BY <1>0, <3>1 DEF DreamIsInStep, BatchIsTaken, NoJournal
    <2>2. CASE Release(TRUE, FALSE)
      BY <2>2, ReleaseBegins, BegunIsInStep
    <2> QED  BY <2>1, <2>2 DEF ClearJournal
  <1>7. MemoryTypeOK'
    BY <1>0, <1>1, <1>6 DEF MemoryTypeOK
  <1> QED  BY <1>3, <1>4, <1>5, <1>6, <1>7

-----------------------------------------------------------------------------
LEMMA MemoryStart == MemoryInit => MemoryInv
  <1> SUFFICES ASSUME MemoryInit PROVE MemoryInv
    OBVIOUS
  <1> USE DEF MemoryInit
  <1>1. JustBegun(job)
    BY BeginsFresh
  <1>2. DOMAIN log = {} /\ log \in Seq(Line) /\ Len(log) = 0 /\ IsFiniteSet(noted)
    BY FS_EmptySet
  <1>3. NoJournal \in JournalRecord
    BY DEF NoJournal, JournalRecord
  <1>4. MemoryTypeOK
    BY <1>1, <1>2, <1>3 DEF MemoryTypeOK, JustBegun
  <1>5. LinesAreFresh /\ JournalMatches /\ CursorsAreInside /\ EvidenceIsAccounted
    BY <1>2 DEF LinesAreFresh, JournalMatches, CursorsAreInside, EvidenceIsAccounted, Replaced
  <1>6. DreamIsInStep /\ BatchIsTaken
    BY DEF DreamIsInStep, BatchIsTaken, NoOp
  <1> QED  BY <1>4, <1>5, <1>6 DEF MemoryInv

LEMMA MemoryStep == MemoryInv /\ [MemoryNext]_memoryVars => MemoryInv'
  <1> SUFFICES ASSUME MemoryInv, [MemoryNext]_memoryVars PROVE MemoryInv'
    OBVIOUS
  <1>0. MemoryTypeOK /\ job.errs \in SUBSET (View \X {"deferred", "rejected", "failed"})
    BY DEF MemoryInv, MemoryTypeOK, JobRecord
  <1>1. CASE UNCHANGED memoryVars
    BY <1>1, QuietMemoryStep DEF memoryVars
  <1>2. CASE \E kinds \in Turns : RecordTurn(kinds)
    BY <1>2, RecordTurnStep
  <1>3. ASSUME NEW k \in Maintenance, CooldownEnds(k) PROVE MemoryInv'
    BY <1>3, QuietMemoryStep DEF CooldownEnds
  <1>4. ASSUME NEW k \in Maintenance, StartTask(k) PROVE MemoryInv'
    BY <1>4, BeginsFresh, QuietMemoryStep DEF StartTask
  <1>5. CASE IdleTick
    BY <1>5, BeginsFresh, QuietMemoryStep DEF IdleTick
  <1>6. CASE LoadEntries
    BY <1>6, LoadEntriesStep
  <1>7. CASE CommitView
    BY <1>7, CommitViewStep
  <1>8. CASE DraftTimesOut
    BY <1>8, ReleaseBegins, QuietMemoryStep DEF DraftTimesOut
  <1>9. CASE WriteCursor
    BY <1>9, WriteCursorStep
  <1>10. CASE WriteFingerprint
    BY <1>0, <1>10, NextViewBegins, QuietMemoryStep DEF WriteFingerprint
  <1>11. CASE \E status \in {"deferred", "rejected", "failed"} : DraftFails(status)
    BY <1>11, DraftFailsStep
  <1>12. CASE RecoverCleanup
    BY <1>12, RecoverCleanupStep
  <1>13. CASE WriteJournal
    BY <1>13, WriteJournalStep
  <1>14. CASE NothingToReclaim
    BY <1>14, ReleaseBegins, QuietMemoryStep DEF NothingToReclaim
  <1>15. CASE ReplaceLog
    BY <1>15, ReplaceLogStep
  <1>16. CASE RebaseCursor
    BY <1>16, RebaseCursorStep
  <1>17. CASE ClearJournal
    BY <1>17, ClearJournalStep
  <1>18. CASE MemoryCrash
    BY <1>18, BeginsFresh, QuietMemoryStep DEF MemoryCrash
  <1> QED  BY <1>1, <1>2, <1>3, <1>4, <1>5, <1>6, <1>7, <1>8, <1>9, <1>10, <1>11, <1>12, <1>13,
              <1>14, <1>15, <1>16, <1>17, <1>18 DEF MemoryNext

\* Along every behaviour of the memory the log is the one the journal of a
\* Dream replaces or the one it puts in its place, the cursors lie inside it,
\* and what is before a cursor has been read or given up, wherever a crash
\* fell.
THEOREM MemoryInvariant == MemorySpec => []MemoryInv
  BY MemoryStart, MemoryStep, PTL DEF MemorySpec

\* Evidence is never lost unread (store.py, compile.py, dream.py): each line a
\* view should learn from is in the view, given up with a record or ahead of
\* its cursor, and a Dream a crash cut off can be finished, for any number of
\* lines and crashes and any intervals.
THEOREM EvidenceIsAlwaysRead == MemorySpec => []EvidenceIsRead
  <1>1. MemoryInv => EvidenceIsRead
    <2>1. MemoryInv => (job.kind = "dream" => job.step # "wedged")
      BY DEF MemoryInv, DreamIsInStep
    <2> QED  BY <2>1 DEF MemoryInv, EvidenceIsRead, DreamIsNotWedged
  <1> QED  BY <1>1, MemoryInvariant, PTL

-----------------------------------------------------------------------------
(* A rewritten view (MemoryDraft)                                          *)

\* The changes parse_changeset keeps, and the bullets there can be.
ParsedChange == {c \in Proposal : c.op \in {"add", "remove", "replace"}}
Bullet == {[key |-> c.key, facts |-> c.facts] : c \in ParsedChange}
          \cup UNION {Range(FirstDoc[s]) : s \in Range(Section)}
Document == [Range(Section) -> Seq(Bullet)]
ApplyState == [doc : Document, applied : Seq(ParsedChange)]

LEMMA RemoveOne ==
  ASSUME NEW S, NEW w \in Seq(S), NEW k \in DOMAIN w
  PROVE  /\ RemoveAt(w, k) \in Seq(S)
         /\ Range(RemoveAt(w, k)) \subseteq Range(w)
         /\ \A x \in Range(w) : x \in Range(RemoveAt(w, k)) \/ x = w[k]
  <1> DEFINE a == SubSeq(w, 1, k - 1)
             b == SubSeq(w, k + 1, Len(w))
  <1>1. Len(w) \in Nat /\ DOMAIN w = 1 .. Len(w) /\ k \in 1 .. Len(w) /\ \A i \in 1 .. Len(w) : w[i] \in S
    OBVIOUS
  <1>2. /\ a \in Seq(S) /\ Len(a) = k - 1 /\ \A i \in 1 .. k - 1 : a[i] = w[i]
    BY <1>1
  <1>3. /\ b \in Seq(S) /\ Len(b) = Len(w) - k /\ \A i \in 1 .. Len(w) - k : b[i] = w[k + i]
    <2>1. /\ k + 1 \in Int /\ Len(w) \in Int /\ \A i \in k + 1 .. Len(w) : w[i] \in S
      BY <1>1
    <2>2. /\ b \in Seq(S) /\ Len(b) = IF k + 1 <= Len(w) THEN Len(w) - (k + 1) + 1 ELSE 0
          /\ \A i \in 1 .. Len(w) - (k + 1) + 1 : b[i] = w[(k + 1) + i - 1]
      BY <2>1, SubSeqProperties
    <2>3. Len(w) - (k + 1) + 1 = Len(w) - k /\ (~ k + 1 <= Len(w) => Len(w) - k = 0)
      BY <1>1
    <2>4. \A i \in 1 .. Len(w) - k : (k + 1) + i - 1 = k + i
      BY <1>1
    <2> HIDE DEF b
    <2> QED  BY <2>2, <2>3, <2>4
  <1> HIDE DEF a, b
  <1>4. a \o b \in Seq(S) /\ Range(a \o b) = Range(a) \cup Range(b)
    BY <1>2, <1>3, ConcatProperties, RangeConcatenation
  <1>5. Range(a) = {a[i] : i \in 1 .. k - 1} /\ Range(b) = {b[i] : i \in 1 .. Len(w) - k}
        /\ Range(w) = {w[i] : i \in 1 .. Len(w)}
    BY <1>2, <1>3, <1>1, RangeEquality
  <1>6. \A x \in Range(a) \cup Range(b) : x \in Range(w)
    <2>1. ASSUME NEW i \in 1 .. k - 1 PROVE a[i] \in Range(w)
      BY <1>1, <1>2, <1>5
    <2>2. ASSUME NEW i \in 1 .. Len(w) - k PROVE b[i] \in Range(w)
      <3>1. k + i \in 1 .. Len(w)
        BY <1>1
      <3> QED BY <3>1, <1>3, <1>5
    <2> QED BY <2>1, <2>2, <1>5
  <1>7. ASSUME NEW i \in 1 .. Len(w), i # k PROVE w[i] \in Range(a) \cup Range(b)
    <2>1. CASE i < k
      BY <2>1, <1>1, <1>2, <1>5
    <2>2. CASE i > k
      <3>1. i - k \in 1 .. Len(w) - k /\ k + (i - k) = i
        BY <2>2, <1>1
      <3> QED BY <3>1, <1>3, <1>5
    <2> QED BY <2>1, <2>2, <1>1, <1>7
  <1> QED BY <1>4, <1>5, <1>6, <1>7 DEF RemoveAt, a, b

LEMMA AppendOne ==
  ASSUME NEW S, NEW w \in Seq(S), NEW e \in S
  PROVE  Append(w, e) \in Seq(S) /\ Range(Append(w, e)) = Range(w) \cup {e}
  <1>1. Append(w, e) \in Seq(S) /\ Append(w, e) = w \o <<e>> /\ <<e>> \in Seq(S)
    BY AppendProperties, AppendIsConcat
  <1>2. Range(<<e>>) = {e}
    BY DEF Range
  <1>3. Range(w \o <<e>>) = Range(w) \cup Range(<<e>>)
    <2> DEFINE t == <<e>>
    <2>1. w \in Seq(S) /\ t \in Seq(S)
      BY <1>1
    <2> HIDE DEF t
    <2>2. Range(w \o t) = Range(w) \cup Range(t)
      BY ONLY <2>1, RangeConcatenation
    <2> QED  BY <2>2 DEF t
  <1> QED BY <1>1, <1>2, <1>3

LEMMA ReplaceOne ==
  ASSUME NEW S, NEW w \in Seq(S), NEW k \in DOMAIN w, NEW e \in S
  PROVE  /\ ReplaceAt(w, k, e) \in Seq(S)
         /\ Range(ReplaceAt(w, k, e)) \subseteq Range(w) \cup {e}
         /\ \A x \in Range(w) : x \in Range(ReplaceAt(w, k, e)) \/ x = w[k]
  <1> DEFINE n == ReplaceAt(w, k, e)
  <1>1. k \in 1 .. Len(w) /\ Len(w) \in Nat
    OBVIOUS
  <1>2. /\ n \in Seq(S) /\ Len(n) = Len(w)
        /\ \A j \in 1 .. Len(w) : n[j] = IF j = k THEN e ELSE w[j]
    BY <1>1, ExceptSeq DEF ReplaceAt
  <1> HIDE DEF n
  <1>3. Range(n) = {n[i] : i \in 1 .. Len(w)} /\ Range(w) = {w[i] : i \in 1 .. Len(w)}
    BY <1>2, RangeEquality
  <1>4. Range(n) \subseteq Range(w) \cup {e}
    BY <1>2, <1>3
  <1>5. \A x \in Range(w) : x \in Range(n) \/ x = w[k]
    BY <1>2, <1>3
  <1> QED BY <1>2, <1>4, <1>5 DEF n

LEMMA SetOfOne ==
  ASSUME NEW X, Cardinality(X) = 1, IsFiniteSet(X)
  PROVE  \E x : X = {x}
  BY FS_CardinalityType, FS_Singleton

\* What one change does to x: it is rejected, or it is applied to its section,
\* and a bullet that goes is the one it names.
ChangesOne(x, c, y) ==
    /\ Range(x.applied) \subseteq Range(y.applied)
    /\ \A d \in Range(y.applied) : d \in Range(x.applied) \/ (d = c /\ Entitled(c))
    /\ \A s \in Range(Section) : \A b \in Range(x.doc[s]) :
          \/ b \in Range(y.doc[s])
          \/ c \in Range(y.applied) /\ c.section = s /\ c.target = b.key
    /\ \A s \in Range(Section) : \A b \in Range(y.doc[s]) :
          b \in Range(x.doc[s]) \/ (Entitled(c) /\ b.facts = c.facts)

LEMMA ApplyOneFacts ==
  ASSUME NEW x \in ApplyState, NEW c \in Proposal
  PROVE  ApplyOne(x, c) \in ApplyState /\ ChangesOne(x, c, ApplyOne(x, c))
  <1> DEFINE bullets == x.doc[c.section]
             i == CHOOSE i \in At(bullets, c.target) : TRUE
             new == [key |-> c.key, facts |-> c.facts]
             after == CASE c.op = "add" -> Append(bullets, new)
                        [] c.op = "remove" -> RemoveAt(bullets, i)
                        [] OTHER -> ReplaceAt(bullets, i, new)
             y == ApplyOne(x, c)
  <1>0. x.doc \in Document /\ x.applied \in Seq(ParsedChange)
    BY DEF ApplyState
  <1>1. CASE ~ (Entitled(c) /\ Located(bullets, c))
    <2>1. y = x
      BY <1>1 DEF ApplyOne
    <2> QED BY <2>1 DEF ChangesOne
  <1>2. CASE Entitled(c) /\ Located(bullets, c)
    <2>1. c \in ParsedChange /\ c.section \in Range(Section)
      BY <1>2, DraftAssumption DEF Entitled, ParsedChange
    <2>2. bullets \in Seq(Bullet) /\ new \in Bullet
      BY <2>1, <1>0 DEF Document, Bullet
    <2>3. c.op # "add" => i \in DOMAIN bullets /\ bullets[i].key = c.target
      <3> SUFFICES ASSUME c.op # "add" PROVE i \in DOMAIN bullets /\ bullets[i].key = c.target
        OBVIOUS
      <3>1. Cardinality(At(bullets, c.target)) = 1
        BY <1>2 DEF Located
      <3>2. At(bullets, c.target) # {}
        BY <3>1, FS_EmptySet
      <3>3. i \in At(bullets, c.target)
        BY <3>2
      <3> QED BY <3>3 DEF At
    <2>4. y = [doc |-> [x.doc EXCEPT ![c.section] = after], applied |-> Append(x.applied, c)]
      BY <1>2 DEF ApplyOne
    <2> DEFINE app == Append(x.applied, c)
    <2>5. app \in Seq(ParsedChange) /\ Range(app) = Range(x.applied) \cup {c}
      BY <1>0, <2>1, AppendOne
    <2>6. /\ after \in Seq(Bullet)
          /\ \A b \in Range(bullets) : b \in Range(after) \/ c.target = b.key
          /\ \A b \in Range(after) : b \in Range(bullets) \/ b.facts = c.facts
      <3>0. c.op \in {"add", "remove", "replace"} /\ new.facts = c.facts
        BY <2>1 DEF ParsedChange
      <3> HIDE DEF bullets, i, new
      <3>1. CASE c.op = "add"
        <4>1. after = Append(bullets, new)
          BY <3>1
        <4> HIDE DEF after
        <4> QED BY <4>1, <2>2, <3>0, AppendOne
      <3>2. CASE c.op = "remove"
        <4>1. after = RemoveAt(bullets, i)
          BY <3>2
        <4> HIDE DEF after
        <4> QED BY <4>1, <3>2, <2>2, <2>3, RemoveOne
      <3>3. CASE c.op = "replace"
        <4>1. after = ReplaceAt(bullets, i, new)
          BY <3>3
        <4> HIDE DEF after
        <4> QED BY <4>1, <3>3, <2>2, <2>3, <3>0, ReplaceOne
      <3> QED BY <3>0, <3>1, <3>2, <3>3
    <2> HIDE DEF after, y, app
    <2>7. y.applied = app /\ y.doc = [x.doc EXCEPT ![c.section] = after]
      BY <2>4 DEF app
    <2>8. y.doc \in Document /\ y \in ApplyState
      BY <1>0, <2>1, <2>4, <2>5, <2>6, <2>7 DEF Document, ApplyState, app
    <2>9. \A s \in Range(Section) : y.doc[s] = IF s = c.section THEN after ELSE x.doc[s]
      BY <2>7, <1>0 DEF Document
    <2>10. /\ \A s \in Range(Section) : \A b \in Range(x.doc[s]) :
                   \/ b \in Range(y.doc[s])
                   \/ c \in Range(y.applied) /\ c.section = s /\ c.target = b.key
           /\ \A s \in Range(Section) : \A b \in Range(y.doc[s]) :
                   b \in Range(x.doc[s]) \/ (Entitled(c) /\ b.facts = c.facts)
      BY <2>9, <2>6, <2>5, <2>7, <1>2
    <2> QED BY <2>8, <2>10, <2>5, <2>7, <1>2 DEF y, ChangesOne
  <1> QED BY <1>1, <1>2

\* apply_changes is its steps in order.
LEMMA ApplySteps ==
  ASSUME doc \in Document, NEW changes \in Seq(Proposal)
  PROVE  \E f \in [0 .. Len(changes) -> ApplyState] :
            /\ f[0] = [doc |-> doc, applied |-> <<>>]
            /\ \A i \in 1 .. Len(changes) : f[i] = ApplyOne(f[i - 1], changes[i])
            /\ Apply(changes) = f[Len(changes)]
  <1> DEFINE n == Len(changes)
             base == [doc |-> doc, applied |-> <<>>]
             step == [p \in ApplyState \X (1 .. n) |-> ApplyOne(p[1], changes[p[2]])]
             Eq(it) == it = [s \in SUBSET (1 .. n) |->
                               IF s = {} THEN base ELSE ApplyOne(it[s \ {Max(s)}], changes[Max(s)])]
             it == CHOOSE it : Eq(it)
             f == [i \in 0 .. n |-> it[1 .. i]]
  <1>1. n \in Nat /\ DOMAIN changes = 1 .. n /\ base \in ApplyState
    BY DEF ApplyState
  <1>2. step \in [ApplyState \X (1 .. n) -> ApplyState]
    BY ApplyOneFacts
  <1>3. PICK j \in [SUBSET (1 .. n) -> ApplyState] : IsIteration(j, n, base, step)
    <2> HIDE DEF n, base, step
    <2> QED BY <1>1, <1>2, IterationExists
  <1>4. Eq(j)
    <2>1. ASSUME NEW s \in SUBSET (1 .. n), s # {}
          PROVE  step[<<j[s \ {Max(s)}], Max(s)>>] = ApplyOne(j[s \ {Max(s)}], changes[Max(s)])
      <3>0. s \in SUBSET (0 .. n)
        OBVIOUS
      <3>1. Max(s) \in 1 .. n
        BY <2>1, <3>0, <1>1, MaxOfSome
      <3>2. j[s \ {Max(s)}] \in ApplyState
        BY <1>3
      <3> QED BY <3>1, <3>2
    <2> HIDE DEF step
    <2> QED BY <2>1, <1>3 DEF IsIteration
  <1>5. Eq(it)
    BY <1>4
  <1>6. Apply(changes) = it[1 .. n]
    BY <1>1 DEF Apply, FoldLeft, MapThenFoldSet
  <1> HIDE DEF it
  <1>7. f[0] = base
    <2>1. 1 .. 0 = {} /\ {} \in SUBSET (1 .. n)
      OBVIOUS
    <2> QED BY <1>1, <1>5, <2>1
  <1>8. ASSUME NEW i \in 1 .. n PROVE f[i] = ApplyOne(f[i - 1], changes[i])
    <2>1. 1 .. i \in SUBSET (1 .. n) /\ i \in 1 .. i /\ i \in 0 .. n /\ i - 1 \in 0 .. n
      BY <1>1
    <2>3. i \in Nat /\ i # 0
      OBVIOUS
    <2>4. Max(1 .. i) = i /\ (1 .. i) \ {i} = 1 .. (i - 1)
      BY <2>3, MaxOfPrefix
    <2>2. it[1 .. i] = ApplyOne(it[(1 .. i) \ {Max(1 .. i)}], changes[Max(1 .. i)])
      BY <1>5, <2>1
    <2> QED BY <2>1, <2>2, <2>4
  <1> DEFINE Good == {i \in 0 .. n : f[i] \in ApplyState}
  <1> HIDE DEF f
  <1>9. 0 \in Good
    BY <1>1, <1>7
  <1>10. ASSUME NEW i \in 1 .. n, i - 1 \in Good PROVE i \in Good
    BY <1>8, <1>10, ApplyOneFacts
  <1>11. \A i \in 0 .. n : f[i] \in ApplyState
    <2> HIDE DEF Good
    <2>1. \A i \in 0 .. n : i \in Good
      BY <1>1, <1>9, <1>10, IntervalInduction
    <2> QED BY <2>1 DEF Good
  <1>12. f \in [0 .. n -> ApplyState] /\ f[n] = it[1 .. n]
    BY <1>1, <1>11 DEF f
  <1> QED BY <1>6, <1>7, <1>8, <1>12

\* What a change set comes to: only entitled changes are applied, a bullet that
\* is gone was named by one, and a new bullet states the facts of one.
LEMMA ApplyFacts ==
  ASSUME doc \in Document, NEW changes \in Seq(Proposal)
  PROVE  LET r == Apply(changes)
         IN  /\ r \in ApplyState
             /\ \A d \in Range(r.applied) : Entitled(d)
             /\ \A s \in Range(Section) : \A b \in Range(doc[s]) :
                   \/ b \in Range(r.doc[s])
                   \/ \E d \in Range(r.applied) : d.section = s /\ d.target = b.key
             /\ \A s \in Range(Section) : \A b \in Range(r.doc[s]) :
                   \/ b \in Range(doc[s])
                   \/ \E c \in Proposal : Entitled(c) /\ b.facts = c.facts
  <1> DEFINE n == Len(changes)
             Kept(r) == \A s \in Range(Section) : \A b \in Range(doc[s]) :
                   \/ b \in Range(r.doc[s])
                   \/ \E d \in Range(r.applied) : d.section = s /\ d.target = b.key
             Founded(r) == \A s \in Range(Section) : \A b \in Range(r.doc[s]) :
                   \/ b \in Range(doc[s])
                   \/ \E c \in Proposal : Entitled(c) /\ b.facts = c.facts
             Lawful(r) == \A d \in Range(r.applied) : Entitled(d)
  <1>1. PICK f \in [0 .. n -> ApplyState] :
            /\ f[0] = [doc |-> doc, applied |-> <<>>]
            /\ \A i \in 1 .. n : f[i] = ApplyOne(f[i - 1], changes[i])
            /\ Apply(changes) = f[n]
    BY ApplySteps
  <1> DEFINE Good == {i \in 0 .. n : Lawful(f[i]) /\ Kept(f[i]) /\ Founded(f[i])}
  <1>2. n \in Nat
    OBVIOUS
  <1>3. 0 \in Good
    <2>1. f[0].applied = <<>> /\ f[0].doc = doc
      BY <1>1
    <2>2. Range(f[0].applied) = {}
      BY <2>1 DEF Range
    <2> QED BY <1>2, <2>1, <2>2
  <1>4. ASSUME NEW i \in 1 .. n, i - 1 \in Good PROVE i \in Good
    <2> DEFINE x == f[i - 1]
               c == changes[i]
    <2>1. x \in ApplyState /\ c \in Proposal /\ f[i] = ApplyOne(x, c) /\ i \in 0 .. n
      BY <1>1, <1>2
    <2>2. Lawful(x) /\ Kept(x) /\ Founded(x)
      BY <1>4
    <2> HIDE DEF x, c
    <2> DEFINE y == ApplyOne(x, c)
    <2>3. ChangesOne(x, c, y)
      BY <2>1, ApplyOneFacts
    <2> HIDE DEF y
    <2>4. Lawful(y)
      BY <2>1, <2>2, <2>3 DEF ChangesOne
    <2>5. Kept(y)
      BY <2>1, <2>2, <2>3 DEF ChangesOne
    <2>6. Founded(y)
      BY <2>1, <2>2, <2>3 DEF ChangesOne
    <2> QED BY <2>1, <2>4, <2>5, <2>6 DEF y
  <1>5. n \in Good
    <2> HIDE DEF Good
    <2>1. \A i \in 0 .. n : i \in Good
      BY <1>2, <1>3, <1>4, IntervalInduction
    <2> QED BY <1>2, <2>1
  <1> QED BY <1>1, <1>2, <1>5

-----------------------------------------------------------------------------
(* Eviction                                                                *)

LEMMA SizeIsNat ==
  ASSUME NEW d \in Document
  PROVE  Size(d) \in Nat
  <1> DEFINE Part(s) == {s} \X DOMAIN d[s]
             Parts == {Part(s) : s \in DOMAIN d}
  <1>1. IsFiniteSet(Range(Section))
    <2>1. Section \in Seq(Range(Section)) /\ Len(Section) \in Nat /\ DOMAIN Section = 1 .. Len(Section)
      BY DraftAssumption
    <2>2. IsFiniteSet(1 .. Len(Section))
      BY <2>1, FS_Interval
    <2>3. Range(Section) = {Section[i] : i \in 1 .. Len(Section)}
      BY <2>1 DEF Range
    <2>4. Section \in Surjection(1 .. Len(Section), Range(Section))
      BY <2>1, <2>3 DEF Surjection
    <2> QED BY <2>2, <2>4, FS_Surjection
  <1>2. DOMAIN d = Range(Section)
    BY DEF Document
  <1>3. \A s \in DOMAIN d : IsFiniteSet(Part(s))
    <2> TAKE s \in DOMAIN d
    <2>1. d[s] \in Seq(Bullet)
      BY <1>2 DEF Document
    <2>2. DOMAIN d[s] = 1 .. Len(d[s]) /\ Len(d[s]) \in Nat
      BY <2>1
    <2>3. IsFiniteSet(DOMAIN d[s])
      BY <2>2, FS_Interval
    <2>4. IsFiniteSet({s})
      BY FS_Singleton
    <2> QED BY <2>3, <2>4, FS_Product
  <1>4. IsFiniteSet(Parts)
    <2> DEFINE g == [s \in DOMAIN d |-> Part(s)]
    <2>1. g \in Surjection(DOMAIN d, Parts)
      BY DEF Surjection
    <2> HIDE DEF g, Parts
    <2> QED BY <2>1, <1>1, <1>2, FS_Surjection
  <1>5. IsFiniteSet(UNION Parts)
    <2>1. \A T \in Parts : IsFiniteSet(T)
      BY <1>3
    <2> HIDE DEF Parts
    <2> QED BY <2>1, <1>4, FS_UNION
  <1> QED BY <1>5, FS_CardinalityType DEF Size

\* The newest part of the bullets of a section.
IsNewest(e, w) ==
    /\ Len(e) <= Len(w)
    /\ \A i \in 1 .. Len(e) : e[i] = w[i + (Len(w) - Len(e))]

LEMMA EvictFromFacts ==
  ASSUME NEW d \in Document, NEW t \in Range(Section)
  PROVE  /\ EvictFrom(d, t) \in Document
         /\ \A s \in Range(Section) : IsNewest(EvictFrom(d, t)[s], d[s])
  <1> DEFINE over == IF Size(d) > MaxBullets THEN Size(d) - MaxBullets ELSE 0
             w == d[t]
             cut == IF over < Len(w) THEN over ELSE Len(w)
             e == SubSeq(w, cut + 1, Len(w))
  <1>1. \A s \in Range(Section) : d[s] \in Seq(Bullet) /\ Len(d[s]) \in Nat
    BY DEF Document
  <1>2. over \in Nat
    BY SizeIsNat, DraftAssumption
  <1>3. w \in Seq(Bullet) /\ Len(w) \in Nat /\ cut \in 0 .. Len(w)
    <2> HIDE DEF over
    <2> QED BY <1>1, <1>2
  <1>4. EvictFrom(d, t) = [d EXCEPT ![t] = e]
    BY DEF EvictFrom
  <1> HIDE DEF cut, w, over
  <1>5. /\ e \in Seq(Bullet) /\ Len(e) = Len(w) - cut
        /\ \A i \in 1 .. Len(w) - cut : e[i] = w[cut + i]
    <2>1. cut + 1 \in Int /\ Len(w) \in Int /\ \A i \in cut + 1 .. Len(w) : w[i] \in Bullet
      BY <1>3
    <2>2. /\ e \in Seq(Bullet) /\ Len(e) = IF cut + 1 <= Len(w) THEN Len(w) - (cut + 1) + 1 ELSE 0
          /\ \A i \in 1 .. Len(w) - (cut + 1) + 1 : e[i] = w[(cut + 1) + i - 1]
      BY <2>1, SubSeqProperties
    <2>3. Len(w) - (cut + 1) + 1 = Len(w) - cut /\ (~ cut + 1 <= Len(w) => Len(w) - cut = 0)
      BY <1>3
    <2>4. \A i \in 1 .. Len(w) - cut : (cut + 1) + i - 1 = cut + i
      BY <1>3
    <2> HIDE DEF e
    <2> QED  BY <2>2, <2>3, <2>4
  <1> HIDE DEF e
  <1>6. IsNewest(e, w)
    <2>1. Len(w) - Len(e) = cut /\ Len(e) <= Len(w)
      BY <1>3, <1>5
    <2>2. \A i \in 1 .. Len(e) : e[i] = w[i + cut]
      <3> TAKE i \in 1 .. Len(e)
      <3>1. i \in 1 .. Len(w) - cut /\ i + cut = cut + i
        BY <1>3, <1>5
      <3> QED BY <3>1, <1>5
    <2> QED BY <2>1, <2>2 DEF IsNewest
  <1>7. \A s \in Range(Section) : IsNewest(d[s], d[s])
    <2> TAKE s \in Range(Section)
    <2>1. Len(d[s]) \in Nat
      BY <1>1
    <2>2. \A i \in 1 .. Len(d[s]) : i + (Len(d[s]) - Len(d[s])) = i
      BY <2>1
    <2> QED BY <2>1, <2>2 DEF IsNewest
  <1> QED BY <1>4, <1>5, <1>6, <1>7 DEF Document, w

\* evict_to_budget is its steps in order.
LEMMA EvictSteps ==
  ASSUME NEW d \in Document
  PROVE  \E f \in [0 .. Len(Section) -> Document] :
            /\ f[0] = d
            /\ \A i \in 1 .. Len(Section) : f[i] = EvictFrom(f[i - 1], Section[i])
            /\ Evict(d) = f[Len(Section)]
  <1> DEFINE n == Len(Section)
             step == [p \in Document \X (1 .. n) |-> EvictFrom(p[1], Section[p[2]])]
             Eq(it) == it = [s \in SUBSET (1 .. n) |->
                               IF s = {} THEN d ELSE EvictFrom(it[s \ {Max(s)}], Section[Max(s)])]
             it == CHOOSE it : Eq(it)
             f == [i \in 0 .. n |-> it[1 .. i]]
  <1>1. n \in Nat /\ DOMAIN Section = 1 .. n /\ \A i \in 1 .. n : Section[i] \in Range(Section)
    BY DraftAssumption
  <1>2. step \in [Document \X (1 .. n) -> Document]
    BY <1>1, EvictFromFacts
  <1>3. PICK j \in [SUBSET (1 .. n) -> Document] : IsIteration(j, n, d, step)
    <2> HIDE DEF n, step
    <2> QED BY <1>1, <1>2, IterationExists
  <1>4. Eq(j)
    <2>1. ASSUME NEW s \in SUBSET (1 .. n), s # {}
          PROVE  step[<<j[s \ {Max(s)}], Max(s)>>] = EvictFrom(j[s \ {Max(s)}], Section[Max(s)])
      <3>0. s \in SUBSET (0 .. n)
        OBVIOUS
      <3>1. Max(s) \in 1 .. n
        BY <2>1, <3>0, <1>1, MaxOfSome
      <3>2. j[s \ {Max(s)}] \in Document
        BY <1>3
      <3> QED BY <3>1, <3>2
    <2> HIDE DEF step
    <2> QED BY <2>1, <1>3 DEF IsIteration
  <1>5. Eq(it)
    BY <1>4
  <1>6. Evict(d) = it[1 .. n]
    BY <1>1 DEF Evict, FoldLeft, MapThenFoldSet
  <1> HIDE DEF it
  <1>7. f[0] = d
    <2>1. 1 .. 0 = {} /\ {} \in SUBSET (1 .. n)
      OBVIOUS
    <2> QED BY <1>1, <1>5, <2>1
  <1>8. ASSUME NEW i \in 1 .. n PROVE f[i] = EvictFrom(f[i - 1], Section[i])
    <2>1. 1 .. i \in SUBSET (1 .. n) /\ i \in 1 .. i /\ i \in 0 .. n /\ i - 1 \in 0 .. n
      BY <1>1
    <2>2. it[1 .. i] = EvictFrom(it[(1 .. i) \ {Max(1 .. i)}], Section[Max(1 .. i)])
      BY <1>5, <2>1
    <2>3. i \in Nat /\ i # 0
      OBVIOUS
    <2>4. Max(1 .. i) = i /\ (1 .. i) \ {i} = 1 .. (i - 1)
      BY <2>3, MaxOfPrefix
    <2> QED BY <2>1, <2>2, <2>4
  <1> DEFINE Good == {i \in 0 .. n : f[i] \in Document}
  <1> HIDE DEF f
  <1>9. 0 \in Good
    BY <1>1, <1>7
  <1>10. ASSUME NEW i \in 1 .. n, i - 1 \in Good PROVE i \in Good
    BY <1>1, <1>8, <1>10, EvictFromFacts
  <1>11. \A i \in 0 .. n : f[i] \in Document
    <2> HIDE DEF Good
    <2>1. \A i \in 0 .. n : i \in Good
      BY <1>1, <1>9, <1>10, IntervalInduction
    <2> QED BY <2>1 DEF Good
  <1>12. f \in [0 .. n -> Document] /\ f[n] = it[1 .. n]
    BY <1>1, <1>11 DEF f
  <1> QED BY <1>6, <1>7, <1>8, <1>12

LEMMA NewestOfNewest ==
  ASSUME NEW S, NEW u \in Seq(S), NEW v \in Seq(S), NEW w \in Seq(S), IsNewest(u, v), IsNewest(v, w)
  PROVE  IsNewest(u, w)
  <1>1. Len(u) \in Nat /\ Len(v) \in Nat /\ Len(w) \in Nat /\ Len(u) <= Len(v) /\ Len(v) <= Len(w)
    BY DEF IsNewest
  <1>2. ASSUME NEW i \in 1 .. Len(u) PROVE u[i] = w[i + (Len(w) - Len(u))]
    <2> DEFINE j == i + (Len(v) - Len(u))
    <2>1. j \in 1 .. Len(v) /\ j + (Len(w) - Len(v)) = i + (Len(w) - Len(u))
      BY <1>1
    <2>2. u[i] = v[j]
      BY DEF IsNewest
    <2> HIDE DEF j
    <2>3. v[j] = w[j + (Len(w) - Len(v))]
      BY <2>1 DEF IsNewest
    <2> QED BY <2>1, <2>2, <2>3
  <1> QED BY <1>1, <1>2 DEF IsNewest

\* Eviction leaves the newest bullets of every section.
LEMMA EvictFacts ==
  ASSUME NEW d \in Document
  PROVE  /\ Evict(d) \in Document
         /\ \A s \in Range(Section) : IsNewest(Evict(d)[s], d[s])
  <1> DEFINE n == Len(Section)
  <1>1. PICK f \in [0 .. n -> Document] :
            /\ f[0] = d
            /\ \A i \in 1 .. n : f[i] = EvictFrom(f[i - 1], Section[i])
            /\ Evict(d) = f[n]
    BY EvictSteps
  <1>2. n \in Nat /\ \A i \in 1 .. n : Section[i] \in Range(Section)
    BY DraftAssumption
  <1> DEFINE Good == {i \in 0 .. n : \A s \in Range(Section) : IsNewest(f[i][s], d[s])}
  <1>3. 0 \in Good
    <2>1. ASSUME NEW s \in Range(Section) PROVE IsNewest(d[s], d[s])
      <3>1. Len(d[s]) \in Nat
        BY DEF Document
      <3>2. \A i \in 1 .. Len(d[s]) : i + (Len(d[s]) - Len(d[s])) = i
        BY <3>1
      <3> QED BY <3>1, <3>2 DEF IsNewest
    <2> QED BY <1>1, <1>2, <2>1
  <1>4. ASSUME NEW i \in 1 .. n, i - 1 \in Good PROVE i \in Good
    <2>1. f[i - 1] \in Document /\ f[i] \in Document /\ f[i] = EvictFrom(f[i - 1], Section[i])
      BY <1>1, <1>2
    <2>2. ASSUME NEW s \in Range(Section) PROVE IsNewest(f[i][s], d[s])
      <3>1. f[i][s] \in Seq(Bullet) /\ f[i - 1][s] \in Seq(Bullet) /\ d[s] \in Seq(Bullet)
        BY <2>1 DEF Document
      <3>2. IsNewest(f[i][s], f[i - 1][s])
        BY <2>1, <1>2, EvictFromFacts
      <3>3. IsNewest(f[i - 1][s], d[s])
        BY <1>4
      <3> QED BY <3>1, <3>2, <3>3, NewestOfNewest
    <2> QED BY <1>2, <2>2
  <1>5. n \in Good
    <2> HIDE DEF Good
    <2>1. \A i \in 0 .. n : i \in Good
      BY <1>2, <1>3, <1>4, IntervalInduction
    <2> QED BY <1>2, <2>1
  <1> QED BY <1>1, <1>2, <1>5

-----------------------------------------------------------------------------
(* The inductive invariant                                                 *)

\* The view and what it replaced are documents, and the draft is a sequence of
\* proposals.
DraftTypeOK ==
    /\ doc \in Document /\ draft \in Seq(Proposal)
    /\ phase \in {"idle", "generate", "check", "review", "commit"}
    /\ DOMAIN change.was = Range(Section)

\* The evidence at hand is known.
EvidenceIsKnown == \A e \in batch : e.quotes \subseteq known

\* From the review on, what is built from the draft is what was shown.
ShownIsBuilt == phase \in {"review", "commit"} => Build.applied = shown

DraftInv ==
    /\ DraftTypeOK /\ EvidenceIsKnown /\ ShownIsBuilt
    /\ NothingVanishes /\ ConclusionsStand /\ FactsAreGrounded

LEMMA BuildFacts ==
  ASSUME doc \in Document, draft \in Seq(Proposal)
  PROVE  /\ Build.full = Apply(draft).doc /\ Build.applied = Apply(draft).applied
         /\ Build.full \in Document /\ Build.doc \in Document /\ Build.applied \in Seq(ParsedChange)
         /\ \A s \in Range(Section) : IsNewest(Build.doc[s], Build.full[s])
  <1>1. Apply(draft) \in ApplyState
    BY ApplyFacts
  <1>2. Build.full = Apply(draft).doc /\ Build.applied = Apply(draft).applied
        /\ Build.doc = Evict(Apply(draft).doc)
    BY DEF Build
  <1>3. Apply(draft).doc \in Document /\ Apply(draft).applied \in Seq(ParsedChange)
    BY <1>1 DEF ApplyState
  <1> QED BY <1>2, <1>3, EvictFacts

LEMMA NewestRange ==
  ASSUME NEW S, NEW e \in Seq(S), NEW w \in Seq(S), IsNewest(e, w)
  PROVE  /\ Range(e) \subseteq Range(w)
         /\ \A b \in Range(w) : b \in Range(e) \/ \E i \in 1 .. Len(w) - Len(e) : b = w[i]
  <1>1. /\ Len(e) \in Nat /\ Len(w) \in Nat /\ Len(e) <= Len(w)
        /\ DOMAIN e = 1 .. Len(e) /\ DOMAIN w = 1 .. Len(w)
    BY DEF IsNewest
  <1>2. ASSUME NEW i \in 1 .. Len(e) PROVE e[i] \in Range(w)
    <2>1. i + (Len(w) - Len(e)) \in DOMAIN w
      BY <1>1
    <2> QED BY <2>1 DEF IsNewest, Range
  <1>3. ASSUME NEW j \in 1 .. Len(w), ~ j \in 1 .. Len(w) - Len(e) PROVE w[j] \in Range(e)
    <2> DEFINE i == j - (Len(w) - Len(e))
    <2>1. i \in 1 .. Len(e) /\ i + (Len(w) - Len(e)) = j
      BY <1>1, <1>3
    <2> HIDE DEF i
    <2>2. e[i] = w[j]
      BY <2>1 DEF IsNewest
    <2> QED BY <1>1, <2>1, <2>2 DEF Range
  <1> QED BY <1>1, <1>2, <1>3 DEF Range

\* An entitled change states only what is known.
LEMMA EntitledIsKnown ==
  ASSUME doc \in Document, EvidenceIsKnown, FactsAreGrounded, NEW c \in Proposal, Entitled(c)
  PROVE  c.facts \subseteq known
  <1>1. c.section \in Range(Section) /\ DOMAIN doc = Range(Section)
    BY DraftAssumption DEF Entitled, Document
  <1>2. \A e \in Cited(c) : e.quotes \subseteq known
    BY DEF EvidenceIsKnown, Cited
  <1>3. Accepted(c.section, c.target) \subseteq known
    <2> DEFINE w == doc[c.section]
               at == At(w, c.target)
    <2>1. w \in Seq(Bullet)
      BY <1>1 DEF Document
    <2>2. CASE at = {}
      BY <2>2 DEF Accepted
    <2>3. CASE at # {}
      <3>1. Len(w) \in Nat /\ DOMAIN w = 1 .. Len(w) /\ at \subseteq 1 .. Len(w)
        BY <2>1 DEF At
      <3>2. Min(at) \in at
        BY <3>1, <2>3, MinOfSome
      <3>3. w[Min(at)] \in Range(w)
        BY <3>1, <3>2 DEF Range
      <3>4. Accepted(c.section, c.target) = w[Min(at)].facts
        BY <2>3 DEF Accepted
      <3> QED BY <1>1, <3>3, <3>4 DEF FactsAreGrounded
    <2> QED BY <2>2, <2>3
  <1>4. c.facts \subseteq (UNION {e.quotes : e \in Cited(c)}) \cup Accepted(c.section, c.target)
    BY DEF Entitled, Traceable
  <1> SUFFICES ASSUME NEW x \in c.facts PROVE x \in known
    OBVIOUS
  <1>5. CASE x \in Accepted(c.section, c.target)
    BY <1>3, <1>5
  <1>6. CASE \E e \in Cited(c) : x \in e.quotes
    BY <1>2, <1>6
  <1>7. x \in UNION {e.quotes : e \in Cited(c)} => \E e \in Cited(c) : x \in e.quotes
    OBVIOUS
  <1> QED BY <1>4, <1>5, <1>6, <1>7

\* A retraction or a restatement of the user stands behind it.
LEMMA EntitledIsExplicit ==
  ASSUME NEW c, Entitled(c), c.op # "add", c.section \in Conclusion
  PROVE  \E e \in batch : e.ref = c.ref /\ e.kind \in UserExplicit
  <1>1. CitedKinds(c) \cap UserExplicit # {}
    BY DEF Entitled, MayLeave, UserExplicit
  <1> QED BY <1>1 DEF CitedKinds, Cited

LEMMA DraftInitially == DraftInit => DraftInv
  <1> SUFFICES ASSUME DraftInit PROVE DraftInv
    OBVIOUS
  <1>1. FirstDoc \in Document
    <2> DEFINE B == UNION {Range(FirstDoc[s]) : s \in Range(Section)}
    <2>1. FirstDoc \in [Range(Section) -> Seq(B)] /\ B \subseteq Bullet
      BY DraftAssumption DEF Bullet
    <2> HIDE DEF B
    <2>2. \A q \in Seq(B) : q \in Seq(Bullet)
      BY <2>1, SeqMonotonic
    <2> QED BY <2>1, <2>2 DEF Document
  <1>2. DraftTypeOK
    BY <1>1 DEF DraftInit, DraftTypeOK, NoCommit
  <1>3. EvidenceIsKnown /\ ShownIsBuilt
    BY DEF DraftInit, EvidenceIsKnown, ShownIsBuilt
  <1>4. NothingVanishes /\ ConclusionsStand
    <2>1. change.applied = <<>> /\ \A s \in Range(Section) : change.was[s] = <<>>
      BY DEF DraftInit, NoCommit
    <2>2. DOMAIN doc = Range(Section) /\ Range(<<>>) = {} /\ DOMAIN change.applied = {}
      BY <1>1, <2>1 DEF DraftInit, Document, Range
    <2> QED BY <2>1, <2>2 DEF NothingVanishes, ConclusionsStand
  <1>5. FactsAreGrounded
    BY <1>1 DEF DraftInit, FactsAreGrounded
  <1> QED BY <1>2, <1>3, <1>4, <1>5 DEF DraftInv

-----------------------------------------------------------------------------
(* One lemma per kind of step                                              *)

LEMMA BuildKept ==
  ASSUME doc' = doc, batch' = batch, draft' = draft
  PROVE  Build' = Build
  BY DEF Build, Apply, Evict, EvictFrom, Size, ApplyOne, Entitled, Traceable, MayLeave, MayStand,
         Located, Topic, At, Accepted, Cited, CitedKinds, FoldLeft, MapThenFoldSet

\* Nothing but a commit and the start of a compilation touches the view, what is
\* noted of the last commit, or what is known.
LEMMA ViewKept ==
  ASSUME DraftInv, doc' = doc, change' = change, known' = known
  PROVE  NothingVanishes' /\ ConclusionsStand' /\ FactsAreGrounded'
  BY DEF DraftInv, NothingVanishes, ConclusionsStand, FactsAreGrounded

LEMMA RetryStep ==
  ASSUME DraftInv, Retry
  PROVE  DraftInv'
  <1>1. doc' = doc /\ change' = change /\ known' = known
    BY DEF Retry
  <1>2. draft' = <<>> /\ phase' \in {"generate", "idle"} /\ (batch' = batch \/ batch' = {})
    BY DEF Retry, EndDraft
  <1>3. DraftTypeOK' /\ EvidenceIsKnown' /\ ShownIsBuilt'
    BY <1>1, <1>2 DEF DraftInv, DraftTypeOK, EvidenceIsKnown, ShownIsBuilt
  <1> QED BY <1>1, <1>3, ViewKept DEF DraftInv

LEMMA StartDraftStep ==
  ASSUME DraftInv, NEW b \in Batches, StartDraft(b)
  PROVE  DraftInv'
  <1>1. /\ doc' = doc /\ draft' = draft /\ phase' = "generate" /\ batch' = b /\ change' = NoCommit
        /\ known' = known \cup UNION {e.quotes : e \in b}
    BY DEF StartDraft
  <1>2. DraftTypeOK' /\ ShownIsBuilt'
    BY <1>1 DEF DraftInv, DraftTypeOK, ShownIsBuilt, NoCommit
  <1>3. EvidenceIsKnown'
    BY <1>1 DEF EvidenceIsKnown
  <1>4. NothingVanishes' /\ ConclusionsStand'
    <2>1. change'.applied = <<>> /\ \A s \in Range(Section) : change'.was[s] = <<>>
      BY <1>1 DEF NoCommit
    <2>2. DOMAIN doc' = Range(Section) /\ Range(<<>>) = {} /\ DOMAIN change'.applied = {}
      BY <1>1, <2>1 DEF DraftInv, DraftTypeOK, Document, Range
    <2> QED BY <2>1, <2>2 DEF NothingVanishes, ConclusionsStand
  <1>5. FactsAreGrounded'
    BY <1>1 DEF DraftInv, FactsAreGrounded
  <1> QED BY <1>2, <1>3, <1>4, <1>5 DEF DraftInv

LEMMA QuietDraftStep ==
  ASSUME DraftInv, doc' = doc, change' = change, known' = known, batch' = batch,
         draft' \in Seq(Proposal),
         phase' \in {"idle", "generate", "check", "review", "commit"},
         phase' \in {"review", "commit"} => draft' = draft /\ shown' = Build.applied
  PROVE  DraftInv'
  <1>1. DraftTypeOK' /\ EvidenceIsKnown'
    BY DEF DraftInv, DraftTypeOK, EvidenceIsKnown
  <1>2. ShownIsBuilt'
    BY BuildKept DEF ShownIsBuilt
  <1> QED BY <1>1, <1>2, ViewKept DEF DraftInv

LEMMA ProposeStep ==
  ASSUME DraftInv, NEW c \in Proposal, Propose(c)
  PROVE  DraftInv'
  <1>1. draft' \in Seq(Proposal)
    BY DEF Propose, DraftInv, DraftTypeOK
  <1> QED BY <1>1, QuietDraftStep DEF Propose

LEMMA PreCheckStep ==
  ASSUME DraftInv, PreCheck
  PROVE  DraftInv'
  <1>1. CASE Retry
    BY <1>1, RetryStep
  <1>2. CASE /\ phase' = "review" /\ shown' = Reviewable
             /\ UNCHANGED <<doc, rounds, batch, draft, change, cycles, known>>
    BY <1>2, QuietDraftStep DEF DraftInv, DraftTypeOK, Reviewable
  <1> QED BY <1>1, <1>2 DEF PreCheck

LEMMA ReviewPassesStep ==
  ASSUME DraftInv, ReviewPasses
  PROVE  DraftInv'
  <1>1. shown' = Build.applied
    BY DEF ReviewPasses, DraftInv, ShownIsBuilt
  <1> QED BY <1>1, QuietDraftStep DEF ReviewPasses, DraftInv, DraftTypeOK

LEMMA DraftUnsafeStep ==
  ASSUME DraftInv, DraftUnsafe
  PROVE  DraftInv'
  <1>1. doc' = doc /\ change' = change /\ known' = known /\ draft' = <<>> /\ phase' = "idle" /\ batch' = {}
    BY DEF DraftUnsafe, EndDraft
  <1>2. DraftTypeOK' /\ EvidenceIsKnown' /\ ShownIsBuilt'
    BY <1>1 DEF DraftInv, DraftTypeOK, EvidenceIsKnown, ShownIsBuilt
  <1> QED BY <1>1, <1>2, ViewKept DEF DraftInv

LEMMA CommitDraftStep ==
  ASSUME DraftInv, CommitDraft
  PROVE  DraftInv'
  <1> DEFINE full == Build.full
             next == Build.doc
             app == Build.applied
  <1>0. doc \in Document /\ draft \in Seq(Proposal) /\ EvidenceIsKnown /\ FactsAreGrounded
    BY DEF DraftInv, DraftTypeOK
  <1>1. /\ doc' = next /\ known' = known /\ draft' = <<>> /\ phase' = "idle" /\ batch' = {}
        /\ change'.applied = app /\ change'.was = doc /\ change'.by = batch
        /\ change'.evicted = UNION {{<<s, full[s][i]>> : i \in 1 .. Len(full[s]) - Len(next[s])} :
                                      s \in Range(Section)}
    BY DEF CommitDraft, EndDraft
  <1>2. /\ full = Apply(draft).doc /\ app = Apply(draft).applied
        /\ full \in Document /\ next \in Document /\ app \in Seq(ParsedChange)
        /\ \A s \in Range(Section) : IsNewest(next[s], full[s])
    BY <1>0, BuildFacts
  <1>3. /\ \A d \in Range(app) : Entitled(d)
        /\ \A s \in Range(Section) : \A b \in Range(doc[s]) :
              b \in Range(full[s]) \/ \E d \in Range(app) : d.section = s /\ d.target = b.key
        /\ \A s \in Range(Section) : \A b \in Range(full[s]) :
              b \in Range(doc[s]) \/ \E c \in Proposal : Entitled(c) /\ b.facts = c.facts
    BY <1>0, <1>2, ApplyFacts
  <1> HIDE DEF full, next, app
  <1>4. \A s \in Range(Section) :
          /\ full[s] \in Seq(Bullet) /\ next[s] \in Seq(Bullet)
          /\ Range(next[s]) \subseteq Range(full[s])
          /\ \A b \in Range(full[s]) :
                b \in Range(next[s]) \/ \E i \in 1 .. Len(full[s]) - Len(next[s]) : b = full[s][i]
    <2> TAKE s \in Range(Section)
    <2>1. full[s] \in Seq(Bullet) /\ next[s] \in Seq(Bullet)
      BY <1>2 DEF Document
    <2> QED BY <1>2, <2>1, NewestRange
  <1>5. DOMAIN doc = Range(Section) /\ DOMAIN doc' = Range(Section)
    BY <1>0, <1>1, <1>2 DEF Document
  <1>6. DraftTypeOK' /\ EvidenceIsKnown' /\ ShownIsBuilt'
    BY <1>1, <1>2, <1>5 DEF DraftTypeOK, EvidenceIsKnown, ShownIsBuilt
  <1>7. NothingVanishes'
    <2> SUFFICES ASSUME NEW s \in Range(Section), NEW b \in Range(doc[s])
                 PROVE  \/ b \in Range(next[s])
                        \/ \E i \in DOMAIN app : app[i].section = s /\ app[i].target = b.key
                        \/ <<s, b>> \in change'.evicted
      BY <1>1, <1>5 DEF NothingVanishes
    <2>1. CASE \E d \in Range(app) : d.section = s /\ d.target = b.key
      BY <2>1 DEF Range
    <2>2. CASE b \in Range(full[s])
      <3>1. CASE \E i \in 1 .. Len(full[s]) - Len(next[s]) : b = full[s][i]
        <4> DEFINE cut(r) == {<<r, full[r][i]>> : i \in 1 .. Len(full[r]) - Len(next[r])}
        <4>1. <<s, b>> \in cut(s)
          BY <3>1
        <4>2. change'.evicted = UNION {cut(r) : r \in Range(Section)}
          BY <1>1
        <4> HIDE DEF cut
        <4> QED BY <4>1, <4>2
      <3> QED BY <1>4, <2>2, <3>1
    <2> QED BY <1>3, <2>1, <2>2
  <1>8. ConclusionsStand'
    <2> SUFFICES ASSUME NEW i \in DOMAIN app, app[i].op # "add", app[i].section \in Conclusion
                 PROVE  \E e \in batch : e.ref = app[i].ref /\ e.kind \in UserExplicit
      BY <1>1 DEF ConclusionsStand
    <2>1. Entitled(app[i])
      BY <1>3 DEF Range
    <2> QED BY <2>1, EntitledIsExplicit
  <1>9. FactsAreGrounded'
    <2> SUFFICES ASSUME NEW s \in Range(Section), NEW b \in Range(next[s])
                 PROVE  b.facts \subseteq known
      BY <1>1, <1>5 DEF FactsAreGrounded
    <2>1. b \in Range(full[s])
      BY <1>4
    <2>2. CASE b \in Range(doc[s])
      BY <1>0, <1>5, <2>2 DEF FactsAreGrounded
    <2>3. CASE \E c \in Proposal : Entitled(c) /\ b.facts = c.facts
      BY <1>0, <2>3, EntitledIsKnown
    <2> QED BY <1>3, <2>1, <2>2, <2>3
  <1> QED BY <1>6, <1>7, <1>8, <1>9 DEF DraftInv

\* Every step of a compilation keeps the invariant.
THEOREM DraftInvariant == DraftSpec => []DraftInv
  <1>1. DraftInv /\ [DraftNext]_draftVars => DraftInv'
    <2> SUFFICES ASSUME DraftInv, [DraftNext]_draftVars PROVE DraftInv'
      OBVIOUS
    <2>1. CASE UNCHANGED draftVars
      <3>1. phase' \in {"review", "commit"} => shown' = Build.applied
        BY <2>1 DEF draftVars, DraftInv, ShownIsBuilt
      <3> QED BY <2>1, <3>1, QuietDraftStep DEF draftVars, DraftInv, DraftTypeOK
    <2>2. CASE EndProposal
      BY <2>2, QuietDraftStep DEF EndProposal, DraftInv, DraftTypeOK
    <2>3. CASE ReviewFails
      BY <2>3, RetryStep DEF ReviewFails
    <2> QED BY <2>1, <2>2, <2>3, StartDraftStep, ProposeStep, PreCheckStep, ReviewPassesStep,
               DraftUnsafeStep, CommitDraftStep DEF DraftNext
  <1> QED BY <1>1, DraftInitially, PTL DEF DraftSpec

\* A compiled view keeps what it knew, whatever the models propose and answer.
THEOREM DraftIsAlwaysSound == DraftSpec => []DraftIsSound
  <1>1. DraftInv => DraftIsSound
    BY DEF DraftInv, DraftIsSound, ReviewedIsWritten, ShownIsBuilt
  <1> QED BY <1>1, DraftInvariant, PTL
=============================================================================
