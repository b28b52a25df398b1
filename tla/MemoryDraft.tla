----------------------------- MODULE MemoryDraft -----------------------------
(***************************************************************************)
(* How one memory view is rewritten (engine/memory): the generator model   *)
(* proposes a change set (_changeset.py), the deterministic guards decide  *)
(* which changes are entitled to be applied (_guards.py), the reviewer     *)
(* model judges what is left (_review.py) and the document is built from   *)
(* the draft that passed (_build_draft, _generate_view of compile.py).     *)
(*                                                                         *)
(* A bullet is its topic key and the checkable facts (paths, numbers,      *)
(* quoted names) it states; an evidence entry is its reference, its kind   *)
(* and the fragments that can be quoted from it.  The durable view.        *)
(***************************************************************************)
EXTENDS Naturals, SequencesExt

CONSTANTS
    Section,        \* the sections of the view, in order
    Conclusion,     \* _CONCLUSION_SECTIONS
    Proposal,       \* what the generator may put in a change set: changes, an "op"
                    \* _parse_one refuses, or the flag nothing_to_record
    Batches,        \* evidence a compilation may be given: sets of entries
    FirstDoc,       \* the accepted view to start with: section -> bullets
    MaxBullets,     \* the character budget, in bullets
    MaxRounds,      \* _MAX_REVIEW_ROUNDS
    MaxChanges,     \* bound: changes of one change set
    MaxCycles       \* bound: compilations

ASSUME DraftAssumption ==
    /\ {MaxBullets, MaxChanges, MaxCycles} \subseteq Nat
    /\ MaxRounds \in Nat \ {0}
    /\ Section \in Seq(Range(Section)) /\ Conclusion \subseteq Range(Section)
    /\ FirstDoc \in [Range(Section) -> Seq(UNION {Range(FirstDoc[s]) : s \in Range(Section)})]
    /\ \A c \in Proposal :      \* _parse_one refuses an unknown section
          c.op \in {"add", "remove", "replace"} => c.section \in Range(Section)

VARIABLES
    doc,        \* the accepted view: section -> sequence of bullets
    phase,      \* "idle", "generate", "check", "review", "commit"
    rounds,     \* review rounds of this compilation
    batch,      \* its evidence
    draft,      \* the generator's change set
    shown,      \* the changes the reviewer was shown last
    change,     \* what the last commit wrote: applied changes, evicted bullets,
                \* and the document it replaced
    cycles,
    known       \* history: fragments of all the evidence given so far

draftVars == <<doc, phase, rounds, batch, draft, shown, change, cycles, known>>

NoCommit == [applied |-> <<>>, evicted |-> {}, was |-> [s \in Range(Section) |-> <<>>], by |-> {}]

DraftInit ==
    /\ doc = FirstDoc
    /\ phase = "idle"
    /\ rounds = 0
    /\ batch = {} /\ draft = <<>> /\ shown = <<>>
    /\ change = NoCommit
    /\ cycles = 0
    /\ known = UNION {UNION {b.facts : b \in Range(FirstDoc[s])} : s \in DOMAIN FirstDoc}

-----------------------------------------------------------------------------
(* The guards (_guards.py)                                                 *)

\* _cited_entries: the entries that carry the ref and contain the quote.
Cited(c) == {e \in batch : e.ref = c.ref /\ c.quote \in e.quotes}
CitedKinds(c) == {e.kind : e \in Cited(c)}

At(bullets, key) == {i \in DOMAIN bullets : bullets[i].key = key}

\* _index_by_topic: the first bullet with the key.
Accepted(s, key) ==
    IF At(doc[s], key) = {} THEN {} ELSE doc[s][Min(At(doc[s], key))].facts

\* _check_traceable: the citation resolves and the content stays inside it, or
\* inside the bullet it replaces.
Traceable(c) ==
    /\ Cited(c) # {}
    /\ c.facts \subseteq (UNION {e.quotes : e \in Cited(c)})
                         \cup (IF c.op = "replace" THEN Accepted(c.section, c.target) ELSE {})

Forgetting == {"forget", "correction"}
UserExplicit == Forgetting \cup {"decision", "preference", "remember"}

\* Mutant: only a removal needs the user's word.
MayLeaveIfReplaced(c) ==
    c.op = "remove" /\ c.section \in Conclusion => CitedKinds(c) \cap Forgetting # {}

\* _check_retention: a conclusion goes only when the user retracts it, and
\* changes only when the user says so; anything else needs a reason.
MayLeave(c) ==
    c.op # "add" =>
        IF c.section \in Conclusion
        THEN CitedKinds(c) \cap (IF c.op = "remove" THEN Forgetting ELSE UserExplicit) # {}
        ELSE c.reason \/ CitedKinds(c) \cap Forgetting # {}

\* _check_placement: no claim stronger than its evidence.
MayStand(c) ==
    c.op # "remove" =>
        /\ "partial_work" \in CitedKinds(c) => c.section = "Active Work"
        /\ c.section = "Verified Outcomes" => ~ CitedKinds(c) \subseteq {"work", "partial_work"}

\* parse_changeset and adjudicate: a change is kept or rejected on its own.
Entitled(c) ==
    /\ c.op \in {"add", "remove", "replace"}
    /\ Traceable(c) /\ MayLeave(c) /\ MayStand(c)

\* The model says that nothing was worth recording: a success without changes.
NothingToRecord(changes) == \E i \in DOMAIN changes : changes[i].op = "nothing_to_record"

-----------------------------------------------------------------------------
(* apply_changes and evict_to_budget (_changeset.py)                       *)

\* MemoryChange.topic: the target, when there is one, even of an add.
Topic(c) == IF c.target # "none" THEN c.target ELSE c.key

\* Whether the bullet is found: an add must find none, an edit exactly one, and
\* a replace keeps the key.
Located(bullets, c) ==
    IF c.op = "add" THEN At(bullets, Topic(c)) = {}
    ELSE /\ Cardinality(At(bullets, c.target)) = 1
         /\ c.op = "replace" => c.key = c.target

ApplyOne(state, c) ==
    LET bullets == state.doc[c.section]
        i == CHOOSE i \in At(bullets, c.target) : TRUE
        new == [key |-> c.key, facts |-> c.facts]
    IN
    IF ~ (Entitled(c) /\ Located(bullets, c)) THEN state
    ELSE [doc |-> [state.doc EXCEPT ![c.section] =
                      CASE c.op = "add" -> Append(bullets, new)
                        [] c.op = "remove" -> RemoveAt(bullets, i)
                        [] OTHER -> ReplaceAt(bullets, i, new)],
          applied |-> Append(state.applied, c)]

Apply(changes) == FoldLeft(ApplyOne, [doc |-> doc, applied |-> <<>>], changes)

Size(d) == Cardinality(UNION {{s} \X DOMAIN d[s] : s \in DOMAIN d})

\* evict_to_budget: whole bullets, the oldest of the least valuable section
\* first (Section is in the order of eviction).
EvictFrom(d, s) ==
    LET over == IF Size(d) > MaxBullets THEN Size(d) - MaxBullets ELSE 0
        cut == IF over < Len(d[s]) THEN over ELSE Len(d[s])
    IN  [d EXCEPT ![s] = SubSeq(@, cut + 1, Len(@))]

Evict(d) == FoldLeft(EvictFrom, d, Section)

\* _build_draft: an empty "applied" blocks the draft, unless that is what it says.
Build == LET result == Apply(draft)
         IN  [applied |-> result.applied, full |-> result.doc, doc |-> Evict(result.doc)]

-----------------------------------------------------------------------------
(* _generate_and_review_result                                             *)

\* A compilation begins with a batch of evidence.
StartDraft(b) ==
    /\ phase = "idle" /\ cycles < MaxCycles
    /\ cycles' = cycles + 1
    /\ batch' = b
    /\ known' = known \cup UNION {e.quotes : e \in b}
    /\ rounds' = 1
    /\ phase' = "generate"
    /\ change' = NoCommit
    /\ UNCHANGED <<doc, draft, shown>>

\* The generator answers, change by change.
Propose(c) ==
    /\ phase = "generate" /\ Len(draft) < MaxChanges
    /\ draft' = Append(draft, c)
    /\ UNCHANGED <<doc, phase, rounds, batch, shown, change, cycles, known>>

EndProposal ==
    /\ phase = "generate"
    /\ phase' = "check"
    /\ UNCHANGED <<doc, rounds, batch, draft, shown, change, cycles, known>>

\* The compilation is over.
EndDraft == phase' = "idle" /\ rounds' = 0 /\ batch' = {} /\ draft' = <<>> /\ shown' = <<>>

\* The draft is refused: another round, or the compilation fails and nothing is
\* written.
Retry ==
    /\ IF rounds < MaxRounds
       THEN /\ phase' = "generate" /\ rounds' = rounds + 1 /\ draft' = <<>> /\ shown' = <<>>
            /\ UNCHANGED batch
       ELSE EndDraft
    /\ UNCHANGED <<doc, change, cycles, known>>

\* pre_check and render_changeset: what is left to review.
Reviewable == Build.applied

\* The deterministic adjudication, before the reviewer.
PreCheck ==
    /\ phase = "check"
    /\ IF Build.applied = <<>> /\ ~ NothingToRecord(draft)
       THEN Retry
       ELSE /\ phase' = "review"
            /\ shown' = Reviewable
            /\ UNCHANGED <<doc, rounds, batch, draft, change, cycles, known>>

\* The reviewer passes the draft,
ReviewPasses ==
    /\ phase = "review"
    /\ phase' = "commit"
    /\ UNCHANGED <<doc, rounds, batch, draft, shown, change, cycles, known>>

\* or finds a hard fail, too many soft ones, or answers nonsense.
ReviewFails == phase = "review" /\ Retry

\* A draft with a secret or an injection in it is not written.
DraftUnsafe ==
    /\ phase = "commit"
    /\ EndDraft
    /\ UNCHANGED <<doc, change, cycles, known>>

\* The document is built again from the draft and committed.
CommitDraft ==
    /\ phase = "commit"
    /\ doc' = Build.doc
    /\ change' = [applied |-> Build.applied, was |-> doc, by |-> batch,
                  evicted |-> UNION {{<<s, Build.full[s][i]>> :
                                        i \in 1 .. Len(Build.full[s]) - Len(Build.doc[s])} :
                                     s \in Range(Section)}]
    /\ EndDraft
    /\ UNCHANGED <<cycles, known>>

-----------------------------------------------------------------------------
DraftNext ==
    \/ \E b \in Batches : StartDraft(b)
    \/ \E c \in Proposal : Propose(c)
    \/ EndProposal \/ PreCheck \/ ReviewPasses \/ ReviewFails \/ DraftUnsafe \/ CommitDraft

DraftSpec == DraftInit /\ [][DraftNext]_draftVars

-----------------------------------------------------------------------------
\* No memory vanishes without a trace: a bullet of the replaced document that
\* is not in the new one was named by an applied change or evicted for the
\* budget, and is then among the notes of the commit.
NothingVanishes ==
    \A s \in DOMAIN doc : \A b \in Range(change.was[s]) :
        \/ b \in Range(doc[s])
        \/ \E i \in DOMAIN change.applied :
              change.applied[i].section = s /\ change.applied[i].target = b.key
        \/ <<s, b>> \in change.evicted

\* A settled conclusion yields only to the user: one that a change altered or
\* removed cites evidence in which the user retracts it or states it anew.
ConclusionsStand ==
    \A i \in DOMAIN change.applied :
        LET c == change.applied[i] IN
        c.op # "add" /\ c.section \in Conclusion =>
            \E e \in change.by : e.ref = c.ref /\ e.kind \in UserExplicit

\* Every checkable fact in the memory occurs in evidence it was compiled from,
\* over any number of compilations.
FactsAreGrounded ==
    \A s \in DOMAIN doc : \A b \in Range(doc[s]) : b.facts \subseteq known

\* What is written is what the reviewer was shown: the draft that passes is
\* adjudicated a second time when it is committed, and a refused change never
\* sinks or rides along with the ones beside it.
ReviewedIsWritten == phase = "commit" => Build.applied = shown

\* A compiled view keeps what it knew: nothing leaves without a change that
\* says so, conclusions only with a reason, every new fact is quoted from the
\* evidence, and what is written is what was reviewed.
DraftIsSound ==
    NothingVanishes /\ ConclusionsStand /\ FactsAreGrounded /\ ReviewedIsWritten

=============================================================================
