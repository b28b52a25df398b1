------------------------------ MODULE MCRecords ------------------------------
(* What turns leave behind: the rows of the tool ledger, the audit log,     *)
(* traces and summaries, the memory's evidence log and its drafts, and      *)
(* token statistics. They share no state: a behaviour picks one (focus) and *)
(* follows its specification; the others stay in one of their initial       *)
(* states.                                                                  *)
EXTENDS ToolLedger, HashChain, RunRecords, MemoryLog, MemoryDraft, TokenStats
VARIABLE focus

\* A durable view with one plain section and one of conclusions.
MCSection == <<"Active Work", "Decisions">>
Evidence(kind, quotes) == [ref |-> "r1", kind |-> kind, quotes |-> quotes]
MCBatches == {{Evidence("work", {"q1"})},
              {Evidence("work", {"q1"}), Evidence("correction", {"q2", "f2"})},
              {Evidence("partial_work", {"q1"})}}

Change(kind, s, target, key, facts, quote, reason) ==
    [op |-> kind, section |-> s, target |-> target, key |-> key, facts |-> facts,
     ref |-> "r1", quote |-> quote, reason |-> reason]

MCProposal ==
    {[op |-> "unknown"], [op |-> "nothing_to_record"],
     Change("remove", "Active Work", "a", "none", {}, "q1", FALSE),
     Change("remove", "Active Work", "a", "none", {}, "q1", TRUE),
     Change("replace", "Active Work", "a", "a", {"f2"}, "q1", TRUE),
     Change("add", "Active Work", "none", "b", {}, "q1", FALSE),
     Change("replace", "Decisions", "a", "b", {}, "q2", FALSE),
     Change("add", "Decisions", "b", "a", {}, "q1", FALSE)}
    \cup {Change("remove", "Decisions", "a", "none", {}, q, FALSE) : q \in {"q1", "q2"}}
    \cup {Change("replace", "Decisions", "a", "a", f, q, FALSE) :
            f \in {{"f1"}, {"f2"}}, q \in {"q1", "q2"}}
    \cup {Change("add", "Decisions", "none", "b", f, q, FALSE) :
            f \in {{}, {"f2"}}, q \in {"q1", "q2"}}

MCFirstDoc == [s \in Range(MCSection) |->
                IF s = "Decisions" THEN <<[key |-> "a", facts |-> {"f1"}]>>
                ELSE <<[key |-> "a", facts |-> {}]>>]

keptVars == <<chainVars, recordVars, memoryVars, draftVars, statVars>>
allVars == <<vars, keptVars, focus>>

KeptInit ==
    /\ focus \in {"ledger", "chain", "records", "memory", "draft", "stats"}
    /\ Init /\ ChainInit /\ RecordsInit /\ MemoryInit /\ DraftInit /\ StatInit
    /\ focus # "chain" => logFile = <<>>
    /\ focus # "stats" => liveRuns = {}

LedgerStep == focus = "ledger" /\ Next /\ UNCHANGED <<keptVars, focus>>
ChainStep ==
    /\ focus = "chain" /\ ChainNext
    /\ UNCHANGED <<vars, recordVars, memoryVars, draftVars, statVars, focus>>
RecordsStep ==
    /\ focus = "records" /\ RecordsNext
    /\ UNCHANGED <<vars, chainVars, memoryVars, draftVars, statVars, focus>>
MemoryStep ==
    /\ focus = "memory" /\ MemoryNext
    /\ UNCHANGED <<vars, chainVars, recordVars, draftVars, statVars, focus>>
DraftStep ==
    /\ focus = "draft" /\ DraftNext
    /\ UNCHANGED <<vars, chainVars, recordVars, memoryVars, statVars, focus>>
StatStep ==
    /\ focus = "stats" /\ StatNext
    /\ UNCHANGED <<vars, chainVars, recordVars, memoryVars, draftVars, focus>>

KeptNext == LedgerStep \/ ChainStep \/ RecordsStep \/ MemoryStep \/ DraftStep \/ StatStep

KeptSpec == KeptInit /\ [][KeptNext]_allVars
=============================================================================
