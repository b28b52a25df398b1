------------------------------- MODULE ToolGate -------------------------------
(***************************************************************************)
(* What stands between a model's tool call and its effect: the tool guard  *)
(* (engine/safety/tool_guard.py), the fact gate, the policy that combines  *)
(* them, the approval wait, and the registry's own check at execution.     *)
(* A main loop and its sub-agents share the guard and the whitelist.       *)
(* Symbolic links move while a call is suspended.                          *)
(*                                                                         *)
(* A path stands for its text and, for the shell, for the command that     *)
(* names it.                                                               *)
(***************************************************************************)
EXTENDS Naturals, FiniteSets

CONSTANTS
    Loop,           \* the ReAct loops of one request
    Interactive,    \* the loops that have an approval context (not sub-agents)
    Path,           \* paths as they can be spelled
    Alias,          \* the paths that can be replaced by a symbolic link
    Kind,           \* Path -> what the name rules make of it
    Inside,         \* the paths inside the working directory
    DirOf,          \* Path -> its directory
    Inode,          \* Path -> the first name of the same file
    Ruled,          \* the calls <<tool, path>> whose text matches a dangerous-command rule
    ReadOnlyText,   \* commands the fact gate takes for read-only
    MaxCalls,       \* bound: calls evaluated
    MaxMoves,       \* bound: links repointed
    MaxRounds       \* bound: rounds of a loop

\* A directory of the working directory holds nothing that is outside it.
ASSUME GateAssumption ==
    /\ Interactive \subseteq Loop
    /\ Alias \subseteq Path /\ Inside \subseteq Path /\ ReadOnlyText \subseteq Path
    /\ Kind \in [Path -> {"plain", "credential", "guarded", "platform", "runtime", "provider"}]
    /\ Inode \in [Path -> Path] /\ DOMAIN DirOf = Path
    /\ \A p \in Inside, q \in Path : DirOf[q] = DirOf[p] => q \in Inside
    /\ {MaxCalls, MaxMoves, MaxRounds} \subseteq Nat

VARIABLES
    enabled,        \* FactGate.enabled: HELVE_FACT_GATE is not switched off
    link,           \* Path -> the file it resolves to
    stage,          \* loop -> idle, waiting (for the user), ready
    cur,            \* loop -> its normalized call
    ticket,         \* loop -> the approval that was granted to it, 0 for none
    shown,          \* loop -> the scope its decision carries
    checked, pending,   \* FactGate._checked and _pending, per loop
    round,          \* loop -> its round
    allowedFiles, allowedDirs,  \* SessionWhitelist
    evaluated, moves,   \* what the bounds count
    answers,        \* approvals granted: id -> scope, as a set of pairs
    challenges,     \* challenges made: loop, fact and round
    ran             \* what executed

gateVars == <<enabled, link, stage, cur, ticket, shown, checked, pending, round, allowedFiles,
              allowedDirs, evaluated, moves, answers, challenges, ran>>

Tool == {"read_file", "write_file", "shell"}
NoGateCall == [tool |-> "none"]
NoScope == [kind |-> "none"]
NoFact == [fact |-> "none"]
Scope(kind, target, writing, high) ==
    [kind |-> kind, target |-> target, writing |-> writing, high |-> high]

GateInit ==
    /\ enabled \in BOOLEAN
    /\ link = [p \in Path |-> p]
    /\ stage = [l \in Loop |-> "idle"]
    /\ cur = [l \in Loop |-> NoGateCall]
    /\ ticket = [l \in Loop |-> 0]
    /\ shown = [l \in Loop |-> NoScope]
    /\ checked = [l \in Loop |-> {}] /\ pending = [l \in Loop |-> {}]
    /\ round = [l \in Loop |-> 1]
    /\ allowedFiles = {} /\ allowedDirs = {}
    /\ evaluated = 0 /\ moves = 0
    /\ answers = {} /\ challenges = {} /\ ran = {}

-----------------------------------------------------------------------------
(* FileGuard and ToolGuard                                                 *)

Deny == [verdict |-> "deny", scope |-> NoScope, tier |-> "critical", boundary |-> FALSE]
Allow == [verdict |-> "allow", scope |-> NoScope, tier |-> "routine", boundary |-> FALSE]
Ask(scope, tier, boundary) ==
    [verdict |-> "ask", scope |-> scope, tier |-> tier, boundary |-> boundary]

\* The name rules look at the resolved and at the declared spelling.
Views(target, declared) == {Kind[target], Kind[declared]}

is_runtime_credential_path(target, declared) == "runtime" \in Views(target, declared)
is_non_delegable_write_target(target, declared) == "provider" \in Views(target, declared)

\* Credential directories and pairs of them, private keys, .env and the like.
is_sensitive_name(target, declared) == "credential" \in Views(target, declared)

\* A hard link gives a protected file a second, harmless name.
SharesRuntimeCredential(target) == Kind[Inode[target]] = "runtime"
SharesNothing(target) == FALSE
SharesProtectedFile(target) ==
    Inode[target] # target /\ Kind[Inode[target]] \in {"credential", "guarded", "platform", "provider"}

is_inside_allowed_dirs(target) == target \in Inside

check_path(path, declared, writing) ==
    LET target == link[path]
        risky == Ask(Scope("path", target, writing, TRUE), "high", FALSE)
    IN  IF is_runtime_credential_path(target, declared) \/ SharesRuntimeCredential(target) THEN Deny
        ELSE IF writing /\ is_non_delegable_write_target(target, declared) THEN Deny
        ELSE IF is_sensitive_name(target, declared) THEN risky
        ELSE IF writing /\ Views(target, declared) \cap {"guarded", "platform"} # {} THEN risky
        ELSE IF writing /\ SharesProtectedFile(target) THEN Deny
        ELSE IF is_inside_allowed_dirs(target) THEN Allow
        ELSE Ask(Scope("path", target, writing, FALSE), "elevated", TRUE)

is_path_allowed(path) ==
    \/ link[path] \in allowedFiles
    \/ DirOf[link[path]] \in allowedDirs

\* The whitelist extends the ordinary boundary and nothing else.
Whitelisted(result, path) == result.boundary /\ is_path_allowed(path)

ApprovalScopeFor(c, high) ==
    IF c.tool = "shell" THEN Scope("command", c.path, TRUE, high)
    ELSE Scope("path", c.path, c.tool = "write_file", high)

command_mentions_runtime_credential(c) == c.tool = "shell" /\ Kind[c.path] = "runtime"

\* Any string among the arguments can match a rule.
RuleHit(c) == <<c.tool, c.path>> \in Ruled

\* The redirect of a command is only looked at when it names the platform's
\* own state.
redirects_elsewhere(c) == c.tool = "shell" /\ Kind[link[c.path]] # "platform"

FileResult(c) ==
    LET result == check_path(c.path, c.declared, c.tool # "read_file")
    IN  IF redirects_elsewhere(c) \/ Whitelisted(result, c.path) THEN Allow ELSE result

requires_approval(c) == c.tool # "read_file"

\* A rule is matched before the paths are looked at.
guard_check(c) ==
    IF command_mentions_runtime_credential(c) THEN Deny
    ELSE IF RuleHit(c) THEN Ask(ApprovalScopeFor(c, TRUE), "critical", FALSE)
    ELSE IF FileResult(c).verdict # "allow" THEN FileResult(c)
    ELSE IF requires_approval(c) THEN Ask(ApprovalScopeFor(c, FALSE), "elevated", FALSE)
    ELSE Allow

-----------------------------------------------------------------------------
(* FactGate and ToolPolicy                                                 *)

is_read_only_shell(c) == c.path \in ReadOnlyText

FactOf(c) ==
    CASE c.tool = "shell" /\ ~ is_read_only_shell(c) -> [fact |-> "shell"]
      [] c.tool = "write_file" -> [fact |-> "file", path |-> c.path]
      [] OTHER -> NoFact

Challenged(l, c) == enabled /\ FactOf(c) \notin checked[l] \cup {NoFact}

\* The two checkers of the policy, in their order.
GuardPolicy(c) == guard_check(c).verdict
FactPolicy(l, c) == IF Challenged(l, c) THEN "challenged" ELSE "allow"

\* A hard denial ends the evaluation; an approval is deferred behind the
\* challenge of the fact gate.
evaluate(l, c) ==
    IF GuardPolicy(c) = "deny" THEN "denied"
    ELSE IF FactPolicy(l, c) = "challenged" THEN "challenged"
    ELSE IF GuardPolicy(c) = "ask" THEN "ask" ELSE "allowed"

\* A round that starts with nothing pending changes nothing and is not counted.
BeginRound(l) ==
    /\ stage[l] = "idle" /\ pending[l] # {} /\ round[l] < MaxRounds
    /\ checked' = [checked EXCEPT ![l] = @ \cup pending[l]]
    /\ pending' = [pending EXCEPT ![l] = {}]
    /\ round' = [round EXCEPT ![l] = @ + 1]
    /\ UNCHANGED <<enabled, link, stage, cur, ticket, shown, allowedFiles, allowedDirs, evaluated, moves,
                   answers, challenges, ran>>

\* normalize_call resolves a path argument and keeps what the caller wrote.
Normalized(tool, p) ==
    [tool |-> tool, declared |-> p, path |-> IF tool = "shell" THEN p ELSE link[p],
     id |-> evaluated + 1]

\* The loop normalizes the call and evaluates it; where a user has to agree, a
\* sub-agent has nobody to ask.
Propose(l) ==
    /\ stage[l] = "idle" /\ evaluated < MaxCalls
    /\ evaluated' = evaluated + 1
    /\ \E tool \in Tool, p \in Path :
          LET c == Normalized(tool, p)
              answer == evaluate(l, c)
              stated == IF answer = "challenged" THEN {FactOf(c)} ELSE {}
              goes == CASE answer = "allowed" -> "ready"
                        [] answer = "ask" /\ l \in Interactive -> "waiting"
                        [] OTHER -> "idle"
          IN  /\ pending' = [pending EXCEPT ![l] = @ \cup stated]
              /\ challenges' = challenges \cup {<<l, fact, round[l]>> : fact \in stated}
              /\ stage' = [stage EXCEPT ![l] = goes]
              /\ cur' = [cur EXCEPT ![l] = IF goes = "idle" THEN NoGateCall ELSE c]
              /\ shown' = [shown EXCEPT
                    ![l] = IF goes = "waiting" THEN guard_check(c).scope ELSE NoScope]
    /\ UNCHANGED <<enabled, link, ticket, checked, round, allowedFiles, allowedDirs, moves, answers,
                   ran>>

-----------------------------------------------------------------------------
(* The approval wait and the execution                                     *)

UserGrants(l) ==
    /\ stage[l] = "waiting"
    /\ stage' = [stage EXCEPT ![l] = "ready"]
    /\ ticket' = [ticket EXCEPT ![l] = cur[l].id]
    /\ answers' = answers \cup {<<cur[l].id, shown[l]>>}
    /\ UNCHANGED <<enabled, link, cur, shown, checked, pending, round, allowedFiles, allowedDirs, evaluated,
                   moves, challenges, ran>>

\* A denial, a time-out, or a pre-tool hook that refuses after the grant.
Refused(l) ==
    /\ stage[l] \in {"waiting", "ready"}
    /\ stage' = [stage EXCEPT ![l] = "idle"]
    /\ cur' = [cur EXCEPT ![l] = NoGateCall]
    /\ ticket' = [ticket EXCEPT ![l] = 0]
    /\ shown' = [shown EXCEPT ![l] = NoScope]
    /\ UNCHANGED <<enabled, link, checked, pending, round, allowedFiles, allowedDirs, evaluated, moves,
                   answers, challenges, ran>>

\* A process outside the request puts a link in the place of a file.
Repoint ==
    /\ moves < MaxMoves
    /\ \E p \in Alias, q \in Path \ Alias : q # link[p] /\ link' = [link EXCEPT ![p] = q]
    /\ moves' = moves + 1
    /\ UNCHANGED <<enabled, stage, cur, ticket, shown, checked, pending, round, allowedFiles,
                   allowedDirs, evaluated, answers, challenges, ran>>

\* A permit counts for the scope it was given for.
Granted(l, decision) == ticket[l] # 0 /\ shown[l] = decision.scope

\* An elevated path approval is remembered: the directory inside the working
\* directory, the one file outside it.
RememberDirectory(scope) ==
    allowedDirs' = allowedDirs \cup {DirOf[scope.target]} /\ UNCHANGED allowedFiles
Remember(scope) ==
    IF scope.target \in Inside
    THEN allowedDirs' = allowedDirs \cup {DirOf[scope.target]} /\ UNCHANGED allowedFiles
    ELSE allowedFiles' = allowedFiles \cup {scope.target} /\ UNCHANGED allowedDirs

\* The registry normalizes and checks again, keeping the declared spelling.
Execute(l) ==
    LET c == [cur[l] EXCEPT !.path = IF cur[l].tool = "shell" THEN @ ELSE link[@]]
        decision == guard_check(c)
        granted == Granted(l, decision)
    IN  /\ stage[l] = "ready"
        /\ IF granted /\ decision.scope.kind = "path" /\ decision.tier = "elevated"
           THEN Remember(decision.scope)
           ELSE UNCHANGED <<allowedFiles, allowedDirs>>
        /\ ran' = IF decision.verdict = "allow" \/ (decision.verdict = "ask" /\ granted)
                  THEN ran \cup {[loop |-> l, tool |-> c.tool, text |-> c.path, file |-> link[c.path],
                                  declared |-> c.declared, fact |-> FactOf(cur[l]),
                                  round |-> round[l],
                                  ticket |-> IF granted THEN ticket[l] ELSE 0]}
                  ELSE ran
        /\ stage' = [stage EXCEPT ![l] = "idle"]
        /\ cur' = [cur EXCEPT ![l] = NoGateCall]
        /\ ticket' = [ticket EXCEPT ![l] = 0]
        /\ shown' = [shown EXCEPT ![l] = NoScope]
        /\ UNCHANGED <<enabled, link, checked, pending, round, evaluated, moves, answers, challenges>>

LoopStep(l) ==
    \/ BeginRound(l) \/ Propose(l) \/ UserGrants(l) \/ Refused(l) \/ Execute(l)

GateNext == Repoint \/ \E l \in Loop : LoopStep(l)

GateSpec == GateInit /\ [][GateNext]_gateVars

-----------------------------------------------------------------------------
(* Properties                                                              *)

\* What the user agreed to for the approval "n".
Agreed(n) == {a[2] : a \in {b \in answers : b[1] = n}}

\* The arguments matched a dangerous-command rule.
RuleWasHit(x) == <<x.tool, x.text>> \in Ruled

\* The name hides a file that may not be written unasked.
HardLinked(file) ==
    /\ Inode[file] # file
    /\ Kind[Inode[file]] \in {"credential", "guarded", "platform", "provider"}

\* Every file outside the working directory that a file tool touches is one
\* the user was shown by its resolved name and agreed to: neither a sibling of
\* an approved file nor what a link came to point at during the wait.
ExternalWasShown ==
    \A x \in ran : x.tool # "shell" /\ x.file \notin Inside =>
        \E a \in answers : a[2].kind = "path" /\ a[2].target = x.file

\* A call that writes, runs a command or touches what the rules call high risk
\* (by either spelling) spends an approval of its own that names what it does:
\* no whitelist and no earlier approval stands in for it.
RiskyIsAskedEachTime ==
    \A x \in ran :
        LET views == Views(x.file, x.declared)
            high == \/ RuleWasHit(x)
                    \/ x.tool # "shell" /\ "credential" \in views
                    \/ x.tool = "write_file" /\ {"guarded", "platform"} \cap views # {}
                    \/ x.tool = "shell" /\ Kind[x.file] = "platform"
        IN  x.tool # "read_file" \/ high =>
                /\ \E s \in Agreed(x.ticket) : s.target \in {x.file, x.text} /\ (high => s.high)
                /\ \A y \in ran \ {x} : y.ticket # x.ticket

\* The runtime's credentials, by any name or hard link, are not touched by a
\* file tool, its tool providers are not written, and what a hard link hides
\* is not written under a harmless name, whatever the user agrees to; only a
\* match of a dangerous-command rule, decided before the paths are looked at,
\* turns the refusal into a question.
NeverDelegated ==
    \A x \in ran : x.tool # "shell" /\ ~ RuleWasHit(x) =>
        /\ "runtime" \notin Views(x.file, x.declared) \cup {Kind[Inode[x.file]]}
        /\ x.tool = "write_file" =>
              /\ "provider" \notin Views(x.file, x.declared)
              /\ HardLinked(x.file) => \E s \in Agreed(x.ticket) : s.high

\* set_non_delegable_write_roots: the provider roots "are checked before
\* ordinary approval handling, so a one-shot user approval cannot" open them.
ProvidersAreNeverWritten ==
    \A x \in ran : x.tool = "write_file" => "provider" \notin Views(x.file, x.declared)

\* A state-changing call is challenged for its facts in an earlier round of
\* the same loop before it executes, and before the user is asked about it.
FactsComeFirst ==
    LET stated(l, fact, r) == fact = NoFact \/ \E k \in 1 .. r - 1 : <<l, fact, k>> \in challenges
    IN  enabled =>
        /\ \A x \in ran : stated(x.loop, x.fact, x.round)
        /\ \A l \in Loop : stage[l] = "waiting" => stated(l, FactOf(cur[l]), round[l])

\* Consent covers what was shown and no more: an external file was part of the
\* question, and a risky call is asked for each time.
ConsentIsSpecific == ExternalWasShown /\ RiskyIsAskedEachTime

\* No answer of user or model opens what the guard protects: protected files
\* are never delegated, and a write is preceded by the facts it was asked for.
GuardIsNotBypassed == NeverDelegated /\ FactsComeFirst

===============================================================================
