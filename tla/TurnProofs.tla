---------------------------- MODULE TurnProofs ----------------------------
(***************************************************************************)
(* Proofs about four of the components that a round of the loop calls.     *)
(*                                                                         *)
(* ToolGate, for any number of loops, any files, links, rules and          *)
(* directories: consent is specific, and the guard is not bypassed.  Both  *)
(* are statements about what ran; the inductive invariant says what a call *)
(* that is suspended at the approval carries (a ticket that is its own,    *)
(* and the scope that was shown for it), what the whitelist was built      *)
(* from, and which challenge stands behind every fact of the fact gate.    *)
(*                                                                         *)
(* McpPool, for any number of tasks, sessions and servers: no connection   *)
(* leaks, the last join wins, what is cached can be used.  The invariant   *)
(* says who stands in the line of a session and which of its wishes the    *)
(* entry reflects, and that connections to be closed are stored nowhere.   *)
(*                                                                         *)
(* ProviderStream, for any number of retries, events and calls: the answer *)
(* is that of one request.  The invariant says that an attempt that has    *)
(* yielded no content has yielded nothing, so that trying again adds to    *)
(* nothing, and where the generation record of each client call is.        *)
(*                                                                         *)
(* ContextWindow, for any sizes, budgets, rounds and calls: compression    *)
(* keeps what a conversation means, and what is sent fits.  The invariant  *)
(* says of the part before the request that it is the contract and a       *)
(* history the user opens, and of the part after it that its rounds are    *)
(* complete and its newest result is whole.                                *)
(***************************************************************************)
EXTENDS ToolGate, McpPool, ProviderStream, ContextWindow, SequenceFacts,
        FiniteSetTheorems, SequenceTheorems, WellFoundedInduction, TLAPS

Call == [tool : Tool, declared : Path, path : Path, id : Nat \ {0}]
ScopeSet == [kind : {"path", "command"}, target : Path, writing : BOOLEAN, high : BOOLEAN]
Fact == [fact : {"shell"}] \cup [fact : {"file"}, path : Path]
Run == [loop : Loop, tool : Tool, text : Path, file : Path, declared : Path,
        fact : Fact \cup {NoFact}, round : Nat, ticket : Nat]

GateTypeOK ==
    /\ enabled \in BOOLEAN
    /\ link \in [Path -> Path]
    /\ stage \in [Loop -> {"idle", "waiting", "ready"}]
    /\ cur \in [Loop -> Call \cup {NoGateCall}]
    /\ ticket \in [Loop -> Nat]
    /\ shown \in [Loop -> ScopeSet \cup {NoScope}]
    /\ checked \in [Loop -> SUBSET Fact] /\ pending \in [Loop -> SUBSET Fact]
    /\ round \in [Loop -> Nat \ {0}]
    /\ allowedFiles \in SUBSET Path
    /\ evaluated \in Nat /\ moves \in Nat
    /\ answers \in SUBSET (Nat \X ScopeSet)
    /\ challenges \in SUBSET (Loop \X Fact \X Nat)
    /\ ran \in SUBSET Run

\* Only an alias is moved, and only to a file that is not one.
LinksResolve ==
    \A p \in Path : /\ p \notin Alias => link[p] = p
                    /\ link[p] = p \/ link[p] \notin Alias

\* A suspended call has an identity that no other call shares, now or later.
CallsAreOwn ==
    /\ \A l \in Loop : stage[l] # "idle" => cur[l] \in Call /\ cur[l].id <= evaluated
    /\ \A l, m \in Loop :
          stage[l] # "idle" /\ stage[m] # "idle" /\ l # m => cur[l].id # cur[m].id

\* A ticket is its holder's and comes with the scope the user answered for; a
\* ticket that was spent is nobody's.
TicketsAreOwn ==
    /\ \A l \in Loop : stage[l] = "waiting" => shown[l] \in ScopeSet
    /\ \A l \in Loop : ticket[l] # 0 =>
          stage[l] = "ready" /\ ticket[l] = cur[l].id /\ <<ticket[l], shown[l]>> \in answers
    /\ \A x \in ran :
          /\ x.ticket <= evaluated
          /\ x.ticket # 0 => \A l \in Loop : stage[l] # "idle" => cur[l].id # x.ticket
          /\ x.ticket # 0 => \A y \in ran \ {x} : y.ticket # x.ticket

WhitelistIsAnswered ==
    /\ \A f \in allowedFiles : \E a \in answers : a[2].kind = "path" /\ a[2].target = f
    /\ \A d \in allowedDirs : \E p \in Inside : d = DirOf[p]

\* Every fact a loop has stated answers a challenge of that loop: the ones it
\* may use, of an earlier round.
Stated(l, fact, r) == fact = NoFact \/ \E k \in 1 .. r - 1 : <<l, fact, k>> \in challenges
FactsAreStated ==
    /\ \A l \in Loop : \A f \in checked[l] : \E k \in 1 .. round[l] - 1 : <<l, f, k>> \in challenges
    /\ \A l \in Loop : \A f \in pending[l] : \E k \in 1 .. round[l] : <<l, f, k>> \in challenges
    /\ enabled => \A l \in Loop : stage[l] # "idle" => Stated(l, FactOf(cur[l]), round[l])
    /\ enabled => \A x \in ran : Stated(x.loop, x.fact, x.round)

\* What one executed call rests on.
Risky(tool, text, file, declared) ==
    \/ <<tool, text>> \in Ruled
    \/ tool # "shell" /\ "credential" \in Views(file, declared)
    \/ tool = "write_file" /\ {"guarded", "platform"} \cap Views(file, declared) # {}
    \/ tool = "shell" /\ Kind[file] = "platform"
HighRisk(x) == Risky(x.tool, x.text, x.file, x.declared)
IsExternal(x) == x.tool # "shell" /\ x.file \notin Inside =>
    \E a \in answers : a[2].kind = "path" /\ a[2].target = x.file
IsAsked(x) == x.tool # "read_file" \/ HighRisk(x) =>
    /\ x.ticket # 0
    /\ \E s \in Agreed(x.ticket) : s.target \in {x.file, x.text} /\ (HighRisk(x) => s.high)
IsDelegable(x) == x.tool # "shell" /\ ~ RuleWasHit(x) =>
    /\ "runtime" \notin Views(x.file, x.declared) \cup {Kind[Inode[x.file]]}
    /\ x.tool = "write_file" =>
          /\ "provider" \notin Views(x.file, x.declared)
          /\ HardLinked(x.file) => \E s \in Agreed(x.ticket) : s.high
RanIsSound == \A x \in ran : IsExternal(x) /\ IsAsked(x) /\ IsDelegable(x)

GateInv ==
    /\ GateTypeOK /\ LinksResolve /\ CallsAreOwn /\ TicketsAreOwn
    /\ WhitelistIsAnswered /\ FactsAreStated /\ RanIsSound

-----------------------------------------------------------------------------
(* What the guard answers                                                  *)

LEMMA ScopeType ==
  ASSUME NEW k \in {"path", "command"}, NEW t \in Path, NEW w \in BOOLEAN, NEW h \in BOOLEAN
  PROVE  Scope(k, t, w, h) \in ScopeSet
  BY DEF Scope, ScopeSet

\* A path is refused, is a question about the file it resolves to, or lies in
\* the working directory; only the last question can be answered in advance.
LEMMA CheckPath ==
  ASSUME NEW p \in Path, NEW d \in Path, NEW w \in BOOLEAN, link \in [Path -> Path]
  PROVE  LET r == check_path(p, d, w)
             t == link[p]
             bad == Views(t, d) \cap {"guarded", "platform"} # {}
             denied == \/ "runtime" \in Views(t, d) \/ Kind[Inode[t]] = "runtime"
                       \/ w /\ "provider" \in Views(t, d)
             risky == "credential" \in Views(t, d) \/ (w /\ bad)
         IN  \/ r = Deny
             \/ /\ r = Ask(Scope("path", t, w, TRUE), "high", FALSE)
                /\ ~ denied /\ risky
             \/ /\ ~ denied /\ ~ risky /\ ~ (w /\ SharesProtectedFile(t))
                /\ \/ r = Allow /\ t \in Inside
                   \/ r = Ask(Scope("path", t, w, FALSE), "elevated", TRUE)
  BY DEF check_path, is_runtime_credential_path, SharesRuntimeCredential,
     is_non_delegable_write_target, is_sensitive_name, is_inside_allowed_dirs

LEMMA CallFields ==
  ASSUME NEW c \in Call
  PROVE  /\ c.tool \in {"read_file", "write_file", "shell"} /\ c.declared \in Path
         /\ c.path \in Path /\ c.id \in Nat \ {0}
  BY DEF Call, Tool

\* What the whole guard answers to a call whose path is resolved.  Nothing but
\* a harmless read goes unasked; a question names the file; and what may not
\* be delegated is refused unless a rule matched first.
LEMMA GuardCheck ==
  ASSUME NEW c \in Call, link \in [Path -> Path],
         c.tool # "shell" => link[c.path] = c.path
  PROVE  LET g == guard_check(c)
             t == link[c.path]
             high == Risky(c.tool, c.path, t, c.declared)
         IN  /\ g.verdict \in {"deny", "ask", "allow"}
             /\ g.verdict = "allow" =>
                   c.tool = "read_file" /\ ~ high /\ (t \in Inside \/ is_path_allowed(c.path))
             /\ g.verdict = "ask" =>
                   /\ g.scope \in ScopeSet /\ g.scope.target \in {c.path, t}
                   /\ c.tool # "shell" => g.scope.kind = "path" /\ g.scope.target = t
                   /\ high => g.scope.high
             /\ c.tool # "shell" /\ ~ RuleHit(c) /\ g.verdict # "deny" =>
                   /\ "runtime" \notin Views(t, c.declared) \cup {Kind[Inode[t]]}
                   /\ c.tool = "write_file" =>
                         /\ "provider" \notin Views(t, c.declared)
                         /\ HardLinked(t) => g.verdict = "ask" /\ g.scope.high
  <1> DEFINE t == link[c.path]
             w == c.tool # "read_file"
             r == check_path(c.path, c.declared, w)
             g == guard_check(c)
  <1>0. /\ t \in Path /\ w \in BOOLEAN
        /\ c.tool \in {"read_file", "write_file", "shell"} /\ c.declared \in Path /\ c.path \in Path
    BY CallFields
  <1>1. \A h \in BOOLEAN : /\ ApprovalScopeFor(c, h) \in ScopeSet
                           /\ ApprovalScopeFor(c, h).target = c.path /\ ApprovalScopeFor(c, h).high = h
                           /\ c.tool # "shell" => ApprovalScopeFor(c, h).kind = "path"
    BY <1>0, ScopeType DEF ApprovalScopeFor, Scope
  <1>3. \A h \in BOOLEAN : Scope("path", t, w, h) \in ScopeSet /\ Scope("path", t, w, h).target = t
                /\ Scope("path", t, w, h).kind = "path" /\ Scope("path", t, w, h).high = h
    BY <1>0, ScopeType DEF Scope
  <1>4. CASE command_mentions_runtime_credential(c)
    BY <1>4 DEF guard_check, Deny
  <1>5. CASE ~ command_mentions_runtime_credential(c) /\ RuleHit(c)
    <2>1. g = Ask(ApprovalScopeFor(c, TRUE), "critical", FALSE)
      BY <1>5 DEF guard_check
    <2>2. g.verdict = "ask" /\ g.scope = ApprovalScopeFor(c, TRUE)
      BY <2>1 DEF Ask
    <2>3. /\ g.scope \in ScopeSet /\ g.scope.target = c.path /\ g.scope.high
          /\ c.tool # "shell" => g.scope.kind = "path"
      BY <1>1, <2>2
    <2> HIDE DEF g
    <2> QED BY <1>5, <2>2, <2>3 DEF g
  <1>6. CASE ~ command_mentions_runtime_credential(c) /\ ~ RuleHit(c)
    <2>0. <<c.tool, c.path>> \notin Ruled
      BY <1>6 DEF RuleHit
    <2>1. FileResult(c) = IF redirects_elsewhere(c) \/ Whitelisted(r, c.path) THEN Allow ELSE r
      BY DEF FileResult
    <2>2. g = IF FileResult(c).verdict # "allow" THEN FileResult(c)
              ELSE IF w THEN Ask(ApprovalScopeFor(c, FALSE), "elevated", FALSE) ELSE Allow
      BY <1>6 DEF guard_check, requires_approval
    <2>3. redirects_elsewhere(c) <=> c.tool = "shell" /\ Kind[t] # "platform"
      BY DEF redirects_elsewhere
    <2>4. Whitelisted(r, c.path) => r.boundary /\ is_path_allowed(c.path)
      BY DEF Whitelisted
    <2>5. PICK denied \in BOOLEAN, risky \in BOOLEAN :
            /\ denied = (\/ "runtime" \in Views(t, c.declared) \/ Kind[Inode[t]] = "runtime"
                         \/ w /\ "provider" \in Views(t, c.declared))
            /\ risky = (\/ "credential" \in Views(t, c.declared)
                        \/ w /\ Views(t, c.declared) \cap {"guarded", "platform"} # {})
      OBVIOUS
    <2>6. \/ r = Deny
          \/ r = Ask(Scope("path", t, w, TRUE), "high", FALSE) /\ ~ denied
          \/ /\ ~ denied /\ ~ risky /\ ~ (w /\ SharesProtectedFile(t))
             /\ \/ r = Allow /\ t \in Inside
                \/ r = Ask(Scope("path", t, w, FALSE), "elevated", TRUE)
      BY <1>0, <2>5, CheckPath
    <2>7. Risky(c.tool, c.path, t, c.declared) =>
              (c.tool # "shell" /\ risky) \/ (c.tool = "shell" /\ Kind[t] = "platform")
      BY <1>0, <2>0, <2>5 DEF Risky
    <2>8. Kind[t] = "platform" /\ c.tool = "shell" => risky
      BY <2>5 DEF Views
    <2>9. HardLinked(t) <=> SharesProtectedFile(t)
      BY DEF HardLinked, SharesProtectedFile
    <2>10. CASE FileResult(c) = Allow
      <3>1. (c.tool = "shell" /\ Kind[t] # "platform") \/ (~ denied /\ ~ risky /\ ~ (w /\ SharesProtectedFile(t)))
        BY <2>1, <2>3, <2>4, <2>6, <2>10 DEF Allow, Deny, Ask
      <3>2. ~ Risky(c.tool, c.path, t, c.declared)
        BY <2>7, <2>8, <3>1
      <3>3. c.tool # "shell" => t \in Inside \/ is_path_allowed(c.path)
        BY <2>1, <2>3, <2>4, <2>6, <2>10 DEF Allow, Deny, Ask
      <3>4. CASE w
        <4>1. g.verdict = "ask" /\ g.scope = ApprovalScopeFor(c, FALSE)
          BY <2>2, <2>10, <3>4 DEF Allow, Ask
        <4>2. /\ g.scope \in ScopeSet /\ g.scope.target = c.path
              /\ c.tool # "shell" => g.scope.kind = "path"
          BY <1>1, <4>1
        <4> QED BY <2>5, <2>9, <3>1, <3>2, <3>4, <4>1, <4>2
      <3>5. CASE ~ w
        <4>1. g.verdict = "allow"
          BY <2>2, <2>10, <3>5 DEF Allow
        <4> QED BY <2>5, <3>1, <3>2, <3>3, <3>5, <4>1
      <3> QED BY <3>4, <3>5
    <2>11. CASE FileResult(c) = r /\ r # Allow
      <3>1. g = r
        BY <2>2, <2>6, <2>11 DEF Deny, Ask, Allow
      <3>2. CASE r = Deny
        BY <3>1, <3>2 DEF Deny
      <3>3. CASE r = Ask(Scope("path", t, w, TRUE), "high", FALSE) /\ ~ denied
        <4>0. PICK s : s = Scope("path", t, w, TRUE) /\ r = Ask(s, "high", FALSE)
          BY <3>3
        <4>1. g.verdict = "ask" /\ g.scope = Scope("path", t, w, TRUE)
          <5>0. g = Ask(s, "high", FALSE)
            BY <3>1, <4>0, Zenon
          <5>1. g.verdict = "ask" /\ g.scope = s
            BY <5>0 DEF Ask
          <5> QED BY <4>0, <5>1
        <4>2. g.scope \in ScopeSet /\ g.scope.target = t /\ g.scope.kind = "path" /\ g.scope.high
          BY <1>3, <4>1
        <4> QED BY <2>5, <3>3, <4>1, <4>2
      <3>4. CASE /\ r = Ask(Scope("path", t, w, FALSE), "elevated", TRUE)
                 /\ ~ denied /\ ~ risky /\ ~ (w /\ SharesProtectedFile(t))
        <4>0. PICK s : s = Scope("path", t, w, FALSE) /\ r = Ask(s, "elevated", TRUE)
          BY <3>4
        <4>1. g.verdict = "ask" /\ g.scope = Scope("path", t, w, FALSE)
          <5>0. g = Ask(s, "elevated", TRUE)
            BY <3>1, <4>0, Zenon
          <5>1. g.verdict = "ask" /\ g.scope = s
            BY <5>0 DEF Ask
          <5> QED BY <4>0, <5>1
        <4>2. g.scope \in ScopeSet /\ g.scope.target = t /\ g.scope.kind = "path"
          BY <1>3, <4>1
        <4>3. ~ Risky(c.tool, c.path, t, c.declared)
          BY <2>7, <2>8, <3>4
        <4> QED BY <2>5, <2>9, <3>4, <4>1, <4>2, <4>3
      <3> QED BY <2>6, <2>11, <3>2, <3>3, <3>4
    <2> QED BY <2>1, <2>10, <2>11
  <1> QED BY <1>4, <1>5, <1>6

-----------------------------------------------------------------------------
(* What stands once it has been said                                       *)

LEMMA LinkIsFinal ==
  ASSUME GateTypeOK, LinksResolve, NEW p \in Path
  PROVE  link[p] \in Path /\ link[link[p]] = link[p]
  BY DEF GateTypeOK, LinksResolve

\* An answer is never taken back, and neither is what rests on it.
LEMMA RanKeeps ==
  ASSUME answers \subseteq answers', NEW x, IsExternal(x) /\ IsAsked(x) /\ IsDelegable(x)
  PROVE  (IsExternal(x) /\ IsAsked(x) /\ IsDelegable(x))'
  <1>1. \A n : Agreed(n) \subseteq Agreed(n)'
    BY DEF Agreed
  <1>2. IsExternal(x)'
    BY DEF IsExternal
  <1>3. IsAsked(x)'
    BY <1>1 DEF IsAsked, HighRisk, Risky, RuleWasHit, Views
  <1>4. IsDelegable(x)'
    BY <1>1 DEF IsDelegable, RuleWasHit, Views, HardLinked
  <1> QED BY <1>2, <1>3, <1>4

LEMMA WhitelistKeeps ==
  ASSUME WhitelistIsAnswered, answers \subseteq answers', UNCHANGED <<allowedFiles, allowedDirs>>
  PROVE  WhitelistIsAnswered'
  BY DEF WhitelistIsAnswered

\* The parts that only read what an action leaves alone.
LEMMA QuietStep ==
  ASSUME GateInv,
         UNCHANGED <<enabled, link, cur, allowedFiles, allowedDirs, answers, ran>>
  PROVE  LinksResolve' /\ WhitelistIsAnswered' /\ RanIsSound'
  <1>1. LinksResolve'
    BY DEF GateInv, LinksResolve
  <1>2. WhitelistIsAnswered'
    BY WhitelistKeeps DEF GateInv
  <1>3. RanIsSound'
    BY RanKeeps DEF GateInv, RanIsSound
  <1> QED BY <1>1, <1>2, <1>3

LEMMA FactType == ASSUME NEW c \in Call PROVE FactOf(c) \in Fact \cup {NoFact}
  BY CallFields DEF FactOf, Fact, NoFact

-----------------------------------------------------------------------------
(* The actions                                                             *)

LEMMA InitStep == GateInit => GateInv
  <1> SUFFICES ASSUME GateInit PROVE GateInv
    OBVIOUS
  <1>1. GateTypeOK
    BY DEF GateInit, GateTypeOK
  <1>2. LinksResolve /\ CallsAreOwn /\ TicketsAreOwn
    BY DEF GateInit, LinksResolve, CallsAreOwn, TicketsAreOwn
  <1>3. WhitelistIsAnswered /\ FactsAreStated /\ RanIsSound
    BY DEF GateInit, WhitelistIsAnswered, FactsAreStated, RanIsSound
  <1> QED BY <1>1, <1>2, <1>3 DEF GateInv

\* The facts that were pending count from the next round on.
LEMMA BeginRoundStep ==
  ASSUME GateInv, NEW l \in Loop, BeginRound(l)
  PROVE  GateInv'
  <1>1. GateTypeOK'
    BY DEF GateInv, GateTypeOK, BeginRound
  <1>2. LinksResolve' /\ WhitelistIsAnswered' /\ RanIsSound'
    BY QuietStep DEF BeginRound
  <1>3. CallsAreOwn' /\ TicketsAreOwn'
    BY DEF GateInv, CallsAreOwn, TicketsAreOwn, BeginRound
  <1>4. FactsAreStated'
    <2>1. \A k \in Loop : round[k] \in Nat /\ round'[k] \in Nat
      BY <1>1 DEF GateInv, GateTypeOK
    <2>2. /\ round'[l] = round[l] + 1 /\ checked'[l] = checked[l] \cup pending[l] /\ pending'[l] = {}
          /\ \A k \in Loop \ {l} : round'[k] = round[k] /\ checked'[k] = checked[k] /\ pending'[k] = pending[k]
          /\ UNCHANGED <<enabled, stage, cur, challenges, ran>> /\ stage[l] = "idle"
      BY DEF GateInv, GateTypeOK, BeginRound
    <2>3. \A k \in Loop : \A f \in checked'[k] : \E n \in 1 .. round'[k] - 1 : <<k, f, n>> \in challenges
      <3> SUFFICES ASSUME NEW k \in Loop, NEW f \in checked'[k]
                   PROVE  \E n \in 1 .. round'[k] - 1 : <<k, f, n>> \in challenges
        OBVIOUS
      <3>1. CASE k # l
        BY <2>2, <3>1 DEF GateInv, FactsAreStated
      <3>2. CASE k = l
        <4>1. PICK n \in 1 .. round[l] : <<l, f, n>> \in challenges
          BY <2>1, <2>2, <3>2 DEF GateInv, FactsAreStated
        <4> QED BY <2>1, <2>2, <3>2, <4>1
      <3> QED BY <3>1, <3>2
    <2>4. \A k \in Loop : \A f \in pending'[k] : \E n \in 1 .. round'[k] : <<k, f, n>> \in challenges
      BY <2>2 DEF GateInv, FactsAreStated
    <2>5. /\ enabled => \A k \in Loop : stage[k] # "idle" => Stated(k, FactOf(cur[k]), round[k])'
          /\ enabled => \A x \in ran : Stated(x.loop, x.fact, x.round)'
      BY <2>2 DEF GateInv, FactsAreStated, Stated, FactOf, is_read_only_shell
    <2> QED BY <2>2, <2>3, <2>4, <2>5 DEF FactsAreStated
  <1> QED BY <1>1, <1>2, <1>3, <1>4 DEF GateInv

\* A link moves: the calls that are suspended keep what they carry.
LEMMA RepointStep ==
  ASSUME GateInv, Repoint
  PROVE  GateInv'
  <1>1. GateTypeOK'
    BY GateAssumption DEF GateInv, GateTypeOK, Repoint
  <1>2. LinksResolve'
    BY GateAssumption DEF GateInv, GateTypeOK, LinksResolve, Repoint
  <1>3. CallsAreOwn' /\ TicketsAreOwn'
    BY DEF GateInv, CallsAreOwn, TicketsAreOwn, Repoint
  <1>4. WhitelistIsAnswered' /\ RanIsSound'
    BY WhitelistKeeps, RanKeeps DEF GateInv, RanIsSound, Repoint
  <1>5. FactsAreStated'
    BY DEF GateInv, FactsAreStated, Repoint, Stated, FactOf, is_read_only_shell
  <1> QED BY <1>1, <1>2, <1>3, <1>4, <1>5 DEF GateInv

LEMMA UserGrantsStep ==
  ASSUME GateInv, NEW l \in Loop, UserGrants(l)
  PROVE  GateInv'
  <1>0. /\ cur[l] \in Call /\ cur[l].id \in Nat \ {0} /\ cur[l].id <= evaluated
        /\ shown[l] \in ScopeSet
    BY CallFields DEF GateInv, CallsAreOwn, TicketsAreOwn, UserGrants
  <1>1. GateTypeOK'
    BY <1>0 DEF GateInv, GateTypeOK, UserGrants
  <1>2. LinksResolve' /\ CallsAreOwn'
    BY DEF GateInv, LinksResolve, CallsAreOwn, UserGrants, GateTypeOK
  <1>3. TicketsAreOwn'
    BY <1>0 DEF GateInv, TicketsAreOwn, CallsAreOwn, UserGrants, GateTypeOK
  <1>4. WhitelistIsAnswered' /\ RanIsSound'
    BY WhitelistKeeps, RanKeeps DEF GateInv, RanIsSound, UserGrants
  <1>5. FactsAreStated'
    BY DEF GateInv, FactsAreStated, UserGrants, Stated, FactOf, is_read_only_shell, GateTypeOK
  <1> QED BY <1>1, <1>2, <1>3, <1>4, <1>5 DEF GateInv

LEMMA RefusedStep ==
  ASSUME GateInv, NEW l \in Loop, Refused(l)
  PROVE  GateInv'
  <1>1. GateTypeOK'
    BY DEF GateInv, GateTypeOK, Refused
  <1>2. LinksResolve' /\ CallsAreOwn'
    BY DEF GateInv, LinksResolve, CallsAreOwn, Refused, GateTypeOK
  <1>3. TicketsAreOwn'
    BY DEF GateInv, TicketsAreOwn, Refused, GateTypeOK
  <1>4. WhitelistIsAnswered' /\ RanIsSound'
    BY WhitelistKeeps, RanKeeps DEF GateInv, RanIsSound, Refused
  <1>5. FactsAreStated'
    BY DEF GateInv, FactsAreStated, Refused, Stated, FactOf, is_read_only_shell, GateTypeOK
  <1> QED BY <1>1, <1>2, <1>3, <1>4, <1>5 DEF GateInv

\* A call that is let through, or asked about, has had its facts stated.
LEMMA ProposeStep ==
  ASSUME GateInv, NEW l \in Loop, Propose(l)
  PROVE  GateInv'
  <1>0. /\ GateTypeOK /\ LinksResolve
        /\ stage[l] = "idle" /\ evaluated' = evaluated + 1 /\ evaluated \in Nat
        /\ UNCHANGED <<enabled, link, ticket, checked, round, allowedFiles, allowedDirs, moves,
                       answers, ran>>
    BY DEF GateInv, GateTypeOK, Propose
  <1> DEFINE Outcome(c, stated, goes) ==
        /\ pending' = [pending EXCEPT ![l] = @ \cup stated]
        /\ challenges' = challenges \cup {<<l, fact, round[l]>> : fact \in stated}
        /\ stage' = [stage EXCEPT ![l] = goes]
        /\ cur' = [cur EXCEPT ![l] = IF goes = "idle" THEN NoGateCall ELSE c]
        /\ shown' = [shown EXCEPT ![l] = IF goes = "waiting" THEN guard_check(c).scope ELSE NoScope]
        /\ stated \subseteq Fact /\ goes \in {"idle", "waiting", "ready"}
        /\ goes # "idle" => ~ Challenged(l, c)
        /\ goes = "waiting" => guard_check(c).scope \in ScopeSet
  <1>1. PICK c \in Call, stated \in SUBSET Fact, goes \in {"idle", "waiting", "ready"} :
            c.id = evaluated + 1 /\ Outcome(c, stated, goes)
    <2>1. PICK tool \in Tool, p \in Path :
            LET c == Normalized(tool, p)
                answer == evaluate(l, c)
                stated == IF answer = "challenged" THEN {FactOf(c)} ELSE {}
                goes == CASE answer = "allowed" -> "ready"
                          [] answer = "ask" /\ l \in Interactive -> "waiting"
                          [] OTHER -> "idle"
            IN  /\ pending' = [pending EXCEPT ![l] = @ \cup stated]
                /\ challenges' = challenges \cup {<<l, fact, round[l]>> : fact \in stated}
                /\ stage' = [stage EXCEPT ![l] = goes]
                /\ cur' = [cur EXCEPT ![l] = IF goes = "idle" THEN NoGateCall ELSE c]
                /\ shown' = [shown EXCEPT
                      ![l] = IF goes = "waiting" THEN guard_check(c).scope ELSE NoScope]
      BY DEF Propose
    <2> DEFINE c == Normalized(tool, p)
               answer == evaluate(l, c)
               stated == IF answer = "challenged" THEN {FactOf(c)} ELSE {}
               goes == CASE answer = "allowed" -> "ready"
                         [] answer = "ask" /\ l \in Interactive -> "waiting"
                         [] OTHER -> "idle"
    <2>2. /\ c \in Call /\ c.id = evaluated + 1
          /\ c.tool # "shell" => link[c.path] = c.path
      <3>1. link[p] \in Path /\ link[link[p]] = link[p]
        BY <1>0, LinkIsFinal
      <3> QED BY <1>0, <3>1 DEF Normalized, Call
    <2>3. answer \in {"denied", "challenged", "ask", "allowed"}
      BY DEF evaluate
    <2>4. answer = "challenged" => FactOf(c) \in Fact
      BY <2>2, FactType DEF evaluate, FactPolicy, Challenged
    <2>5. answer \in {"ask", "allowed"} => ~ Challenged(l, c)
      BY DEF evaluate, FactPolicy
    <2>6. answer = "ask" => guard_check(c).scope \in ScopeSet
      <3>1. answer = "ask" => guard_check(c).verdict = "ask"
        BY DEF evaluate, GuardPolicy
      <3>2. link \in [Path -> Path]
        BY <1>0 DEF GateTypeOK
      <3>3. guard_check(c).verdict = "ask" => guard_check(c).scope \in ScopeSet
        BY <2>2, <3>2, GuardCheck
      <3> QED BY <3>1, <3>3
    <2>7. /\ goes \in {"idle", "waiting", "ready"}
          /\ goes = "ready" => answer = "allowed"
          /\ goes = "waiting" => answer = "ask"
      BY <2>3
    <2>8. stated \subseteq Fact
      BY <2>4
    <2> HIDE DEF c, answer, stated, goes
    <2>9. Outcome(c, stated, goes)
      BY <2>1, <2>5, <2>6, <2>7, <2>8 DEF c, answer, stated, goes
    <2> QED BY <2>2, <2>9
  <1> HIDE DEF Outcome
  <1>2. /\ \A k \in Loop \ {l} : stage'[k] = stage[k] /\ cur'[k] = cur[k] /\ pending'[k] = pending[k]
        /\ stage'[l] = goes /\ pending'[l] = pending[l] \cup stated
        /\ cur'[l] = (IF goes = "idle" THEN NoGateCall ELSE c)
        /\ challenges \subseteq challenges'
        /\ \A f \in stated : <<l, f, round[l]>> \in challenges'
        /\ c.id \in Nat \ {0} /\ ticket[l] = 0
    BY <1>0, <1>1, CallFields DEF Outcome, GateTypeOK, GateInv, TicketsAreOwn
  <1>3. GateTypeOK'
    BY <1>0, <1>1 DEF Outcome, GateTypeOK
  <1>4. LinksResolve' /\ WhitelistIsAnswered' /\ RanIsSound'
    BY <1>0, WhitelistKeeps, RanKeeps DEF GateInv, LinksResolve, RanIsSound
  <1>5. CallsAreOwn'
    BY <1>0, <1>1, <1>2, CallFields DEF GateInv, CallsAreOwn
  <1>6. TicketsAreOwn'
    <2>1. /\ \A k \in Loop \ {l} : shown'[k] = shown[k]
          /\ goes = "waiting" => shown'[l] \in ScopeSet
      BY <1>0, <1>1 DEF Outcome, GateTypeOK
    <2>2. \A k \in Loop : stage'[k] = "waiting" => shown'[k] \in ScopeSet
      BY <1>2, <2>1 DEF GateInv, TicketsAreOwn
    <2>3. \A k \in Loop : ticket[k] # 0 =>
             stage'[k] = "ready" /\ ticket[k] = cur'[k].id /\ <<ticket[k], shown'[k]>> \in answers
      BY <1>2, <2>1 DEF GateInv, TicketsAreOwn
    <2>4. ASSUME NEW x \in ran
          PROVE  /\ x.ticket <= evaluated'
                 /\ x.ticket # 0 => \A k \in Loop : stage'[k] # "idle" => cur'[k].id # x.ticket
                 /\ x.ticket # 0 => \A y \in ran \ {x} : y.ticket # x.ticket
      <3>1. x.ticket \in Nat /\ x.ticket <= evaluated
        BY <1>0 DEF GateInv, TicketsAreOwn, GateTypeOK, Run
      <3>2. stage'[l] # "idle" => cur'[l].id # x.ticket
        BY <1>0, <1>1, <1>2, <3>1
      <3> QED BY <1>0, <1>2, <3>1, <3>2 DEF GateInv, TicketsAreOwn
    <2> QED BY <1>0, <2>2, <2>3, <2>4 DEF TicketsAreOwn
  <1>7. FactsAreStated'
    <2>1. \A k \in Loop : round[k] \in Nat \ {0}
      BY <1>0 DEF GateTypeOK
    <2>2. \A k \in Loop : \A f \in checked[k] : \E n \in 1 .. round[k] - 1 : <<k, f, n>> \in challenges'
      BY <1>2 DEF GateInv, FactsAreStated
    <2>3. \A k \in Loop : \A f \in pending'[k] : \E n \in 1 .. round[k] : <<k, f, n>> \in challenges'
      <3> SUFFICES ASSUME NEW k \in Loop, NEW f \in pending'[k]
                   PROVE  \E n \in 1 .. round[k] : <<k, f, n>> \in challenges'
        OBVIOUS
      <3>1. CASE f \in pending[k]
        BY <1>2, <3>1 DEF GateInv, FactsAreStated
      <3>2. CASE k = l /\ f \in stated
        <4>1. round[l] \in 1 .. round[l]
          BY <2>1
        <4> QED BY <1>2, <3>2, <4>1
      <3> QED BY <1>2, <3>1, <3>2
    <2>4. \A k \in Loop : enabled /\ stage'[k] # "idle" => Stated(k, FactOf(cur[k]), round[k])'
      <3> SUFFICES ASSUME NEW k \in Loop, enabled, stage'[k] # "idle"
                   PROVE  Stated(k, FactOf(cur[k]), round[k])'
        OBVIOUS
      <3>1. CASE k # l
        BY <1>0, <1>2, <3>1 DEF GateInv, FactsAreStated, Stated, FactOf, is_read_only_shell
      <3>2. CASE k = l
        <4>1. FactOf(c) \in checked[l] \cup {NoFact}
          BY <1>1, <1>2, <3>2 DEF Outcome, Challenged
        <4>2. FactOf(cur[l])' = FactOf(c)
          BY <1>2, <3>2 DEF FactOf, is_read_only_shell
        <4> QED BY <1>0, <2>2, <3>2, <4>1, <4>2 DEF Stated
      <3> QED BY <3>1, <3>2
    <2>5. \A x \in ran : enabled => Stated(x.loop, x.fact, x.round)'
      BY <1>2 DEF GateInv, FactsAreStated, Stated
    <2> QED BY <1>0, <2>2, <2>3, <2>4, <2>5 DEF FactsAreStated
  <1> QED BY <1>3, <1>4, <1>5, <1>6, <1>7 DEF GateInv

\* The execution checks the call again, against the links as they are now.
LEMMA ExecuteStep ==
  ASSUME GateInv, NEW l \in Loop, Execute(l)
  PROVE  GateInv'
  <1> DEFINE c == [cur[l] EXCEPT !.path = IF cur[l].tool = "shell" THEN @ ELSE link[@]]
             g == guard_check(c)
             granted == Granted(l, g)
             x == [loop |-> l, tool |-> c.tool, text |-> c.path, file |-> link[c.path],
                   declared |-> c.declared, fact |-> FactOf(cur[l]), round |-> round[l],
                   ticket |-> IF granted THEN ticket[l] ELSE 0]
             Runs == g.verdict = "allow" \/ (g.verdict = "ask" /\ granted)
             Remembers == granted /\ g.scope.kind = "path" /\ g.tier = "elevated"
  <1>0. /\ stage[l] = "ready" /\ stage' = [stage EXCEPT ![l] = "idle"]
        /\ cur' = [cur EXCEPT ![l] = NoGateCall] /\ ticket' = [ticket EXCEPT ![l] = 0]
        /\ shown' = [shown EXCEPT ![l] = NoScope]
        /\ ran' = IF Runs THEN ran \cup {x} ELSE ran
        /\ IF Remembers THEN Remember(g.scope) ELSE UNCHANGED <<allowedFiles, allowedDirs>>
        /\ UNCHANGED <<enabled, link, checked, pending, round, evaluated, moves, answers, challenges>>
    BY DEF Execute
  <1>1. GateTypeOK /\ LinksResolve /\ CallsAreOwn /\ TicketsAreOwn /\ link \in [Path -> Path]
    BY DEF GateInv, GateTypeOK
  <1>2. /\ cur[l] \in Call /\ c \in Call /\ c.tool = cur[l].tool
        /\ c.tool # "shell" => link[c.path] = c.path
    <2>1. cur[l] \in Call
      BY <1>0, <1>1 DEF CallsAreOwn
    <2>2. link[cur[l].path] \in Path /\ link[link[cur[l].path]] = link[cur[l].path]
      BY <1>1, <2>1, CallFields, LinkIsFinal
    <2> QED BY <2>1, <2>2 DEF Call
  <1>3. granted => /\ ticket[l] # 0 /\ ticket[l] = cur[l].id
                   /\ <<ticket[l], g.scope>> \in answers /\ g.scope \in ScopeSet
    BY <1>1 DEF Granted, TicketsAreOwn, GateTypeOK
  <1>4. ticket[l] \in Nat /\ round[l] \in Nat /\ FactOf(cur[l]) \in Fact \cup {NoFact}
    BY <1>1, <1>2, FactType DEF GateTypeOK
  <1>5. x \in Run
    <2>1. c.tool \in Tool /\ c.path \in Path /\ c.declared \in Path /\ link[c.path] \in Path
      BY <1>1, <1>2, CallFields DEF Tool
    <2> HIDE DEF c, granted
    <2> QED BY <1>4, <2>1 DEF Run
  <1> HIDE DEF Runs, Remembers
  <1>6. GateTypeOK'
    <2>1. allowedFiles' \subseteq Path
      <3>1. CASE Remembers
        <4>1. g.scope.target \in Path
          BY <1>3, <3>1 DEF Remembers, ScopeSet
        <4> QED BY <1>0, <1>1, <3>1, <4>1 DEF Remember, GateTypeOK
      <3>2. CASE ~ Remembers
        BY <1>0, <1>1, <3>2 DEF GateTypeOK
      <3> QED BY <3>1, <3>2
    <2>2. ran' \subseteq Run
      <3> HIDE DEF x
      <3> QED BY <1>0, <1>1, <1>5 DEF GateTypeOK
    <2> QED BY <1>0, <1>1, <2>1, <2>2 DEF GateTypeOK
  <1>7. LinksResolve' /\ CallsAreOwn'
    BY <1>0, <1>1 DEF LinksResolve, CallsAreOwn, GateTypeOK
  <1>8. x.ticket \in {0, cur[l].id} /\ x.loop = l /\ x.fact = FactOf(cur[l]) /\ x.round = round[l]
    BY <1>3
  <1>9. TicketsAreOwn'
    <2>1. /\ stage'[l] = "idle" /\ ticket'[l] = 0
          /\ \A k \in Loop \ {l} : /\ stage'[k] = stage[k] /\ ticket'[k] = ticket[k]
                                   /\ cur'[k] = cur[k] /\ shown'[k] = shown[k]
      BY <1>0, <1>1 DEF GateTypeOK
    <2>2. \A k \in Loop : stage'[k] = "waiting" => shown'[k] \in ScopeSet
      BY <1>1, <2>1 DEF TicketsAreOwn
    <2>3. \A k \in Loop : ticket'[k] # 0 =>
             stage'[k] = "ready" /\ ticket'[k] = cur'[k].id /\ <<ticket'[k], shown'[k]>> \in answers
      BY <1>1, <2>1 DEF TicketsAreOwn
    <2>4. /\ x.ticket <= evaluated
          /\ \A k \in Loop \ {l} : stage[k] # "idle" /\ x.ticket # 0 => cur[k].id # x.ticket
          /\ x.ticket # 0 => \A y \in ran : y.ticket # x.ticket
      <3>1. 0 <= evaluated /\ cur[l].id <= evaluated
        BY <1>0, <1>1 DEF CallsAreOwn, GateTypeOK
      <3>2. \A k \in Loop \ {l} : stage[k] # "idle" => cur[k].id # cur[l].id
        BY <1>0, <1>1 DEF CallsAreOwn
      <3>3. \A y \in ran : y.ticket # 0 => y.ticket # cur[l].id
        BY <1>0, <1>1 DEF TicketsAreOwn
      <3> HIDE DEF x
      <3> QED BY <1>8, <3>1, <3>2, <3>3
    <2>5. \A y \in ran' : /\ y.ticket <= evaluated
                          /\ y.ticket # 0 => \A k \in Loop : stage'[k] # "idle" => cur'[k].id # y.ticket
                          /\ y.ticket # 0 => \A z \in ran' \ {y} : z.ticket # y.ticket
      <3> HIDE DEF x
      <3>1. ran' \subseteq ran \cup {x}
        BY <1>0
      <3> QED BY <1>1, <2>1, <2>4, <3>1 DEF TicketsAreOwn
    <2> QED BY <1>0, <2>2, <2>3, <2>5 DEF TicketsAreOwn
  <1>10. WhitelistIsAnswered'
    <2>1. CASE ~ Remembers
      BY <1>0, <2>1, WhitelistKeeps DEF GateInv
    <2>2. CASE Remembers
      <3>1. <<ticket[l], g.scope>> \in answers /\ g.scope.kind = "path"
        BY <1>3, <2>2 DEF Remembers
      <3>2. \E a \in answers : a[2].kind = "path" /\ a[2].target = g.scope.target
        BY <3>1
      <3>3. Remember(g.scope)
        BY <1>0, <2>2
      <3> HIDE DEF g
      <3> QED BY <1>0, <3>2, <3>3 DEF GateInv, WhitelistIsAnswered, Remember
    <2> QED BY <2>1, <2>2
  <1>11. FactsAreStated'
    <2>1. enabled => Stated(x.loop, x.fact, x.round)
      BY <1>0, <1>8 DEF GateInv, FactsAreStated
    <2> HIDE DEF x
    <2>2. \A y \in ran' : enabled => Stated(y.loop, y.fact, y.round)'
      BY <1>0, <2>1 DEF GateInv, FactsAreStated, Stated
    <2>3. \A k \in Loop : enabled /\ stage'[k] # "idle" => Stated(k, FactOf(cur[k]), round[k])'
      BY <1>0, <1>1 DEF GateInv, FactsAreStated, Stated, FactOf, is_read_only_shell, GateTypeOK
    <2> QED BY <1>0, <2>2, <2>3 DEF GateInv, FactsAreStated
  <1>12. RanIsSound'
    <2> DEFINE t == link[c.path]
               high == Risky(c.tool, c.path, t, c.declared)
    <2>a. /\ g.verdict = "allow" =>
               c.tool = "read_file" /\ ~ high /\ (t \in Inside \/ is_path_allowed(c.path))
          /\ g.verdict = "ask" =>
               /\ g.scope \in ScopeSet /\ g.scope.target \in {c.path, t}
               /\ c.tool # "shell" => g.scope.kind = "path" /\ g.scope.target = t
               /\ high => g.scope.high
          /\ c.tool # "shell" /\ ~ RuleHit(c) /\ g.verdict # "deny" =>
               /\ "runtime" \notin Views(t, c.declared) \cup {Kind[Inode[t]]}
               /\ c.tool = "write_file" =>
                     /\ "provider" \notin Views(t, c.declared)
                     /\ HardLinked(t) => g.verdict = "ask" /\ g.scope.high
      <3> HIDE DEF c
      <3> QED BY <1>1, <1>2, GuardCheck, Zenon
    <2>b. /\ x.tool = c.tool /\ x.text = c.path /\ x.file = t /\ x.declared = c.declared
          /\ HighRisk(x) <=> high
          /\ RuleWasHit(x) <=> RuleHit(c)
          /\ granted => x.ticket = ticket[l]
      BY DEF HighRisk, RuleWasHit, RuleHit
    <2>c. granted => g.scope \in Agreed(x.ticket)
      <3>1. granted => <<x.ticket, g.scope>> \in answers
        BY <1>3, <2>b
      <3>2. \A n, s : <<n, s>> \in answers => s \in Agreed(n)
        BY DEF Agreed
      <3> QED BY <3>1, <3>2
    <2> HIDE DEF x, c, g, granted, high, t
    <2>1. Runs => IsExternal(x)
      <3> SUFFICES ASSUME Runs, x.tool # "shell", x.file \notin Inside
                   PROVE  \E a \in answers : a[2].kind = "path" /\ a[2].target = x.file
        BY DEF IsExternal
      <3>1. CASE g.verdict = "ask" /\ granted
        BY <1>3, <2>a, <2>b, <3>1
      <3>2. CASE g.verdict = "allow"
        <4>1. c.path \in Path /\ t \in Path /\ link[c.path] = t
          BY <1>1, <1>2, CallFields DEF t
        <4>2. t \in allowedFiles \/ DirOf[t] \in allowedDirs
          BY <2>a, <2>b, <3>2, <4>1 DEF is_path_allowed
        <4>3. DirOf[t] \notin allowedDirs
          BY <2>b, <4>1, GateAssumption DEF GateInv, WhitelistIsAnswered
        <4> QED BY <2>b, <4>2, <4>3 DEF GateInv, WhitelistIsAnswered
      <3> QED BY <3>1, <3>2 DEF Runs
    <2>2. Runs => IsAsked(x)
      BY <1>3, <2>a, <2>b, <2>c DEF IsAsked, Runs
    <2>3. Runs => IsDelegable(x)
      BY <2>a, <2>b, <2>c DEF IsDelegable, Runs
    <2>4. \A y \in ran' : IsExternal(y) /\ IsAsked(y) /\ IsDelegable(y)
      BY <1>0, <2>1, <2>2, <2>3 DEF GateInv, RanIsSound
    <2> QED BY <1>0, <2>4, RanKeeps DEF RanIsSound
  <1> QED BY <1>6, <1>7, <1>9, <1>10, <1>11, <1>12 DEF GateInv

-----------------------------------------------------------------------------
(* The theorems                                                            *)

\* The inductive invariant: every action of a loop and every move of a link
\* keeps it.
THEOREM GateInvariant == GateSpec => []GateInv
  <1>1. GateInit => GateInv
    BY InitStep
  <1>2. GateInv /\ [GateNext]_gateVars => GateInv'
    <2> SUFFICES ASSUME GateInv, [GateNext]_gateVars PROVE GateInv'
      OBVIOUS
    <2>1. CASE Repoint
      BY <2>1, RepointStep
    <2>2. ASSUME NEW l \in Loop, LoopStep(l) PROVE GateInv'
      BY <2>2, BeginRoundStep, ProposeStep, UserGrantsStep, RefusedStep, ExecuteStep DEF LoopStep
    <2>3. CASE UNCHANGED gateVars
      <3>1. GateTypeOK' /\ CallsAreOwn' /\ TicketsAreOwn'
        BY <2>3 DEF gateVars, GateInv, GateTypeOK, CallsAreOwn, TicketsAreOwn
      <3>2. LinksResolve' /\ WhitelistIsAnswered' /\ RanIsSound'
        BY <2>3, QuietStep DEF gateVars
      <3>3. FactsAreStated'
        BY <2>3 DEF gateVars, GateInv, FactsAreStated, Stated, FactOf, is_read_only_shell
      <3> QED BY <3>1, <3>2, <3>3 DEF GateInv
    <2> QED BY <2>1, <2>2, <2>3 DEF GateNext
  <1> QED BY <1>1, <1>2, PTL DEF GateSpec

\* Consent covers what was shown and no more, however many loops share the
\* whitelist and wherever links are moved while a call waits: an external
\* file that a file tool touched was named in a question, and a risky call
\* spent an approval that is its own.
THEOREM ConsentIsAlwaysSpecific == GateSpec => []ConsentIsSpecific
  <1>1. GateInv => ConsentIsSpecific
    <2> SUFFICES ASSUME GateInv PROVE ConsentIsSpecific
      OBVIOUS
    <2>1. ExternalWasShown
      BY DEF GateInv, RanIsSound, IsExternal, ExternalWasShown
    <2>2. RiskyIsAskedEachTime
      <3> SUFFICES ASSUME NEW x \in ran, x.tool # "read_file" \/ HighRisk(x)
                   PROVE  /\ \E s \in Agreed(x.ticket) : s.target \in {x.file, x.text} /\ (HighRisk(x) => s.high)
                          /\ \A y \in ran \ {x} : y.ticket # x.ticket
        BY DEF RiskyIsAskedEachTime, HighRisk, Risky, RuleWasHit
      <3> QED BY DEF GateInv, RanIsSound, IsAsked, TicketsAreOwn
    <2> QED BY <2>1, <2>2 DEF ConsentIsSpecific
  <1> QED BY <1>1, GateInvariant, PTL

\* No answer of user or model opens what the guard protects, and no
\* state-changing call executes, or is asked about, in the round in which its
\* facts were demanded.
THEOREM GuardIsNeverBypassed == GateSpec => []GuardIsNotBypassed
  <1>1. GateInv => GuardIsNotBypassed
    <2> SUFFICES ASSUME GateInv PROVE GuardIsNotBypassed
      OBVIOUS
    <2>1. NeverDelegated
      BY DEF GateInv, RanIsSound, IsDelegable, NeverDelegated
    <2>2. FactsComeFirst
      <3>1. enabled => \A x \in ran : Stated(x.loop, x.fact, x.round)
        BY DEF GateInv, FactsAreStated
      <3>2. enabled => \A l \in Loop : stage[l] = "waiting" => Stated(l, FactOf(cur[l]), round[l])
        BY DEF GateInv, FactsAreStated
      <3> QED BY <3>1, <3>2, Zenon DEF Stated, FactsComeFirst
    <2> QED BY <2>1, <2>2 DEF GuardIsNotBypassed
  <1> QED BY <1>1, GateInvariant, PTL

-----------------------------------------------------------------------------
(***************************************************************************)
(* The pool of MCP connections                                             *)
(***************************************************************************)
Tasks == PoolTask \cup {ShutdownTask}
CloseSteps == {"close_stale", "close_evicted", "close_partial"}
InLine == {"wait", "connect"} \cup CloseSteps
Entry == [fingerprint : Fleet \cup {<<>>}, servers : Seq(Connection)]
TaskRecord ==
    [op : {"none", "acquire", "evict"},
     step : {"new", "borrowed", "failed", "done", "join", "close"} \cup InLine,
     session : PoolSession \cup {"none"}, want : Fleet \cup {Deleted, <<>>},
     servers : Seq(Connection), closing : Seq(Connection), failures : Nat]

PoolTypeOK ==
    /\ entries \in [PoolSession -> Entry]
    /\ queue \in [PoolSession -> Seq(PoolTask)]
    /\ ptask \in [Tasks -> TaskRecord]
    /\ conn \in [Connection -> {"none", "open", "dead", "closed"}]
    /\ wishes \in [PoolSession -> Seq(PoolTask \X (Fleet \cup {Deleted}))]
    /\ orphans \in SUBSET Connection
    /\ poolFaults \in Nat

\* A session's line holds the tasks that are in it, once, and only the first
\* has gone on.
LinesAreOrdered ==
    /\ \A s \in PoolSession :
          /\ IsInjective(queue[s])
          /\ \A i \in DOMAIN queue[s] :
                /\ ptask[queue[s][i]].session = s /\ ptask[queue[s][i]].step \in InLine
                /\ i # 1 => ptask[queue[s][i]].step = "wait"
    /\ \A t \in PoolTask :
          ptask[t].step \in InLine =>
              /\ ptask[t].session \in PoolSession
              /\ \E i \in DOMAIN queue[ptask[t].session] : queue[ptask[t].session][i] = t

StepFits(t, k) ==
    /\ k.closing # <<>> => k.step \in CloseSteps
    /\ k.step = "new" => k.op = "none"
    /\ k.step = "wait" => k.op \in {"acquire", "evict"}
    /\ k.step \in {"connect", "close_stale", "close_partial", "borrowed", "failed"} => k.op = "acquire"
    /\ k.step = "close_evicted" => k.op = "evict"
    /\ k.op = "acquire" => k.want \in Fleet
    /\ k.op = "evict" => k.want = Deleted
    /\ k.step = "wait" => k.servers = <<>> /\ k.failures = 0
    /\ k.step = "connect" =>
          /\ Len(k.servers) + k.failures <= Len(k.want)
          /\ \A c \in Range(k.servers) : c[1] = t /\ c[2] <= Len(k.servers) + k.failures

\* What a task has connected and not stored is its own, and not closed.
TasksAreConsistent ==
    /\ \A t \in PoolTask : StepFits(t, ptask[t])
    /\ \A t \in PoolTask : ptask[t].step = "connect" =>
          \A c \in Range(ptask[t].servers) : conn[c] # "closed"
    /\ ptask[ShutdownTask].closing # <<>> => ptask[ShutdownTask].step = "close"
    /\ ptask[ShutdownTask].step \in {"new", "join", "close"}

PastConnect(t) ==
    /\ ptask[t].step # "new"
    /\ ptask[t].op = "acquire" => ptask[t].step \notin {"wait", "connect"}

\* Stored connections are of the session's own tasks; what is to be closed is
\* stored nowhere.
StoresAreApart ==
    /\ \A s \in PoolSession : \A c \in Range(entries[s].servers) :
          PastConnect(c[1]) /\ ptask[c[1]].session = s
    /\ \A t \in Tasks : \A c \in Range(ptask[t].closing) :
          /\ PastConnect(c[1])
          /\ \A s \in PoolSession : c \notin Range(entries[s].servers)

Ahead(s) == Len(wishes[s]) - Len(queue[s])
HeadStep(s) == IF queue[s] = <<>> THEN "none" ELSE ptask[queue[s][1]].step
Settled(s) == Ahead(s) + IF HeadStep(s) \in CloseSteps THEN 1 ELSE 0
Wish(w, i) == IF i = 0 THEN <<>> ELSE IF w[i][2] = Deleted THEN <<>> ELSE w[i][2]

\* The last wishes are those of the line, in its order; the entry is the
\* latest wish that has been settled.
WishesMatch(s) ==
    /\ Ahead(s) + (IF HeadStep(s) = "close_partial" THEN 1 ELSE 0) >= 0
    /\ \A i \in DOMAIN queue[s] :
          i # 1 \/ HeadStep(s) # "close_partial" =>
              wishes[s][Ahead(s) + i] = <<queue[s][i], ptask[queue[s][i]].want>>
    /\ entries[s].fingerprint = Wish(wishes[s], Settled(s))

WishesAreOwn(s) ==
    /\ \A i \in DOMAIN wishes[s] : ptask[wishes[s][i][1]].step # "new"
    /\ \A i, j \in DOMAIN wishes[s] :
          wishes[s][i][1] = wishes[s][j][1] /\ ptask[wishes[s][i][1]].op = "acquire" => i = j

WishesAreKept == \A s \in PoolSession : WishesMatch(s) /\ WishesAreOwn(s)

PoolInv ==
    /\ PoolTypeOK /\ LinesAreOrdered /\ TasksAreConsistent /\ StoresAreApart /\ WishesAreKept
    /\ ConnectionsAreOwned /\ CachedIsUsable

-----------------------------------------------------------------------------
(* Lines                                                                   *)

\* A step of "t" that leaves the other tasks alone.
Touches(t) ==
    /\ ptask' \in [Tasks -> TaskRecord]
    /\ \A u \in Tasks : u # t => ptask'[u] = ptask[u]

LEMMA PoolShape ==
    ASSUME PoolTypeOK
    PROVE  /\ \A t \in PoolTask : t \in Tasks /\ t # ShutdownTask
           /\ ShutdownTask \in Tasks
           /\ \A t \in Tasks : ptask[t] \in TaskRecord
           /\ \A s \in PoolSession : /\ queue[s] \in Seq(PoolTask) /\ Len(queue[s]) \in Nat
                                     /\ DOMAIN queue[s] = 1 .. Len(queue[s])
                                     /\ queue[s] = <<>> <=> Len(queue[s]) = 0
                                     /\ entries[s] \in Entry
                                     /\ Len(wishes[s]) \in Nat
                                     /\ DOMAIN wishes[s] = 1 .. Len(wishes[s])
           /\ \A s \in PoolSession : \A i \in DOMAIN queue[s] : queue[s][i] \in PoolTask
           /\ \A s \in PoolSession : \A i \in DOMAIN wishes[s] :
                 wishes[s][i][1] \in PoolTask /\ wishes[s][i][2] \in Fleet \cup {Deleted}
  <1>1. ShutdownTask \notin PoolTask
    BY PoolAssumption
  <1>2. \A s \in PoolSession : wishes[s] \in Seq(PoolTask \X (Fleet \cup {Deleted}))
    BY DEF PoolTypeOK
  <1>3. \A s \in PoolSession : Len(wishes[s]) \in Nat /\ DOMAIN wishes[s] = 1 .. Len(wishes[s])
    BY <1>2
  <1>4. \A s \in PoolSession : \A i \in DOMAIN wishes[s] :
          wishes[s][i] \in PoolTask \X (Fleet \cup {Deleted})
    BY <1>2
  <1>5. \A s \in PoolSession : \A i \in DOMAIN wishes[s] :
          wishes[s][i][1] \in PoolTask /\ wishes[s][i][2] \in Fleet \cup {Deleted}
    BY <1>4
  <1>6. \A s \in PoolSession : queue[s] \in Seq(PoolTask)
    BY DEF PoolTypeOK
  <1>7. \A s \in PoolSession :
          /\ Len(queue[s]) \in Nat /\ DOMAIN queue[s] = 1 .. Len(queue[s])
          /\ queue[s] = <<>> <=> Len(queue[s]) = 0
          /\ \A i \in DOMAIN queue[s] : queue[s][i] \in PoolTask
    BY <1>6
  <1> QED  BY <1>1, <1>3, <1>5, <1>6, <1>7 DEF PoolTypeOK, Tasks

\* A task that has gone on is the first in its line.
LEMMA LineHead ==
    ASSUME PoolTypeOK, LinesAreOrdered, NEW t \in PoolTask, ptask[t].step \in InLine,
           ptask[t].step # "wait" \/ HoldsSession(t)
    PROVE  /\ ptask[t].session \in PoolSession
           /\ queue[ptask[t].session] # <<>>
           /\ queue[ptask[t].session][1] = t
           /\ 1 \in DOMAIN queue[ptask[t].session]
  <1> DEFINE s == ptask[t].session
  <1>1. PICK i \in DOMAIN queue[s] : queue[s][i] = t
    BY DEF LinesAreOrdered
  <1>2. s \in PoolSession
    BY DEF LinesAreOrdered
  <1>3. 1 \in DOMAIN queue[s] /\ queue[s] # <<>>
    BY <1>1, <1>2, PoolShape
  <1>4. CASE HoldsSession(t)
    <2>1. queue[s][1] = t
      BY <1>2, <1>3, <1>4, PoolShape DEF HoldsSession
    <2> QED  BY <1>2, <1>3, <2>1
  <1>5. CASE ptask[t].step # "wait"
    BY <1>1, <1>2, <1>3, <1>5 DEF LinesAreOrdered
  <1> QED  BY <1>4, <1>5

\* The first in line goes on, or a task that is not in line does something else.
LEMMA LineKept ==
    ASSUME PoolTypeOK, LinesAreOrdered, NEW t \in Tasks, Touches(t), queue' = queue,
           ptask'[t].session = ptask[t].session,
           t \in PoolTask =>
              \/ /\ ptask[t].step \in InLine /\ ptask'[t].step \in InLine
                 /\ queue[ptask[t].session][1] = t
              \/ ptask[t].step \notin InLine /\ ptask'[t].step \notin InLine
              \/ ptask'[t].step = ptask[t].step
    PROVE  LinesAreOrdered'
  <1>1. ASSUME NEW s \in PoolSession, NEW i \in DOMAIN queue[s]
        PROVE  /\ ptask'[queue[s][i]].session = s /\ ptask'[queue[s][i]].step \in InLine
               /\ i # 1 => ptask'[queue[s][i]].step = "wait"
    <2>0. queue[s][i] \in PoolTask /\ queue[s][i] \in Tasks /\ 1 \in DOMAIN queue[s]
      BY PoolShape
    <2>1. CASE queue[s][i] # t
      BY <2>0, <2>1 DEF LinesAreOrdered, Touches
    <2>2. CASE queue[s][i] = t
      <3>1. ptask[t].session = s /\ ptask[t].step \in InLine /\ t \in PoolTask
        BY <2>0, <2>2 DEF LinesAreOrdered
      <3>2. CASE ptask'[t].step = ptask[t].step
        BY <2>2, <3>1, <3>2 DEF LinesAreOrdered
      <3>3. CASE ptask'[t].step \in InLine /\ queue[s][1] = t
        BY <2>0, <2>2, <3>1, <3>3 DEF LinesAreOrdered, IsInjective
      <3> QED  BY <3>1, <3>2, <3>3
    <2> QED  BY <2>1, <2>2
  <1>2. ASSUME NEW u \in PoolTask, ptask'[u].step \in InLine
        PROVE  /\ ptask'[u].session \in PoolSession
               /\ \E i \in DOMAIN queue[ptask'[u].session] : queue[ptask'[u].session][i] = u
    <2>1. u \in Tasks
      BY PoolShape
    <2>2. ptask[u].step \in InLine /\ ptask'[u].session = ptask[u].session
      BY <1>2, <2>1 DEF Touches
    <2> QED  BY <2>2 DEF LinesAreOrdered
  <1>3. \A s \in PoolSession : IsInjective(queue[s])
    BY DEF LinesAreOrdered
  <1> QED  BY <1>1, <1>2, <1>3 DEF LinesAreOrdered

LEMMA TailFacts ==
    ASSUME NEW S, NEW q \in Seq(S), q # <<>>
    PROVE  /\ Len(q) \in Nat \ {0} /\ Tail(q) \in Seq(S) /\ Len(Tail(q)) = Len(q) - 1
           /\ DOMAIN q = 1 .. Len(q) /\ DOMAIN Tail(q) = 1 .. Len(q) - 1
           /\ \A i \in 1 .. Len(q) - 1 : Tail(q)[i] = q[i + 1] /\ i + 1 \in DOMAIN q
           /\ \A i \in DOMAIN q : i # 1 => i - 1 \in DOMAIN Tail(q) /\ Tail(q)[i - 1] = q[i]
  <1>1. /\ Len(q) \in Nat \ {0} /\ Tail(q) \in Seq(S) /\ Len(Tail(q)) = Len(q) - 1
        /\ DOMAIN q = 1 .. Len(q) /\ DOMAIN Tail(q) = 1 .. Len(q) - 1
        /\ \A i \in 1 .. Len(q) - 1 : Tail(q)[i] = q[i + 1]
    OBVIOUS
  <1>2. \A i \in DOMAIN q : i # 1 => i - 1 \in 1 .. Len(q) - 1 /\ (i - 1) + 1 = i
    BY <1>1
  <1>3. \A i \in 1 .. Len(q) - 1 : i + 1 \in DOMAIN q
    BY <1>1
  <1>4. ASSUME NEW i \in DOMAIN q, i # 1 PROVE i - 1 \in DOMAIN Tail(q) /\ Tail(q)[i - 1] = q[i]
    BY <1>1, <1>2, <1>4
  <1> QED  BY <1>1, <1>3, <1>4

\* The first in line leaves.
LEMMA LineLeft ==
    ASSUME PoolTypeOK, LinesAreOrdered, NEW t \in PoolTask, Touches(t),
           ptask[t].step \in InLine, queue[ptask[t].session][1] = t,
           queue[ptask[t].session] # <<>>, ptask'[t].step \notin InLine, Leave(t)
    PROVE  LinesAreOrdered'
  <1> DEFINE z == ptask[t].session
  <1>0. /\ z \in PoolSession /\ t \in Tasks
        /\ queue'[z] = Tail(queue[z]) /\ \A s \in PoolSession : s # z => queue'[s] = queue[s]
        /\ \A s \in PoolSession : queue[s] \in Seq(PoolTask)
    BY PoolShape DEF LinesAreOrdered, Leave, PoolTypeOK
  <1> DEFINE q == queue[z]
  <1>1. /\ Len(q) \in Nat \ {0}
        /\ DOMAIN q = 1 .. Len(q) /\ DOMAIN Tail(q) = 1 .. Len(q) - 1
        /\ \A i \in 1 .. Len(q) - 1 : Tail(q)[i] = q[i + 1] /\ i + 1 \in DOMAIN q
        /\ \A i \in DOMAIN q : i # 1 => i - 1 \in DOMAIN Tail(q) /\ Tail(q)[i - 1] = q[i]
    BY <1>0, TailFacts
  <1> HIDE DEF q
  <1>2. ASSUME NEW s \in PoolSession
        PROVE  /\ IsInjective(queue'[s])
               /\ \A i \in DOMAIN queue'[s] :
                    /\ ptask'[queue'[s][i]].session = s /\ ptask'[queue'[s][i]].step \in InLine
                    /\ i # 1 => ptask'[queue'[s][i]].step = "wait"
    <2>1. CASE s # z
      <3>1. \A i \in DOMAIN queue[s] : queue[s][i] \in Tasks /\ queue[s][i] # t
        BY <2>1, PoolShape DEF LinesAreOrdered
      <3> QED  BY <1>0, <2>1, <3>1 DEF LinesAreOrdered, Touches
    <2>2. CASE s = z
      <3>1. \A i \in DOMAIN Tail(q) : /\ i + 1 \in DOMAIN q /\ Tail(q)[i] = q[i + 1] /\ i + 1 # 1
                                      /\ 1 \in DOMAIN q /\ i \in Nat
        BY <1>1
      <3>2. IsInjective(q) /\ q[1] = t
        BY <1>0 DEF LinesAreOrdered, q
      <3>3. \A i \in DOMAIN Tail(q) : Tail(q)[i] # t
        BY <3>1, <3>2 DEF IsInjective
      <3>4. \A i \in DOMAIN Tail(q) :
               /\ Tail(q)[i] \in Tasks /\ ptask[Tail(q)[i]].session = z
               /\ ptask[Tail(q)[i]].step = "wait"
        BY <1>0, <3>1, PoolShape DEF LinesAreOrdered, q
      <3>5. IsInjective(Tail(q))
        <4> SUFFICES ASSUME NEW a \in DOMAIN Tail(q), NEW b \in DOMAIN Tail(q), Tail(q)[a] = Tail(q)[b]
                     PROVE  a = b
          BY DEF IsInjective
        <4>1. a + 1 = b + 1
          BY <3>1, <3>2 DEF IsInjective
        <4> QED  BY <3>1, <4>1
      <3>6. queue'[s] = Tail(q)
        BY <1>0, <2>2 DEF q
      <3>7. \A i \in DOMAIN Tail(q) : ptask'[Tail(q)[i]] = ptask[Tail(q)[i]]
        BY <3>3, <3>4 DEF Touches
      <3> QED  BY <2>2, <3>4, <3>5, <3>6, <3>7 DEF InLine
    <2> QED  BY <2>1, <2>2
  <1>3. ASSUME NEW u \in PoolTask, ptask'[u].step \in InLine
        PROVE  /\ ptask'[u].session \in PoolSession
               /\ \E i \in DOMAIN queue'[ptask'[u].session] : queue'[ptask'[u].session][i] = u
    <2>1. u # t /\ u \in Tasks /\ ptask'[u] = ptask[u]
      BY <1>3, PoolShape DEF Touches
    <2>2. PICK i \in DOMAIN queue[ptask[u].session] : queue[ptask[u].session][i] = u
      BY <1>3, <2>1 DEF LinesAreOrdered
    <2>3. ptask[u].session \in PoolSession
      BY <1>3, <2>1 DEF LinesAreOrdered
    <2>4. CASE ptask[u].session # z
      BY <1>0, <2>1, <2>2, <2>3, <2>4
    <2>5. CASE ptask[u].session = z
      <3>1. i # 1
        BY <2>1, <2>2, <2>5
      <3>2. i - 1 \in DOMAIN Tail(q) /\ Tail(q)[i - 1] = u
        BY <1>1, <2>2, <2>5, <3>1 DEF q
      <3> QED  BY <1>0, <2>1, <2>3, <2>5, <3>2 DEF q
    <2> QED  BY <2>4, <2>5
  <1> QED  BY <1>2, <1>3 DEF LinesAreOrdered

LEMMA AppendFacts ==
    ASSUME NEW S, NEW q \in Seq(S), NEW x \in S
    PROVE  /\ Append(q, x) \in Seq(S) /\ Len(q) \in Nat /\ Len(Append(q, x)) = Len(q) + 1
           /\ DOMAIN q = 1 .. Len(q) /\ DOMAIN Append(q, x) = 1 .. Len(q) + 1
           /\ \A i \in 1 .. Len(q) : Append(q, x)[i] = q[i]
           /\ Append(q, x)[Len(q) + 1] = x
  OBVIOUS

\* A task joins the end of a line.
LEMMA LineJoined ==
    ASSUME PoolTypeOK, LinesAreOrdered, NEW t \in PoolTask, NEW z \in PoolSession, Touches(t),
           ptask[t].step \notin InLine, ptask'[t].step = "wait", ptask'[t].session = z,
           queue' = [queue EXCEPT ![z] = Append(@, t)]
    PROVE  LinesAreOrdered'
  <1>0. /\ t \in Tasks
        /\ queue'[z] = Append(queue[z], t) /\ \A s \in PoolSession : s # z => queue'[s] = queue[s]
        /\ \A s \in PoolSession : queue[s] \in Seq(PoolTask)
    BY PoolShape DEF PoolTypeOK
  <1> DEFINE q == queue[z]
             n == Append(q, t)
  <1>1. /\ Len(q) \in Nat /\ DOMAIN q = 1 .. Len(q) /\ DOMAIN n = 1 .. Len(q) + 1
        /\ \A i \in 1 .. Len(q) : n[i] = q[i]
        /\ n[Len(q) + 1] = t
    BY <1>0, AppendFacts
  <1>2. \A s \in PoolSession : \A i \in DOMAIN queue[s] :
           queue[s][i] \in Tasks /\ queue[s][i] # t /\ ptask'[queue[s][i]] = ptask[queue[s][i]]
    BY PoolShape DEF LinesAreOrdered, Touches
  <1>q. queue'[z] = n /\ queue[z] = q
    BY <1>0
  <1> HIDE DEF q, n
  <1>3. \A i \in DOMAIN n : (i \in DOMAIN q /\ n[i] = q[i]) \/ (i = Len(q) + 1 /\ n[i] = t)
    BY <1>1
  <1>4. ASSUME NEW s \in PoolSession
        PROVE  /\ IsInjective(queue'[s])
               /\ \A i \in DOMAIN queue'[s] :
                    /\ ptask'[queue'[s][i]].session = s /\ ptask'[queue'[s][i]].step \in InLine
                    /\ i # 1 => ptask'[queue'[s][i]].step = "wait"
    <2>1. CASE s # z
      BY <1>0, <1>2, <2>1 DEF LinesAreOrdered
    <2>2. CASE s = z
      <3>1. \A i \in DOMAIN q : q[i] # t /\ ptask'[q[i]] = ptask[q[i]]
        BY <1>2, <1>q
      <3>2. /\ IsInjective(q)
            /\ \A i \in DOMAIN q : /\ ptask[q[i]].session = z /\ ptask[q[i]].step \in InLine
                                   /\ i # 1 => ptask[q[i]].step = "wait"
        BY <1>q DEF LinesAreOrdered
      <3>3. IsInjective(n)
        BY <1>3, <3>1, <3>2 DEF IsInjective
      <3>4. "wait" \in InLine
        BY DEF InLine
      <3>5. ASSUME NEW i \in DOMAIN n
            PROVE  /\ ptask'[n[i]].session = z /\ ptask'[n[i]].step \in InLine
                   /\ i # 1 => ptask'[n[i]].step = "wait"
        <4>1. CASE i \in DOMAIN q /\ n[i] = q[i]
          BY <3>1, <3>2, <4>1
        <4>2. CASE n[i] = t
          BY <3>4, <4>2
        <4> QED  BY <1>3, <4>1, <4>2
      <3> QED  BY <1>q, <2>2, <3>3, <3>5
    <2> QED  BY <2>1, <2>2
  <1>5. ASSUME NEW u \in PoolTask, ptask'[u].step \in InLine
        PROVE  /\ ptask'[u].session \in PoolSession
               /\ \E i \in DOMAIN queue'[ptask'[u].session] : queue'[ptask'[u].session][i] = u
    <2>1. CASE u = t
      <3>1. Len(q) + 1 \in DOMAIN n
        BY <1>1 DEF n
      <3> QED  BY <1>1, <1>q, <2>1, <3>1 DEF n
    <2>2. CASE u # t
      <3>1. u \in Tasks /\ ptask'[u] = ptask[u]
        BY <2>2, PoolShape DEF Touches
      <3>2. PICK i \in DOMAIN queue[ptask[u].session] : queue[ptask[u].session][i] = u
        BY <1>5, <3>1 DEF LinesAreOrdered
      <3>3. ptask[u].session \in PoolSession
        BY <1>5, <3>1 DEF LinesAreOrdered
      <3>4. CASE ptask[u].session # z
        BY <1>0, <3>1, <3>2, <3>3, <3>4
      <3>5. CASE ptask[u].session = z
        <4>1. i \in DOMAIN n /\ n[i] = u
          BY <1>1, <1>q, <3>2, <3>5 DEF n
        <4> QED  BY <1>q, <3>1, <3>5, <4>1
      <3> QED  BY <3>4, <3>5
    <2> QED  BY <2>1, <2>2
  <1> QED  BY <1>4, <1>5 DEF LinesAreOrdered

-----------------------------------------------------------------------------
(* Wishes                                                                  *)

LEMMA RemoveAtFacts ==
    ASSUME NEW S, NEW w \in Seq(S), NEW k \in DOMAIN w
    PROVE  /\ Len(w) \in Nat /\ DOMAIN w = 1 .. Len(w)
           /\ RemoveAt(w, k) \in Seq(S) /\ Len(RemoveAt(w, k)) = Len(w) - 1
           /\ DOMAIN RemoveAt(w, k) = 1 .. Len(w) - 1
           /\ \A i \in 1 .. Len(w) - 1 : RemoveAt(w, k)[i] = IF i < k THEN w[i] ELSE w[i + 1]
  <1> DEFINE a == SubSeq(w, 1, k - 1)
             b == SubSeq(w, k + 1, Len(w))
  <1>1. Len(w) \in Nat /\ DOMAIN w = 1 .. Len(w) /\ k \in 1 .. Len(w) /\ \A i \in 1 .. Len(w) : w[i] \in S
    OBVIOUS
  <1>2. /\ a \in Seq(S) /\ Len(a) = k - 1 /\ \A i \in 1 .. k - 1 : a[i] = w[i]
    BY <1>1
  <1>3. /\ b \in Seq(S) /\ Len(b) = Len(w) - k /\ \A i \in 1 .. Len(w) - k : b[i] = w[k + i]
    <2>1. /\ k + 1 \in Int /\ Len(w) \in Int /\ \A i \in k + 1 .. Len(w) : w[i] \in S
      BY <1>1
    <2>2. /\ b \in Seq(S) /\ Len(b) = IF k + 1 <= Len(w) THEN Len(w) - (k + 1) + 1 ELSE 0
          /\ \A i \in 1 .. Len(w) - (k + 1) + 1 : b[i] = w[(k + 1) + i - 1]
      BY <2>1, SubSeqProperties
    <2>3. Len(w) - (k + 1) + 1 = Len(w) - k /\ (~ k + 1 <= Len(w) => Len(w) - k = 0)
      BY <1>1
    <2>4. \A i \in 1 .. Len(w) - k : (k + 1) + i - 1 = k + i
      BY <1>1
    <2> HIDE DEF b
    <2> QED  BY <2>2, <2>3, <2>4
  <1> HIDE DEF a, b
  <1>4. /\ a \o b \in Seq(S) /\ Len(a \o b) = Len(a) + Len(b)
        /\ \A i \in 1 .. Len(a) + Len(b) : (a \o b)[i] = IF i <= Len(a) THEN a[i] ELSE b[i - Len(a)]
    <2>1. a \in Seq(S) /\ b \in Seq(S)
      BY <1>2, <1>3
    <2> QED  BY ONLY <2>1, ConcatProperties
  <1>5. Len(a \o b) = Len(w) - 1 /\ DOMAIN (a \o b) = 1 .. Len(w) - 1
    <2>1. Len(a) + Len(b) = Len(w) - 1
      BY <1>1, <1>2, <1>3
    <2>2. DOMAIN (a \o b) = 1 .. Len(a \o b)
      BY <1>4
    <2> QED  BY <1>4, <2>1, <2>2
  <1>6. ASSUME NEW i \in 1 .. Len(w) - 1 PROVE (a \o b)[i] = IF i < k THEN w[i] ELSE w[i + 1]
    <2>1. CASE i < k
      BY <1>1, <1>2, <1>3, <1>4, <2>1
    <2>2. CASE ~ i < k
      <3>1. i - (k - 1) \in 1 .. Len(w) - k /\ k + (i - (k - 1)) = i + 1 /\ ~ i <= k - 1
        BY <1>1, <2>2
      <3>2. (a \o b)[i] = b[i - (k - 1)]
        <4>1. i \in 1 .. Len(a) + Len(b) /\ Len(a) = k - 1 /\ ~ i <= Len(a)
          <5>1. Len(a) = k - 1 /\ Len(b) = Len(w) - k
            BY <1>2, <1>3
          <5>2. i \in 1 .. (k - 1) + (Len(w) - k) /\ ~ i <= k - 1
            BY <1>1, <3>1
          <5> QED  BY <5>1, <5>2
        <4>2. (a \o b)[i] = b[i - Len(a)]
          BY ONLY <1>4, <4>1
        <4> QED  BY <4>1, <4>2
      <3> QED  BY <1>3, <2>2, <3>1, <3>2
    <2> QED  BY <2>1, <2>2
  <1> QED  BY <1>1, <1>4, <1>5, <1>6 DEF RemoveAt, a, b

LEMMA AheadIsInt ==
    ASSUME PoolTypeOK, NEW s \in PoolSession
    PROVE  Ahead(s) \in Int /\ Settled(s) \in Int
  BY PoolShape DEF Ahead, Settled

\* A line whose tasks do not settle anything.
LEMMA WishKept ==
    ASSUME PoolTypeOK, NEW s \in PoolSession, WishesMatch(s),
           queue'[s] = queue[s], wishes'[s] = wishes[s],
           entries'[s].fingerprint = entries[s].fingerprint,
           \A i \in DOMAIN queue[s] : ptask'[queue[s][i]].want = ptask[queue[s][i]].want,
           queue[s] # <<>> =>
               LET h == queue[s][1]
               IN  \/ ptask'[h].step = ptask[h].step
                   \/ {ptask'[h].step, ptask[h].step} \cap CloseSteps = {}
    PROVE  WishesMatch(s)'
  <1>1. Ahead(s)' = Ahead(s)
    BY DEF Ahead
  <1>2. /\ HeadStep(s) \in CloseSteps <=> HeadStep(s)' \in CloseSteps
        /\ HeadStep(s) = "close_partial" <=> HeadStep(s)' = "close_partial"
    BY DEF HeadStep, CloseSteps
  <1>3. Settled(s)' = Settled(s)
    BY <1>1, <1>2 DEF Settled
  <1> QED  BY <1>1, <1>2, <1>3 DEF WishesMatch

\* The lines that "t" is not in.
LEMMA WishElsewhere ==
    ASSUME PoolTypeOK, LinesAreOrdered, NEW s \in PoolSession, WishesMatch(s),
           NEW t \in Tasks, Touches(t),
           t \in PoolTask => ptask[t].session # s \/ ptask[t].step \notin InLine,
           queue'[s] = queue[s], wishes'[s] = wishes[s],
           entries'[s].fingerprint = entries[s].fingerprint
    PROVE  WishesMatch(s)'
  <1>1. \A i \in DOMAIN queue[s] : /\ queue[s][i] \in Tasks /\ queue[s][i] # t
                                   /\ ptask'[queue[s][i]] = ptask[queue[s][i]]
    BY PoolShape DEF LinesAreOrdered, Touches
  <1>2. queue[s] # <<>> => 1 \in DOMAIN queue[s]
    BY PoolShape
  <1> QED  BY <1>1, <1>2, WishKept

LEMMA OwnKept ==
    ASSUME PoolTypeOK, NEW s \in PoolSession, WishesAreOwn(s), wishes'[s] = wishes[s],
           NEW t \in Tasks, Touches(t),
           t \in PoolTask => /\ ptask'[t].step # "new" \/ ptask[t].step = "new"
                             /\ ptask'[t].op = "acquire" =>
                                   ptask[t].op = "acquire" \/ ptask[t].step = "new"
    PROVE  WishesAreOwn(s)'
  <1>1. \A i \in DOMAIN wishes[s] : wishes[s][i][1] \in PoolTask /\ wishes[s][i][1] \in Tasks
    BY PoolShape
  <1> QED  BY <1>1 DEF WishesAreOwn, Touches

LEMMA OwnRemoved ==
    ASSUME PoolTypeOK, NEW s \in PoolSession, WishesAreOwn(s), NEW k \in DOMAIN wishes[s],
           wishes'[s] = RemoveAt(wishes[s], k),
           NEW t \in PoolTask, Touches(t), ptask'[t].step # "new", ptask[t].op = "acquire"
    PROVE  WishesAreOwn(s)'
  <1> DEFINE w == wishes[s]
             v == RemoveAt(w, k)
             at(i) == IF i < k THEN i ELSE i + 1
  <1>1. /\ DOMAIN w = 1 .. Len(w) /\ Len(w) \in Nat /\ k \in 1 .. Len(w) /\ DOMAIN v = 1 .. Len(w) - 1
        /\ \A i \in 1 .. Len(w) - 1 : v[i] = IF i < k THEN w[i] ELSE w[i + 1]
    <2>1. w \in Seq(PoolTask \X (Fleet \cup {Deleted}))
      BY DEF PoolTypeOK
    <2> QED  BY <2>1, RemoveAtFacts
  <1>2. \A i \in DOMAIN w : w[i][1] \in PoolTask /\ w[i][1] \in Tasks
    BY PoolShape
  <1>v. wishes'[s] = v
    OBVIOUS
  <1>w. WishesAreOwn(s) <=> /\ \A i \in DOMAIN w : ptask[w[i][1]].step # "new"
                            /\ \A i, j \in DOMAIN w :
                                 w[i][1] = w[j][1] /\ ptask[w[i][1]].op = "acquire" => i = j
    BY DEF WishesAreOwn
  <1> HIDE DEF w, v
  <1>3. \A i \in DOMAIN v : at(i) \in DOMAIN w /\ v[i] = w[at(i)]
    BY <1>1
  <1>4. \A i, j \in DOMAIN v : at(i) = at(j) => i = j
    BY <1>1
  <1>5. \A i \in DOMAIN v : /\ v[i][1] \in Tasks /\ ptask'[v[i][1]].step # "new"
                            /\ ptask'[v[i][1]].op = "acquire" => ptask[v[i][1]].op = "acquire"
    BY <1>2, <1>3, <1>w DEF Touches
  <1>6. \A i, j \in DOMAIN v : v[i][1] = v[j][1] /\ ptask'[v[i][1]].op = "acquire" => i = j
    BY <1>3, <1>4, <1>5, <1>w
  <1> QED  BY <1>5, <1>6, <1>v DEF WishesAreOwn

\* The first in line settles its wish and stays to close what is stale.
LEMMA WishSettled ==
    ASSUME PoolTypeOK, NEW t \in PoolTask, NEW z \in PoolSession, Touches(t),
           WishesMatch(z), queue[z] # <<>>, queue[z][1] = t, IsInjective(queue[z]),
           ptask[t].step \in {"wait", "connect"},
           ptask'[t].step \in {"close_stale", "close_evicted"}, ptask'[t].want = ptask[t].want,
           queue'[z] = queue[z], wishes'[z] = wishes[z],
           entries'[z].fingerprint = IF ptask[t].want = Deleted THEN <<>> ELSE ptask[t].want
    PROVE  WishesMatch(z)'
  <1>1. Ahead(z)' = Ahead(z) /\ Ahead(z) \in Int
    BY AheadIsInt DEF Ahead
  <1>2. HeadStep(z) = ptask[t].step /\ HeadStep(z)' = ptask'[t].step
    BY DEF HeadStep
  <1>3. HeadStep(z) \notin CloseSteps /\ HeadStep(z)' \in CloseSteps /\ HeadStep(z)' # "close_partial"
    BY <1>2 DEF CloseSteps
  <1>4. Ahead(z) >= 0 /\ Settled(z)' = Ahead(z) + 1
    BY <1>1, <1>2, <1>3 DEF WishesMatch, Settled
  <1>5. 1 \in DOMAIN queue[z]
    BY PoolShape
  <1>6. wishes[z][Ahead(z) + 1] = <<t, ptask[t].want>>
    BY <1>2, <1>5 DEF WishesMatch
  <1>7. Wish(wishes[z], Ahead(z) + 1) = IF ptask[t].want = Deleted THEN <<>> ELSE ptask[t].want
    BY <1>1, <1>4, <1>6 DEF Wish
  <1>8. \A i \in DOMAIN queue[z] : ptask'[queue[z][i]].want = ptask[queue[z][i]].want
    BY PoolShape DEF Touches
  <1>9. \A i \in DOMAIN queue[z] : wishes[z][Ahead(z) + i] = <<queue[z][i], ptask[queue[z][i]].want>>
    BY <1>2 DEF WishesMatch
  <1>10. Ahead(z)' + (IF HeadStep(z)' = "close_partial" THEN 1 ELSE 0) >= 0
    BY <1>1, <1>3, <1>4
  <1> QED  BY <1>1, <1>4, <1>7, <1>8, <1>9, <1>10 DEF WishesMatch

\* The first in line leaves a line whose entry is its settled wish.
LEMMA WishLeft ==
    ASSUME PoolTypeOK, LinesAreOrdered, NEW t \in PoolTask, NEW z \in PoolSession, Touches(t),
           WishesMatch(z), queue[z] # <<>>, queue[z][1] = t,
           Ahead(z) + 1 >= 0, entries[z].fingerprint = Wish(wishes[z], Ahead(z) + 1),
           queue'[z] = Tail(queue[z]), wishes'[z] = wishes[z],
           entries'[z].fingerprint = entries[z].fingerprint
    PROVE  WishesMatch(z)'
  <1> DEFINE q == queue[z]
  <1>0. q \in Seq(PoolTask) /\ Ahead(z) \in Int /\ Len(wishes[z]) \in Nat
    BY AheadIsInt, PoolShape
  <1>1. /\ Len(q) \in Nat \ {0} /\ Len(Tail(q)) = Len(q) - 1 /\ Tail(q) \in Seq(PoolTask)
        /\ DOMAIN q = 1 .. Len(q) /\ DOMAIN Tail(q) = 1 .. Len(q) - 1
        /\ \A i \in 1 .. Len(q) - 1 : Tail(q)[i] = q[i + 1] /\ i + 1 \in DOMAIN q
    BY <1>0, TailFacts
  <1>2. Ahead(z)' = Ahead(z) + 1
    <2>1. Ahead(z)' = Len(wishes[z]) - (Len(q) - 1) /\ Ahead(z) = Len(wishes[z]) - Len(q)
      BY <1>1 DEF Ahead
    <2> HIDE DEF q
    <2> QED  BY <1>0, <1>1, <2>1
  <1>3. \A i \in DOMAIN q : i # 1 => /\ q[i] # t /\ q[i] \in Tasks /\ ptask'[q[i]] = ptask[q[i]]
                                     /\ ptask[q[i]].step = "wait"
    <2>1. IsInjective(q) /\ 1 \in DOMAIN q
      BY <1>1 DEF LinesAreOrdered
    <2> QED  BY <2>1, PoolShape DEF LinesAreOrdered, IsInjective, Touches
  <1>4. HeadStep(z)' \in {"none", "wait"}
    <2>1. CASE Tail(q) = <<>>
      BY <2>1 DEF HeadStep
    <2>2. CASE Tail(q) # <<>>
      <3>1. 1 \in 1 .. Len(q) - 1
        BY <1>1, <2>2
      <3>2. Tail(q)[1] = q[2] /\ 2 \in DOMAIN q
        BY <1>1, <3>1
      <3> QED  BY <1>3, <2>2, <3>2 DEF HeadStep
    <2> QED  BY <2>1, <2>2
  <1>5. Settled(z)' = Ahead(z) + 1
    BY <1>0, <1>2, <1>4 DEF Settled, CloseSteps
  <1>6. ASSUME NEW i \in DOMAIN Tail(q)
        PROVE  wishes[z][(Ahead(z) + 1) + i] = <<Tail(q)[i], ptask'[Tail(q)[i]].want>>
    <2>1. i \in 1 .. Len(q) - 1 /\ i \in Nat
      BY <1>1
    <2>2. i + 1 \in DOMAIN q /\ i + 1 # 1 /\ Tail(q)[i] = q[i + 1]
      BY <1>1, <2>1
    <2>3. (Ahead(z) + 1) + i = Ahead(z) + (i + 1)
      BY <1>0, <2>1
    <2> QED  BY <1>3, <2>2, <2>3 DEF WishesMatch
  <1>7. queue'[z] = Tail(q)
    OBVIOUS
  <1>8. Ahead(z)' + (IF HeadStep(z)' = "close_partial" THEN 1 ELSE 0) >= 0
    BY <1>0, <1>2, <1>4
  <1> HIDE DEF q
  <1> QED  BY <1>2, <1>5, <1>6, <1>7, <1>8 DEF WishesMatch

LEMMA Between ==
    ASSUME NEW m \in Nat, NEW n \in Nat, m - n >= 0, n # 0
    PROVE  (m - n) + 1 \in 1 .. m /\ (m - n # 0 => m - n \in 1 .. m - 1)
  OBVIOUS

\* The place of the wish of the task that is connecting.
LEMMA WishPlace ==
    ASSUME PoolTypeOK, NEW t \in PoolTask, NEW z \in PoolSession, WishesMatch(z), WishesAreOwn(z),
           queue[z] # <<>>, queue[z][1] = t, ptask[t].step = "connect", ptask[t].op = "acquire"
    PROVE  /\ Ahead(z) >= 0 /\ Ahead(z) + 1 \in DOMAIN wishes[z]
           /\ (CHOOSE i \in DOMAIN wishes[z] : wishes[z][i][1] = t) = Ahead(z) + 1
           /\ Settled(z) = Ahead(z)
  <1>1. HeadStep(z) = "connect"
    BY DEF HeadStep
  <1>2. Ahead(z) >= 0 /\ Settled(z) = Ahead(z)
    BY <1>1, AheadIsInt DEF WishesMatch, Settled, CloseSteps
  <1>3. 1 \in DOMAIN queue[z] /\ Len(queue[z]) >= 1
    BY PoolShape
  <1>4. Ahead(z) + 1 \in DOMAIN wishes[z]
    <2>1. /\ Len(wishes[z]) \in Nat /\ Len(queue[z]) \in Nat
          /\ DOMAIN wishes[z] = 1 .. Len(wishes[z])
      BY PoolShape
    <2>2. Ahead(z) = Len(wishes[z]) - Len(queue[z])
      BY DEF Ahead
    <2>3. Len(queue[z]) # 0
      BY PoolShape
    <2> QED  BY <1>2, <2>1, <2>2, <2>3, Between
  <1>5. wishes[z][Ahead(z) + 1] = <<t, ptask[t].want>>
    BY <1>1, <1>3 DEF WishesMatch
  <1>6. \A i \in DOMAIN wishes[z] : wishes[z][i][1] = t <=> i = Ahead(z) + 1
    BY <1>4, <1>5 DEF WishesAreOwn
  <1> QED  BY <1>2, <1>4, <1>6

\* It is taken back, and the task leaves or stays to close what it has.
LEMMA WishWithdrawn ==
    ASSUME PoolTypeOK, LinesAreOrdered, NEW t \in PoolTask, NEW z \in PoolSession, Touches(t),
           WishesMatch(z), WishesAreOwn(z), queue[z] # <<>>, queue[z][1] = t,
           ptask[t].step = "connect", ptask[t].op = "acquire",
           wishes'[z] = RemoveAt(wishes[z], Ahead(z) + 1),
           \/ queue'[z] = Tail(queue[z])
           \/ queue'[z] = queue[z] /\ ptask'[t].step = "close_partial",
           entries'[z].fingerprint = entries[z].fingerprint
    PROVE  WishesMatch(z)'
  <1> DEFINE q == queue[z]
             w == wishes[z]
             k == Ahead(z) + 1
             v == RemoveAt(w, k)
  <1>0. /\ q \in Seq(PoolTask) /\ Ahead(z) \in Int /\ Ahead(z) >= 0 /\ k \in DOMAIN w
        /\ Settled(z) = Ahead(z) /\ Ahead(z) = Len(w) - Len(q)
    BY AheadIsInt, PoolShape, WishPlace DEF Ahead
  <1>1. /\ DOMAIN w = 1 .. Len(w) /\ Len(w) \in Nat /\ DOMAIN v = 1 .. Len(w) - 1
        /\ Len(v) = Len(w) - 1
        /\ \A i \in 1 .. Len(w) - 1 : v[i] = IF i < k THEN w[i] ELSE w[i + 1]
    <2>1. w \in Seq(PoolTask \X (Fleet \cup {Deleted}))
      BY DEF PoolTypeOK
    <2> QED  BY <1>0, <2>1, RemoveAtFacts
  <1>2. /\ Len(q) \in Nat \ {0} /\ Len(Tail(q)) = Len(q) - 1 /\ Tail(q) \in Seq(PoolTask)
        /\ DOMAIN q = 1 .. Len(q) /\ DOMAIN Tail(q) = 1 .. Len(q) - 1
        /\ \A i \in 1 .. Len(q) - 1 : Tail(q)[i] = q[i + 1] /\ i + 1 \in DOMAIN q
    BY <1>0, TailFacts
  <1>3. \A i \in DOMAIN q : i # 1 => /\ q[i] # t /\ q[i] \in Tasks /\ ptask'[q[i]] = ptask[q[i]]
                                     /\ ptask[q[i]].step = "wait"
    <2>1. IsInjective(q) /\ 1 \in DOMAIN q
      BY <1>2 DEF LinesAreOrdered
    <2> QED  BY <2>1, PoolShape DEF LinesAreOrdered, IsInjective, Touches
  <1>4. HeadStep(z) = "connect"
    BY DEF HeadStep
  <1>5. \A i \in DOMAIN q : w[Ahead(z) + i] = <<q[i], ptask[q[i]].want>>
    BY <1>4 DEF WishesMatch
  <1>6. Wish(v, Ahead(z)) = Wish(w, Ahead(z)) /\ entries[z].fingerprint = Wish(w, Ahead(z))
    <2>1. CASE Ahead(z) = 0
      BY <1>0, <2>1 DEF Wish, WishesMatch
    <2>2. CASE Ahead(z) # 0
      <3>1. Ahead(z) \in 1 .. Len(w) - 1 /\ Ahead(z) < k
        <4> HIDE DEF q, w
        <4>1. Ahead(z) \in 1 .. Len(w) - 1
          BY <1>0, <1>1, <1>2, <2>2, Between
        <4> QED  BY <1>0, <4>1
      <3>2. v[Ahead(z)] = w[Ahead(z)]
        BY <1>1, <3>1
      <3> QED  BY <1>0, <2>2, <3>2 DEF Wish, WishesMatch
    <2> QED  BY <2>1, <2>2
  <1>7. \A i \in DOMAIN q : i # 1 => v[(Ahead(z) - 1) + i] = <<q[i], ptask'[q[i]].want>>
    <2> SUFFICES ASSUME NEW i \in DOMAIN q, i # 1 PROVE v[(Ahead(z) - 1) + i] = <<q[i], ptask'[q[i]].want>>
      OBVIOUS
    <2>1. /\ (Ahead(z) - 1) + i \in 1 .. Len(w) - 1 /\ ~ (Ahead(z) - 1) + i < k
          /\ ((Ahead(z) - 1) + i) + 1 = Ahead(z) + i
      <3> HIDE DEF q, w
      <3> QED  BY <1>0, <1>1, <1>2
    <2>2. v[(Ahead(z) - 1) + i] = w[Ahead(z) + i]
      BY <1>1, <2>1
    <2> QED  BY <1>3, <1>5, <2>2
  <1>8. wishes'[z] = v /\ queue[z] = q
    OBVIOUS
  <1> HIDE DEF q, w, v
  <1>9. CASE queue'[z] = Tail(q)
    <2>1. Ahead(z)' = Ahead(z)
      <3>1. Ahead(z)' = Len(v) - Len(Tail(q))
        BY <1>8, <1>9 DEF Ahead
      <3> QED  BY <1>0, <1>1, <1>2, <3>1
    <2>2. HeadStep(z)' \in {"none", "wait"}
      <3>1. CASE Tail(q) = <<>>
        BY <1>9, <3>1 DEF HeadStep
      <3>2. CASE Tail(q) # <<>>
        <4>1. 1 \in 1 .. Len(q) - 1
          BY <1>2, <3>2
        <4>2. Tail(q)[1] = q[2] /\ 2 \in DOMAIN q
          BY <1>2, <4>1
        <4> QED  BY <1>3, <1>9, <3>2, <4>2 DEF HeadStep
      <3> QED  BY <3>1, <3>2
    <2>3. Settled(z)' = Ahead(z)
      BY <1>0, <2>1, <2>2 DEF Settled, CloseSteps
    <2>4. ASSUME NEW i \in DOMAIN Tail(q)
          PROVE  v[Ahead(z) + i] = <<Tail(q)[i], ptask'[Tail(q)[i]].want>>
      <3>1. /\ i + 1 \in DOMAIN q /\ i + 1 # 1 /\ Tail(q)[i] = q[i + 1]
            /\ Ahead(z) + i = (Ahead(z) - 1) + (i + 1)
        BY <1>0, <1>2
      <3> QED  BY <1>7, <3>1
    <2>5. Ahead(z)' + (IF HeadStep(z)' = "close_partial" THEN 1 ELSE 0) >= 0
      BY <1>0, <2>1, <2>2
    <2> QED  BY <1>6, <1>8, <1>9, <2>1, <2>3, <2>4, <2>5 DEF WishesMatch
  <1>10. CASE queue'[z] = q /\ ptask'[t].step = "close_partial"
    <2>1. Ahead(z)' = Ahead(z) - 1
      BY <1>0, <1>1, <1>2, <1>8, <1>10 DEF Ahead
    <2>2. HeadStep(z)' = "close_partial"
      BY <1>8, <1>10 DEF HeadStep
    <2>3. Settled(z)' = Ahead(z)
      BY <1>0, <2>1, <2>2 DEF Settled, CloseSteps
    <2>4. Ahead(z)' + (IF HeadStep(z)' = "close_partial" THEN 1 ELSE 0) >= 0
      BY <1>0, <2>1, <2>2
    <2> QED  BY <1>6, <1>7, <1>8, <1>10, <2>1, <2>2, <2>3, <2>4 DEF WishesMatch
  <1> QED  BY <1>8, <1>9, <1>10

\* A new wish at the end of the line.
LEMMA WishJoined ==
    ASSUME PoolTypeOK, LinesAreOrdered, NEW t \in PoolTask, NEW z \in PoolSession, Touches(t),
           WishesMatch(z), ptask[t].step \notin InLine, ptask'[t].step = "wait",
           queue'[z] = Append(queue[z], t),
           wishes'[z] = Append(wishes[z], <<t, ptask'[t].want>>),
           <<t, ptask'[t].want>> \in PoolTask \X (Fleet \cup {Deleted}),
           entries'[z].fingerprint = entries[z].fingerprint
    PROVE  WishesMatch(z)'
  <1> DEFINE q == queue[z]
             w == wishes[z]
             x == <<t, ptask'[t].want>>
             n == Append(q, t)
             v == Append(w, x)
  <1>1. /\ Len(q) \in Nat /\ DOMAIN q = 1 .. Len(q) /\ DOMAIN n = 1 .. Len(q) + 1
        /\ Len(n) = Len(q) + 1 /\ n # <<>>
        /\ \A i \in 1 .. Len(q) : n[i] = q[i]
        /\ n[Len(q) + 1] = t
    <2>1. q \in Seq(PoolTask)
      BY PoolShape
    <2>2. n # <<>>
      BY <2>1
    <2> QED  BY <2>1, <2>2, AppendFacts
  <1>2. /\ Len(w) \in Nat /\ DOMAIN w = 1 .. Len(w) /\ Len(v) = Len(w) + 1
        /\ \A i \in 1 .. Len(w) : v[i] = w[i]
        /\ v[Len(w) + 1] = x
    <2>1. w \in Seq(PoolTask \X (Fleet \cup {Deleted}))
      BY DEF PoolTypeOK
    <2> QED  BY <2>1, AppendFacts
  <1>3. \A i \in DOMAIN q : q[i] \in Tasks /\ q[i] # t /\ ptask'[q[i]] = ptask[q[i]]
    BY PoolShape DEF LinesAreOrdered, Touches
  <1>4. Ahead(z) = Len(w) - Len(q) /\ queue[z] = q /\ wishes[z] = w /\ queue'[z] = n /\ wishes'[z] = v
    BY DEF Ahead
  <1> HIDE DEF q, w, n, v
  <1>5. Ahead(z)' = Ahead(z) /\ Ahead(z) \in Int
    BY <1>1, <1>2, <1>4 DEF Ahead
  <1>6. CASE q = <<>>
    <2>1. Len(q) = 0 /\ HeadStep(z) = "none" /\ HeadStep(z)' = "wait"
      BY <1>1, <1>4, <1>6 DEF HeadStep
    <2>2. Settled(z) = Ahead(z) /\ Settled(z)' = Ahead(z) /\ Ahead(z) = Len(w)
      BY <1>2, <1>4, <1>5, <2>1 DEF Settled, CloseSteps
    <2>3. Wish(v, Len(w)) = Wish(w, Len(w))
      BY <1>2 DEF Wish
    <2>4. \A i \in DOMAIN n : v[Ahead(z) + i] = <<n[i], ptask'[n[i]].want>>
      BY <1>1, <1>2, <2>1, <2>2
    <2>5. Ahead(z)' + 0 >= 0
      BY <1>2, <1>5, <2>2
    <2>6. \A i \in DOMAIN queue'[z] : wishes'[z][Ahead(z)' + i] = <<queue'[z][i], ptask'[queue'[z][i]].want>>
      BY <1>4, <1>5, <2>4
    <2>7. entries[z].fingerprint = Wish(w, Len(w))
      BY <1>4, <2>2 DEF WishesMatch
    <2>8. entries'[z].fingerprint = Wish(wishes'[z], Settled(z)')
      BY <1>4, <2>2, <2>3, <2>7
    <2> QED  BY <2>1, <2>5, <2>6, <2>8 DEF WishesMatch
  <1>7. CASE q # <<>>
    <2>1. 1 \in DOMAIN q /\ Len(q) >= 1
      <3>1. q \in Seq(PoolTask)
        BY <1>4, PoolShape
      <3> QED  BY <1>1, <1>7, <3>1
    <2>2. HeadStep(z)' = HeadStep(z)
      <3>1. n[1] = q[1] /\ ptask'[q[1]] = ptask[q[1]] /\ n # <<>>
        BY <1>1, <1>3, <2>1
      <3> HIDE DEF n
      <3>2. HeadStep(z)' = ptask'[n[1]].step
        BY <1>4, <3>1 DEF HeadStep
      <3>3. HeadStep(z) = ptask[q[1]].step
        BY <1>4, <1>7 DEF HeadStep
      <3> QED  BY <3>1, <3>2, <3>3
    <2>3. Settled(z)' = Settled(z)
      BY <1>5, <2>2 DEF Settled
    <2>4. /\ Ahead(z) + (IF HeadStep(z) = "close_partial" THEN 1 ELSE 0) >= 0
          /\ \A i \in DOMAIN q : i # 1 \/ HeadStep(z) # "close_partial" =>
                w[Ahead(z) + i] = <<q[i], ptask[q[i]].want>>
          /\ entries[z].fingerprint = Wish(w, Settled(z))
      BY <1>4 DEF WishesMatch
    <2>5. Settled(z) \in 0 .. Len(w)
      BY <1>1, <1>2, <1>4, <1>5, <2>1, <2>4 DEF Settled, CloseSteps
    <2>6. Wish(v, Settled(z)) = Wish(w, Settled(z))
      BY <1>2, <2>5 DEF Wish
    <2>7. ASSUME NEW i \in DOMAIN n, i # 1 \/ HeadStep(z) # "close_partial"
          PROVE  v[Ahead(z) + i] = <<n[i], ptask'[n[i]].want>>
      <3>1. CASE i = Len(q) + 1
        <4>1. Ahead(z) + i = Len(w) + 1
          BY <1>1, <1>2, <1>4, <3>1
        <4> QED  BY <1>1, <1>2, <3>1, <4>1
      <3>2. CASE i # Len(q) + 1
        <4>1. i \in DOMAIN q /\ Ahead(z) + i \in 1 .. Len(w)
          BY <1>1, <1>2, <1>4, <2>4, <2>7, <3>2
        <4>2. v[Ahead(z) + i] = w[Ahead(z) + i] /\ n[i] = q[i]
          BY <1>1, <1>2, <4>1
        <4>3. w[Ahead(z) + i] = <<q[i], ptask[q[i]].want>>
          BY <2>4, <2>7, <4>1
        <4> QED  BY <1>3, <4>1, <4>2, <4>3
      <3> QED  BY <3>1, <3>2
    <2> QED  BY <1>4, <1>5, <2>2, <2>3, <2>4, <2>6, <2>7 DEF WishesMatch
  <1> QED  BY <1>6, <1>7

-----------------------------------------------------------------------------
(* Connections                                                             *)

LEMMA RangeOfReverse ==
    ASSUME NEW S, NEW q \in Seq(S)
    PROVE  Reverse(q) \in Seq(S) /\ Range(Reverse(q)) = Range(q)
  <1> DEFINE z == Reverse(q)
  <1>1. /\ Len(q) \in Nat /\ DOMAIN q = 1 .. Len(q) /\ \A i \in 1 .. Len(q) : q[i] \in S
    OBVIOUS
  <1>2. \A i \in 1 .. Len(q) : (Len(q) - i) + 1 \in 1 .. Len(q) /\ (Len(q) - ((Len(q) - i) + 1)) + 1 = i
    BY <1>1
  <1>3. DOMAIN z = 1 .. Len(q) /\ \A i \in 1 .. Len(q) : z[i] = q[(Len(q) - i) + 1]
    BY <1>1 DEF Reverse
  <1>4. z \in Seq(S)
    BY <1>1, <1>2 DEF Reverse
  <1> HIDE DEF z
  <1>5. \A y \in Range(z) : y \in Range(q)
    BY <1>1, <1>2, <1>3 DEF Range
  <1>6. \A y \in Range(q) : y \in Range(z)
    <2> TAKE y \in Range(q)
    <2>1. PICK i \in 1 .. Len(q) : y = q[i]
      BY <1>1 DEF Range
    <2>2. (Len(q) - i) + 1 \in DOMAIN z /\ z[(Len(q) - i) + 1] = y
      BY <1>1, <1>2, <1>3, <2>1
    <2> QED  BY <2>2 DEF Range
  <1> QED  BY <1>4, <1>5, <1>6 DEF z

LEMMA RangeOfAppend ==
    ASSUME NEW S, NEW q \in Seq(S), NEW x \in S
    PROVE  Range(Append(q, x)) = Range(q) \cup {x}
  <1> DEFINE n == Append(q, x)
  <1>1. /\ Len(q) \in Nat /\ DOMAIN q = 1 .. Len(q) /\ DOMAIN n = 1 .. Len(q) + 1
        /\ \A i \in 1 .. Len(q) : n[i] = q[i]
        /\ n[Len(q) + 1] = x
    BY AppendFacts
  <1> HIDE DEF n
  <1>2. \A y \in Range(n) : y \in Range(q) \cup {x}
    BY <1>1 DEF Range
  <1>3. \A y \in Range(q) : y \in Range(n)
    BY <1>1 DEF Range
  <1>4. x \in Range(n)
    BY <1>1 DEF Range
  <1> QED  BY <1>2, <1>3, <1>4 DEF n

LEMMA RangeOfTail ==
    ASSUME NEW S, NEW q \in Seq(S), q # <<>>
    PROVE  Range(q) = Range(Tail(q)) \cup {Head(q)} /\ Head(q) \in S /\ Tail(q) \in Seq(S)
  <1>1. /\ Len(q) \in Nat \ {0} /\ Tail(q) \in Seq(S)
        /\ DOMAIN q = 1 .. Len(q) /\ DOMAIN Tail(q) = 1 .. Len(q) - 1
        /\ \A i \in 1 .. Len(q) - 1 : Tail(q)[i] = q[i + 1] /\ i + 1 \in DOMAIN q
        /\ \A i \in DOMAIN q : i # 1 => i - 1 \in DOMAIN Tail(q) /\ Tail(q)[i - 1] = q[i]
    BY TailFacts
  <1>2. Head(q) = q[1] /\ Head(q) \in S
    OBVIOUS
  <1>3. \A y \in Range(q) : y \in Range(Tail(q)) \cup {Head(q)}
    <2> TAKE y \in Range(q)
    <2>1. PICK i \in DOMAIN q : y = q[i]
      BY DEF Range
    <2>2. i # 1 => i - 1 \in DOMAIN Tail(q) /\ Tail(q)[i - 1] = y
      BY <1>1, <2>1
    <2>3. i # 1 => y \in Range(Tail(q))
      BY <2>2 DEF Range
    <2> QED  BY <1>2, <2>1, <2>3
  <1>4. \A y \in Range(Tail(q)) : y \in Range(q)
    BY <1>1 DEF Range
  <1>5. Head(q) \in Range(q)
    BY <1>1, <1>2 DEF Range
  <1> QED  BY <1>1, <1>2, <1>3, <1>4, <1>5

LEMMA RangeInSet ==
    ASSUME NEW S, NEW q \in Seq(S)
    PROVE  (\A y \in Range(q) : y \in S) /\ (Range(q) = {} <=> q = <<>>)
  <1>1. Len(q) \in Nat /\ DOMAIN q = 1 .. Len(q) /\ \A i \in 1 .. Len(q) : q[i] \in S
    OBVIOUS
  <1>2. q # <<>> => 1 \in DOMAIN q
    BY <1>1
  <1>3. q = <<>> => DOMAIN q = {}
    OBVIOUS
  <1> QED  BY <1>1, <1>2, <1>3 DEF Range

\* What SetToSeq enumerates.
LEMMA RangeOfSetToSeq ==
    ASSUME NEW S, IsFiniteSet(S)
    PROVE  SetToSeq(S) \in Seq(S) /\ Range(SetToSeq(S)) = S
  <1> DEFINE n == Cardinality(S)
  <1>1. n \in Nat /\ ExistsBijection(1 .. n, S)
    BY FS_CardinalityType
  <1>2. PICK g \in Bijection(1 .. n, S) : TRUE
    BY <1>1 DEF ExistsBijection
  <1>3. g \in [1 .. n -> S] /\ IsInjective(g)
    BY <1>2 DEF Bijection, Injection, IsInjective
  <1>4. SetToSeq(S) \in [1 .. n -> S] /\ IsInjective(SetToSeq(S))
    BY <1>3 DEF SetToSeq
  <1> DEFINE f == SetToSeq(S)
  <1> HIDE DEF f
  <1>5. f \in Injection(1 .. n, S)
    BY <1>4 DEF Injection, IsInjective, f
  <1>6. Cardinality(1 .. n) = n
    <2>1. Cardinality(1 .. n) = IF 1 > n THEN 0 ELSE n - 1 + 1
      BY <1>1, FS_Interval
    <2> QED  BY <1>1, <2>1
  <1>7. f \in Surjection(1 .. n, S)
    BY <1>5, <1>6, FS_Injection
  <1>8. Range(f) = S
    BY <1>4, <1>7 DEF Surjection, Range, f
  <1>9. f \in Seq(S)
    BY <1>1, <1>4 DEF f
  <1> QED  BY <1>8, <1>9 DEF f

\* What the sequences of connections hold.
LEMMA ConnShape ==
    ASSUME PoolTypeOK
    PROVE  /\ \A s \in PoolSession : /\ entries[s].servers \in Seq(Connection)
                                     /\ \A c \in Range(entries[s].servers) : c \in Connection
           /\ \A u \in Tasks : /\ ptask[u].servers \in Seq(Connection)
                               /\ ptask[u].closing \in Seq(Connection)
                               /\ \A c \in Range(ptask[u].servers) : c \in Connection
                               /\ \A c \in Range(ptask[u].closing) : c \in Connection
           /\ \A c \in Connection : c[1] \in PoolTask
  <1>1. \A s \in PoolSession : entries[s].servers \in Seq(Connection)
    BY PoolShape DEF Entry
  <1>2. \A u \in Tasks : ptask[u].servers \in Seq(Connection) /\ ptask[u].closing \in Seq(Connection)
    BY PoolShape DEF TaskRecord
  <1>3. \A c \in Connection : c[1] \in PoolTask
    BY DEF Connection
  <1> QED  BY <1>1, <1>2, <1>3, RangeInSet

LEMMA ConnPlaces ==
    \A c \in Connection : c[2] \in Nat
  <1>1. \A f \in Fleet : f \in Seq(UNION {Range(g) : g \in Fleet})
    BY PoolAssumption
  <1>2. \A f \in Fleet : DOMAIN f \subseteq Nat
    BY <1>1
  <1>3. \A n \in UNION {DOMAIN f : f \in Fleet} : n \in Nat
    BY <1>2
  <1> QED  BY <1>3 DEF Connection

LEMMA StoresKept ==
    ASSUME PoolTypeOK, StoresAreApart, NEW t \in Tasks, Touches(t), entries' = entries,
           t \in PoolTask /\ PastConnect(t) =>
               PastConnect(t)' /\ ptask'[t].session = ptask[t].session,
           Range(ptask'[t].closing) \subseteq Range(ptask[t].closing)
    PROVE  StoresAreApart'
  <1>1. \A u \in PoolTask : PastConnect(u) => PastConnect(u)' /\ ptask'[u].session = ptask[u].session
    BY PoolShape DEF PastConnect, Touches
  <1>2. \A u \in Tasks : Range(ptask'[u].closing) \subseteq Range(ptask[u].closing)
    BY DEF Touches
  <1> QED  BY <1>1, <1>2, ConnShape DEF StoresAreApart

\* Owner of a connection, and the connections that need one.
Owned(c) ==
    \/ \E s \in PoolSession : c \in Range(entries[s].servers)
    \/ \E u \in Tasks : c \in Held(u)
    \/ c \in orphans
Alive(c) == conn[c] \in {"open", "dead"}

LEMMA OwnedForm ==
    ASSUME PoolTypeOK
    PROVE  ConnectionsAreOwned <=> \A c \in Connection : Alive(c) => Owned(c)
  <1>1. DOMAIN ptask = Tasks
    BY DEF PoolTypeOK
  <1> QED  BY <1>1 DEF ConnectionsAreOwned, Owned, Alive

LEMMA OwnedNext ==
    ASSUME PoolTypeOK', \A c \in Connection : Alive(c)' => Owned(c)'
    PROVE  ConnectionsAreOwned'
  <1>1. DOMAIN ptask' = Tasks
    BY DEF PoolTypeOK
  <1> QED  BY <1>1 DEF ConnectionsAreOwned, Owned, Alive

\* A step that stores nothing, withdraws nothing and leaves no line.
LEMMA PoolQuietStep ==
    ASSUME PoolInv, NEW t \in Tasks, Touches(t), UNCHANGED <<entries, queue, wishes>>,
           ptask'[t].session = ptask[t].session, ptask'[t].want = ptask[t].want,
           ptask'[t].op = ptask[t].op,
           Range(ptask'[t].closing) \subseteq Range(ptask[t].closing),
           t \in PoolTask =>
              \/ ptask'[t].step = ptask[t].step
              \/ /\ ptask[t].step = "wait" /\ ptask'[t].step = "connect"
                 /\ ptask[t].op = "acquire" /\ queue[ptask[t].session][1] = t
              \/ ptask[t].step = "borrowed" /\ ptask'[t].step = "failed"
    PROVE  LinesAreOrdered' /\ WishesAreKept' /\ StoresAreApart'
  <1> USE DEF PoolInv
  <1>1. LinesAreOrdered'
    BY LineKept DEF InLine, CloseSteps
  <1>2. ASSUME NEW s \in PoolSession PROVE WishesMatch(s)' /\ WishesAreOwn(s)'
    <2>1. \A i \in DOMAIN queue[s] : queue[s][i] \in PoolTask /\ queue[s][i] \in Tasks
      BY PoolShape
    <2>2. \A i \in DOMAIN queue[s] : ptask'[queue[s][i]].want = ptask[queue[s][i]].want
      BY <2>1 DEF Touches
    <2>3. ASSUME queue[s] # <<>>, NEW h, h = queue[s][1]
          PROVE  \/ ptask'[h].step = ptask[h].step
                 \/ {ptask'[h].step, ptask[h].step} \cap CloseSteps = {}
      <3>1. h \in PoolTask /\ h \in Tasks
        BY <2>1, <2>3, PoolShape
      <3> QED  BY <3>1 DEF Touches, CloseSteps
    <2>4. WishesMatch(s)'
      BY <2>2, <2>3, WishKept DEF WishesAreKept
    <2>5. WishesAreOwn(s)'
      BY OwnKept DEF WishesAreKept
    <2> QED  BY <2>4, <2>5
  <1>3. t \in PoolTask /\ PastConnect(t) => PastConnect(t)' /\ ptask'[t].session = ptask[t].session
    BY DEF PastConnect
  <1>4. StoresAreApart'
    BY <1>3, StoresKept
  <1> QED  BY <1>1, <1>2, <1>4 DEF WishesAreKept

\* The first in line leaves, its wish being settled.
LEMMA LeaveStep ==
    ASSUME PoolInv, NEW t \in PoolTask, Touches(t), Leave(t), UNCHANGED <<entries, wishes>>,
           ptask'[t].session = ptask[t].session, ptask'[t].op = ptask[t].op,
           Range(ptask'[t].closing) \subseteq Range(ptask[t].closing),
           ptask[t].step \in InLine, ptask[t].session \in PoolSession,
           queue[ptask[t].session] # <<>>, queue[ptask[t].session][1] = t,
           ptask'[t].step \in {"borrowed", "done"},
           Ahead(ptask[t].session) + 1 >= 0,
           entries[ptask[t].session].fingerprint =
               Wish(wishes[ptask[t].session], Ahead(ptask[t].session) + 1)
    PROVE  LinesAreOrdered' /\ WishesAreKept' /\ StoresAreApart'
  <1> USE DEF PoolInv
  <1> DEFINE z == ptask[t].session
  <1>0. ptask'[t].step \notin InLine /\ t \in Tasks
    BY PoolShape DEF InLine, CloseSteps
  <1>1. LinesAreOrdered'
    BY <1>0, LineLeft
  <1>2. queue'[z] = Tail(queue[z]) /\ \A s \in PoolSession : s # z => queue'[s] = queue[s]
    BY DEF Leave, PoolTypeOK
  <1>3. ASSUME NEW s \in PoolSession PROVE WishesMatch(s)' /\ WishesAreOwn(s)'
    <2>1. WishesMatch(s)'
      <3>1. CASE s = z
        BY <1>2, <3>1, WishLeft DEF WishesAreKept
      <3>2. CASE s # z
        BY <1>0, <1>2, <3>2, WishElsewhere DEF WishesAreKept
      <3> QED  BY <3>1, <3>2
    <2>2. WishesAreOwn(s)'
      BY <1>0, OwnKept DEF WishesAreKept
    <2> QED  BY <2>1, <2>2
  <1>4. t \in PoolTask /\ PastConnect(t) => PastConnect(t)' /\ ptask'[t].session = ptask[t].session
    BY DEF PastConnect
  <1>5. StoresAreApart'
    BY <1>0, <1>4, StoresKept
  <1> QED  BY <1>1, <1>3, <1>5 DEF WishesAreKept

\* The other tasks after a step that closes at most what is past connecting,
\* or a connection of its own.
LEMMA TasksKept ==
    ASSUME PoolInv, NEW t \in Tasks, Touches(t),
           t \in PoolTask => StepFits(t, ptask'[t]),
           t = ShutdownTask => /\ ptask'[t].closing # <<>> => ptask'[t].step = "close"
                               /\ ptask'[t].step \in {"new", "join", "close"},
           t \in PoolTask /\ ptask'[t].step = "connect" =>
              \A c \in Range(ptask'[t].servers) : conn'[c] # "closed",
           \A c \in Connection :
              conn'[c] = "closed" => conn[c] = "closed" \/ PastConnect(c[1]) \/ c[1] = t
    PROVE  TasksAreConsistent'
  <1> USE DEF PoolInv
  <1>1. \A u \in PoolTask : StepFits(u, ptask'[u])
    BY PoolShape DEF TasksAreConsistent, Touches
  <1>2. ASSUME NEW u \in PoolTask, ptask'[u].step = "connect", NEW c \in Range(ptask'[u].servers)
        PROVE  conn'[c] # "closed"
    <2>1. CASE u = t
      BY <1>2, <2>1
    <2>2. CASE u # t
      <3>1. ptask'[u] = ptask[u] /\ u \in Tasks
        BY <2>2, PoolShape DEF Touches
      <3>2. c \in Connection /\ c[1] = u /\ conn[c] # "closed" /\ ptask[u].op = "acquire"
        BY <1>2, <3>1, ConnShape DEF TasksAreConsistent, StepFits
      <3>3. ~ PastConnect(u)
        BY <1>2, <3>1, <3>2 DEF PastConnect
      <3> QED  BY <2>2, <3>2, <3>3
    <2> QED  BY <2>1, <2>2
  <1>3. /\ ptask'[ShutdownTask].closing # <<>> => ptask'[ShutdownTask].step = "close"
        /\ ptask'[ShutdownTask].step \in {"new", "join", "close"}
    BY PoolShape DEF TasksAreConsistent, Touches
  <1> QED  BY <1>1, <1>2, <1>3 DEF TasksAreConsistent

\* Entries that stay, when what is closed is stored nowhere.
LEMMA CachedKept ==
    ASSUME PoolInv, entries' = entries,
           \A s \in PoolSession : \A c \in Range(entries[s].servers) :
              conn'[c] = "closed" => conn[c] = "closed"
    PROVE  CachedIsUsable'
  BY DEF PoolInv, CachedIsUsable

-----------------------------------------------------------------------------
(* The steps                                                               *)

\* The fields a step of "t" may change keep their types.
LEMMA RecordTypes ==
    ASSUME PoolTypeOK, NEW t \in Tasks
    PROVE  /\ ptask[t] = [op |-> ptask[t].op, step |-> ptask[t].step, session |-> ptask[t].session,
                          want |-> ptask[t].want, servers |-> ptask[t].servers,
                          closing |-> ptask[t].closing, failures |-> ptask[t].failures]
           /\ ptask[t].failures \in Nat
           /\ DOMAIN ptask = Tasks
  BY PoolShape DEF TaskRecord, PoolTypeOK

LEMMA NewTaskRecord ==
    /\ NewTask \in TaskRecord /\ NewTask.servers = <<>> /\ NewTask.closing = <<>>
    /\ NewTask.failures = 0
  <1>1. <<>> \in Seq(Connection)
    OBVIOUS
  <1> QED  BY <1>1 DEF NewTask, TaskRecord

LEMMA JoinStep ==
    ASSUME PoolInv, NEW t \in PoolTask, NEW z \in PoolSession, NEW want \in Fleet \cup {Deleted},
           Join(t, z, want)
    PROVE  PoolInv'
  <1> USE DEF PoolInv
  <1> DEFINE k == [NewTask EXCEPT !.op = IF want = Deleted THEN "evict" ELSE "acquire",
                                  !.step = "wait", !.session = z, !.want = want]
  <1>0. t \in Tasks /\ Deleted \notin Fleet
    BY PoolShape, PoolAssumption
  <1>1. /\ ptask' = [ptask EXCEPT ![t] = k]
        /\ ptask[t].step \in {"new", "failed"}
        /\ ptask[t].step = "failed" => want = Deleted /\ z = ptask[t].session
        /\ queue' = [queue EXCEPT ![z] = Append(@, t)]
        /\ wishes' = [wishes EXCEPT ![z] = Append(@, <<t, want>>)]
        /\ UNCHANGED <<entries, conn, orphans, poolFaults>>
    BY DEF Join
  <1>2. /\ k.step = "wait" /\ k.session = z /\ k.want = want /\ k.servers = <<>> /\ k.closing = <<>>
        /\ k.failures = 0 /\ k.op = IF want = Deleted THEN "evict" ELSE "acquire"
        /\ k \in TaskRecord
    <2>1. (IF want = Deleted THEN "evict" ELSE "acquire") \in {"none", "acquire", "evict"}
      OBVIOUS
    <2>2. "wait" \in InLine
      BY DEF InLine
    <2> QED  BY <2>1, <2>2, NewTaskRecord DEF TaskRecord
  <1> HIDE DEF k
  <1>3. Touches(t) /\ ptask'[t] = k
    BY <1>0, <1>1, <1>2 DEF Touches, PoolTypeOK
  <1>4. PoolTypeOK'
    <2>1. <<t, want>> \in PoolTask \X (Fleet \cup {Deleted})
      OBVIOUS
    <2>2. Append(queue[z], t) \in Seq(PoolTask) /\ Append(wishes[z], <<t, want>>) \in Seq(PoolTask \X (Fleet \cup {Deleted}))
      BY <2>1, AppendFacts DEF PoolTypeOK
    <2> QED  BY <1>1, <1>3, <2>2 DEF PoolTypeOK, Touches
  <1>5. ptask[t].step \notin InLine
    BY <1>1 DEF InLine, CloseSteps
  <1>6. LinesAreOrdered'
    BY <1>1, <1>2, <1>3, <1>5, LineJoined
  <1>7. ASSUME NEW s \in PoolSession PROVE WishesMatch(s)' /\ WishesAreOwn(s)'
    <2>1. CASE s # z
      <3>1. queue'[s] = queue[s] /\ wishes'[s] = wishes[s] /\ entries' = entries
        BY <1>1, <2>1 DEF PoolTypeOK
      <3>2. WishesMatch(s)'
        BY <1>0, <1>3, <1>5, <3>1, WishElsewhere DEF WishesAreKept
      <3>3. WishesAreOwn(s)'
        BY <1>0, <1>1, <1>2, <1>3, <3>1, OwnKept DEF WishesAreKept
      <3> QED  BY <3>2, <3>3
    <2>2. CASE s = z
      <3>1. queue'[z] = Append(queue[z], t) /\ wishes'[z] = Append(wishes[z], <<t, want>>)
        BY <1>1 DEF PoolTypeOK
      <3>2. WishesMatch(z)'
        <4>1. ptask'[t].step = "wait" /\ ptask'[t].want = want
          BY <1>2, <1>3
        <4>2. <<t, ptask'[t].want>> \in PoolTask \X (Fleet \cup {Deleted})
          BY <4>1
        <4>3. WishesMatch(z) /\ entries' = entries
          BY <1>1 DEF WishesAreKept
        <4> QED  BY <1>3, <1>5, <3>1, <4>1, <4>2, <4>3, WishJoined
      <3> DEFINE w == wishes[z]
                 v == Append(w, <<t, want>>)
      <3>3. /\ Len(w) \in Nat /\ DOMAIN w = 1 .. Len(w) /\ DOMAIN v = 1 .. Len(w) + 1
            /\ \A i \in 1 .. Len(w) : v[i] = w[i]
            /\ v[Len(w) + 1] = <<t, want>>
        <4>1. w \in Seq(PoolTask \X (Fleet \cup {Deleted}))
          BY DEF PoolTypeOK
        <4> QED  BY <4>1, AppendFacts
      <3>4. \A i \in DOMAIN w : /\ w[i][1] \in PoolTask /\ w[i][1] \in Tasks
                                /\ ptask[w[i][1]].step # "new"
        BY PoolShape DEF WishesAreKept, WishesAreOwn
      <3>5. \A i, j \in DOMAIN w : w[i][1] = w[j][1] /\ ptask[w[i][1]].op = "acquire" => i = j
        BY DEF WishesAreKept, WishesAreOwn
      <3>6. wishes'[z] = v
        BY <3>1
      <3> HIDE DEF w, v
      <3>7. \A i \in DOMAIN v : (i \in DOMAIN w /\ v[i] = w[i]) \/ (i = Len(w) + 1 /\ v[i][1] = t)
        BY <3>3
      <3>8. \A i \in DOMAIN w : /\ ptask'[w[i][1]].step # "new"
                                /\ ptask'[w[i][1]].op = "acquire" =>
                                      ptask[w[i][1]].op = "acquire" /\ w[i][1] # t
        BY <1>1, <1>2, <1>3, <3>4 DEF Touches
      <3>9. \A i \in DOMAIN v : ptask'[v[i][1]].step # "new"
        BY <1>2, <1>3, <3>7, <3>8
      <3>10. ASSUME NEW i \in DOMAIN v, NEW j \in DOMAIN v, v[i][1] = v[j][1], ptask'[v[i][1]].op = "acquire"
             PROVE  i = j
        <4>1. CASE i \in DOMAIN w /\ v[i] = w[i] /\ j \in DOMAIN w /\ v[j] = w[j]
          BY <3>5, <3>8, <3>10, <4>1
        <4>2. CASE i = Len(w) + 1 /\ j = Len(w) + 1
          BY <4>2
        <4>3. CASE i \in DOMAIN w /\ v[i] = w[i] /\ v[j][1] = t
          BY <3>8, <3>10, <4>3
        <4>4. CASE j \in DOMAIN w /\ v[j] = w[j] /\ v[i][1] = t
          BY <3>8, <3>10, <4>4
        <4> QED  BY <3>7, <4>1, <4>2, <4>3, <4>4
      <3>11. WishesAreOwn(z)'
        BY <3>6, <3>9, <3>10 DEF WishesAreOwn
      <3> QED  BY <2>2, <3>2, <3>11
    <2> QED  BY <2>1, <2>2
  <1>8. PastConnect(t) => PastConnect(t)' /\ ptask'[t].session = ptask[t].session
    BY <1>1, <1>2, <1>3 DEF PastConnect
  <1>9. StoresAreApart'
    <2>1. Range(ptask'[t].closing) = {}
      BY <1>2, <1>3 DEF Range
    <2> QED  BY <1>0, <1>1, <1>3, <1>8, <2>1, StoresKept
  <1>10. TasksAreConsistent'
    <2>1. StepFits(t, k)
      BY <1>0, <1>2 DEF StepFits
    <2> QED  BY <1>0, <1>1, <1>2, <1>3, <2>1, PoolShape, TasksKept
  <1>11. CachedIsUsable'
    BY <1>1, CachedKept
  <1>12. ConnectionsAreOwned'
    <2>1. ptask[t].closing = <<>>
      BY <1>1 DEF TasksAreConsistent, StepFits, CloseSteps
    <2>2. Held(t) = {}
      BY <1>1, <2>1 DEF Held, Range
    <2>3. \A u \in Tasks : u # t => Held(u)' = Held(u)
      BY <1>3 DEF Held, Touches
    <2>4. \A c \in Connection : Owned(c) => Owned(c)'
      BY <1>1, <2>2, <2>3 DEF Owned
    <2> QED  BY <1>1, <1>4, <2>4, OwnedForm, OwnedNext DEF Alive
  <1> QED  BY <1>4, <1>6, <1>7, <1>9, <1>10, <1>11, <1>12 DEF WishesAreKept

LEMMA CheckEntryStep ==
    ASSUME PoolInv, NEW t \in PoolTask, CheckEntry(t)
    PROVE  PoolInv'
  <1> USE DEF PoolInv
  <1> DEFINE z == ptask[t].session
  <1>0. /\ t \in Tasks /\ ptask[t] \in TaskRecord /\ ptask \in [Tasks -> TaskRecord]
        /\ ptask[t].step = "wait" /\ ptask[t].op = "acquire" /\ HoldsSession(t)
        /\ UNCHANGED <<entries, conn, wishes, orphans, poolFaults>>
    BY PoolShape DEF CheckEntry, PoolTypeOK
  <1>1. /\ ptask[t].step \in InLine /\ z \in PoolSession /\ queue[z] # <<>>
        /\ queue[z][1] = t /\ 1 \in DOMAIN queue[z]
    <2>1. ptask[t].step \in InLine
      BY <1>0 DEF InLine
    <2> QED  BY <1>0, <2>1, LineHead
  <1>2. /\ ptask[t].want \in Fleet /\ ptask[t].closing = <<>>
        /\ ptask[t].servers = <<>> /\ ptask[t].failures = 0
    BY <1>0 DEF TasksAreConsistent, StepFits, CloseSteps
  <1>3. \A u \in Tasks : u # t /\ Touches(t) => Held(u)' = Held(u)
    BY DEF Held, Touches
  <1>4. CachedIsUsable'
    BY <1>0, CachedKept
  <1>5. CASE entries[z].fingerprint = ptask[t].want
    <2>1. /\ ptask' = [ptask EXCEPT ![t].step = "borrowed", ![t].servers = entries[z].servers]
          /\ Leave(t)
      BY <1>5 DEF CheckEntry
    <2>2. /\ Touches(t) /\ ptask'[t].step = "borrowed" /\ ptask'[t].session = z
          /\ ptask'[t].op = ptask[t].op /\ ptask'[t].want = ptask[t].want
          /\ ptask'[t].closing = ptask[t].closing
      <3>1. entries[z].servers \in Seq(Connection)
        BY <1>1, ConnShape
      <3> QED  BY <1>0, <2>1, <3>1 DEF Touches, TaskRecord
    <2>3. Ahead(z) >= 0 /\ wishes[z][Ahead(z) + 1] = <<t, ptask[t].want>> /\ Ahead(z) \in Int
      <3>1. HeadStep(z) = "wait"
        BY <1>0, <1>1 DEF HeadStep
      <3> QED  BY <1>1, <3>1, AheadIsInt DEF WishesAreKept, WishesMatch
    <2>4. entries[z].fingerprint = Wish(wishes[z], Ahead(z) + 1)
      <3>1. Deleted \notin Fleet
        BY PoolAssumption
      <3> QED  BY <1>2, <1>5, <2>3, <3>1 DEF Wish
    <2>5. LinesAreOrdered' /\ WishesAreKept' /\ StoresAreApart'
      BY <1>0, <1>1, <2>1, <2>2, <2>3, <2>4, LeaveStep
    <2>6. PoolTypeOK'
      <3>1. Tail(queue[z]) \in Seq(PoolTask)
        BY <1>1, PoolShape, TailFacts
      <3> QED  BY <1>0, <2>1, <2>2, <3>1 DEF PoolTypeOK, Leave, Touches
    <2>7. TasksAreConsistent'
      <3>1. StepFits(t, ptask'[t])
        BY <1>0, <1>2, <2>2 DEF StepFits
      <3> QED  BY <1>0, <2>2, <3>1, PoolShape, TasksKept
    <2>8. ConnectionsAreOwned'
      <3>1. Held(t) = {}
        BY <1>0, <1>2 DEF Held, Range
      <3>2. \A c \in Connection : Owned(c) => Owned(c)'
        BY <1>0, <1>3, <2>2, <3>1 DEF Owned
      <3> QED  BY <1>0, <2>6, <3>2, OwnedForm, OwnedNext DEF Alive
    <2> QED  BY <1>4, <2>5, <2>6, <2>7, <2>8
  <1>6. CASE entries[z].fingerprint # ptask[t].want
    <2>1. ptask' = [ptask EXCEPT ![t].step = "connect"] /\ queue' = queue
      BY <1>6 DEF CheckEntry
    <2>2. /\ Touches(t) /\ ptask'[t].step = "connect" /\ ptask'[t].session = z
          /\ ptask'[t].op = ptask[t].op /\ ptask'[t].want = ptask[t].want
          /\ ptask'[t].closing = ptask[t].closing /\ ptask'[t].servers = ptask[t].servers
          /\ ptask'[t].failures = ptask[t].failures
      BY <1>0, <2>1 DEF Touches, TaskRecord, InLine
    <2>3. LinesAreOrdered' /\ WishesAreKept' /\ StoresAreApart'
      BY <1>0, <1>1, <2>1, <2>2, PoolQuietStep
    <2>4. PoolTypeOK'
      BY <1>0, <2>1, <2>2 DEF PoolTypeOK, Touches
    <2>5. Range(ptask'[t].servers) = {}
      BY <1>2, <2>2 DEF Range
    <2>6. TasksAreConsistent'
      <3>1. ptask[t].want \in Seq(UNION {Range(f) : f \in Fleet})
        BY <1>2, PoolAssumption
      <3>2. Len(ptask'[t].servers) + ptask'[t].failures <= Len(ptask'[t].want)
        BY <1>2, <2>2, <3>1
      <3>3. StepFits(t, ptask'[t])
        BY <1>0, <1>2, <2>2, <2>5, <3>2 DEF StepFits
      <3> QED  BY <1>0, <2>2, <2>5, <3>3, PoolShape, TasksKept
    <2>7. ConnectionsAreOwned'
      <3>1. Held(t) = {}
        BY <1>0, <1>2 DEF Held, Range
      <3>2. \A c \in Connection : Owned(c) => Owned(c)'
        BY <1>0, <1>3, <2>2, <3>1 DEF Owned
      <3> QED  BY <1>0, <2>4, <3>2, OwnedForm, OwnedNext DEF Alive
    <2> QED  BY <1>4, <2>3, <2>4, <2>6, <2>7
  <1> QED  BY <1>5, <1>6

\* A new connection has the place its configuration gives it, after all the
\* others of the task.
LEMMA ConnectServerStep ==
    ASSUME PoolInv, NEW t \in PoolTask, ConnectServer(t)
    PROVE  PoolInv'
  <1> USE DEF PoolInv
  <1> DEFINE k == ptask[t]
             n == Len(k.servers) + k.failures + 1
             c == <<t, n>>
  <1>0. /\ t \in Tasks /\ k \in TaskRecord /\ ptask \in [Tasks -> TaskRecord]
        /\ k.step = "connect" /\ n <= Len(k.want)
        /\ UNCHANGED <<entries, queue, wishes, orphans>>
    BY PoolShape DEF ConnectServer, PoolTypeOK
  <1>1. /\ k.op = "acquire" /\ k.want \in Fleet /\ k.closing = <<>>
        /\ \A d \in Range(k.servers) : d[1] = t /\ d[2] <= Len(k.servers) + k.failures
        /\ \A d \in Range(k.servers) : conn[d] # "closed"
    BY <1>0 DEF TasksAreConsistent, StepFits, CloseSteps
  <1>2. /\ k.servers \in Seq(Connection) /\ Len(k.servers) \in Nat /\ k.failures \in Nat
        /\ n \in Nat \ {0}
    BY <1>0, ConnShape, RecordTypes
  <1>3. c \in Connection
    <2>1. k.want \in Seq(UNION {Range(f) : f \in Fleet})
      BY <1>1, PoolAssumption
    <2>2. DOMAIN k.want = 1 .. Len(k.want) /\ Len(k.want) \in Nat
      BY <2>1
    <2>3. n \in DOMAIN k.want
      BY <1>0, <1>2, <2>2
    <2> QED  BY <1>1, <2>3 DEF Connection
  <1>4. \A d \in Range(k.servers) : d # c
    BY <1>1, <1>2
  <1>5. ~ PastConnect(t)
    BY <1>0, <1>1 DEF PastConnect
  <1>6. \A s \in PoolSession : c \notin Range(entries[s].servers)
    BY <1>5 DEF StoresAreApart
  <1>7. \A u \in Tasks : u # t /\ Touches(t) => Held(u)' = Held(u)
    BY DEF Held, Touches
  <1>8. \A d \in Connection : d # c => conn'[d] = conn[d]
    BY <1>3 DEF ConnectServer, PoolTypeOK
  <1>9. CachedIsUsable'
    BY <1>0, <1>6, <1>8, ConnShape, CachedKept
  <1>10. CASE /\ conn' = [conn EXCEPT ![c] = "open"]
              /\ ptask' = [ptask EXCEPT ![t].servers = Append(@, c)]
              /\ UNCHANGED poolFaults
    <2>1. /\ Append(k.servers, c) \in Seq(Connection)
          /\ Len(Append(k.servers, c)) = Len(k.servers) + 1
          /\ Range(Append(k.servers, c)) = Range(k.servers) \cup {c}
      <3> HIDE DEF c
      <3>1. Range(Append(k.servers, c)) = Range(k.servers) \cup {c}
        BY <1>2, <1>3, RangeOfAppend
      <3> QED  BY <1>2, <1>3, <3>1, AppendFacts
    <2>2. /\ Touches(t) /\ ptask'[t].step = k.step /\ ptask'[t].session = k.session
          /\ ptask'[t].op = k.op /\ ptask'[t].want = k.want
          /\ ptask'[t].closing = k.closing /\ ptask'[t].servers = Append(k.servers, c)
          /\ ptask'[t].failures = k.failures
      BY <1>0, <1>10, <2>1 DEF Touches, TaskRecord
    <2>3. LinesAreOrdered' /\ WishesAreKept' /\ StoresAreApart'
      BY <1>0, <2>2, PoolQuietStep
    <2>4. PoolTypeOK'
      BY <1>0, <1>10, <2>2 DEF PoolTypeOK, Touches
    <2>5. conn'[c] = "open"
      BY <1>3, <1>10 DEF PoolTypeOK
    <2> HIDE DEF c
    <2>6. c[1] = t /\ c[2] = n
      BY DEF c
    <2>7. \A d \in Range(ptask'[t].servers) : conn'[d] # "closed"
      BY <1>0, <1>1, <1>8, <2>1, <2>2, <2>5, ConnShape
    <2>8. TasksAreConsistent'
      <3>1. StepFits(t, ptask'[t])
        <4>1. Len(ptask'[t].servers) + ptask'[t].failures = n
          <5>1. (Len(k.servers) + 1) + k.failures = Len(k.servers) + k.failures + 1
            BY <1>2
          <5> QED  BY <2>1, <2>2, <5>1
        <4>2. ASSUME NEW d \in Range(ptask'[t].servers) PROVE d[1] = t /\ d[2] <= n
          <5>1. CASE d = c
            BY <1>2, <2>6, <5>1
          <5>2. CASE d # c
            <6>1. d[1] = t /\ d[2] <= Len(k.servers) + k.failures
              BY <1>1, <2>1, <2>2, <5>2
            <6>2. d \in Connection /\ d[2] \in Nat
              <7>1. d \in Connection
                BY <1>0, <2>1, <2>2, <5>2, ConnShape
              <7> QED  BY <7>1, ConnPlaces
            <6> QED  BY <1>2, <6>1, <6>2
          <5> QED  BY <5>1, <5>2
        <4> QED  BY <1>0, <1>1, <2>2, <4>1, <4>2 DEF StepFits
      <3>2. t # ShutdownTask
        BY PoolShape
      <3>3. ASSUME NEW d \in Connection, conn'[d] = "closed" PROVE conn[d] = "closed" \/ d[1] = t
        BY <1>8, <2>6, <3>3
      <3> QED  BY <1>0, <2>2, <2>7, <3>1, <3>2, <3>3, TasksKept
    <2>9. ConnectionsAreOwned'
      <3>1. Held(t)' = Held(t) \cup {c}
        BY <1>0, <2>1, <2>2 DEF Held
      <3>2. \A d \in Connection : Owned(d) \/ d = c => Owned(d)'
        BY <1>0, <1>7, <2>2, <3>1 DEF Owned
      <3>3. \A d \in Connection : Alive(d)' => Alive(d) \/ d = c
        BY <1>8 DEF Alive
      <3> QED  BY <2>4, <3>2, <3>3, OwnedForm, OwnedNext
    <2> QED  BY <1>9, <2>3, <2>4, <2>8, <2>9
  <1>11. CASE /\ poolFaults' = poolFaults + 1
              /\ conn' = [conn EXCEPT ![c] = "closed"]
              /\ ptask' = [ptask EXCEPT ![t].failures = @ + 1]
    <2>2. /\ Touches(t) /\ ptask'[t].step = k.step /\ ptask'[t].session = k.session
          /\ ptask'[t].op = k.op /\ ptask'[t].want = k.want
          /\ ptask'[t].closing = k.closing /\ ptask'[t].servers = k.servers
          /\ ptask'[t].failures = k.failures + 1
      <3>1. k.failures + 1 \in Nat
        BY <1>2
      <3> QED  BY <1>0, <1>11, <3>1 DEF Touches, TaskRecord
    <2>3. LinesAreOrdered' /\ WishesAreKept' /\ StoresAreApart'
      BY <1>0, <2>2, PoolQuietStep
    <2>4. PoolTypeOK'
      <3> HIDE DEF c
      <3>1. conn' \in [Connection -> {"none", "open", "dead", "closed"}]
        BY <1>11 DEF PoolTypeOK
      <3>2. poolFaults' = poolFaults + 1 /\ poolFaults \in Nat
        BY <1>11 DEF PoolTypeOK
      <3>3. poolFaults' \in Nat
        BY <3>2
      <3> QED  BY <1>0, <2>2, <3>1, <3>3 DEF PoolTypeOK, Touches
    <2>5. conn'[c] = "closed"
      BY <1>3, <1>11 DEF PoolTypeOK
    <2> HIDE DEF c
    <2>6. c[1] = t /\ c[2] = n
      BY DEF c
    <2>7. \A d \in Range(ptask'[t].servers) : conn'[d] # "closed"
      BY <1>0, <1>1, <1>4, <1>8, <2>2, ConnShape
    <2>8. TasksAreConsistent'
      <3>1. StepFits(t, ptask'[t])
        <4>1. Len(ptask'[t].servers) + ptask'[t].failures = n
          BY <1>2, <2>2
        <4>2. ASSUME NEW d \in Range(ptask'[t].servers) PROVE d[1] = t /\ d[2] <= n
          <5>1. d[1] = t /\ d[2] <= Len(k.servers) + k.failures
            BY <1>1, <2>2
          <5>2. d \in Connection /\ d[2] \in Nat
            <6>1. d \in Connection
              BY <1>0, <2>2, ConnShape
            <6> QED  BY <6>1, ConnPlaces
          <5> QED  BY <1>2, <5>1, <5>2
        <4> QED  BY <1>0, <1>1, <2>2, <4>1, <4>2 DEF StepFits
      <3> QED  BY <1>0, <1>8, <2>2, <2>6, <2>7, <3>1, PoolShape, TasksKept
    <2>9. ConnectionsAreOwned'
      <3>1. Held(t)' = Held(t)
        BY <2>2 DEF Held
      <3>2. \A d \in Connection : Owned(d) => Owned(d)'
        BY <1>0, <1>7, <2>2, <3>1 DEF Owned
      <3>3. \A d \in Connection : Alive(d)' => Alive(d)
        BY <1>8, <2>5 DEF Alive
      <3> QED  BY <2>4, <3>2, <3>3, OwnedForm, OwnedNext
    <2> QED  BY <1>9, <2>3, <2>4, <2>8, <2>9
  <1> QED  BY <1>10, <1>11 DEF ConnectServer

\* What is known of the task that connects.
LEMMA Connecting ==
    ASSUME PoolInv, NEW t \in PoolTask, ptask[t].step = "connect"
    PROVE  /\ t \in Tasks /\ ptask[t] \in TaskRecord /\ ptask \in [Tasks -> TaskRecord]
           /\ ptask[t].session \in PoolSession
           /\ queue[ptask[t].session] # <<>> /\ queue[ptask[t].session][1] = t
           /\ ptask[t].step \in InLine
           /\ ptask[t].op = "acquire" /\ ptask[t].want \in Fleet /\ ptask[t].closing = <<>>
           /\ ptask[t].servers \in Seq(Connection)
           /\ \A c \in Range(ptask[t].servers) : c \in Connection /\ c[1] = t /\ conn[c] # "closed"
           /\ ~ PastConnect(t)
           /\ WishesMatch(ptask[t].session) /\ WishesAreOwn(ptask[t].session)
           /\ Held(t) = Range(ptask[t].servers)
  <1> USE DEF PoolInv
  <1>1. ptask[t].step \in InLine /\ t \in Tasks
    BY PoolShape DEF InLine
  <1>2. /\ ptask[t].session \in PoolSession
        /\ queue[ptask[t].session] # <<>> /\ queue[ptask[t].session][1] = t
    BY <1>1, LineHead
  <1>3. /\ ptask[t].op = "acquire" /\ ptask[t].want \in Fleet /\ ptask[t].closing = <<>>
        /\ \A c \in Range(ptask[t].servers) : c[1] = t /\ conn[c] # "closed"
    BY DEF TasksAreConsistent, StepFits, CloseSteps
  <1>4. Held(t) = Range(ptask[t].servers)
    BY <1>3 DEF Held, Range
  <1>5. WishesMatch(ptask[t].session) /\ WishesAreOwn(ptask[t].session)
    BY <1>2 DEF WishesAreKept
  <1>6. ~ PastConnect(t)
    BY <1>3 DEF PastConnect
  <1> QED  BY <1>1, <1>2, <1>3, <1>4, <1>5, <1>6, ConnShape, PoolShape DEF PoolTypeOK

\* The new entry holds what the task has connected; the old one is to be closed.
LEMMA StoreEntryStores ==
    ASSUME PoolInv, NEW t \in PoolTask, StoreEntry(t), SomeConnected(ptask[t])
    PROVE  PoolInv'
  <1> USE DEF PoolInv
  <1> DEFINE k == ptask[t]
             z == k.session
             old == entries[z].servers
             new == [fingerprint |-> k.want, servers |-> k.servers]
  <1>0. /\ t \in Tasks /\ k \in TaskRecord /\ ptask \in [Tasks -> TaskRecord]
        /\ z \in PoolSession /\ queue[z] # <<>> /\ queue[z][1] = t /\ k.step \in InLine
        /\ k.op = "acquire" /\ k.want \in Fleet /\ k.closing = <<>>
        /\ k.servers \in Seq(Connection)
        /\ \A c \in Range(k.servers) : c \in Connection /\ c[1] = t /\ conn[c] # "closed"
        /\ ~ PastConnect(t) /\ WishesMatch(z) /\ WishesAreOwn(z)
        /\ Held(t) = Range(k.servers)
    BY Connecting DEF StoreEntry
  <1>1. /\ k.step = "connect" /\ Len(k.servers) + k.failures = Len(k.want)
        /\ entries' = [entries EXCEPT ![z] = new]
        /\ ptask' = [ptask EXCEPT ![t].step = "close_stale", ![t].closing = Reverse(old)]
        /\ UNCHANGED <<queue, wishes, conn, orphans, poolFaults>>
    BY DEF StoreEntry
  <1>2. /\ Reverse(old) \in Seq(Connection) /\ Range(Reverse(old)) = Range(old)
        /\ \A c \in Range(old) : c \in Connection /\ c[1] \in PoolTask
    BY <1>0, ConnShape, RangeOfReverse
  <1>3. /\ Touches(t) /\ ptask'[t].step = "close_stale" /\ ptask'[t].session = z
        /\ ptask'[t].op = k.op /\ ptask'[t].want = k.want
        /\ ptask'[t].closing = Reverse(old) /\ ptask'[t].servers = k.servers
    BY <1>0, <1>1, <1>2 DEF Touches, TaskRecord, InLine, CloseSteps
  <1>4. /\ entries'[z] = new /\ \A s \in PoolSession : s # z => entries'[s] = entries[s]
        /\ new.servers = k.servers /\ new.fingerprint = k.want /\ new \in Entry
    BY <1>0, <1>1 DEF PoolTypeOK, Entry
  <1>5. PoolTypeOK'
    BY <1>1, <1>3, <1>4 DEF PoolTypeOK, Touches
  <1>6. ptask'[t].step \in InLine /\ ptask[t].step \in {"wait", "connect"}
    BY <1>1, <1>3 DEF InLine, CloseSteps
  <1>7. LinesAreOrdered'
    BY <1>0, <1>1, <1>3, <1>6, LineKept
  <1>8. ASSUME NEW s \in PoolSession PROVE WishesMatch(s)' /\ WishesAreOwn(s)'
    <2>1. CASE s = z
      <3>1. IsInjective(queue[z]) /\ k.want # Deleted
        BY <1>0, PoolAssumption DEF LinesAreOrdered
      <3> QED  BY <1>0, <1>1, <1>3, <1>4, <1>6, <2>1, <3>1, WishSettled, OwnKept
    <2>2. CASE s # z
      <3>1. WishesMatch(s) /\ WishesAreOwn(s) /\ entries'[s] = entries[s]
        BY <1>4, <2>2 DEF WishesAreKept
      <3> QED  BY <1>0, <1>1, <1>3, <2>2, <3>1, WishElsewhere, OwnKept
    <2> QED  BY <2>1, <2>2
  <1>9. PastConnect(t)' /\ \A u \in PoolTask : PastConnect(u) => u # t /\ PastConnect(u)' /\ ptask'[u] = ptask[u]
    BY <1>0, <1>3, PoolShape DEF PastConnect, Touches
  <1> HIDE DEF new, old
  <1>10. StoresAreApart'
    <2>1. \A s \in PoolSession : \A c \in Range(entries'[s].servers) :
             PastConnect(c[1])' /\ ptask'[c[1]].session = s
      BY <1>0, <1>3, <1>4, <1>9, ConnShape DEF StoresAreApart
    <2>2. \A c \in Range(old) : PastConnect(c[1]) /\ ptask[c[1]].session = z
      BY <1>0 DEF StoresAreApart, old
    <2>3. ASSUME NEW c \in Range(old), NEW s \in PoolSession PROVE c \notin Range(entries'[s].servers)
      <3>1. c[1] \in PoolTask /\ c[1] # t
        BY <1>2, <1>9, <2>2 DEF old
      <3>2. CASE s = z
        BY <1>0, <1>4, <3>1, <3>2
      <3>3. CASE s # z
        BY <1>4, <2>2, <3>3 DEF StoresAreApart
      <3> QED  BY <3>2, <3>3
    <2>4. ASSUME NEW u \in Tasks, u # t, NEW c \in Range(ptask[u].closing)
          PROVE  PastConnect(c[1])' /\ \A s \in PoolSession : c \notin Range(entries'[s].servers)
      <3>1. c[1] \in PoolTask /\ PastConnect(c[1]) /\ c[1] # t
        BY <1>9, ConnShape DEF StoresAreApart
      <3> QED  BY <1>0, <1>4, <1>9, <3>1 DEF StoresAreApart
    <2>5. \A u \in Tasks : \A c \in Range(ptask'[u].closing) :
             PastConnect(c[1])' /\ \A s \in PoolSession : c \notin Range(entries'[s].servers)
      BY <1>2, <1>3, <1>9, <2>2, <2>3, <2>4 DEF Touches, old
    <2> QED  BY <2>1, <2>5 DEF StoresAreApart
  <1>11. TasksAreConsistent'
    <2>1. StepFits(t, ptask'[t])
      BY <1>0, <1>3 DEF StepFits, CloseSteps
    <2> QED  BY <1>0, <1>1, <1>3, <2>1, PoolShape, TasksKept
  <1>12. CachedIsUsable'
    <2>1. k.servers # <<>>
      <3>1. k.failures \in Nat /\ k.failures < Len(k.want) /\ Len(k.servers) \in Nat
        BY <1>0, RecordTypes DEF SomeConnected
      <3>2. Len(k.servers) # 0
        BY <1>1, <3>1
      <3> QED  BY <3>2
    <2> QED  BY <1>0, <1>1, <1>4, <2>1 DEF CachedIsUsable
  <1>13. ConnectionsAreOwned'
    <2>1. \A u \in Tasks : u # t => Held(u)' = Held(u)
      BY <1>3 DEF Held, Touches
    <2>2. Range(old) \subseteq Held(t)'
      BY <1>2, <1>3 DEF Held, old
    <2>3. \A c \in Connection : Owned(c) => Owned(c)'
      BY <1>0, <1>1, <1>4, <2>1, <2>2 DEF Owned, old
    <2> QED  BY <1>1, <1>5, <2>3, OwnedForm, OwnedNext DEF Alive
  <1> QED  BY <1>5, <1>7, <1>8, <1>10, <1>11, <1>12, <1>13 DEF WishesAreKept

\* Every server failed: nothing is connected, and the wish is taken back.
LEMMA StoreEntryFails ==
    ASSUME PoolInv, NEW t \in PoolTask, StoreEntry(t), ~ SomeConnected(ptask[t])
    PROVE  PoolInv'
  <1> USE DEF PoolInv
  <1> DEFINE k == ptask[t]
             z == k.session
  <1>0. /\ t \in Tasks /\ k \in TaskRecord /\ ptask \in [Tasks -> TaskRecord]
        /\ z \in PoolSession /\ queue[z] # <<>> /\ queue[z][1] = t /\ k.step \in InLine
        /\ k.op = "acquire" /\ k.want \in Fleet /\ k.closing = <<>>
        /\ k.servers \in Seq(Connection)
        /\ ~ PastConnect(t) /\ WishesMatch(z) /\ WishesAreOwn(z)
        /\ Held(t) = Range(k.servers)
    BY Connecting DEF StoreEntry
  <1>1. /\ k.step = "connect" /\ Len(k.servers) + k.failures = Len(k.want)
        /\ ptask' = [ptask EXCEPT ![t].step = "done"]
        /\ Withdraw(t) /\ Leave(t)
        /\ UNCHANGED <<entries, conn, orphans, poolFaults>>
    BY DEF StoreEntry
  <1>2. /\ Touches(t) /\ ptask'[t].step = "done" /\ ptask'[t].session = z
        /\ ptask'[t].op = k.op /\ ptask'[t].want = k.want /\ ptask'[t].closing = k.closing
    BY <1>0, <1>1 DEF Touches, TaskRecord
  <1>3. /\ Ahead(z) >= 0 /\ Ahead(z) + 1 \in DOMAIN wishes[z]
        /\ (CHOOSE i \in DOMAIN wishes[z] : wishes[z][i][1] = t) = Ahead(z) + 1
    BY <1>0, <1>1, WishPlace
  <1>4. /\ wishes'[z] = RemoveAt(wishes[z], Ahead(z) + 1)
        /\ queue'[z] = Tail(queue[z])
        /\ \A s \in PoolSession : s # z => wishes'[s] = wishes[s] /\ queue'[s] = queue[s]
    BY <1>0, <1>1, <1>3 DEF Withdraw, Leave, PoolTypeOK
  <1>5. PoolTypeOK'
    <2>1. RemoveAt(wishes[z], Ahead(z) + 1) \in Seq(PoolTask \X (Fleet \cup {Deleted}))
      <3>1. wishes[z] \in Seq(PoolTask \X (Fleet \cup {Deleted}))
        BY <1>0 DEF PoolTypeOK
      <3> QED  BY <1>3, <3>1, RemoveAtFacts
    <2>2. Tail(queue[z]) \in Seq(PoolTask)
      BY <1>0, PoolShape, TailFacts
    <2>3. /\ wishes' = [wishes EXCEPT ![z] = RemoveAt(wishes[z], Ahead(z) + 1)]
          /\ queue' = [queue EXCEPT ![z] = Tail(queue[z])]
      BY <1>0, <1>1, <1>3 DEF Withdraw, Leave, PoolTypeOK
    <2> QED  BY <1>1, <1>2, <2>1, <2>2, <2>3 DEF PoolTypeOK, Touches
  <1>6. ptask'[t].step \notin InLine
    BY <1>2 DEF InLine, CloseSteps
  <1>7. LinesAreOrdered'
    BY <1>0, <1>1, <1>2, <1>6, LineLeft
  <1>8. ASSUME NEW s \in PoolSession PROVE WishesMatch(s)' /\ WishesAreOwn(s)'
    <2>1. CASE s = z
      <3>1. WishesMatch(s)'
        BY <1>0, <1>1, <1>2, <1>4, <2>1, WishWithdrawn
      <3>2. WishesAreOwn(s)'
        BY <1>0, <1>2, <1>3, <1>4, <2>1, OwnRemoved
      <3> QED  BY <3>1, <3>2
    <2>2. CASE s # z
      <3>1. WishesMatch(s) /\ WishesAreOwn(s)
        BY DEF WishesAreKept
      <3> QED  BY <1>0, <1>1, <1>2, <1>4, <2>2, <3>1, WishElsewhere, OwnKept
    <2> QED  BY <2>1, <2>2
  <1>9. StoresAreApart'
    BY <1>0, <1>1, <1>2, StoresKept
  <1>10. TasksAreConsistent'
    <2>1. StepFits(t, ptask'[t])
      BY <1>0, <1>2 DEF StepFits
    <2> QED  BY <1>0, <1>1, <1>2, <2>1, PoolShape, TasksKept
  <1>11. CachedIsUsable'
    BY <1>1, CachedKept
  <1>12. ConnectionsAreOwned'
    <2>1. \A u \in Tasks : u # t => Held(u)' = Held(u)
      BY <1>2 DEF Held, Touches
    <2>2. k.servers = <<>>
      <3>0. k.want \in Seq(UNION {Range(f) : f \in Fleet})
        BY <1>0, PoolAssumption
      <3>1. k.failures \in Nat /\ ~ k.failures < Len(k.want) /\ Len(k.servers) \in Nat /\ Len(k.want) \in Nat
        BY <1>0, <3>0, RecordTypes DEF SomeConnected
      <3>2. Len(k.servers) = 0
        BY <1>1, <3>1
      <3> QED  BY <1>0, <3>2
    <2>3. Held(t) = {}
      BY <1>0, <2>2, RangeInSet
    <2>4. \A c \in Connection : Owned(c) => Owned(c)'
      BY <1>1, <2>1, <2>3 DEF Owned
    <2> QED  BY <1>1, <1>5, <2>4, OwnedForm, OwnedNext DEF Alive
  <1> QED  BY <1>5, <1>7, <1>8, <1>9, <1>10, <1>11, <1>12 DEF WishesAreKept

LEMMA StoreEntryStep ==
    ASSUME PoolInv, NEW t \in PoolTask, StoreEntry(t)
    PROVE  PoolInv'
  BY StoreEntryStores, StoreEntryFails

LEMMA PopEntryStep ==
    ASSUME PoolInv, NEW t \in PoolTask, PopEntry(t)
    PROVE  PoolInv'
  <1> USE DEF PoolInv
  <1> DEFINE k == ptask[t]
             z == k.session
             old == entries[z].servers
  <1>0. /\ t \in Tasks /\ k \in TaskRecord /\ ptask \in [Tasks -> TaskRecord]
        /\ k.op = "evict" /\ k.step = "wait" /\ HoldsSession(t)
        /\ entries' = [entries EXCEPT ![z] = NoEntry]
        /\ ptask' = [ptask EXCEPT ![t].step = "close_evicted", ![t].closing = Reverse(old)]
        /\ UNCHANGED <<queue, conn, wishes, orphans, poolFaults>>
    BY PoolShape DEF PopEntry, PoolTypeOK
  <1>1. k.step \in InLine /\ z \in PoolSession /\ queue[z] # <<>> /\ queue[z][1] = t
    <2>1. k.step \in InLine
      BY <1>0 DEF InLine
    <2> QED  BY <1>0, <2>1, LineHead
  <1>2. k.want = Deleted /\ k.closing = <<>>
    BY <1>0 DEF TasksAreConsistent, StepFits, CloseSteps
  <1>3. /\ Reverse(old) \in Seq(Connection) /\ Range(Reverse(old)) = Range(old)
        /\ \A c \in Range(old) : c \in Connection /\ c[1] \in PoolTask
    BY <1>1, ConnShape, RangeOfReverse
  <1>4. /\ Touches(t) /\ ptask'[t].step = "close_evicted" /\ ptask'[t].session = z
        /\ ptask'[t].op = k.op /\ ptask'[t].want = k.want
        /\ ptask'[t].closing = Reverse(old) /\ ptask'[t].servers = k.servers
    BY <1>0, <1>3 DEF Touches, TaskRecord, InLine, CloseSteps
  <1>5. /\ entries'[z] = NoEntry /\ \A s \in PoolSession : s # z => entries'[s] = entries[s]
        /\ NoEntry.fingerprint = <<>> /\ NoEntry.servers = <<>> /\ NoEntry \in Entry
        /\ Range(NoEntry.servers) = {}
    <2>1. <<>> \in Seq(Connection) /\ Range(<<>>) = {}
      BY DEF Range
    <2> QED  BY <1>0, <1>1, <2>1 DEF PoolTypeOK, Entry, NoEntry
  <1>6. PoolTypeOK'
    BY <1>0, <1>4, <1>5 DEF PoolTypeOK, Touches
  <1>7. ptask'[t].step \in InLine
    BY <1>4 DEF InLine, CloseSteps
  <1>8. LinesAreOrdered'
    BY <1>0, <1>1, <1>4, <1>7, LineKept
  <1>9. ASSUME NEW s \in PoolSession PROVE WishesMatch(s)' /\ WishesAreOwn(s)'
    <2>0. WishesMatch(s) /\ WishesAreOwn(s) /\ IsInjective(queue[s])
      BY DEF WishesAreKept, LinesAreOrdered
    <2>1. WishesMatch(s)'
      <3>1. CASE s = z
        BY <1>0, <1>1, <1>2, <1>4, <1>5, <2>0, <3>1, WishSettled
      <3>2. CASE s # z
        BY <1>0, <1>4, <1>5, <2>0, <3>2, WishElsewhere
      <3> QED  BY <3>1, <3>2
    <2>2. WishesAreOwn(s)'
      BY <1>0, <1>4, <2>0, OwnKept
    <2> QED  BY <2>1, <2>2
  <1>10. \A u \in PoolTask : PastConnect(u) => PastConnect(u)' /\ ptask'[u].session = ptask[u].session
    BY <1>0, <1>4, PoolShape DEF PastConnect, Touches
  <1> HIDE DEF old
  <1>11. \A c \in Range(old) : PastConnect(c[1]) /\ ptask[c[1]].session = z
    BY <1>1 DEF StoresAreApart, old
  <1>12. StoresAreApart'
    <2>1. \A s \in PoolSession : \A c \in Range(entries'[s].servers) :
             PastConnect(c[1])' /\ ptask'[c[1]].session = s
      BY <1>5, <1>10, ConnShape DEF StoresAreApart
    <2>2. ASSUME NEW c \in Range(old), NEW s \in PoolSession PROVE c \notin Range(entries'[s].servers)
      BY <1>5, <1>11 DEF StoresAreApart
    <2>3. \A s \in PoolSession : \A c \in Range(entries'[s].servers) : c \in Range(entries[s].servers)
      BY <1>5
    <2>4. \A u \in Tasks : u # t => \A c \in Range(ptask'[u].closing) :
             PastConnect(c[1])' /\ \A s \in PoolSession : c \notin Range(entries'[s].servers)
      BY <1>4, <1>10, <2>3, ConnShape DEF StoresAreApart, Touches
    <2>5. \A c \in Range(ptask'[t].closing) :
             PastConnect(c[1])' /\ \A s \in PoolSession : c \notin Range(entries'[s].servers)
      BY <1>3, <1>4, <1>10, <1>11, <2>2 DEF old
    <2> QED  BY <2>1, <2>4, <2>5 DEF StoresAreApart
  <1>13. TasksAreConsistent'
    <2>1. StepFits(t, ptask'[t])
      BY <1>0, <1>2, <1>4 DEF StepFits, CloseSteps
    <2> QED  BY <1>0, <1>4, <2>1, PoolShape, TasksKept
  <1>14. CachedIsUsable'
    BY <1>0, <1>5 DEF CachedIsUsable
  <1>15. ConnectionsAreOwned'
    <2>1. \A u \in Tasks : u # t => Held(u)' = Held(u)
      BY <1>4 DEF Held, Touches
    <2>2. Range(old) \subseteq Held(t)' /\ Held(t) = {}
      <3>1. Range(old) \subseteq Held(t)'
        BY <1>3, <1>4 DEF Held, old
      <3>2. Held(t) = {}
        BY <1>0, <1>2 DEF Held, Range
      <3> QED  BY <3>1, <3>2
    <2>3. \A c \in Connection : Owned(c) => Owned(c)'
      BY <1>0, <1>5, <2>1, <2>2 DEF Owned, old
    <2> QED  BY <1>0, <1>6, <2>3, OwnedForm, OwnedNext DEF Alive
  <1> QED  BY <1>6, <1>8, <1>9, <1>12, <1>13, <1>14, <1>15 DEF WishesAreKept

\* The connection at the head of a close loop: stored nowhere, and nobody's
\* who is still connecting.
LEMMA Closing ==
    ASSUME PoolInv, NEW t \in Tasks, ptask[t].closing # <<>>
    PROVE  LET c == Head(ptask[t].closing)
           IN  /\ c \in Connection /\ PastConnect(c[1])
               /\ \A s \in PoolSession : c \notin Range(entries[s].servers)
               /\ Range(ptask[t].closing) = Range(Tail(ptask[t].closing)) \cup {c}
               /\ Tail(ptask[t].closing) \in Seq(Connection)
  <1> USE DEF PoolInv
  <1>1. ptask[t].closing \in Seq(Connection)
    BY ConnShape
  <1>2. /\ Range(ptask[t].closing) = Range(Tail(ptask[t].closing)) \cup {Head(ptask[t].closing)}
        /\ Tail(ptask[t].closing) \in Seq(Connection) /\ Head(ptask[t].closing) \in Connection
    BY <1>1, RangeOfTail
  <1> QED  BY <1>2 DEF StoresAreApart

LEMMA CloseOneStep ==
    ASSUME PoolInv, NEW t \in Tasks, CloseOne(t)
    PROVE  PoolInv'
  <1> USE DEF PoolInv
  <1> DEFINE k == ptask[t]
             c == Head(k.closing)
  <1>0. /\ k \in TaskRecord /\ ptask \in [Tasks -> TaskRecord] /\ k.closing # <<>>
        /\ conn' = [conn EXCEPT ![c] = "closed"]
        /\ ptask' = [ptask EXCEPT ![t].closing = Tail(@)]
        /\ UNCHANGED <<entries, queue, wishes, orphans, poolFaults>>
    BY PoolShape DEF CloseOne, PoolTypeOK
  <1>1. /\ c \in Connection /\ PastConnect(c[1])
        /\ \A s \in PoolSession : c \notin Range(entries[s].servers)
        /\ Range(k.closing) = Range(Tail(k.closing)) \cup {c}
        /\ Tail(k.closing) \in Seq(Connection)
    BY <1>0, Closing
  <1>2. /\ Touches(t) /\ ptask'[t].step = k.step /\ ptask'[t].session = k.session
        /\ ptask'[t].op = k.op /\ ptask'[t].want = k.want
        /\ ptask'[t].closing = Tail(k.closing) /\ ptask'[t].servers = k.servers
        /\ ptask'[t].failures = k.failures
    BY <1>0, <1>1 DEF Touches, TaskRecord
  <1> HIDE DEF c
  <1>3. conn'[c] = "closed" /\ \A d \in Connection : d # c => conn'[d] = conn[d]
    BY <1>0, <1>1 DEF PoolTypeOK
  <1>4. PoolTypeOK'
    BY <1>0, <1>1, <1>2 DEF PoolTypeOK, Touches
  <1>5. LinesAreOrdered' /\ WishesAreKept' /\ StoresAreApart'
    BY <1>0, <1>1, <1>2, PoolQuietStep
  <1>6. \A u \in PoolTask : ptask[u].closing # <<>> => ptask[u].step \in CloseSteps
    BY DEF TasksAreConsistent, StepFits
  <1>7. t \in PoolTask => k.step # "connect"
    BY <1>0, <1>6 DEF CloseSteps
  <1>8. TasksAreConsistent'
    <2>1. t \in PoolTask => StepFits(t, ptask'[t])
      BY <1>0, <1>2, <1>6 DEF StepFits, TasksAreConsistent
    <2>2. t = ShutdownTask => /\ ptask'[t].closing # <<>> => ptask'[t].step = "close"
                              /\ ptask'[t].step \in {"new", "join", "close"}
      BY <1>0, <1>2 DEF TasksAreConsistent
    <2> QED  BY <1>1, <1>2, <1>3, <1>7, <2>1, <2>2, TasksKept
  <1>9. CachedIsUsable'
    <2>1. \A s \in PoolSession : \A d \in Range(entries[s].servers) : conn'[d] = conn[d]
      BY <1>1, <1>3, ConnShape
    <2> QED  BY <1>0, <2>1, CachedKept
  <1>10. ConnectionsAreOwned'
    <2>1. \A u \in Tasks : u # t => Held(u)' = Held(u)
      BY <1>2 DEF Held, Touches
    <2>2. Held(t) \subseteq Held(t)' \cup {c}
      BY <1>1, <1>2 DEF Held
    <2>3. \A d \in Connection : d # c /\ Owned(d) => Owned(d)'
      BY <1>0, <2>1, <2>2 DEF Owned
    <2>4. \A d \in Connection : Alive(d)' => d # c /\ Alive(d)
      BY <1>3 DEF Alive
    <2> QED  BY <1>4, <2>3, <2>4, OwnedForm, OwnedNext
  <1> QED  BY <1>4, <1>5, <1>8, <1>9, <1>10

\* What is known of a task of the line that closes.
LEMMA InCloseLoop ==
    ASSUME PoolInv, NEW t \in PoolTask, ptask[t].step \in CloseSteps
    PROVE  /\ t \in Tasks /\ ptask[t] \in TaskRecord /\ ptask \in [Tasks -> TaskRecord]
           /\ ptask[t].step \in InLine /\ ptask[t].session \in PoolSession
           /\ queue[ptask[t].session] # <<>> /\ queue[ptask[t].session][1] = t
           /\ ptask[t].op \in {"acquire", "evict"}
           /\ ptask[t].step = "close_stale" => ptask[t].op = "acquire"
           /\ ptask[t].op = "acquire" => ptask[t].want \in Fleet
           /\ ptask[t].op = "evict" => ptask[t].want = Deleted
           /\ Ahead(ptask[t].session) + 1 >= 0
           /\ entries[ptask[t].session].fingerprint =
                 Wish(wishes[ptask[t].session], Ahead(ptask[t].session) + 1)
           /\ Tail(queue[ptask[t].session]) \in Seq(PoolTask)
  <1> USE DEF PoolInv
  <1> DEFINE z == ptask[t].session
  <1>1. ptask[t].step \in InLine /\ t \in Tasks /\ ptask[t].step # "wait"
    BY PoolShape DEF InLine, CloseSteps
  <1>2. z \in PoolSession /\ queue[z] # <<>> /\ queue[z][1] = t
    BY <1>1, LineHead
  <1>3. /\ ptask[t].op \in {"acquire", "evict"}
        /\ ptask[t].step = "close_stale" => ptask[t].op = "acquire"
        /\ ptask[t].op = "acquire" => ptask[t].want \in Fleet
        /\ ptask[t].op = "evict" => ptask[t].want = Deleted
    BY DEF TasksAreConsistent, StepFits, CloseSteps
  <1>4. HeadStep(z) = ptask[t].step /\ Settled(z) = Ahead(z) + 1
    BY <1>2 DEF HeadStep, Settled
  <1>5. WishesMatch(z) /\ Ahead(z) \in Int
    BY <1>2, AheadIsInt DEF WishesAreKept
  <1>6. Ahead(z) + 1 >= 0 /\ entries[z].fingerprint = Wish(wishes[z], Ahead(z) + 1)
    BY <1>4, <1>5 DEF WishesMatch
  <1>7. Tail(queue[z]) \in Seq(PoolTask)
    BY <1>2, PoolShape, TailFacts
  <1> QED  BY <1>1, <1>2, <1>3, <1>6, <1>7, PoolShape DEF PoolTypeOK

LEMMA CloseDoneStep ==
    ASSUME PoolInv, NEW t \in PoolTask, CloseDone(t)
    PROVE  PoolInv'
  <1> USE DEF PoolInv
  <1> DEFINE k == ptask[t]
             z == k.session
  <1>1. /\ k.step \in CloseSteps /\ k.closing = <<>>
        /\ ptask' = [ptask EXCEPT ![t].step = IF @ = "close_stale" THEN "borrowed" ELSE "done"]
        /\ Leave(t) /\ UNCHANGED <<entries, conn, wishes, orphans, poolFaults>>
    BY DEF CloseDone, CloseSteps
  <1>2. /\ t \in Tasks /\ k \in TaskRecord /\ ptask \in [Tasks -> TaskRecord]
        /\ k.step \in InLine /\ z \in PoolSession /\ queue[z] # <<>> /\ queue[z][1] = t
        /\ k.op \in {"acquire", "evict"} /\ (k.step = "close_stale" => k.op = "acquire")
        /\ k.op = "acquire" => k.want \in Fleet
        /\ k.op = "evict" => k.want = Deleted
        /\ Ahead(z) + 1 >= 0 /\ entries[z].fingerprint = Wish(wishes[z], Ahead(z) + 1)
        /\ Tail(queue[z]) \in Seq(PoolTask)
    BY <1>1, InCloseLoop
  <1>3. /\ Touches(t) /\ ptask'[t].session = z /\ ptask'[t].op = k.op /\ ptask'[t].want = k.want
        /\ ptask'[t].closing = k.closing
        /\ ptask'[t].step = IF k.step = "close_stale" THEN "borrowed" ELSE "done"
    BY <1>1, <1>2 DEF Touches, TaskRecord
  <1>4. ptask'[t].step \in {"borrowed", "done"} /\ (ptask'[t].step = "borrowed" => k.op = "acquire")
    BY <1>2, <1>3
  <1>5. PoolTypeOK'
    BY <1>1, <1>2, <1>3 DEF PoolTypeOK, Leave, Touches
  <1>6. LinesAreOrdered' /\ WishesAreKept' /\ StoresAreApart'
    BY <1>1, <1>2, <1>3, <1>4, LeaveStep
  <1>7. TasksAreConsistent'
    <2>1. StepFits(t, ptask'[t])
      BY <1>1, <1>2, <1>3, <1>4 DEF StepFits
    <2> QED  BY <1>1, <1>2, <1>3, <1>4, <2>1, PoolShape, TasksKept
  <1>8. CachedIsUsable'
    BY <1>1, CachedKept
  <1>9. ConnectionsAreOwned'
    <2>1. \A u \in Tasks : u # t => Held(u)' = Held(u)
      BY <1>3 DEF Held, Touches
    <2>2. Held(t) = {}
      BY <1>1 DEF Held, Range, CloseSteps
    <2>3. \A c \in Connection : Owned(c) => Owned(c)'
      BY <1>1, <2>1, <2>2 DEF Owned
    <2> QED  BY <1>1, <1>5, <2>3, OwnedForm, OwnedNext DEF Alive
  <1> QED  BY <1>5, <1>6, <1>7, <1>8, <1>9

LEMMA CancelConnectStep ==
    ASSUME PoolInv, NEW t \in PoolTask, CancelConnect(t)
    PROVE  PoolInv'
  <1> USE DEF PoolInv
  <1> DEFINE k == ptask[t]
             z == k.session
  <1>0. /\ t \in Tasks /\ k \in TaskRecord /\ ptask \in [Tasks -> TaskRecord]
        /\ z \in PoolSession /\ queue[z] # <<>> /\ queue[z][1] = t /\ k.step \in InLine
        /\ k.op = "acquire" /\ k.want \in Fleet /\ k.closing = <<>>
        /\ k.servers \in Seq(Connection)
        /\ \A c \in Range(k.servers) : c \in Connection /\ c[1] = t /\ conn[c] # "closed"
        /\ ~ PastConnect(t) /\ WishesMatch(z) /\ WishesAreOwn(z)
        /\ Held(t) = Range(k.servers)
    BY Connecting DEF CancelConnect
  <1>1. /\ k.step = "connect"
        /\ ptask' = [ptask EXCEPT ![t].step = "close_partial", ![t].closing = Reverse(k.servers)]
        /\ Withdraw(t) /\ poolFaults' = poolFaults + 1
        /\ UNCHANGED <<entries, queue, conn, orphans>>
    BY DEF CancelConnect, Abandon
  <1>2. Reverse(k.servers) \in Seq(Connection) /\ Range(Reverse(k.servers)) = Range(k.servers)
    BY <1>0, RangeOfReverse
  <1>3. /\ Touches(t) /\ ptask'[t].step = "close_partial" /\ ptask'[t].session = z
        /\ ptask'[t].op = k.op /\ ptask'[t].want = k.want
        /\ ptask'[t].closing = Reverse(k.servers) /\ ptask'[t].servers = k.servers
    BY <1>0, <1>1, <1>2 DEF Touches, TaskRecord, InLine, CloseSteps
  <1>4. /\ Ahead(z) >= 0 /\ Ahead(z) + 1 \in DOMAIN wishes[z]
        /\ (CHOOSE i \in DOMAIN wishes[z] : wishes[z][i][1] = t) = Ahead(z) + 1
    BY <1>0, <1>1, WishPlace
  <1>5. /\ wishes' = [wishes EXCEPT ![z] = RemoveAt(wishes[z], Ahead(z) + 1)]
        /\ wishes'[z] = RemoveAt(wishes[z], Ahead(z) + 1)
        /\ \A s \in PoolSession : s # z => wishes'[s] = wishes[s]
    BY <1>0, <1>1, <1>4 DEF Withdraw, PoolTypeOK
  <1>6. PoolTypeOK'
    <2>1. RemoveAt(wishes[z], Ahead(z) + 1) \in Seq(PoolTask \X (Fleet \cup {Deleted}))
      <3>1. wishes[z] \in Seq(PoolTask \X (Fleet \cup {Deleted}))
        BY <1>0 DEF PoolTypeOK
      <3> QED  BY <1>4, <3>1, RemoveAtFacts
    <2>2. poolFaults' \in Nat
      <3>1. poolFaults \in Nat
        BY DEF PoolTypeOK
      <3> QED  BY <1>1, <3>1
    <2> QED  BY <1>1, <1>3, <1>5, <2>1, <2>2 DEF PoolTypeOK, Touches
  <1>7. ptask'[t].step \in InLine
    BY <1>3 DEF InLine, CloseSteps
  <1>8. LinesAreOrdered'
    BY <1>0, <1>1, <1>3, <1>7, LineKept
  <1>9. ASSUME NEW s \in PoolSession PROVE WishesMatch(s)' /\ WishesAreOwn(s)'
    <2>1. CASE s = z
      <3>1. WishesMatch(s)'
        BY <1>0, <1>1, <1>3, <1>5, <2>1, WishWithdrawn
      <3>2. WishesAreOwn(s)'
        BY <1>0, <1>3, <1>4, <1>5, <2>1, OwnRemoved
      <3> QED  BY <3>1, <3>2
    <2>2. CASE s # z
      <3>1. WishesMatch(s) /\ WishesAreOwn(s)
        BY DEF WishesAreKept
      <3> QED  BY <1>0, <1>1, <1>3, <1>5, <2>2, <3>1, WishElsewhere, OwnKept
    <2> QED  BY <2>1, <2>2
  <1>10. PastConnect(t)' /\ \A u \in PoolTask : PastConnect(u) => u # t /\ PastConnect(u)' /\ ptask'[u] = ptask[u]
    BY <1>0, <1>3, PoolShape DEF PastConnect, Touches
  <1>11. StoresAreApart'
    <2>1. \A s \in PoolSession : \A c \in Range(entries[s].servers) :
             c[1] # t /\ PastConnect(c[1])' /\ ptask'[c[1]].session = s
      BY <1>10, ConnShape DEF StoresAreApart
    <2>2. \A u \in Tasks : u # t => \A c \in Range(ptask'[u].closing) :
             PastConnect(c[1])' /\ \A s \in PoolSession : c \notin Range(entries[s].servers)
      BY <1>3, <1>10, ConnShape DEF StoresAreApart, Touches
    <2>3. \A c \in Range(ptask'[t].closing) :
             PastConnect(c[1])' /\ \A s \in PoolSession : c \notin Range(entries[s].servers)
      BY <1>0, <1>2, <1>3, <1>10, <2>1
    <2> QED  BY <1>1, <2>1, <2>2, <2>3 DEF StoresAreApart
  <1>12. TasksAreConsistent'
    <2>1. StepFits(t, ptask'[t])
      BY <1>0, <1>3 DEF StepFits, CloseSteps
    <2> QED  BY <1>0, <1>1, <1>3, <2>1, PoolShape, TasksKept
  <1>13. CachedIsUsable'
    BY <1>1, CachedKept
  <1>14. ConnectionsAreOwned'
    <2>1. \A u \in Tasks : u # t => Held(u)' = Held(u)
      BY <1>3 DEF Held, Touches
    <2>2. Held(t) \subseteq Held(t)'
      BY <1>0, <1>2, <1>3 DEF Held
    <2>3. \A c \in Connection : Owned(c) => Owned(c)'
      BY <1>1, <2>1, <2>2 DEF Owned
    <2> QED  BY <1>1, <1>6, <2>3, OwnedForm, OwnedNext DEF Alive
  <1> QED  BY <1>6, <1>8, <1>9, <1>11, <1>12, <1>13, <1>14 DEF WishesAreKept

LEMMA CancelCloseStep ==
    ASSUME PoolInv, NEW t \in PoolTask, CancelClose(t)
    PROVE  PoolInv'
  <1> USE DEF PoolInv
  <1> DEFINE k == ptask[t]
             z == k.session
             c == Head(k.closing)
  <1>0. /\ k.closing # <<>> /\ poolFaults' = poolFaults + 1
        /\ conn' = [conn EXCEPT ![c] = "closed"]
        /\ orphans' = orphans \cup Range(Tail(k.closing))
        /\ ptask' = [ptask EXCEPT ![t].step = "done", ![t].closing = <<>>]
        /\ Leave(t) /\ UNCHANGED <<entries, wishes>>
    BY DEF CancelClose
  <1>1. k.step \in CloseSteps
    BY <1>0 DEF TasksAreConsistent, StepFits
  <1>2. /\ t \in Tasks /\ k \in TaskRecord /\ ptask \in [Tasks -> TaskRecord]
        /\ k.step \in InLine /\ z \in PoolSession /\ queue[z] # <<>> /\ queue[z][1] = t
        /\ k.op \in {"acquire", "evict"}
        /\ k.op = "acquire" => k.want \in Fleet
        /\ k.op = "evict" => k.want = Deleted
        /\ Ahead(z) + 1 >= 0 /\ entries[z].fingerprint = Wish(wishes[z], Ahead(z) + 1)
        /\ Tail(queue[z]) \in Seq(PoolTask)
    BY <1>1, InCloseLoop
  <1>3. /\ c \in Connection /\ PastConnect(c[1])
        /\ \A s \in PoolSession : c \notin Range(entries[s].servers)
        /\ Range(k.closing) = Range(Tail(k.closing)) \cup {c}
        /\ Tail(k.closing) \in Seq(Connection)
    BY <1>0, <1>2, Closing
  <1>4. <<>> \in Seq(Connection) /\ Range(<<>>) = {}
    BY DEF Range
  <1>5. /\ Touches(t) /\ ptask'[t].session = z /\ ptask'[t].op = k.op /\ ptask'[t].want = k.want
        /\ ptask'[t].closing = <<>> /\ ptask'[t].step = "done"
    BY <1>0, <1>2, <1>4 DEF Touches, TaskRecord
  <1> HIDE DEF c
  <1>6. conn'[c] = "closed" /\ \A d \in Connection : d # c => conn'[d] = conn[d]
    BY <1>0, <1>3 DEF PoolTypeOK
  <1>7. PoolTypeOK'
    <2>1. poolFaults' \in Nat
      <3>1. poolFaults \in Nat
        BY DEF PoolTypeOK
      <3> QED  BY <1>0, <3>1
    <2>2. orphans' \in SUBSET Connection
      <3>1. \A d \in Range(Tail(k.closing)) : d \in Connection
        BY <1>3, RangeInSet
      <3> QED  BY <1>0, <3>1 DEF PoolTypeOK
    <2>3. queue' \in [PoolSession -> Seq(PoolTask)]
      BY <1>0, <1>2 DEF PoolTypeOK, Leave
    <2>4. conn' \in [Connection -> {"none", "open", "dead", "closed"}]
      BY <1>0 DEF PoolTypeOK
    <2> QED  BY <1>0, <1>5, <2>1, <2>2, <2>3, <2>4 DEF PoolTypeOK, Touches
  <1>8. LinesAreOrdered' /\ WishesAreKept' /\ StoresAreApart'
    BY <1>0, <1>2, <1>4, <1>5, LeaveStep
  <1>9. TasksAreConsistent'
    <2>1. StepFits(t, ptask'[t])
      BY <1>2, <1>5 DEF StepFits
    <2> QED  BY <1>2, <1>3, <1>5, <1>6, <2>1, PoolShape, TasksKept
  <1>10. CachedIsUsable'
    <2>1. \A s \in PoolSession : \A d \in Range(entries[s].servers) : conn'[d] = conn[d]
      BY <1>3, <1>6, ConnShape
    <2> QED  BY <1>0, <2>1, CachedKept
  <1>11. ConnectionsAreOwned'
    <2>1. \A u \in Tasks : u # t => Held(u)' = Held(u)
      BY <1>5 DEF Held, Touches
    <2>2. Held(t) = Range(Tail(k.closing)) \cup {c}
      BY <1>1, <1>3 DEF Held, CloseSteps
    <2>3. \A d \in Connection : d # c /\ Owned(d) => Owned(d)'
      BY <1>0, <2>1, <2>2 DEF Owned
    <2>4. \A d \in Connection : Alive(d)' => d # c /\ Alive(d)
      BY <1>6 DEF Alive
    <2> QED  BY <1>7, <2>3, <2>4, OwnedForm, OwnedNext
  <1> QED  BY <1>7, <1>8, <1>9, <1>10, <1>11

LEMMA ServerDiesStep ==
    ASSUME PoolInv, NEW c \in Connection, ServerDies(c)
    PROVE  PoolInv'
  <1> USE DEF PoolInv
  <1>0. /\ conn[c] = "open" /\ poolFaults' = poolFaults + 1
        /\ conn' = [conn EXCEPT ![c] = "dead"]
        /\ UNCHANGED <<entries, queue, ptask, wishes, orphans>>
    BY DEF ServerDies
  <1>1. conn'[c] = "dead" /\ \A d \in Connection : d # c => conn'[d] = conn[d]
    BY <1>0 DEF PoolTypeOK
  <1>2. PoolTypeOK'
    <2>1. poolFaults' \in Nat
      <3>1. poolFaults \in Nat
        BY DEF PoolTypeOK
      <3> QED  BY <1>0, <3>1
    <2> QED  BY <1>0, <2>1 DEF PoolTypeOK
  <1>3. LinesAreOrdered' /\ StoresAreApart'
    BY <1>0 DEF LinesAreOrdered, StoresAreApart, PastConnect
  <1>4. WishesAreKept'
    BY <1>0 DEF WishesAreKept, WishesMatch, WishesAreOwn, Ahead, HeadStep, Settled
  <1>5. TasksAreConsistent'
    <2>1. \A t \in PoolTask : \A d \in Range(ptask[t].servers) : d \in Connection
      BY ConnShape, PoolShape
    <2> QED  BY <1>0, <1>1, <2>1 DEF TasksAreConsistent
  <1>6. CachedIsUsable'
    BY <1>0, <1>1, ConnShape, CachedKept
  <1>7. ConnectionsAreOwned'
    <2>1. \A d \in Connection : Alive(d)' => Alive(d)
      BY <1>0, <1>1 DEF Alive
    <2>2. \A d \in Connection : Owned(d) => Owned(d)'
      BY <1>0 DEF Owned, Held
    <2> QED  BY <1>2, <2>1, <2>2, OwnedForm, OwnedNext
  <1> QED  BY <1>2, <1>3, <1>4, <1>5, <1>6, <1>7

LEMMA CallFailsStep ==
    ASSUME PoolInv, NEW t \in PoolTask, CallFails(t)
    PROVE  PoolInv'
  <1> USE DEF PoolInv
  <1>0. /\ t \in Tasks /\ ptask[t] \in TaskRecord /\ ptask \in [Tasks -> TaskRecord]
        /\ ptask[t].step = "borrowed" /\ ptask' = [ptask EXCEPT ![t].step = "failed"]
        /\ UNCHANGED <<entries, queue, conn, wishes, orphans, poolFaults>>
    BY PoolShape DEF CallFails, PoolTypeOK
  <1>1. /\ Touches(t) /\ ptask'[t].step = "failed" /\ ptask'[t].session = ptask[t].session
        /\ ptask'[t].op = ptask[t].op /\ ptask'[t].want = ptask[t].want
        /\ ptask'[t].closing = ptask[t].closing
    BY <1>0 DEF Touches, TaskRecord
  <1>2. /\ ptask[t].op = "acquire" /\ ptask[t].want \in Fleet /\ ptask[t].closing = <<>>
    BY <1>0 DEF TasksAreConsistent, StepFits, CloseSteps
  <1>3. PoolTypeOK'
    BY <1>0, <1>1 DEF PoolTypeOK, Touches
  <1>4. LinesAreOrdered' /\ WishesAreKept' /\ StoresAreApart'
    BY <1>0, <1>1, PoolQuietStep
  <1>5. TasksAreConsistent'
    <2>1. StepFits(t, ptask'[t])
      BY <1>1, <1>2 DEF StepFits
    <2> QED  BY <1>0, <1>1, <2>1, PoolShape, TasksKept
  <1>6. CachedIsUsable'
    BY <1>0, CachedKept
  <1>7. ConnectionsAreOwned'
    <2>1. \A u \in Tasks : Held(u) \subseteq Held(u)'
      BY <1>0, <1>1 DEF Held, Touches
    <2>2. \A c \in Connection : Owned(c) => Owned(c)'
      BY <1>0, <2>1 DEF Owned
    <2> QED  BY <1>0, <1>3, <2>2, OwnedForm, OwnedNext DEF Alive
  <1> QED  BY <1>3, <1>4, <1>5, <1>6, <1>7

LEMMA ShutdownJoinStep ==
    ASSUME PoolInv, ShutdownJoin
    PROVE  PoolInv'
  <1> USE DEF PoolInv
  <1> DEFINE t == ShutdownTask
  <1>0. /\ t \in Tasks /\ t \notin PoolTask
        /\ ptask[t] \in TaskRecord /\ ptask \in [Tasks -> TaskRecord]
        /\ ptask[t].step = "new" /\ ptask' = [ptask EXCEPT ![t].step = "join"]
        /\ UNCHANGED <<entries, queue, conn, wishes, orphans, poolFaults>>
    BY PoolShape DEF ShutdownJoin, PoolTypeOK
  <1>1. /\ Touches(t) /\ ptask'[t].step = "join" /\ ptask'[t].session = ptask[t].session
        /\ ptask'[t].op = ptask[t].op /\ ptask'[t].want = ptask[t].want
        /\ ptask'[t].closing = ptask[t].closing
    BY <1>0 DEF Touches, TaskRecord
  <1>2. ptask[t].closing = <<>>
    BY <1>0 DEF TasksAreConsistent
  <1>3. PoolTypeOK'
    BY <1>0, <1>1 DEF PoolTypeOK, Touches
  <1>4. LinesAreOrdered' /\ WishesAreKept' /\ StoresAreApart'
    BY <1>0, <1>1, PoolQuietStep
  <1>5. TasksAreConsistent'
    BY <1>0, <1>1, <1>2, TasksKept
  <1>6. CachedIsUsable'
    BY <1>0, CachedKept
  <1>7. ConnectionsAreOwned'
    <2>1. \A u \in Tasks : Held(u) \subseteq Held(u)'
      BY <1>0, <1>1 DEF Held, Touches
    <2>2. \A c \in Connection : Owned(c) => Owned(c)'
      BY <1>0, <2>1 DEF Owned
    <2> QED  BY <1>0, <1>3, <2>2, OwnedForm, OwnedNext DEF Alive
  <1> QED  BY <1>3, <1>4, <1>5, <1>6, <1>7

\* What the pool has stored is finite, so that it can be listed.
LEMMA StoredIsFinite ==
    ASSUME PoolTypeOK
    PROVE  IsFiniteSet(UNION {Range(entries[s].servers) : s \in PoolSession})
  <1> DEFINE g == [s \in PoolSession |-> Range(entries[s].servers)]
             T == {Range(entries[s].servers) : s \in PoolSession}
  <1>1. g \in Surjection(PoolSession, T)
    BY DEF Surjection
  <1>2. IsFiniteSet(T)
    <2>1. IsFiniteSet(PoolSession)
      BY PoolAssumption
    <2> HIDE DEF g, T
    <2> QED  BY <1>1, <2>1, FS_Surjection
  <1>3. ASSUME NEW s \in PoolSession PROVE IsFiniteSet(Range(entries[s].servers))
    <2> DEFINE q == entries[s].servers
               n == Len(q)
    <2>1. q \in Seq(Connection)
      BY ConnShape
    <2>2. n \in Nat /\ DOMAIN q = 1 .. n /\ q \in [1 .. n -> Connection]
      BY <2>1
    <2> HIDE DEF q, n
    <2>3. q \in Surjection(1 .. n, Range(q))
      BY <2>2 DEF Surjection, Range
    <2>4. IsFiniteSet(1 .. n)
      BY <2>2, FS_Interval
    <2>5. IsFiniteSet(Range(q))
      BY <2>3, <2>4, FS_Surjection
    <2> QED  BY <2>5 DEF q
  <1>4. \A R \in T : IsFiniteSet(R)
    BY <1>3
  <1> HIDE DEF T
  <1>5. IsFiniteSet(UNION T)
    BY <1>2, <1>4, FS_UNION
  <1> QED  BY <1>5 DEF T

LEMMA ShutdownClearStep ==
    ASSUME PoolInv, ShutdownClear
    PROVE  PoolInv'
  <1> USE DEF PoolInv
  <1> DEFINE t == ShutdownTask
             A == UNION {Range(entries[s].servers) : s \in PoolSession}
  <1>0. /\ t \in Tasks /\ t \notin PoolTask
        /\ ptask[t] \in TaskRecord /\ ptask \in [Tasks -> TaskRecord]
        /\ ptask[t].step = "join" /\ \A s \in PoolSession : queue[s] = <<>>
        /\ ptask' = [ptask EXCEPT ![t].step = "close", ![t].closing = SetToSeq(A)]
        /\ entries' = [s \in PoolSession |-> NoEntry]
        /\ wishes' = [s \in PoolSession |-> <<>>]
        /\ UNCHANGED <<queue, conn, orphans, poolFaults>>
    BY PoolShape DEF ShutdownClear, PoolTypeOK
  <1>1. \A c \in A : c \in Connection /\ PastConnect(c[1])
    BY ConnShape DEF StoresAreApart
  <1>2. SetToSeq(A) \in Seq(A) /\ Range(SetToSeq(A)) = A
    BY StoredIsFinite, RangeOfSetToSeq
  <1>3. \A s \in PoolSession : \A c \in Range(entries[s].servers) : c \in A
    OBVIOUS
  <1> HIDE DEF A
  <1>4. SetToSeq(A) \in Seq(Connection)
    <2>1. A \subseteq Connection
      BY <1>1
    <2> QED  BY <1>2, <2>1
  <1>5. /\ Touches(t) /\ ptask'[t].step = "close" /\ ptask'[t].session = ptask[t].session
        /\ ptask'[t].closing = SetToSeq(A)
    BY <1>0, <1>4 DEF Touches, TaskRecord
  <1>6. ptask[t].closing = <<>>
    BY <1>0 DEF TasksAreConsistent
  <1>7. \A s \in PoolSession : /\ entries'[s] = NoEntry /\ wishes'[s] = <<>> /\ queue'[s] = <<>>
                               /\ entries'[s].fingerprint = <<>> /\ Range(entries'[s].servers) = {}
    BY <1>0 DEF NoEntry, Range
  <1>8. PoolTypeOK'
    <2>1. NoEntry \in Entry
      <3>1. <<>> \in Seq(Connection)
        OBVIOUS
      <3> QED  BY <3>1 DEF NoEntry, Entry
    <2>2. wishes' \in [PoolSession -> Seq(PoolTask \X (Fleet \cup {Deleted}))]
      BY <1>0
    <2>3. entries' \in [PoolSession -> Entry]
      BY <1>0, <2>1
    <2> QED  BY <1>0, <1>5, <2>2, <2>3 DEF PoolTypeOK, Touches
  <1>9. LinesAreOrdered'
    BY <1>0, <1>5, LineKept
  <1>10. ASSUME NEW s \in PoolSession PROVE WishesMatch(s)' /\ WishesAreOwn(s)'
    <2>1. Ahead(s)' = 0 /\ HeadStep(s)' = "none"
      BY <1>7 DEF Ahead, HeadStep
    <2>2. Settled(s)' = 0 /\ Wish(wishes'[s], 0) = <<>>
      BY <2>1 DEF Settled, CloseSteps, Wish
    <2>3. WishesMatch(s)'
      BY <1>7, <2>1, <2>2 DEF WishesMatch
    <2>4. WishesAreOwn(s)'
      BY <1>7 DEF WishesAreOwn
    <2> QED  BY <2>3, <2>4
  <1>11. \A u \in PoolTask : PastConnect(u) => PastConnect(u)'
    BY <1>0, <1>5, PoolShape DEF PastConnect, Touches
  <1>12. StoresAreApart'
    <2>1. \A u \in Tasks : u # t => \A c \in Range(ptask'[u].closing) : PastConnect(c[1])'
      BY <1>5, <1>11, ConnShape DEF StoresAreApart, Touches
    <2>2. \A c \in Range(ptask'[t].closing) : PastConnect(c[1])'
      BY <1>1, <1>2, <1>5, <1>11, ConnShape
    <2> QED  BY <1>7, <2>1, <2>2 DEF StoresAreApart
  <1>13. TasksAreConsistent'
    BY <1>0, <1>5, TasksKept
  <1>14. CachedIsUsable'
    BY <1>7 DEF CachedIsUsable
  <1>15. ConnectionsAreOwned'
    <2>1. \A u \in Tasks : u # t => Held(u)' = Held(u)
      BY <1>5 DEF Held, Touches
    <2>2. Held(t) = {} /\ A \subseteq Held(t)'
      <3>1. Held(t) = {}
        BY <1>0, <1>6 DEF Held, Range
      <3>2. A \subseteq Held(t)'
        BY <1>2, <1>5 DEF Held
      <3> QED  BY <3>1, <3>2
    <2>3. \A c \in Connection : Owned(c) => Owned(c)'
      BY <1>0, <1>3, <2>1, <2>2 DEF Owned
    <2> QED  BY <1>0, <1>8, <2>3, OwnedForm, OwnedNext DEF Alive
  <1> QED  BY <1>8, <1>9, <1>10, <1>12, <1>13, <1>14, <1>15 DEF WishesAreKept

-----------------------------------------------------------------------------
(* The theorems                                                            *)

LEMMA PoolInitially ==
    PoolInit => PoolInv
  <1> SUFFICES ASSUME PoolInit PROVE PoolInv
    OBVIOUS
  <1>0. /\ \A s \in PoolSession : /\ entries[s] = NoEntry /\ queue[s] = <<>> /\ wishes[s] = <<>>
                                  /\ entries[s].fingerprint = <<>> /\ entries[s].servers = <<>>
        /\ \A t \in Tasks : ptask[t] = NewTask
        /\ \A c \in Connection : conn[c] = "none"
        /\ ShutdownTask \in Tasks /\ \A t \in PoolTask : t \in Tasks
    BY DEF PoolInit, Tasks, NoEntry
  <1>1. PoolTypeOK
    <2>1. NoEntry \in Entry
      <3>1. <<>> \in Seq(Connection)
        OBVIOUS
      <3> QED  BY <3>1 DEF NoEntry, Entry
    <2>2. <<>> \in Seq(PoolTask) /\ <<>> \in Seq(PoolTask \X (Fleet \cup {Deleted}))
      OBVIOUS
    <2> QED  BY <2>1, <2>2, NewTaskRecord DEF PoolInit, PoolTypeOK, Tasks
  <1>2. NewTask.step = "new" /\ NewTask.op = "none" /\ Range(NewTask.closing) = {} /\ Range(<<>>) = {}
    BY DEF NewTask, Range
  <1>3. LinesAreOrdered
    BY <1>0, <1>2 DEF LinesAreOrdered, IsInjective, InLine, CloseSteps
  <1>4. TasksAreConsistent
    <2>1. \A t \in PoolTask : StepFits(t, NewTask)
      BY <1>2, NewTaskRecord DEF StepFits
    <2> QED  BY <1>0, <1>2, <2>1, NewTaskRecord DEF TasksAreConsistent
  <1>5. StoresAreApart
    BY <1>0, <1>2 DEF StoresAreApart
  <1>6. WishesAreKept
    <2> SUFFICES ASSUME NEW s \in PoolSession PROVE WishesMatch(s) /\ WishesAreOwn(s)
      BY DEF WishesAreKept
    <2>1. Ahead(s) = 0 /\ HeadStep(s) = "none"
      BY <1>0 DEF Ahead, HeadStep
    <2>2. Settled(s) = 0 /\ Wish(wishes[s], 0) = <<>>
      BY <2>1 DEF Settled, CloseSteps, Wish
    <2> QED  BY <1>0, <2>1, <2>2 DEF WishesMatch, WishesAreOwn
  <1>7. ConnectionsAreOwned
    BY <1>0 DEF ConnectionsAreOwned
  <1>8. CachedIsUsable
    BY <1>0 DEF CachedIsUsable
  <1> QED  BY <1>1, <1>3, <1>4, <1>5, <1>6, <1>7, <1>8 DEF PoolInv

LEMMA PoolStep ==
    PoolInv /\ [PoolNext]_poolVars => PoolInv'
  <1> SUFFICES ASSUME PoolInv, [PoolNext]_poolVars PROVE PoolInv'
    OBVIOUS
  <1>1. CASE UNCHANGED poolVars
    BY <1>1 DEF poolVars, PoolInv, PoolTypeOK, LinesAreOrdered, TasksAreConsistent, StoresAreApart,
                WishesAreKept, WishesMatch, WishesAreOwn, Ahead, HeadStep, Settled, PastConnect,
                ConnectionsAreOwned, Held, CachedIsUsable
  <1>2. ASSUME NEW t \in PoolTask, NEW s \in PoolSession, NEW want \in Fleet \cup {Deleted}, Join(t, s, want)
        PROVE  PoolInv'
    BY <1>2, JoinStep
  <1>3. ASSUME NEW t \in PoolTask,
               \/ CheckEntry(t) \/ ConnectServer(t) \/ StoreEntry(t) \/ PopEntry(t)
               \/ CloseDone(t) \/ CancelConnect(t) \/ CancelClose(t) \/ CallFails(t)
        PROVE  PoolInv'
    BY <1>3, CheckEntryStep, ConnectServerStep, StoreEntryStep, PopEntryStep, CloseDoneStep,
       CancelConnectStep, CancelCloseStep, CallFailsStep
  <1>4. ASSUME NEW t \in PoolTask \cup {ShutdownTask}, CloseOne(t)
        PROVE  PoolInv'
    <2>1. t \in Tasks
      BY DEF Tasks
    <2> QED  BY <1>4, <2>1, CloseOneStep
  <1>5. ASSUME NEW c \in Connection, ServerDies(c)
        PROVE  PoolInv'
    BY <1>5, ServerDiesStep
  <1>6. CASE ShutdownJoin \/ ShutdownClear
    BY <1>6, ShutdownJoinStep, ShutdownClearStep
  <1> QED  BY <1>1, <1>2, <1>3, <1>4, <1>5, <1>6 DEF PoolNext

\* The pool keeps its inductive invariant: lines are served in the order of
\* joining, the entry of a session is the latest settled wish, and a connection
\* has one place (acquire, evict, release and close of MCPClientSessionPool).
THEOREM PoolInvariant == PoolSpec => []PoolInv
  BY PoolInitially, PoolStep, PTL DEF PoolSpec

\* For every number of sessions, turns and servers: a connection that is open
\* has an owner (or was lost by a cancelled close loop), a session nobody waits
\* for reflects the last join, and no closed connection is cached.
THEOREM PoolIsAlwaysSound == PoolSpec => []PoolIsSound
  <1>1. PoolInv => PoolIsSound
    <2> SUFFICES ASSUME PoolInv PROVE LastJoinWins
      BY DEF PoolIsSound, PoolInv
    <2> USE DEF PoolInv
    <2> SUFFICES ASSUME NEW s \in PoolSession, queue[s] = <<>>
                 PROVE  entries[s].fingerprint =
                           IF wishes[s] = <<>> \/ Last(wishes[s])[2] = Deleted
                           THEN <<>> ELSE Last(wishes[s])[2]
      BY DEF LastJoinWins
    <2>1. wishes[s] \in Seq(PoolTask \X (Fleet \cup {Deleted})) /\ Len(queue[s]) = 0
      BY DEF PoolTypeOK
    <2>2. Len(wishes[s]) \in Nat /\ (wishes[s] = <<>> <=> Len(wishes[s]) = 0)
      BY <2>1
    <2>3. Ahead(s) = Len(wishes[s]) /\ HeadStep(s) = "none"
      BY <2>1, <2>2 DEF Ahead, HeadStep
    <2>4. Settled(s) = Len(wishes[s])
      BY <2>2, <2>3 DEF Settled, CloseSteps
    <2>5. entries[s].fingerprint = Wish(wishes[s], Len(wishes[s]))
      BY <2>4 DEF WishesAreKept, WishesMatch
    <2> QED  BY <2>2, <2>5 DEF Wish, Last
  <1> QED  BY <1>1, PoolInvariant, PTL

-----------------------------------------------------------------------------
(***************************************************************************)
(* One model call                                                          *)
(***************************************************************************)
UsageKeys == {"in", "out"}
HeardEvent ==
    [type : {"created", "text", "reasoning"}, post : Nat]
        \cup [type : {"usage"}, post : Nat, keys : SUBSET UsageKeys]
        \cup [type : {"call"}, post : Nat, index : Nat, head : BOOLEAN, part : Nat]
        \cup [type : {"completed"}, post : Nat, finish : {"none", "stop", "length"}]
SseRecord ==
    [heard : Seq(HeardEvent), content : BOOLEAN, created : BOOLEAN, pending : Seq(HeardEvent),
     usage : SUBSET UsageKeys, emitted : BOOLEAN, finish : {"none", "stop", "length"}]
Generation == [stream : BOOLEAN, ok : BOOLEAN, usage : [post : Nat, keys : SUBSET UsageKeys]]

ProviderTypeOK ==
    /\ callMode \in {"stream", "events", "plain"}
    /\ callStage \in {"send", "reading", "backoff", "returned", "chat", "chatBackoff", "answered",
                      "raised", "contextLimit", "abandoned"}
    /\ tryNumber \in Nat /\ posted \in Nat /\ clientCalls \in Nat
    /\ sse \in SseRecord
    /\ generations \in Seq(Generation)

IsContent(e) == e.type \in {"text", "reasoning", "call"}
OnePost(s, p) == \A k \in DOMAIN s.heard : s.heard[k].post = p
OneCreated(s) ==
    \E k \in DOMAIN s.heard : \A j \in DOMAIN s.heard : s.heard[j].type = "created" <=> j = k

\* The usage events an attempt holds back are its own.
PendingIsOwn(s, p) == \A k \in DOMAIN s.pending : s.pending[k].type = "usage" /\ s.pending[k].post = p

\* An attempt that has not yielded content has yielded nothing; one that has,
\* has announced itself first, and only once.
AttemptFits(s, p) ==
    /\ OnePost(s, p) /\ PendingIsOwn(s, p) /\ ~ Completed(s)
    /\ s.created = s.content
    /\ ~ s.content => s.heard = <<>>
    /\ s.content => OneCreated(s) /\ \E k \in DOMAIN s.heard : IsContent(s.heard[k])

\* What was heard, by where the call stands.
StageFits ==
    /\ callStage \in {"send", "backoff", "chat", "chatBackoff"} => sse.heard = <<>>
    /\ callStage = "backoff" => tryNumber < MaxRetries - 1
    /\ callStage \in {"send", "reading", "backoff"} => callMode = "stream"
    /\ callStage = "reading" => AttemptFits(sse, posted)
    /\ callStage = "returned" => callMode # "plain" /\ OnePost(sse, posted) /\ Completed(sse) /\ OneCreated(sse)

\* Only a response turned into events has its record before it is over.
Recorded == CallOver \/ (callStage = "returned" /\ callMode = "events")
RecordsFit ==
    /\ Len(generations) + (IF Recorded THEN 0 ELSE 1) = clientCalls
    /\ \A k \in DOMAIN generations : generations[k].ok => Recorded /\ k = Len(generations)
    /\ callStage = "returned" /\ callMode = "events" =>
          /\ Len(generations) > 0
          /\ Last(generations).ok /\ Last(generations).usage = LastUsage(sse)

ProviderInv ==
    /\ ProviderTypeOK /\ StageFits /\ RecordsFit
    /\ modelReply # NoReply => callStage = "answered"
    /\ AnswerIsFaithful

-----------------------------------------------------------------------------
(* Operators                                                               *)

LEMMA EventShape ==
    ASSUME NEW e \in HeardEvent
    PROVE  e.post \in Nat /\ e.type \in {"created", "text", "reasoning", "usage", "call", "completed"}
           /\ (e.type = "usage" => e.keys \in SUBSET UsageKeys)
  BY DEF HeardEvent

LEMMA EventTypes ==
    ASSUME ProviderTypeOK
    PROVE  /\ \A t \in {"created", "text", "reasoning"} : ProviderEvent(t) \in HeardEvent
           /\ \A keys \in SUBSET UsageKeys : UsageEvent(keys) \in HeardEvent
           /\ \A i \in Nat, head \in BOOLEAN, part \in Nat : CallEvent(i, head, part) \in HeardEvent
  BY DEF ProviderTypeOK, ProviderEvent, UsageEvent, CallEvent, HeardEvent

\* The last of some places of a sequence.
LEMMA MaxIsLast ==
    ASSUME NEW n \in Nat, NEW S \in SUBSET (1 .. n), S # {}
    PROVE  Max(S) \in S /\ \A j \in S : j <= Max(S)
  <1> DEFINE behind == {n - i : i \in S}
  <1>0. \A i \in S : i \in 1 .. n /\ n - i \in Nat
    OBVIOUS
  <1>1. behind \subseteq Nat /\ behind # {}
    BY <1>0
  <1>2. PICK x \in behind : \A y \in behind : ~ (<<y, x>> \in OpToRel(<, Nat))
    BY <1>1, NatLessThanWellFounded, WFMin
  <1>3. \A y \in behind : ~ (y < x)
    BY <1>1, <1>2 DEF OpToRel
  <1>4. PICK k \in S : x = n - k
    OBVIOUS
  <1>5. \A j \in S : k >= j
    BY <1>0, <1>3, <1>4
  <1>6. Max(S) \in S /\ \A j \in S : Max(S) >= j
    BY <1>5, Zenon DEF Max
  <1> QED BY <1>0, <1>6

\* What is recorded as the usage was heard, or nothing was.
LEMMA LastUsageHeard ==
    ASSUME NEW s \in SseRecord
    PROVE  /\ LastUsage(s) \in [post : Nat, keys : SUBSET UsageKeys]
           /\ LastUsage(s).post = 0 \/ \E k \in DOMAIN s.heard : LastUsage(s).post = s.heard[k].post
  <1>1. s.heard \in Seq(HeardEvent)
    BY DEF SseRecord
  <1>2. DOMAIN s.heard = 1 .. Len(s.heard) /\ Len(s.heard) \in Nat
        /\ \A k \in DOMAIN s.heard : s.heard[k] \in HeardEvent
    BY <1>1
  <1>3. CASE UsagesHeard(s) = {}
    BY <1>3 DEF LastUsage
  <1>4. CASE UsagesHeard(s) # {}
    <2> DEFINE k == Max(UsagesHeard(s))
    <2>1. k \in UsagesHeard(s)
      BY <1>2, <1>4, MaxIsLast DEF UsagesHeard
    <2>2. k \in DOMAIN s.heard /\ s.heard[k] \in HeardEvent /\ s.heard[k].type = "usage"
      BY <1>2, <2>1 DEF UsagesHeard
    <2>3. LastUsage(s) = [post |-> s.heard[k].post, keys |-> s.heard[k].keys]
      BY <1>4 DEF LastUsage
    <2> HIDE DEF k
    <2> QED BY <2>2, <2>3, EventShape
  <1> QED BY <1>3, <1>4

LEMMA YieldFacts ==
    ASSUME NEW s \in SseRecord, NEW e \in HeardEvent
    PROVE  LET t == Yield(s, e) IN
           /\ t \in SseRecord /\ Len(t.heard) = Len(s.heard) + 1
           /\ DOMAIN t.heard = 1 .. Len(s.heard) + 1 /\ DOMAIN s.heard = 1 .. Len(s.heard)
           /\ Len(s.heard) \in Nat
           /\ t.heard[Len(s.heard) + 1] = e
           /\ \A k \in DOMAIN s.heard : t.heard[k] = s.heard[k]
           /\ t.content = s.content /\ t.created = s.created /\ t.pending = s.pending
           /\ t.usage = s.usage /\ t.emitted = s.emitted /\ t.finish = s.finish
  <1> DEFINE h == Append(s.heard, e)
             t == [s EXCEPT !.heard = h]
  <1>1. s.heard \in Seq(HeardEvent)
    BY DEF SseRecord
  <1>2. /\ h \in Seq(HeardEvent) /\ Len(h) = Len(s.heard) + 1 /\ DOMAIN h = 1 .. Len(s.heard) + 1
        /\ Len(s.heard) \in Nat /\ DOMAIN s.heard = 1 .. Len(s.heard)
        /\ h[Len(s.heard) + 1] = e /\ \A k \in DOMAIN s.heard : h[k] = s.heard[k]
    BY <1>1
  <1> HIDE DEF h
  <1>3. /\ t \in SseRecord /\ t.heard = h
        /\ t.content = s.content /\ t.created = s.created /\ t.pending = s.pending
        /\ t.usage = s.usage /\ t.emitted = s.emitted /\ t.finish = s.finish
    BY <1>2 DEF SseRecord
  <1>4. Yield(s, e) = t
    BY DEF Yield, h
  <1> HIDE DEF t
  <1> QED BY <1>2, <1>3, <1>4

\* Committing announces the attempt once, with what it held back.
LEMMA CommitFacts ==
    ASSUME ProviderTypeOK, NEW s \in SseRecord, AttemptFits(s, posted)
    PROVE  LET t == Commit(s) IN
           /\ t \in SseRecord /\ t.created /\ t.content = s.content
           /\ OnePost(t, posted) /\ OneCreated(t) /\ ~ Completed(t) /\ PendingIsOwn(t, posted)
           /\ t.usage = s.usage /\ t.emitted = s.emitted /\ t.finish = s.finish
           /\ s.content => t = s
  <1>1. CASE s.created
    BY <1>1 DEF Commit, AttemptFits, SseRecord
  <1>2. CASE ~ s.created
    <2>1. s.heard = <<>> /\ ~ s.content /\ s.pending \in Seq(HeardEvent)
      BY <1>2 DEF AttemptFits, SseRecord
    <2> DEFINE c == ProviderEvent("created")
               h == <<c>> \o s.pending
    <2>2. c \in HeardEvent /\ c.type = "created" /\ c.post = posted
      BY EventTypes DEF ProviderEvent
    <2>3. Commit(s) = [s EXCEPT !.created = TRUE, !.pending = <<>>,
                                !.heard = (<<>> \o <<c>>) \o s.pending]
      BY <1>2, <2>1 DEF Commit
    <2>a. s \in SseRecord /\ <<>> \in Seq(HeardEvent)
      OBVIOUS
    <2> HIDE DEF c
    <2>4. (<<>> \o <<c>>) \o s.pending = h
      BY <2>1, <2>2
    <2>5. /\ h \in Seq(HeardEvent) /\ Len(h) = Len(s.pending) + 1 /\ DOMAIN h = 1 .. Len(s.pending) + 1
          /\ h[1] = c /\ \A k \in 2 .. Len(h) : h[k] = s.pending[k - 1] /\ k - 1 \in DOMAIN s.pending
          /\ Len(s.pending) \in Nat
      BY <2>1, <2>2
    <2> HIDE DEF h
    <2> DEFINE t == [s EXCEPT !.created = TRUE, !.pending = <<>>, !.heard = h]
    <2>b. Commit(s) = t
      BY <2>3, <2>4
    <2>c. /\ t \in SseRecord /\ t.heard = h /\ t.created = TRUE
          /\ t.pending = <<>> /\ t.content = s.content
          /\ t.usage = s.usage /\ t.emitted = s.emitted /\ t.finish = s.finish
      BY <2>5, <2>a DEF SseRecord
    <2> HIDE DEF t
    <2>6. /\ Commit(s) \in SseRecord /\ Commit(s).heard = h /\ Commit(s).created
          /\ Commit(s).pending = <<>> /\ Commit(s).content = s.content
          /\ Commit(s).usage = s.usage /\ Commit(s).emitted = s.emitted /\ Commit(s).finish = s.finish
      BY <2>b, <2>c
    <2>7. \A k \in DOMAIN h : /\ h[k].post = posted
                              /\ k # 1 => h[k].type = "usage"
      <3> SUFFICES ASSUME NEW k \in DOMAIN h PROVE h[k].post = posted /\ (k # 1 => h[k].type = "usage")
        OBVIOUS
      <3>1. CASE k = 1
        BY <2>2, <2>5, <3>1
      <3>2. CASE k # 1
        <4>1. h[k] = s.pending[k - 1] /\ k - 1 \in DOMAIN s.pending
          BY <2>5, <3>2
        <4> QED BY <3>2, <4>1 DEF AttemptFits, PendingIsOwn
      <3> QED BY <3>1, <3>2
    <2>8. OneCreated(Commit(s))
      <3>1. 1 \in DOMAIN h /\ \A j \in DOMAIN h : h[j].type = "created" <=> j = 1
        BY <2>2, <2>5, <2>7
      <3> QED BY <2>6, <3>1 DEF OneCreated
    <2>9. ~ Completed(Commit(s)) /\ OnePost(Commit(s), posted) /\ PendingIsOwn(Commit(s), posted)
      <3>1. \A k \in DOMAIN h : h[k].type # "completed"
        BY <2>2, <2>5, <2>7
      <3>2. DOMAIN Commit(s).pending = {}
        BY <2>6
      <3> QED BY <2>6, <2>7, <3>1, <3>2 DEF Completed, OnePost, PendingIsOwn
    <2> QED BY <2>1, <2>6, <2>8, <2>9
  <1> QED BY <1>1, <1>2

LEMMA ContentFacts ==
    ASSUME ProviderTypeOK, NEW s \in SseRecord, AttemptFits(s, posted),
           NEW e \in HeardEvent, e.post = posted, IsContent(e)
    PROVE  Content(s, e) \in SseRecord /\ AttemptFits(Content(s, e), posted)
  <1> DEFINE c == Commit(s)
             d == [c EXCEPT !.content = TRUE]
             t == Yield(d, e)
  <1>1. /\ c \in SseRecord /\ c.created /\ OnePost(c, posted) /\ OneCreated(c)
        /\ ~ Completed(c) /\ PendingIsOwn(c, posted)
    BY CommitFacts
  <1> HIDE DEF c
  <1>2. d \in SseRecord /\ d.heard = c.heard /\ d.pending = c.pending /\ d.created = c.created /\ d.content
    BY <1>1 DEF SseRecord
  <1> HIDE DEF d
  <1>3. /\ t \in SseRecord /\ t.content /\ t.created /\ t.pending = c.pending
        /\ DOMAIN t.heard = 1 .. Len(d.heard) + 1 /\ DOMAIN d.heard = 1 .. Len(d.heard) /\ Len(d.heard) \in Nat
        /\ t.heard[Len(d.heard) + 1] = e
        /\ \A k \in DOMAIN d.heard : t.heard[k] = d.heard[k]
    BY <1>1, <1>2, YieldFacts
  <1> HIDE DEF t
  <1>4. OnePost(t, posted) /\ ~ Completed(t) /\ PendingIsOwn(t, posted)
    BY <1>1, <1>2, <1>3 DEF OnePost, Completed, PendingIsOwn, IsContent
  <1>5. OneCreated(t)
    <2>1. PICK k \in DOMAIN c.heard : \A j \in DOMAIN c.heard : c.heard[j].type = "created" <=> j = k
      BY <1>1 DEF OneCreated
    <2>2. e.type # "created"
      BY DEF IsContent
    <2>3. ASSUME NEW j \in DOMAIN t.heard PROVE t.heard[j].type = "created" <=> j = k
      BY <1>2, <1>3, <2>1, <2>2
    <2>4. k \in DOMAIN t.heard
      BY <1>2, <1>3, <2>1
    <2> QED BY <2>3, <2>4 DEF OneCreated
  <1>6. \E k \in DOMAIN t.heard : IsContent(t.heard[k])
    BY <1>3
  <1>7. Content(s, e) = t
    BY DEF Content, t, d, c
  <1>8. t.created = t.content
    BY <1>3 DEF SseRecord
  <1> QED BY <1>3, <1>4, <1>5, <1>6, <1>7, <1>8 DEF AttemptFits

LEMMA ReportFacts ==
    ASSUME ProviderTypeOK, NEW s \in SseRecord, AttemptFits(s, posted), NEW keys \in SUBSET UsageKeys
    PROVE  ReportUsage(s, keys) \in SseRecord /\ AttemptFits(ReportUsage(s, keys), posted)
  <1> DEFINE e == UsageEvent(keys)
  <1>0. e \in HeardEvent /\ e.type = "usage" /\ e.post = posted
    BY EventTypes DEF UsageEvent
  <1>1. CASE s.created
    <2> DEFINE t == Yield(s, e)
    <2>1. /\ t \in SseRecord /\ t.content = s.content /\ t.created = s.created /\ t.pending = s.pending
          /\ DOMAIN t.heard = 1 .. Len(s.heard) + 1 /\ DOMAIN s.heard = 1 .. Len(s.heard) /\ Len(s.heard) \in Nat
          /\ t.heard[Len(s.heard) + 1] = e
          /\ \A k \in DOMAIN s.heard : t.heard[k] = s.heard[k]
      BY <1>0, YieldFacts
    <2>2. ReportUsage(s, keys) = t
      BY <1>1 DEF ReportUsage
    <2> HIDE DEF t, e
    <2>3. s.content /\ OneCreated(s) /\ \E k \in DOMAIN s.heard : IsContent(s.heard[k])
      BY <1>1 DEF AttemptFits
    <2>4. OnePost(t, posted) /\ ~ Completed(t) /\ PendingIsOwn(t, posted)
      BY <1>0, <2>1 DEF OnePost, Completed, PendingIsOwn, AttemptFits
    <2>5. OneCreated(t)
      <3>1. PICK k \in DOMAIN s.heard : \A j \in DOMAIN s.heard : s.heard[j].type = "created" <=> j = k
        BY <2>3 DEF OneCreated
      <3>2. k \in DOMAIN t.heard /\ \A j \in DOMAIN t.heard : t.heard[j].type = "created" <=> j = k
        BY <1>0, <2>1, <3>1
      <3> QED BY <3>2 DEF OneCreated
    <2>6. \E k \in DOMAIN t.heard : IsContent(t.heard[k])
      BY <2>1, <2>3
    <2> QED BY <1>1, <2>1, <2>2, <2>3, <2>4, <2>5, <2>6 DEF AttemptFits
  <1>2. CASE ~ s.created
    <2> DEFINE q == Append(s.pending, e)
               t == [s EXCEPT !.pending = q]
    <2> HIDE DEF e
    <2>0. s.pending \in Seq(HeardEvent) /\ q \in Seq(HeardEvent)
      BY <1>0 DEF SseRecord
    <2> HIDE DEF q
    <2>a. t \in SseRecord /\ t.content = s.content /\ t.created = s.created /\ t.heard = s.heard /\ t.pending = q
      BY <2>0 DEF SseRecord
    <2>1. /\ t \in SseRecord /\ t.content = s.content /\ t.created = s.created /\ t.heard = s.heard
          /\ t.pending = Append(s.pending, e) /\ s.pending \in Seq(HeardEvent)
      BY <2>0, <2>a DEF q
    <2>2. PendingIsOwn(t, posted)
      BY <1>0, <2>1 DEF PendingIsOwn, AttemptFits
    <2>3. ReportUsage(s, keys) = t
      BY <1>2 DEF ReportUsage, e, q
    <2> HIDE DEF t
    <2>4. OnePost(t, posted) /\ ~ Completed(t) /\ t.heard = <<>> /\ ~ t.content
      BY <1>2, <2>1 DEF OnePost, Completed, AttemptFits
    <2> QED BY <1>2, <2>1, <2>2, <2>3, <2>4 DEF AttemptFits
  <1> QED BY <1>1, <1>2

LEMMA GenerationAdded ==
    ASSUME ProviderTypeOK, \A k \in DOMAIN generations : ~ generations[k].ok, NEW g \in Generation
    PROVE  LET h == Append(generations, g) IN
           /\ h \in Seq(Generation) /\ Len(h) = Len(generations) + 1 /\ Last(h) = g
           /\ Len(generations) \in Nat
           /\ \A k \in DOMAIN h : h[k].ok => k = Len(h) /\ g.ok
  <1>1. generations \in Seq(Generation)
    BY DEF ProviderTypeOK
  <1> DEFINE h == Append(generations, g)
  <1>2. /\ h \in Seq(Generation) /\ Len(h) = Len(generations) + 1 /\ Len(generations) \in Nat
        /\ DOMAIN h = 1 .. Len(generations) + 1 /\ h[Len(generations) + 1] = g
        /\ DOMAIN generations = 1 .. Len(generations)
        /\ \A k \in DOMAIN generations : h[k] = generations[k]
    BY <1>1
  <1> HIDE DEF h
  <1>3. Last(h) = g
    BY <1>2 DEF Last
  <1>4. \A k \in DOMAIN h : h[k].ok => k = Len(h) /\ g.ok
    BY <1>2
  <1> QED BY <1>2, <1>3, <1>4 DEF h

-----------------------------------------------------------------------------
(* What is left to show of a step                                          *)

\* ... that leaves the call under way,
LEMMA StillUnderWay ==
    ASSUME ProviderTypeOK', StageFits', RecordsFit', modelReply' = NoReply, ~ CallOver'
    PROVE  ProviderInv'
  <1>1. callStage' \in {"send", "reading", "backoff", "returned", "chat", "chatBackoff"}
    BY DEF ProviderTypeOK, CallOver
  <1>2. \A j, k \in DOMAIN sse'.heard : sse'.heard[j].post = sse'.heard[k].post
    <2>1. CASE callStage' \in {"send", "backoff", "chat", "chatBackoff"}
      BY <2>1 DEF StageFits
    <2>2. CASE callStage' \in {"reading", "returned"}
      BY <2>2 DEF StageFits, AttemptFits, OnePost
    <2> QED BY <1>1, <2>1, <2>2
  <1>3. OneRequestIsHeard' /\ CallsAreWhole' /\ RecordIsTheAnswer'
    BY <1>2 DEF OneRequestIsHeard, CallsAreWhole, RecordIsTheAnswer
  <1> QED BY <1>3 DEF ProviderInv, AnswerIsFaithful

\* ... and that ends it without a response.
LEMMA EndedWithout ==
    ASSUME ProviderTypeOK', modelReply' = NoReply, callStage' \in {"raised", "contextLimit", "abandoned"},
           \A j, k \in DOMAIN sse'.heard : sse'.heard[j].post = sse'.heard[k].post,
           Len(generations') = clientCalls',
           \A k \in DOMAIN generations' : generations'[k].ok => k = Len(generations')
    PROVE  ProviderInv'
  <1>1. StageFits' /\ CallOver'
    BY DEF StageFits, CallOver
  <1>2. RecordsFit'
    <2>1. Recorded' /\ Len(generations') \in Nat /\ callStage' # "returned"
      BY <1>1 DEF Recorded, ProviderTypeOK
    <2> QED BY <2>1 DEF RecordsFit
  <1>3. OneRequestIsHeard' /\ CallsAreWhole' /\ RecordIsTheAnswer'
    BY DEF OneRequestIsHeard, CallsAreWhole, RecordIsTheAnswer
  <1> QED BY <1>1, <1>2, <1>3 DEF ProviderInv, AnswerIsFaithful

\* What a call that is under way has recorded and heard.
LEMMA UnderWay ==
    ASSUME ProviderInv, ~ CallOver
    PROVE  /\ modelReply = NoReply
           /\ \A j, k \in DOMAIN sse.heard : sse.heard[j].post = sse.heard[k].post
           /\ ~ Recorded => /\ Len(generations) + 1 = clientCalls
                            /\ \A k \in DOMAIN generations : ~ generations[k].ok
           /\ callStage # "returned" => ~ Recorded /\ ~ Completed(sse)
  <1>1. modelReply = NoReply
    BY DEF ProviderInv, CallOver
  <1>2. \A j, k \in DOMAIN sse.heard : sse.heard[j].post = sse.heard[k].post
    BY DEF ProviderInv, AnswerIsFaithful, OneRequestIsHeard
  <1>3. ~ Recorded => /\ Len(generations) + 1 = clientCalls
                     /\ \A k \in DOMAIN generations : ~ generations[k].ok
    BY DEF ProviderInv, RecordsFit
  <1>4. callStage # "returned" => ~ Recorded
    BY DEF Recorded
  <1>5. callStage # "returned" => ~ Completed(sse)
    BY DEF ProviderInv, ProviderTypeOK, StageFits, AttemptFits, CallOver, Completed
  <1> QED BY <1>1, <1>2, <1>3, <1>4, <1>5

\* Steps that change neither the records nor whether there is one.
LEMMA SameRecords ==
    ASSUME ProviderInv, ~ Recorded, ~ Recorded', UNCHANGED <<generations, clientCalls>>
    PROVE  RecordsFit'
  BY DEF ProviderInv, RecordsFit, Recorded

-----------------------------------------------------------------------------
(* The steps                                                               *)

LEMMA OpensStep == ASSUME ProviderInv, StreamOpens PROVE ProviderInv'
  <1>0. callStage = "send" /\ callStage' = "reading" /\ posted' = posted + 1 /\ ~ CallOver /\ sse.heard = <<>>
        /\ sse \in SseRecord /\ callMode = "stream" /\ callMode' = callMode
    BY DEF ProviderInv, StreamOpens, CallOver, StageFits, ProviderTypeOK
  <1>1. /\ sse' \in SseRecord /\ sse'.heard = <<>> /\ sse'.pending = <<>>
        /\ sse'.content = FALSE /\ sse'.created = FALSE
    BY <1>0 DEF StreamOpens, FreshAttempt, SseRecord
  <1>2. ProviderTypeOK'
    BY <1>0, <1>1 DEF ProviderInv, StreamOpens, ProviderTypeOK
  <1>3. AttemptFits(sse, posted)'
    <2>1. DOMAIN sse'.heard = {} /\ DOMAIN sse'.pending = {}
      BY <1>1
    <2>2. OnePost(sse, posted)' /\ PendingIsOwn(sse, posted)' /\ ~ Completed(sse)'
      BY <2>1 DEF OnePost, PendingIsOwn, Completed
    <2> QED BY <1>1, <2>2 DEF AttemptFits
  <1>4. StageFits'
    BY <1>0, <1>3 DEF StageFits
  <1>5. RecordsFit'
    BY <1>0, SameRecords DEF StreamOpens, Recorded, CallOver
  <1>6. modelReply' = NoReply
    BY <1>0, UnderWay DEF StreamOpens
  <1> QED BY <1>0, <1>2, <1>4, <1>5, <1>6, StillUnderWay DEF CallOver

\* A stream that fails is tried again only if nothing of it was heard.
LEMMA FailStep ==
    ASSUME ProviderInv, callStage \in {"send", "reading"}, NEW kind, StreamFails(kind),
           posted' \in Nat, UNCHANGED <<callMode, sse, modelReply>>
    PROVE  ProviderInv'
  <1>0. ~ CallOver /\ callMode = "stream" /\ ProviderTypeOK
    BY DEF ProviderInv, CallOver, StageFits
  <1>1. /\ modelReply' = NoReply /\ ~ Recorded /\ ~ Completed(sse)
        /\ Len(generations) + 1 = clientCalls /\ \A k \in DOMAIN generations : ~ generations[k].ok
        /\ \A j, k \in DOMAIN sse.heard : sse.heard[j].post = sse.heard[k].post
    BY <1>0, UnderWay
  <1>2. sse \in SseRecord /\ sse' = sse /\ callMode' = callMode
    BY <1>0 DEF ProviderTypeOK
  <1>3. callStage = "reading" => AttemptFits(sse, posted)
    BY DEF ProviderInv, StageFits
  <1>4. callStage = "send" => sse.heard = <<>>
    BY DEF ProviderInv, StageFits
  <1>5. CASE Retries(kind)
    <2>1. callStage' = "backoff" /\ UNCHANGED <<tryNumber, clientCalls, generations>>
      BY <1>5 DEF StreamFails
    <2>2. sse.heard = <<>> /\ tryNumber < MaxRetries - 1
      BY <1>3, <1>4, <1>5 DEF Retries, AttemptFits
    <2>3. ProviderTypeOK' /\ StageFits'
      BY <1>0, <1>2, <2>1, <2>2 DEF ProviderTypeOK, StageFits
    <2>4. ~ CallOver' /\ ~ Recorded'
      BY <2>1 DEF CallOver, Recorded
    <2> QED BY <1>1, <2>1, <2>3, <2>4, SameRecords, StillUnderWay
  <1>6. CASE ~ Retries(kind)
    <2>0. StreamRaises(kind)
      BY <1>6 DEF StreamFails
    <2>1. StreamRecord \in Generation /\ ~ StreamRecord.ok
      BY <1>1, <1>2, LastUsageHeard DEF StreamRecord, Generation, Completed
    <2>2. /\ generations' \in Seq(Generation) /\ Len(generations') = Len(generations) + 1
          /\ Len(generations) \in Nat
          /\ \A k \in DOMAIN generations' : ~ generations'[k].ok
      BY <1>0, <1>1, <2>0, <2>1, GenerationAdded DEF StreamRaises
    <2>3. CASE kind # "context" /\ MayFallBack
      <3>1. callStage' = "chat" /\ tryNumber' = 0 /\ clientCalls' = clientCalls + 1
        BY <2>0, <2>3 DEF StreamRaises
      <3>2. sse.heard = <<>>
        BY <1>3, <1>4, <2>3 DEF AttemptFits, IsContent, MayFallBack, HeardContent
      <3>3. ProviderTypeOK' /\ StageFits'
        BY <1>0, <1>2, <2>2, <3>1, <3>2 DEF ProviderTypeOK, StageFits
      <3>4. ~ CallOver' /\ ~ Recorded'
        BY <3>1 DEF CallOver, Recorded
      <3>5. RecordsFit'
        BY <1>1, <2>2, <3>1, <3>4 DEF RecordsFit
      <3> QED BY <1>1, <3>3, <3>4, <3>5, StillUnderWay
    <2>4. CASE ~ (kind # "context" /\ MayFallBack)
      <3>1. callStage' \in {"contextLimit", "raised"} /\ UNCHANGED <<tryNumber, clientCalls>>
        BY <2>0, <2>4 DEF StreamRaises
      <3>2. ProviderTypeOK'
        BY <1>0, <1>2, <2>2, <3>1 DEF ProviderTypeOK
      <3>3. Len(generations') = clientCalls'
        BY <1>1, <2>2, <3>1
      <3> QED BY <1>1, <1>2, <2>2, <3>1, <3>2, <3>3, EndedWithout
    <2> QED BY <2>3, <2>4
  <1> QED BY <1>5, <1>6

LEMMA PostRefusedStep == ASSUME ProviderInv, NEW kind \in Failures, StreamRefused(kind) PROVE ProviderInv'
  <1>1. callStage \in {"send", "reading"} /\ StreamFails(kind) /\ posted' \in Nat
        /\ UNCHANGED <<callMode, sse, modelReply>>
    BY DEF StreamRefused, ProviderInv, ProviderTypeOK
  <1> QED BY <1>1, FailStep

LEMMA ReadFailsStep == ASSUME ProviderInv, NEW kind \in Failures, ReadFails(kind) PROVE ProviderInv'
  <1>1. callStage \in {"send", "reading"} /\ StreamFails(kind) /\ posted' \in Nat
        /\ UNCHANGED <<callMode, sse, modelReply>>
    BY DEF ReadFails, ProviderInv, ProviderTypeOK
  <1> QED BY <1>1, FailStep

LEMMA ReadsStep ==
    ASSUME ProviderInv, callStage = "reading", sse' \in SseRecord, AttemptFits(sse', posted),
           UNCHANGED <<callMode, callStage, tryNumber, posted, generations, clientCalls, modelReply>>
    PROVE  ProviderInv'
  <1>1. ~ CallOver /\ ~ CallOver' /\ ~ Recorded /\ ~ Recorded'
    BY DEF CallOver, Recorded
  <1>2. ProviderTypeOK' /\ StageFits'
    BY DEF ProviderInv, ProviderTypeOK, StageFits
  <1> QED BY <1>1, <1>2, UnderWay, SameRecords, StillUnderWay

LEMMA DeltaStep ==
    ASSUME ProviderInv, NEW d \in Deltas, NEW usage \in BOOLEAN, ReadDelta(d, usage) PROVE ProviderInv'
  <1> DEFINE s == IF usage THEN ReportUsage(sse, {"in", "out"}) ELSE sse
  <1>0. ProviderTypeOK /\ callStage = "reading" /\ sse \in SseRecord /\ AttemptFits(sse, posted)
    BY DEF ProviderInv, StageFits, ReadDelta, ReadsOn, ProviderTypeOK
  <1>1. s \in SseRecord /\ AttemptFits(s, posted)
    BY <1>0, ReportFacts DEF UsageKeys
  <1>2. sse' = HandleDelta(s, d)
    BY DEF ReadDelta
  <1> HIDE DEF s
  <1>3. d.index \in Nat /\ d.part \in Nat
    <2>0. CallIndexes \subseteq Nat /\ CallParts \in Nat
      BY ProviderStreamAssumption
    <2>1. CASE d \in {[body |-> b, index |-> 0, part |-> 0] : b \in {"text", "reasoning", "bare"}}
      BY <2>1
    <2>2. CASE d \in [body : {"head"}, index : CallIndexes, part : {0}]
      <3>1. d.index \in CallIndexes /\ d.part = 0
        BY <2>2
      <3>2. d.index \in Nat
        BY <2>0, <3>1, Zenon
      <3> QED BY <3>1, <3>2
    <2>3. CASE d \in [body : {"part"}, index : CallIndexes, part : 1 .. CallParts]
      <3>1. d.index \in CallIndexes /\ d.part \in 1 .. CallParts
        BY <2>3
      <3>2. d.index \in Nat
        BY <2>0, <3>1, Zenon
      <3>3. d.part \in Nat
        BY <2>0, <3>1
      <3> QED BY <3>2, <3>3
    <2> QED BY <2>1, <2>2, <2>3 DEF Deltas
  <1>4. d.body \in {"text", "reasoning", "bare", "head", "part"}
    BY DEF Deltas
  <1>5. HandleDelta(s, d) \in SseRecord /\ AttemptFits(HandleDelta(s, d), posted)
    <2>1. CASE d.body \in {"text", "reasoning"}
      <3>1. ProviderEvent(d.body) \in HeardEvent
        BY <1>0, <2>1, EventTypes
      <3>2. ProviderEvent(d.body).post = posted /\ IsContent(ProviderEvent(d.body))
        BY <2>1 DEF ProviderEvent, IsContent
      <3>3. HandleDelta(s, d) = Content(s, ProviderEvent(d.body))
        BY <2>1 DEF HandleDelta
      <3> QED BY <1>0, <1>1, <3>1, <3>2, <3>3, ContentFacts
    <2>2. CASE d.body = "head"
      <3>1. CallEvent(d.index, TRUE, 0) \in HeardEvent
        BY <1>0, <1>3, EventTypes
      <3>2. CallEvent(d.index, TRUE, 0).post = posted /\ IsContent(CallEvent(d.index, TRUE, 0))
        BY DEF CallEvent, IsContent
      <3>3. HandleDelta(s, d) = Content(s, CallEvent(d.index, TRUE, 0))
        BY <2>2 DEF HandleDelta
      <3> QED BY <1>0, <1>1, <3>1, <3>2, <3>3, ContentFacts
    <2>3. CASE d.body = "part"
      <3>1. CallEvent(d.index, FALSE, d.part) \in HeardEvent
        BY <1>0, <1>3, EventTypes
      <3>2. CallEvent(d.index, FALSE, d.part).post = posted /\ IsContent(CallEvent(d.index, FALSE, d.part))
        BY DEF CallEvent, IsContent
      <3>3. HandleDelta(s, d) = Content(s, CallEvent(d.index, FALSE, d.part))
        BY <2>3 DEF HandleDelta
      <3> QED BY <1>0, <1>1, <3>1, <3>2, <3>3, ContentFacts
    <2>4. CASE d.body = "bare"
      <3>1. HandleDelta(s, d) = s
        BY <2>4 DEF HandleDelta
      <3> QED BY <1>1, <3>1
    <2> QED BY <1>4, <2>1, <2>2, <2>3, <2>4
  <1>6. UNCHANGED <<callMode, callStage, tryNumber, posted, generations, clientCalls, modelReply>>
    BY DEF ReadDelta
  <1> QED BY <1>0, <1>2, <1>5, <1>6, ReadsStep

\* Locals that say nothing of what was heard.
LEMMA LocalsStep ==
    ASSUME NEW s \in SseRecord, NEW t \in SseRecord, NEW p, AttemptFits(s, p),
           t.heard = s.heard, t.pending = s.pending, t.content = s.content, t.created = s.created
    PROVE  AttemptFits(t, p)
  BY DEF AttemptFits, OnePost, PendingIsOwn, Completed, OneCreated

LEMMA StartStep == ASSUME ProviderInv, ReadStart PROVE ProviderInv'
  <1>0. callStage = "reading" /\ sse \in SseRecord /\ AttemptFits(sse, posted)
    BY DEF ProviderInv, StageFits, ReadStart, ReadsOn, ProviderTypeOK
  <1>1. /\ sse' \in SseRecord /\ sse'.heard = sse.heard /\ sse'.pending = sse.pending
        /\ sse'.content = sse.content /\ sse'.created = sse.created
    BY <1>0 DEF ReadStart, SseRecord, UsageKeys
  <1>2. UNCHANGED <<callMode, callStage, tryNumber, posted, generations, clientCalls, modelReply>>
    BY DEF ReadStart
  <1> QED BY <1>0, <1>1, <1>2, LocalsStep, ReadsStep

LEMMA FinishStep ==
    ASSUME ProviderInv, NEW reason \in {"stop", "length"}, NEW usage \in BOOLEAN, ReadFinish(reason, usage)
    PROVE  ProviderInv'
  <1> DEFINE s == [sse EXCEPT !.finish = reason]
             merged == IF usage THEN s.usage \cup {"out"} ELSE s.usage
             m == [s EXCEPT !.usage = merged, !.emitted = @ \/ merged # {}]
  <1>0. ProviderTypeOK /\ callStage = "reading" /\ sse \in SseRecord /\ AttemptFits(sse, posted)
    BY DEF ProviderInv, StageFits, ReadFinish, ReadsOn, ProviderTypeOK
  <1>1. sse' = IF provider = "openai" THEN IF usage THEN ReportUsage(s, {"in", "out"}) ELSE s
               ELSE IF merged # {} THEN ReportUsage(m, merged) ELSE m
    BY DEF ReadFinish
  <1>2. s \in SseRecord /\ s.heard = sse.heard /\ s.pending = sse.pending /\ s.content = sse.content
        /\ s.created = sse.created
    BY <1>0 DEF SseRecord
  <1>3. AttemptFits(s, posted)
    BY <1>0, <1>2, LocalsStep
  <1>4. merged \in SUBSET UsageKeys
    BY <1>2 DEF SseRecord, UsageKeys
  <1> HIDE DEF s, merged
  <1>5. m \in SseRecord /\ m.heard = s.heard /\ m.pending = s.pending /\ m.content = s.content
        /\ m.created = s.created
    BY <1>2, <1>4 DEF SseRecord
  <1> HIDE DEF m
  <1>6. AttemptFits(m, posted)
    BY <1>2, <1>3, <1>5, LocalsStep
  <1>7. ReportUsage(s, {"in", "out"}) \in SseRecord /\ AttemptFits(ReportUsage(s, {"in", "out"}), posted)
    BY <1>0, <1>2, <1>3, ReportFacts DEF UsageKeys
  <1>8. ReportUsage(m, merged) \in SseRecord /\ AttemptFits(ReportUsage(m, merged), posted)
    BY <1>0, <1>4, <1>5, <1>6, ReportFacts
  <1>9. sse' \in SseRecord /\ AttemptFits(sse', posted)
    BY <1>1, <1>2, <1>3, <1>5, <1>6, <1>7, <1>8
  <1>10. UNCHANGED <<callMode, callStage, tryNumber, posted, generations, clientCalls, modelReply>>
    BY DEF ReadFinish
  <1> QED BY <1>0, <1>9, <1>10, ReadsStep

LEMMA DoneStep == ASSUME ProviderInv, ReadDone PROVE ProviderInv'
  <1> DEFINE s == Commit(sse)
             u == IF s.usage # {} /\ ~ s.emitted THEN Yield(s, UsageEvent(s.usage)) ELSE s
             e == [type |-> "completed", post |-> posted, finish |-> u.finish]
  <1>0. /\ ProviderTypeOK /\ callStage = "reading" /\ sse \in SseRecord /\ AttemptFits(sse, posted)
        /\ callMode = "stream" /\ posted \in Nat
    BY DEF ProviderInv, StageFits, ReadDone, ReadsOn, ProviderTypeOK
  <1>1. sse' = Yield(u, e)
    BY DEF ReadDone
  <1>2. s \in SseRecord /\ OnePost(s, posted) /\ OneCreated(s)
    BY <1>0, CommitFacts
  <1> HIDE DEF s
  <1>3. u \in SseRecord /\ OnePost(u, posted) /\ OneCreated(u)
    <2> DEFINE v == UsageEvent(s.usage)
               t == Yield(s, v)
    <2>1. v \in HeardEvent /\ v.type = "usage" /\ v.post = posted
      <3>1. s.usage \in SUBSET UsageKeys
        BY <1>2 DEF SseRecord
      <3> QED BY <1>0, <3>1, EventTypes DEF UsageEvent
    <2> HIDE DEF v
    <2>2. /\ t \in SseRecord
          /\ DOMAIN t.heard = 1 .. Len(s.heard) + 1 /\ DOMAIN s.heard = 1 .. Len(s.heard) /\ Len(s.heard) \in Nat
          /\ t.heard[Len(s.heard) + 1] = v
          /\ \A k \in DOMAIN s.heard : t.heard[k] = s.heard[k]
      BY <1>2, <2>1, YieldFacts
    <2> HIDE DEF t
    <2>3. OnePost(t, posted)
      BY <1>2, <2>1, <2>2 DEF OnePost
    <2>4. PICK k \in DOMAIN s.heard : \A j \in DOMAIN s.heard : s.heard[j].type = "created" <=> j = k
      BY <1>2 DEF OneCreated
    <2>v. v.type # "created"
      BY <2>1
    <2>5. k \in DOMAIN t.heard /\ \A j \in DOMAIN t.heard : t.heard[j].type = "created" <=> j = k
      <3>1. ASSUME NEW j \in DOMAIN t.heard PROVE t.heard[j].type = "created" <=> j = k
        <4>1. CASE j \in DOMAIN s.heard
          BY <2>2, <2>4, <4>1
        <4>2. CASE j = Len(s.heard) + 1
          BY <2>v, <2>2, <4>2
        <4> QED BY <2>2, <4>1, <4>2
      <3>2. k \in DOMAIN t.heard
        BY <2>2
      <3> QED BY ONLY <3>1, <3>2
    <2>6. OneCreated(t)
      BY <2>5 DEF OneCreated
    <2> QED BY <1>2, <2>2, <2>3, <2>6 DEF t, v
  <1> HIDE DEF u
  <1>4. e \in HeardEvent /\ e.type = "completed" /\ e.post = posted
    <2>1. u.finish \in {"none", "stop", "length"}
      BY <1>3 DEF SseRecord
    <2> QED BY <1>0, <2>1 DEF HeardEvent
  <1> HIDE DEF e
  <1>5. /\ sse' \in SseRecord
        /\ DOMAIN sse'.heard = 1 .. Len(u.heard) + 1 /\ DOMAIN u.heard = 1 .. Len(u.heard) /\ Len(u.heard) \in Nat
        /\ sse'.heard[Len(u.heard) + 1] = e
        /\ \A k \in DOMAIN u.heard : sse'.heard[k] = u.heard[k]
    BY <1>1, <1>3, <1>4, YieldFacts
  <1>6. OnePost(sse', posted) /\ Completed(sse')
    BY <1>3, <1>4, <1>5 DEF OnePost, Completed
  <1>7. OneCreated(sse')
    <2>1. PICK k \in DOMAIN u.heard : \A j \in DOMAIN u.heard : u.heard[j].type = "created" <=> j = k
      BY <1>3 DEF OneCreated
    <2>e. e.type # "created"
      BY <1>4
    <2>2. k \in DOMAIN sse'.heard /\ \A j \in DOMAIN sse'.heard : sse'.heard[j].type = "created" <=> j = k
      BY ONLY <1>5, <2>1, <2>e
    <2> QED BY <2>2 DEF OneCreated
  <1>8. callStage' = "returned" /\ UNCHANGED <<callMode, tryNumber, posted, generations, clientCalls, modelReply>>
    BY DEF ReadDone
  <1>9. ~ CallOver /\ ~ CallOver' /\ ~ Recorded /\ ~ Recorded'
    BY <1>0, <1>8 DEF CallOver, Recorded
  <1>10. ProviderTypeOK' /\ StageFits'
    BY <1>0, <1>5, <1>6, <1>7, <1>8 DEF ProviderTypeOK, StageFits
  <1> QED BY <1>8, <1>9, <1>10, UnderWay, SameRecords, StillUnderWay

LEMMA BackoffStep ==
    ASSUME ProviderInv, WaitForRetry \/ RetryWithBackoff PROVE ProviderInv'
  <1>0. /\ callStage \in {"backoff", "chatBackoff"} /\ ~ CallOver /\ ProviderTypeOK /\ sse.heard = <<>>
        /\ tryNumber' = tryNumber + 1 /\ UNCHANGED <<callMode, posted, sse, generations, clientCalls, modelReply>>
    BY DEF ProviderInv, WaitForRetry, RetryWithBackoff, CallOver, StageFits
  <1>1. callStage' \in {"send", "chat"} /\ (callStage' = "send" => callMode = "stream")
    BY ProviderStreamAssumption
    DEF ProviderInv, WaitForRetry, RetryWithBackoff, StageFits, ProviderTypeOK
  <1>2. ~ CallOver' /\ ~ Recorded /\ ~ Recorded'
    BY <1>0, <1>1 DEF CallOver, Recorded
  <1>3. ProviderTypeOK' /\ StageFits'
    BY <1>0, <1>1 DEF ProviderTypeOK, StageFits
  <1> QED BY <1>0, <1>2, <1>3, UnderWay, SameRecords, StillUnderWay

LEMMA ReturnsStep == ASSUME ProviderInv, StreamReturns PROVE ProviderInv'
  <1>0. /\ ProviderTypeOK /\ callStage = "returned" /\ ~ CallOver /\ sse \in SseRecord
        /\ callMode \in {"stream", "events"} /\ OnePost(sse, posted) /\ Completed(sse) /\ OneCreated(sse)
        /\ UNCHANGED <<callMode, tryNumber, posted, sse, clientCalls>>
    BY DEF ProviderInv, StreamReturns, CallOver, StageFits, ProviderTypeOK
  <1>1. modelReply = NoReply
    BY <1>0, UnderWay
  <1>2. /\ generations' \in Seq(Generation) /\ Len(generations') = clientCalls /\ Len(generations') > 0
        /\ \A k \in DOMAIN generations' : generations'[k].ok => k = Len(generations')
        /\ Last(generations').ok /\ Last(generations').usage = LastUsage(sse)
    <2>1. CASE callMode = "stream"
      <3>1. ~ Recorded
        BY <1>0, <2>1 DEF Recorded
      <3>2. Len(generations) + 1 = clientCalls /\ \A k \in DOMAIN generations : ~ generations[k].ok
        BY <1>0, <3>1, UnderWay
      <3>3. StreamRecord \in Generation /\ StreamRecord.ok /\ StreamRecord.usage = LastUsage(sse)
        BY <1>0, LastUsageHeard DEF StreamRecord, Generation, Completed
      <3>4. generations' = Append(generations, StreamRecord)
        BY <2>1 DEF StreamReturns, OwesRecord
      <3> QED BY <1>0, <3>2, <3>3, <3>4, GenerationAdded
    <2>2. CASE callMode = "events"
      <3>1. Recorded /\ generations' = generations
        BY <1>0, <2>2 DEF Recorded, StreamReturns, OwesRecord
      <3>2. generations \in Seq(Generation) /\ Len(generations) \in Nat
        BY <1>0 DEF ProviderTypeOK
      <3> QED BY <1>0, <2>2, <3>1, <3>2 DEF ProviderInv, RecordsFit
    <2> QED BY <1>0, <2>1, <2>2
  <1>3. CASE Builds(sse)
    <2>1. callStage' = "answered" /\ modelReply' = BuildResponse(sse)
      BY <1>3 DEF StreamReturns
    <2>2. ProviderTypeOK' /\ StageFits'
      BY <1>0, <1>2, <2>1 DEF ProviderTypeOK, StageFits
    <2>3. RecordsFit'
      BY <1>0, <1>2, <2>1 DEF RecordsFit, Recorded, CallOver, ProviderTypeOK
    <2> DEFINE posts == {x.post : x \in ToSet(sse.heard)}
    <2>4. /\ modelReply'.origin = "events" /\ modelReply'.posts = posts
          /\ DOMAIN modelReply'.calls = HeardIndexes(sse) /\ modelReply'.usage = LastUsage(sse)
          /\ \A i \in HeardIndexes(sse) : modelReply'.calls[i] =
                [whole |-> ~ CutOff(sse), head |-> HasHead(sse, i), parts |-> Parts(sse, i)]
      BY <2>1 DEF BuildResponse
    <2>5. posts = {posted}
      <3>1. PICK k \in DOMAIN sse.heard : sse.heard[k].type = "completed"
        BY <1>0 DEF Completed
      <3>2. \A p : p \in posts <=> \E j \in DOMAIN sse.heard : p = sse.heard[j].post
        BY DEF ToSet
      <3> QED BY <1>0, <3>1, <3>2 DEF OnePost
    <2>6. OneRequestIsHeard'
      <3>1. \A j, k \in DOMAIN sse'.heard : sse'.heard[j].post = sse'.heard[k].post
        BY <1>0 DEF OnePost
      <3>2. Cardinality(modelReply'.posts) = 1
        BY <2>4, <2>5, FS_Singleton
      <3>3. Completed(sse)' /\ \E k \in DOMAIN sse'.heard : \A j \in DOMAIN sse'.heard :
                  sse'.heard[j].type = "created" <=> j = k
        BY <1>0 DEF Completed, OneCreated
      <3> QED BY <3>1, <3>2, <3>3 DEF OneRequestIsHeard
    <2>7. CallsAreWhole'
      <3>1. ASSUME NEW i \in HeardIndexes(sse), modelReply'.calls[i].whole
            PROVE  modelReply'.calls[i].head /\ Whole(modelReply'.calls[i].parts)
        <4> DEFINE w == ~ CutOff(sse)
                   h == HasHead(sse, i)
                   q == Parts(sse, i)
        <4>a. modelReply'.calls[i] = [whole |-> w, head |-> h, parts |-> q]
          BY <2>4, <3>1, Zenon
        <4>b. w \in BOOLEAN /\ h \in BOOLEAN
          BY DEF CutOff, HasHead
        <4> HIDE DEF w, h, q
        <4>c. w /\ modelReply'.calls[i].head = h /\ modelReply'.calls[i].parts = q
          BY <3>1, <4>a, <4>b
        <4>1. ~ CutOff(sse) /\ modelReply'.calls[i].head = HasHead(sse, i)
              /\ modelReply'.calls[i].parts = Parts(sse, i)
          BY <4>c DEF w, h, q
        <4>2. HasHead(sse, i) /\ Whole(Parts(sse, i))
          BY <1>3, <4>1 DEF Builds
        <4> QED BY <4>1, <4>2
      <3>2. \A i \in DOMAIN modelReply'.calls : modelReply'.calls[i].whole =>
               modelReply'.calls[i].head /\ Whole(modelReply'.calls[i].parts)
        BY <2>4, <3>1
      <3>3. \A x : Whole(x)' <=> Whole(x)
        BY DEF Whole
      <3> QED BY <3>2, <3>3 DEF CallsAreWhole, Whole
    <2>8. RecordIsTheAnswer'
      <3>1. LastUsage(sse).post = 0 \/ \E k \in DOMAIN sse.heard : LastUsage(sse).post = sse.heard[k].post
        BY <1>0, LastUsageHeard
      <3>2. modelReply'.usage.post \in modelReply'.posts \cup {0}
        BY <1>0, <2>4, <2>5, <3>1 DEF OnePost
      <3> QED BY <1>0, <1>2, <2>4, <3>2 DEF RecordIsTheAnswer
    <2> QED BY <2>1, <2>2, <2>3, <2>6, <2>7, <2>8 DEF ProviderInv, AnswerIsFaithful
  <1>4. CASE ~ Builds(sse)
    <2>1. callStage' = "raised" /\ modelReply' = NoReply
      BY <1>1, <1>4 DEF StreamReturns
    <2>2. ProviderTypeOK'
      BY <1>0, <1>2, <2>1 DEF ProviderTypeOK
    <2>3. \A j, k \in DOMAIN sse'.heard : sse'.heard[j].post = sse'.heard[k].post
      BY <1>0 DEF OnePost
    <2> QED BY <1>0, <1>2, <2>1, <2>2, <2>3, EndedWithout
  <1> QED BY <1>3, <1>4

LEMMA ChatRecordType ==
    ASSUME NEW ok \in BOOLEAN, NEW post \in Nat, NEW usage \in BOOLEAN
    PROVE  /\ ChatUsage(post, usage) \in [post : Nat, keys : SUBSET UsageKeys]
           /\ ChatRecord(ok, ChatUsage(post, usage)) \in Generation
           /\ ChatRecord(ok, ChatUsage(post, usage)).ok = ok
           /\ ChatRecord(ok, ChatUsage(post, usage)).usage = ChatUsage(post, usage)
           /\ ChatUsage(post, usage).post \in {post, 0}
  <1>1. ChatUsage(post, usage) \in [post : Nat, keys : SUBSET UsageKeys]
        /\ ChatUsage(post, usage).post \in {post, 0}
    BY DEF ChatUsage, UsageKeys
  <1> QED BY <1>1 DEF ChatRecord, Generation

LEMMA AbandonStep == ASSUME ProviderInv, AbandonCall PROVE ProviderInv'
  <1> DEFINE g == IF callStage \in {"chat", "chatBackoff"} THEN ChatRecord(FALSE, ChatUsage(0, FALSE))
                  ELSE StreamRecord
  <1>0. /\ ProviderTypeOK /\ ~ CallOver /\ callStage' = "abandoned" /\ generations' = Append(generations, g)
        /\ UNCHANGED <<callMode, tryNumber, posted, sse, clientCalls, modelReply>> /\ sse \in SseRecord
    BY DEF ProviderInv, AbandonCall, ProviderTypeOK
  <1>1. ~ Recorded
    BY <1>0 DEF AbandonCall, Recorded, OwesRecord
  <1>2. g \in Generation
    BY <1>0, ChatRecordType, LastUsageHeard DEF StreamRecord, Generation, Completed
  <1> HIDE DEF g
  <1>3. /\ modelReply' = NoReply /\ Len(generations) + 1 = clientCalls
        /\ \A k \in DOMAIN generations : ~ generations[k].ok
        /\ \A j, k \in DOMAIN sse.heard : sse.heard[j].post = sse.heard[k].post
    BY <1>0, <1>1, UnderWay
  <1>4. /\ generations' \in Seq(Generation) /\ Len(generations') = clientCalls
        /\ \A k \in DOMAIN generations' : generations'[k].ok => k = Len(generations')
    BY <1>0, <1>2, <1>3, GenerationAdded
  <1>5. ProviderTypeOK'
    BY <1>0, <1>4 DEF ProviderTypeOK
  <1> QED BY <1>0, <1>3, <1>4, <1>5, EndedWithout

LEMMA ChatFailsStep == ASSUME ProviderInv, NEW kind \in Failures, ChatFails(kind) PROVE ProviderInv'
  <1>0. /\ ProviderTypeOK /\ callStage = "chat" /\ ~ CallOver /\ ~ Recorded /\ sse.heard = <<>>
        /\ posted' = posted + 1 /\ UNCHANGED <<callMode, tryNumber, sse, clientCalls, modelReply>>
    BY DEF ProviderInv, ChatFails, CallOver, Recorded, StageFits
  <1>1. /\ modelReply' = NoReply /\ Len(generations) + 1 = clientCalls
        /\ \A k \in DOMAIN generations : ~ generations[k].ok
        /\ \A j, k \in DOMAIN sse.heard : sse.heard[j].post = sse.heard[k].post
    BY <1>0, UnderWay
  <1>2. CASE callStage' = "chatBackoff" /\ UNCHANGED generations
    <2>1. ~ CallOver' /\ ~ Recorded'
      BY <1>2 DEF CallOver, Recorded
    <2>2. ProviderTypeOK' /\ StageFits'
      BY <1>0, <1>2 DEF ProviderTypeOK, StageFits
    <2> QED BY <1>0, <1>1, <1>2, <2>1, <2>2, SameRecords, StillUnderWay
  <1>3. CASE /\ callStage' \in {"contextLimit", "raised"}
             /\ generations' = Append(generations, ChatRecord(FALSE, ChatUsage(0, FALSE)))
    <2>1. ChatRecord(FALSE, ChatUsage(0, FALSE)) \in Generation
      BY ChatRecordType
    <2>2. /\ generations' \in Seq(Generation) /\ Len(generations') = clientCalls
          /\ \A k \in DOMAIN generations' : generations'[k].ok => k = Len(generations')
      BY <1>0, <1>1, <1>3, <2>1, GenerationAdded
    <2>3. ProviderTypeOK'
      <3>1. posted' \in Nat /\ generations' \in Seq(Generation)
        BY <1>0, <2>2 DEF ProviderTypeOK
      <3> HIDE <1>3
      <3>2. callStage' \in {"contextLimit", "raised"}
        BY <1>3
      <3> QED BY <1>0, <3>1, <3>2 DEF ProviderTypeOK
    <2> QED BY <1>0, <1>1, <1>3, <2>2, <2>3, EndedWithout
  <1> QED BY <1>2, <1>3 DEF ChatFails


\* What _complete_as_events yields.
AreEvents(h, p, usage) ==
    /\ h \in Seq(HeardEvent) /\ 1 \in DOMAIN h
    /\ \A k \in DOMAIN h : h[k].post = p /\ (h[k].type = "created" <=> k = 1)
    /\ \E k \in DOMAIN h : h[k].type = "completed"
    /\ \A s \in SseRecord : s.heard = h => LastUsage(s) = ChatUsage(p, usage)

LEMMA EventsFacts ==
    ASSUME NEW p \in Nat, NEW callMade \in BOOLEAN, NEW usage \in BOOLEAN
    PROVE  AreEvents(EventsOf(p, callMade, usage), p, usage)
  <1> DEFINE a == [type |-> "created", post |-> p]
             b == [type |-> "text", post |-> p]
             c == [type |-> "call", post |-> p, index |-> 0, head |-> TRUE, part |-> 0]
             u == [type |-> "usage", post |-> p, keys |-> {"in", "out"}]
             d == [type |-> "completed", post |-> p, finish |-> "stop"]
             opened == <<a, b>>
             called == IF callMade THEN Append(opened, c) ELSE opened
             counted == IF usage THEN Append(called, u) ELSE called
             h == EventsOf(p, callMade, usage)
             Fits(q) == /\ q \in Seq(HeardEvent) /\ Len(q) \in Nat \ {0} /\ DOMAIN q = 1 .. Len(q)
                        /\ \A k \in DOMAIN q : q[k].post = p /\ (q[k].type = "created" <=> k = 1)
  <1>1. /\ a \in HeardEvent /\ b \in HeardEvent /\ c \in HeardEvent /\ u \in HeardEvent /\ d \in HeardEvent
        /\ a.post = p /\ b.post = p /\ c.post = p /\ u.post = p /\ d.post = p
        /\ a.type = "created" /\ b.type = "text" /\ c.type = "call" /\ u.type = "usage"
        /\ d.type = "completed" /\ u.keys = {"in", "out"}
    BY DEF HeardEvent, UsageKeys
  <1>2. h = Append(counted, d)
    BY DEF EventsOf
  <1> HIDE DEF a, b, c, u, d, h
  <1>3. ASSUME NEW q, NEW e \in HeardEvent, Fits(q), e.post = p, e.type # "created"
        PROVE  /\ Fits(Append(q, e)) /\ Len(Append(q, e)) = Len(q) + 1
               /\ Append(q, e)[Len(q) + 1] = e /\ \A k \in 1 .. Len(q) : Append(q, e)[k] = q[k]
    BY <1>3
  <1>4. Fits(opened) /\ \A k \in 1 .. Len(opened) : opened[k].type # "usage"
    BY <1>1
  <1> HIDE DEF opened
  <1>5. Fits(called) /\ \A k \in 1 .. Len(called) : called[k].type # "usage"
    <2>1. CASE callMade
      <3>1. /\ Fits(Append(opened, c)) /\ Len(Append(opened, c)) = Len(opened) + 1
            /\ Append(opened, c)[Len(opened) + 1] = c
            /\ \A k \in 1 .. Len(opened) : Append(opened, c)[k] = opened[k]
        BY <1>1, <1>3, <1>4
      <3>2. called = Append(opened, c)
        BY <2>1
      <3> HIDE DEF called
      <3>3. \A k \in 1 .. Len(called) : called[k].type # "usage"
        BY <1>1, <1>4, <3>1, <3>2
      <3> QED BY <3>1, <3>2, <3>3
    <2>2. CASE ~ callMade
      BY <1>4, <2>2
    <2> QED BY <2>1, <2>2
  <1> HIDE DEF called
  <1> DEFINE n == Len(called)
  <1>6. /\ Fits(counted)
        /\ \A k \in 1 .. Len(counted) : counted[k].type = "usage" <=> usage /\ k = n + 1
        /\ usage => Len(counted) = n + 1 /\ counted[n + 1] = u
    <2>1. CASE usage
      <3>1. /\ Fits(Append(called, u)) /\ Len(Append(called, u)) = n + 1
            /\ Append(called, u)[n + 1] = u
            /\ \A k \in 1 .. n : Append(called, u)[k] = called[k]
        BY <1>1, <1>3, <1>5
      <3>2. counted = Append(called, u)
        BY <2>1
      <3> HIDE DEF counted
      <3>3. \A k \in 1 .. Len(counted) : counted[k].type = "usage" <=> usage /\ k = n + 1
        BY <1>1, <1>5, <2>1, <3>1, <3>2
      <3> QED BY <3>1, <3>2, <3>3
    <2>2. CASE ~ usage
      BY <1>5, <2>2
    <2> QED BY <2>1, <2>2
  <1> HIDE DEF counted
  <1>7. /\ Fits(h) /\ Len(h) = Len(counted) + 1 /\ h[Len(counted) + 1] = d
        /\ \A k \in 1 .. Len(counted) : h[k] = counted[k]
    <2>1. /\ Fits(Append(counted, d)) /\ Len(Append(counted, d)) = Len(counted) + 1
          /\ Append(counted, d)[Len(counted) + 1] = d
          /\ \A k \in 1 .. Len(counted) : Append(counted, d)[k] = counted[k]
      <3>1. Fits(counted) /\ d \in HeardEvent /\ d.post = p /\ d.type # "created"
        BY <1>1, <1>6
      <3> QED BY <1>3, <3>1
    <2> QED BY <1>2, <2>1
  <1> DEFINE m == Len(counted)
  <1>a. m \in Nat /\ n \in Nat /\ Len(h) = m + 1 /\ DOMAIN h = 1 .. m + 1 /\ (usage => m = n + 1)
    BY <1>5, <1>6, <1>7
  <1>8. \A k \in DOMAIN h : h[k].type = "usage" <=> usage /\ k = n + 1
    <2> HIDE DEF m, n
    <2> SUFFICES ASSUME NEW k \in 1 .. m + 1 PROVE h[k].type = "usage" <=> usage /\ k = n + 1
      BY <1>a
    <2>1. CASE k = m + 1
      <3>1. h[k] = d
        BY <1>7, <2>1 DEF m
      <3> QED BY <1>1, <1>a, <2>1, <3>1
    <2>2. CASE k \in 1 .. m
      <3>1. h[k] = counted[k] /\ (counted[k].type = "usage" <=> usage /\ k = n + 1)
        BY <1>6, <1>7, <2>2 DEF m
      <3> QED BY <3>1
    <2> QED BY <1>a, <2>1, <2>2
  <1>9. \E k \in DOMAIN h : h[k].type = "completed"
    <2>1. m + 1 \in DOMAIN h
      BY <1>a
    <2> QED BY <1>1, <1>7, <2>1
  <1>10. ASSUME NEW s \in SseRecord, s.heard = h PROVE LastUsage(s) = ChatUsage(p, usage)
    <2>1. CASE usage
      <3>1. n + 1 \in DOMAIN h /\ h[n + 1] = u /\ n \in Nat
        <4>1. n + 1 \in 1 .. m /\ n \in Nat
          BY <1>a, <2>1
        <4>2. counted[n + 1] = u
          BY <1>6, <2>1
        <4>3. h[n + 1] = counted[n + 1]
          BY <1>7, <4>1
        <4> QED BY <1>a, <4>1, <4>2, <4>3
      <3>2. UsagesHeard(s) = {n + 1}
        BY <1>8, <1>10, <2>1, <3>1 DEF UsagesHeard
      <3>3. Max({n + 1}) = n + 1
        BY <3>1 DEF Max
      <3>4. LastUsage(s) = [post |-> u.post, keys |-> u.keys]
        BY <1>10, <3>1, <3>2, <3>3 DEF LastUsage
      <3> QED BY <1>1, <2>1, <3>4 DEF ChatUsage
    <2>2. CASE ~ usage
      <3>1. UsagesHeard(s) = {}
        BY <1>8, <1>10, <2>2 DEF UsagesHeard
      <3> QED BY <2>2, <3>1 DEF LastUsage, ChatUsage
    <2> QED BY <2>1, <2>2
  <1>11. 1 \in DOMAIN h /\ h \in Seq(HeardEvent)
         /\ \A k \in DOMAIN h : h[k].post = p /\ (h[k].type = "created" <=> k = 1)
    BY <1>7
  <1> QED BY <1>9, <1>10, <1>11 DEF AreEvents, h

LEMMA ChatAnswersStep ==
    ASSUME ProviderInv, NEW callMade \in BOOLEAN, NEW usage \in BOOLEAN, ChatAnswers(callMade, usage)
    PROVE  ProviderInv'
  <1> DEFINE g == ChatRecord(TRUE, ChatUsage(posted', usage))
  <1>0. /\ ProviderTypeOK /\ callStage = "chat" /\ ~ CallOver /\ ~ Recorded /\ sse.heard = <<>> /\ sse \in SseRecord
        /\ posted' = posted + 1 /\ posted' \in Nat /\ UNCHANGED <<callMode, tryNumber, clientCalls>>
        /\ generations' = Append(generations, g)
    BY DEF ProviderInv, ChatAnswers, CallOver, Recorded, StageFits, ProviderTypeOK
  <1>1. /\ modelReply = NoReply /\ Len(generations) + 1 = clientCalls
        /\ \A k \in DOMAIN generations : ~ generations[k].ok
    BY <1>0, UnderWay
  <1>2. g \in Generation /\ g.ok /\ g.usage = ChatUsage(posted', usage)
        /\ ChatUsage(posted', usage).post \in {posted', 0}
    BY <1>0, ChatRecordType
  <1> HIDE DEF g
  <1>3. /\ generations' \in Seq(Generation) /\ Len(generations') = clientCalls /\ Len(generations') > 0
        /\ Last(generations') = g /\ Len(generations') \in Nat
        /\ \A k \in DOMAIN generations' : generations'[k].ok => k = Len(generations')
    BY <1>0, <1>1, <1>2, GenerationAdded
  <1>4. CASE callMode = "events"
    <2> DEFINE h == EventsOf(posted', callMade, usage)
               f == FreshAttempt(sse)
    <2>1. callStage' = "returned" /\ modelReply' = NoReply
          /\ sse' = [f EXCEPT !.heard = f.heard \o h]
      BY <1>1, <1>4 DEF ChatAnswers
    <2>2. /\ h \in Seq(HeardEvent) /\ 1 \in DOMAIN h
          /\ \A k \in DOMAIN h : h[k].post = posted' /\ (h[k].type = "created" <=> k = 1)
          /\ \E k \in DOMAIN h : h[k].type = "completed"
          /\ \A s \in SseRecord : s.heard = h => LastUsage(s) = ChatUsage(posted', usage)
      <3>1. AreEvents(h, posted', usage)
        BY <1>0, EventsFacts
      <3> HIDE DEF h
      <3> QED BY <3>1 DEF AreEvents
    <2> HIDE DEF h
    <2>3. f \in SseRecord /\ f.heard = <<>>
      BY <1>0 DEF FreshAttempt, SseRecord
    <2> HIDE DEF f
    <2>4. f.heard \o h = h
      BY <2>2, <2>3
    <2>5. sse' \in SseRecord /\ sse'.heard = h
      BY <2>1, <2>2, <2>3, <2>4 DEF SseRecord
    <2>6. OnePost(sse', posted') /\ Completed(sse') /\ OneCreated(sse')
      BY <2>2, <2>5 DEF OnePost, Completed, OneCreated
    <2>7. ProviderTypeOK' /\ StageFits'
      BY <1>0, <1>3, <1>4, <2>1, <2>5, <2>6 DEF ProviderTypeOK, StageFits
    <2>8. LastUsage(sse') = ChatUsage(posted', usage)
      BY <2>2, <2>5
    <2>9. RecordsFit'
      <3>1. Recorded'
        BY <1>0, <1>4, <2>1 DEF Recorded
      <3>2. LastUsage(sse)' = LastUsage(sse')
        BY DEF LastUsage, UsagesHeard
      <3> QED BY <1>0, <1>2, <1>3, <2>8, <3>1, <3>2 DEF RecordsFit
    <2> QED BY <2>1, <2>7, <2>9, StillUnderWay DEF CallOver
  <1>5. CASE callMode # "events"
    <2>1. callStage' = "answered" /\ modelReply' = ChatReply(posted', callMade, usage) /\ sse' = sse
      BY <1>5 DEF ChatAnswers
    <2>2. ProviderTypeOK' /\ StageFits'
      BY <1>0, <1>3, <2>1 DEF ProviderTypeOK, StageFits
    <2>3. RecordsFit'
      BY <1>0, <1>3, <2>1 DEF RecordsFit, Recorded, CallOver
    <2>4. /\ modelReply'.origin = "chat" /\ modelReply'.posts = {posted'}
          /\ modelReply'.usage = ChatUsage(posted', usage)
      BY <2>1 DEF ChatReply
    <2>5. \A i \in DOMAIN modelReply'.calls :
             modelReply'.calls[i] = [whole |-> TRUE, head |-> TRUE, parts |-> <<>>]
      BY <2>1 DEF ChatReply
    <2>6. OneRequestIsHeard'
      <3>1. Cardinality(modelReply'.posts) = 1
        BY <2>4, FS_Singleton
      <3>2. DOMAIN sse'.heard = {}
        BY <1>0, <2>1
      <3> QED BY <2>4, <3>1, <3>2 DEF OneRequestIsHeard
    <2>7. CallsAreWhole'
      BY <2>5 DEF CallsAreWhole, Whole
    <2>8. RecordIsTheAnswer'
      BY <1>0, <1>2, <1>3, <2>4 DEF RecordIsTheAnswer
    <2> QED BY <2>1, <2>2, <2>3, <2>6, <2>7, <2>8 DEF ProviderInv, AnswerIsFaithful
  <1> QED BY <1>4, <1>5

LEMMA CallStart == ProviderInit => ProviderInv
  <1> SUFFICES ASSUME ProviderInit PROVE ProviderInv
    OBVIOUS
  <1> DEFINE first == [heard |-> <<>>, content |-> FALSE, created |-> FALSE, pending |-> <<>>,
                       usage |-> {}, emitted |-> FALSE, finish |-> "none"]
  <1>a. <<>> \in Seq(HeardEvent) /\ first \in SseRecord /\ first.heard = <<>>
    BY DEF SseRecord
  <1> HIDE DEF first
  <1>b. sse = FreshAttempt(first)
    BY DEF ProviderInit, first
  <1>1. sse \in SseRecord /\ sse.heard = <<>>
    BY <1>a, <1>b DEF FreshAttempt, SseRecord
  <1>2. ProviderTypeOK
    BY <1>1 DEF ProviderInit, ProviderTypeOK
  <1>3. callStage \in {"send", "chat"} /\ (callStage = "send" => callMode = "stream")
        /\ generations = <<>> /\ clientCalls = 1 /\ modelReply = NoReply
    BY DEF ProviderInit
  <1>4. StageFits
    BY <1>1, <1>3 DEF StageFits
  <1>5. ~ CallOver /\ ~ Recorded
    BY <1>3 DEF CallOver, Recorded
  <1>6. RecordsFit
    BY <1>3, <1>5 DEF RecordsFit
  <1>7. AnswerIsFaithful
    BY <1>1, <1>3, <1>5
    DEF AnswerIsFaithful, OneRequestIsHeard, CallsAreWhole, RecordIsTheAnswer
  <1> QED BY <1>2, <1>3, <1>4, <1>6, <1>7 DEF ProviderInv

LEMMA CallStutters == ASSUME ProviderInv, UNCHANGED providerVars PROVE ProviderInv'
  <1>1. ProviderTypeOK' /\ (modelReply' # NoReply => callStage' = "answered")
    BY DEF ProviderInv, providerVars, ProviderTypeOK
  <1>2. StageFits'
    BY DEF ProviderInv, providerVars, StageFits, AttemptFits, OnePost, PendingIsOwn, OneCreated, Completed
  <1>3. RecordsFit'
    BY DEF ProviderInv, providerVars, RecordsFit, Recorded, CallOver, LastUsage, UsagesHeard
  <1>4. AnswerIsFaithful'
    <2>1. OneRequestIsHeard'
      BY DEF ProviderInv, providerVars, AnswerIsFaithful, OneRequestIsHeard, Completed
    <2>2. CallsAreWhole'
      BY DEF ProviderInv, providerVars, AnswerIsFaithful, CallsAreWhole, Whole
    <2>3. RecordIsTheAnswer'
      BY DEF ProviderInv, providerVars, AnswerIsFaithful, RecordIsTheAnswer, CallOver
    <2> QED BY <2>1, <2>2, <2>3 DEF AnswerIsFaithful
  <1> QED BY <1>1, <1>2, <1>3, <1>4 DEF ProviderInv

\* An attempt that is thrown away was never heard (_stream_response), and every
\* client call leaves one record: the inductive invariant holds throughout.
THEOREM ProviderInvariant == ProviderSpec => []ProviderInv
  <1>1. ASSUME ProviderInv, [ProviderNext]_providerVars PROVE ProviderInv'
    <2>1. CASE StreamOpens
      BY <1>1, <2>1, OpensStep
    <2>2. CASE \E kind \in Failures : StreamRefused(kind) \/ ReadFails(kind) \/ ChatFails(kind)
      BY <1>1, <2>2, PostRefusedStep, ReadFailsStep, ChatFailsStep
    <2>3. CASE \E d \in Deltas, usage \in BOOLEAN : ReadDelta(d, usage)
      BY <1>1, <2>3, DeltaStep
    <2>4. CASE ReadStart \/ ReadDone
      BY <1>1, <2>4, StartStep, DoneStep
    <2>5. CASE \E reason \in {"stop", "length"}, usage \in BOOLEAN : ReadFinish(reason, usage)
      BY <1>1, <2>5, FinishStep
    <2>6. CASE WaitForRetry \/ RetryWithBackoff
      BY <1>1, <2>6, BackoffStep
    <2>7. CASE StreamReturns \/ AbandonCall
      BY <1>1, <2>7, ReturnsStep, AbandonStep
    <2>8. CASE \E callMade, usage \in BOOLEAN : ChatAnswers(callMade, usage)
      BY <1>1, <2>8, ChatAnswersStep
    <2>9. CASE UNCHANGED providerVars
      BY <1>1, <2>9, CallStutters
    <2> QED BY <1>1, <2>1, <2>2, <2>3, <2>4, <2>5, <2>6, <2>7, <2>8, <2>9 DEF ProviderNext
  <1> QED BY <1>1, CallStart, PTL DEF ProviderSpec

\* For any number of retries, events, calls and fragments: the response the
\* loop acts on, and all the consumer heard, is of one HTTP request; a call
\* that is handed on was received whole; and every call of the client leaves
\* one generation record, which is the answer's.
THEOREM AnswerIsAlwaysFaithful == ProviderSpec => []AnswerIsFaithful
  <1>1. ProviderInv => AnswerIsFaithful
    BY DEF ProviderInv
  <1> QED BY <1>1, ProviderInvariant, PTL

-----------------------------------------------------------------------------
(***************************************************************************)
(* The conversation                                                        *)
(***************************************************************************)

\* The invariant speaks of a conversation as of three parts: what stands before
\* the request, the request, and what the turn has added.  The cap, the fitter
\* and the provider's refusal all act on one of them, or cut between two.

\* Who speaks in a message follows from its kind, but for a past one.
Msg ==
    [role : {"system"}, kind : {"contract", "elision", "hint"}, id : Nat, n : Nat, size : Nat]
    \cup [role : {"user"}, kind : {"request", "past", "summary", "recovery", "note"},
          id : Nat, n : Nat, size : Nat]
    \cup [role : {"assistant"}, kind : {"past", "ack", "call", "part"}, id : Nat, n : Nat, size : Nat]
    \cup [role : {"tool"}, kind : {"result", "stub"}, id : Nat, n : Nat, size : Nat]

\* A kind of message is spoken by one role.
LEMMA Roles ==
  ASSUME NEW m \in Msg
  PROVE  /\ m.role = "system" <=> m.kind \in {"contract", "elision", "hint"}
         /\ m.role = "tool" <=> m.kind \in {"result", "stub"}
         /\ m.kind \in {"ack", "call", "part"} => m.role = "assistant"
         /\ m.kind \in {"request", "summary", "recovery", "note"} => m.role = "user"
         /\ m.role = "assistant" => m.kind \in {"past", "ack", "call", "part"}
         /\ m.role = "user" => m.kind \in {"request", "past", "summary", "recovery", "note"}
         /\ m.id \in Nat /\ m.n \in Nat /\ m.size \in Nat
  BY DEF Msg

\* Two of the parts of a conversation: what stands before the request, and what
\* the turn has added after it.
Glue(f, q, b) == (f \o <<q>>) \o b

\* Message by message.
Glues(g, f, q, b) ==
    /\ g \in Seq(Msg) /\ f \in Seq(Msg) /\ q \in Msg /\ b \in Seq(Msg)
    /\ Len(f) \in Nat /\ Len(b) \in Nat
    /\ Len(g) = Len(f) + 1 + Len(b)
    /\ \A i \in 1 .. Len(f) : g[i] = f[i]
    /\ g[Len(f) + 1] = q
    /\ \A i \in 1 .. Len(b) : g[Len(f) + 1 + i] = b[i]
    /\ \A i \in Len(f) + 2 .. Len(f) + 1 + Len(b) :
          i - (Len(f) + 1) \in 1 .. Len(b) /\ g[i] = b[i - (Len(f) + 1)]

\* The parts of a conversation, place by place.
LEMMA GlueFacts ==
  ASSUME NEW f \in Seq(Msg), NEW q \in Msg, NEW b \in Seq(Msg)
  PROVE  Glues(Glue(f, q, b), f, q, b)
  <1> DEFINE u == f \o <<q>>
  <1>1. Len(f) \in Nat /\ Len(b) \in Nat /\ <<q>> \in Seq(Msg) /\ Len(<<q>>) = 1 /\ <<q>>[1] = q
    OBVIOUS
  <1>2. /\ u \in Seq(Msg) /\ Len(u) = Len(f) + 1
        /\ \A i \in 1 .. Len(f) + 1 : u[i] = IF i <= Len(f) THEN f[i] ELSE <<q>>[i - Len(f)]
    BY <1>1, ConcatProperties
  <1> HIDE DEF u
  <1>3. /\ u \o b \in Seq(Msg) /\ Len(u \o b) = Len(u) + Len(b)
        /\ \A i \in 1 .. Len(u) + Len(b) : (u \o b)[i] = IF i <= Len(u) THEN u[i] ELSE b[i - Len(u)]
    <2>1. u \in Seq(Msg) /\ b \in Seq(Msg)
      BY <1>2
    <2> QED BY ONLY <2>1, ConcatProperties
  <1>4. Glue(f, q, b) = u \o b
    BY DEF Glue, u
  <1>5. ASSUME NEW i \in 1 .. Len(f) PROVE (u \o b)[i] = f[i]
    BY <1>1, <1>2, <1>3
  <1>6. (u \o b)[Len(f) + 1] = q
    <2>1. (u \o b)[Len(f) + 1] = u[Len(f) + 1]
      BY <1>1, <1>2, <1>3
    <2>2. u[Len(f) + 1] = <<q>>[(Len(f) + 1) - Len(f)] /\ (Len(f) + 1) - Len(f) = 1
      BY <1>1, <1>2
    <2> QED BY <1>1, <2>1, <2>2
  <1>7. ASSUME NEW i \in 1 .. Len(b) PROVE (u \o b)[Len(f) + 1 + i] = b[i]
    BY <1>1, <1>2, <1>3
  <1>8. ASSUME NEW i \in Len(f) + 2 .. Len(f) + 1 + Len(b)
        PROVE  i - (Len(f) + 1) \in 1 .. Len(b) /\ (u \o b)[i] = b[i - (Len(f) + 1)]
    BY <1>1, <1>2, <1>3
  <1> QED BY <1>1, <1>2, <1>3, <1>4, <1>5, <1>6, <1>7, <1>8 DEF Glues

-----------------------------------------------------------------------------
(* The invariant                                                           *)

\* The leading contract, with the mark a cut has left.
LeadOf(f) == IF Len(f) >= 2 /\ f[2].kind = "elision" THEN 2 ELSE 1

\* Before the request: the contract, and then a history that opens with the user.
FrontOK(f) ==
    /\ f \in Seq(Msg) /\ Len(f) >= 1 /\ f[1].kind = "contract"
    /\ \A i \in 2 .. Len(f) :
          /\ f[i].kind \in {"elision", "past", "summary", "recovery", "ack"}
          /\ f[i].kind = "elision" => i = 2
    /\ LeadOf(f) < Len(f) => f[LeadOf(f) + 1].role = "user"

\* A result stands behind its call, and a call before its results.
Answers(b, i) ==
    \E j \in 1 .. i - 1 : /\ b[j].kind = "call" /\ b[j].id = b[i].id
                          /\ \A k \in j + 1 .. i : b[k].role # "assistant"
Answered(b, i) ==
    \A n \in 1 .. b[i].n :
       \E j \in i + 1 .. Len(b) : b[j].role = "tool" /\ b[j].id = b[i].id /\ b[j].n = n

\* After the request: what the turn has added, whole.
BackOK(b) ==
    /\ b \in Seq(Msg)
    /\ \A i \in 1 .. Len(b) :
          /\ b[i].kind \in {"call", "result", "stub", "hint", "note", "part", "elision"}
          /\ b[i].kind = "elision" => i = 1
          /\ b[i].role = "tool" => Answers(b, i)
          /\ b[i].kind = "call" => Answered(b, i)
          /\ b[i].role = "tool" /\ (\A j \in i + 1 .. Len(b) : b[j].role # "tool") => b[i].kind = "result"

\* A turn is cut only when nothing is left of the history.
OneMark(f, b) == (\E i \in 1 .. Len(b) : b[i].kind = "elision") => Len(f) = 1

PartsOK(f, q, b) == FrontOK(f) /\ q \in Msg /\ q.kind = "request" /\ BackOK(b) /\ OneMark(f, b)

IsWhole(msgs) == \E f \in Seq(Msg), q \in Msg, b \in Seq(Msg) : msgs = Glue(f, q, b) /\ PartsOK(f, q, b)

-----------------------------------------------------------------------------
(* Where the parts begin                                                   *)

\* What leads is the system's; what follows it is the user's and the assistant's,
\* and neither a request nor part of a round.
LEMMA LeadFacts ==
  ASSUME NEW f, FrontOK(f)
  PROVE  /\ LeadOf(f) \in {1, 2} /\ LeadOf(f) <= Len(f)
         /\ f[1].role = "system" /\ f[LeadOf(f)].role = "system"
         /\ \A i \in 1 .. LeadOf(f) : f[i].role = "system"
         /\ \A i \in LeadOf(f) + 1 .. Len(f) : f[i].role \in {"user", "assistant"} /\ f[i].kind # "elision"
         /\ \A i \in 1 .. Len(f) : f[i] \in Msg /\ f[i].kind # "request" /\ f[i].role # "tool" /\ f[i].kind # "call"
  <1>1. Len(f) \in Nat /\ \A i \in 1 .. Len(f) : f[i] \in Msg
    BY DEF FrontOK
  <1>2. LeadOf(f) \in {1, 2} /\ LeadOf(f) <= Len(f)
    BY <1>1 DEF LeadOf, FrontOK
  <1>3. f[1].role = "system"
    BY <1>1, Roles DEF FrontOK
  <1>4. LeadOf(f) = 2 => f[2].role = "system" /\ f[2].kind = "elision"
    BY <1>1, Roles DEF LeadOf
  <1>5. ASSUME NEW i \in LeadOf(f) + 1 .. Len(f)
        PROVE  f[i].role \in {"user", "assistant"} /\ f[i].kind # "elision"
    <2>1. i \in 2 .. Len(f) /\ f[i] \in Msg
      BY <1>1, <1>2
    <2>2. f[i].kind \in {"elision", "past", "summary", "recovery", "ack"} /\ (f[i].kind = "elision" => i = 2)
      BY <2>1 DEF FrontOK
    <2>3. f[i].kind # "elision"
      BY <2>1, <2>2, <1>1 DEF LeadOf
    <2> QED BY <2>1, <2>2, <2>3, Roles DEF Msg
  <1>6. ASSUME NEW i \in 1 .. Len(f) PROVE f[i].kind # "request" /\ f[i].role # "tool" /\ f[i].kind # "call"
    <2>1. f[i] \in Msg /\ f[i].kind \in {"contract", "elision", "past", "summary", "recovery", "ack"}
      BY <1>1 DEF FrontOK
    <2> QED BY <2>1, Roles
  <1> QED BY <1>1, <1>2, <1>3, <1>4, <1>5, <1>6

\* The turn adds no message that could pass for a request.
LEMMA BackFacts ==
  ASSUME NEW b, BackOK(b)
  PROVE  \A i \in 1 .. Len(b) : b[i] \in Msg /\ ~ IsRequestTurn(b[i]) /\ b[i].kind # "request"
  <1>1. ASSUME NEW i \in 1 .. Len(b) PROVE b[i] \in Msg /\ ~ IsRequestTurn(b[i]) /\ b[i].kind # "request"
    <2>1. b[i] \in Msg /\ b[i].kind \in {"call", "result", "stub", "hint", "note", "part", "elision"}
      BY DEF BackOK
    <2> QED BY <2>1, Roles DEF IsRequestTurn
  <1> QED BY <1>1

\* The active turn begins with the request.
LEMMA ActiveStartOf ==
  ASSUME NEW f, NEW q, NEW b, PartsOK(f, q, b)
  PROVE  ActiveStart(Glue(f, q, b)) = Len(f) + 1
  <1> DEFINE g == Glue(f, q, b)
  <1>1. f \in Seq(Msg) /\ q \in Msg /\ b \in Seq(Msg) /\ q.kind = "request"
    BY DEF PartsOK, FrontOK, BackOK
  <1>g. Glues(g, f, q, b)
    BY <1>1, GlueFacts
  <1> HIDE DEF g
  <1>2. /\ g \in Seq(Msg) /\ Len(f) \in Nat /\ Len(b) \in Nat /\ Len(g) = Len(f) + 1 + Len(b)
        /\ g[Len(f) + 1] = q
        /\ \A i \in Len(f) + 2 .. Len(f) + 1 + Len(b) :
               i - (Len(f) + 1) \in 1 .. Len(b) /\ g[i] = b[i - (Len(f) + 1)]
    BY <1>g DEF Glues
  <1> DEFINE turns_ == {i \in DOMAIN g : IsRequestTurn(g[i])}
  <1>3. Len(f) + 1 \in turns_
    BY <1>1, <1>2, Roles DEF IsRequestTurn
  <1>4. \A i \in turns_ : i <= Len(f) + 1
    BY <1>2, BackFacts DEF PartsOK
  <1>5. Len(g) \in Nat /\ turns_ \in SUBSET (0 .. Len(g))
    BY <1>2
  <1>6. Max(turns_) \in turns_ /\ \A y \in turns_ : y <= Max(turns_)
    BY <1>3, <1>5, MaxOfSome
  <1> HIDE DEF turns_
  <1>7. Max(turns_) = Len(f) + 1
    <2>1. Max(turns_) <= Len(f) + 1 /\ Len(f) + 1 <= Max(turns_)
      BY <1>3, <1>4, <1>6
    <2>2. Max(turns_) \in 0 .. Len(g)
      BY <1>5, <1>6
    <2> QED BY <2>1, <2>2, <1>2, <1>5
  <1> QED BY <1>7 DEF ActiveStart, g, turns_

\* The contract leads, with the mark of a cut; the head is the contract alone.
LEMMA LeadingOf ==
  ASSUME NEW f, NEW q, NEW b, PartsOK(f, q, b)
  PROVE  Leading(Glue(f, q, b)) = LeadOf(f) /\ HeadLength(Glue(f, q, b)) = 1
  <1> DEFINE g == Glue(f, q, b)
             lead == LeadOf(f)
  <1>1. f \in Seq(Msg) /\ q \in Msg /\ b \in Seq(Msg) /\ q.kind = "request" /\ FrontOK(f)
    BY DEF PartsOK, FrontOK, BackOK
  <1>g. Glues(g, f, q, b)
    BY <1>1, GlueFacts
  <1>2. /\ g \in Seq(Msg) /\ Len(f) \in Nat /\ Len(b) \in Nat /\ Len(g) = Len(f) + 1 + Len(b)
        /\ \A i \in 1 .. Len(f) : g[i] = f[i]
        /\ g[Len(f) + 1] = q
    BY <1>g DEF Glues
  <1>3. /\ lead \in {1, 2} /\ lead <= Len(f)
        /\ \A i \in 1 .. lead : f[i].role = "system"
        /\ \A i \in lead + 1 .. Len(f) : f[i].role \in {"user", "assistant"} /\ f[i].kind # "elision"
    BY <1>1, LeadFacts
  <1>4. q.role = "user"
    BY <1>1, Roles
  <1> HIDE DEF g, lead
  <1> DEFINE Is(n) == /\ \A i \in 1 .. n : g[i].role = "system"
                      /\ n < Len(g) => g[n + 1].role # "system"
  <1>5. \A i \in 1 .. lead : g[i].role = "system"
    BY <1>2, <1>3
  <1>6. g[lead + 1].role # "system"
    <2>1. CASE lead = Len(f)
      BY <2>1, <1>2, <1>4
    <2>2. CASE lead < Len(f)
      <3>1. lead + 1 \in lead + 1 .. Len(f) /\ lead + 1 \in 1 .. Len(f)
        BY <2>2, <1>2, <1>3
      <3> QED BY <3>1, <1>2, <1>3
    <2> QED BY <2>1, <2>2, <1>2, <1>3
  <1>7. lead \in 0 .. Len(g) /\ lead < Len(g) /\ lead + 1 \in 1 .. Len(g)
    BY <1>2, <1>3
  <1>8. Is(lead)
    BY <1>5, <1>6
  <1>9. ASSUME NEW n \in 0 .. Len(g), Is(n) PROVE n = lead
    <2>1. ~ (n < lead)
      <3> SUFFICES ASSUME n < lead PROVE FALSE
        OBVIOUS
      <3>1. n + 1 \in 1 .. lead /\ n < Len(g)
        BY <1>2, <1>3, <1>7
      <3> QED BY <3>1, <1>5, <1>9
    <2>2. ~ (lead < n)
      <3> SUFFICES ASSUME lead < n PROVE FALSE
        OBVIOUS
      <3>1. lead + 1 \in 1 .. n
        BY <1>3
      <3> QED BY <3>1, <1>6, <1>9
    <2> QED BY <2>1, <2>2, <1>3
  <1>10. Leading(g) = lead
    BY <1>7, <1>8, <1>9 DEF Leading
  <1> DEFINE Hd(n) == /\ \A i \in n + 1 .. lead : g[i].kind = "elision"
                      /\ n > 0 => g[n].kind # "elision"
  <1>11. g[1].kind = "contract"
    BY <1>1, <1>2 DEF FrontOK
  <1>12. lead = 2 => g[2].kind = "elision"
    BY <1>2, <1>3 DEF LeadOf, lead
  <1>13. 1 \in 0 .. lead /\ Hd(1)
    BY <1>3, <1>11, <1>12
  <1>14. ASSUME NEW n \in 0 .. lead, Hd(n) PROVE n = 1
    <2>1. n # 0
      <3> SUFFICES ASSUME n = 0 PROVE FALSE
        OBVIOUS
      <3>1. 1 \in n + 1 .. lead
        BY <1>3
      <3> QED BY <3>1, <1>11, <1>14
    <2>2. n # 2
      BY <1>3, <1>12, <1>14
    <2> QED BY <2>1, <2>2, <1>3
  <1>15. HeadLength(g) = 1
    BY <1>10, <1>13, <1>14 DEF HeadLength
  <1> QED BY <1>10, <1>15 DEF g, lead

-----------------------------------------------------------------------------
(* Parts of a sequence                                                     *)

\* Places of a part of a sequence.
LEMMA SubSeqFacts ==
  ASSUME NEW s \in Seq(Msg), NEW a \in Nat \ {0}, NEW z \in Nat, z <= Len(s)
  PROVE  /\ SubSeq(s, a, z) \in Seq(Msg)
         /\ Len(SubSeq(s, a, z)) = IF a <= z THEN z - a + 1 ELSE 0
         /\ \A i \in 1 .. z - a + 1 : SubSeq(s, a, z)[i] = s[a + i - 1]
  <1>1. \A i \in a .. z : s[i] \in Msg
    OBVIOUS
  <1>2. a \in Int /\ z \in Int
    OBVIOUS
  <1>3. /\ Len(SubSeq(s, a, z)) = IF a <= z THEN z - a + 1 ELSE 0
        /\ \A i \in 1 .. z - a + 1 : SubSeq(s, a, z)[i] = s[a + i - 1]
        /\ SubSeq(s, a, z) \in Seq(Msg)
    BY ONLY <1>1, <1>2, SubSeqProperties
  <1> QED BY <1>3

LEMMA SuffixFacts ==
  ASSUME NEW s \in Seq(Msg), NEW c \in Nat, c <= Len(s)
  PROVE  /\ SubSeq(s, c + 1, Len(s)) \in Seq(Msg)
         /\ Len(SubSeq(s, c + 1, Len(s))) = Len(s) - c
         /\ \A i \in 1 .. Len(s) - c : SubSeq(s, c + 1, Len(s))[i] = s[c + i]
  <1>1. Len(s) \in Nat /\ c + 1 \in Nat \ {0} /\ Len(s) - (c + 1) + 1 = Len(s) - c
        /\ \A i \in 1 .. Len(s) - c : (c + 1) + i - 1 = c + i
    OBVIOUS
  <1>2. /\ SubSeq(s, c + 1, Len(s)) \in Seq(Msg)
        /\ Len(SubSeq(s, c + 1, Len(s))) = IF c + 1 <= Len(s) THEN Len(s) - (c + 1) + 1 ELSE 0
        /\ \A i \in 1 .. Len(s) - (c + 1) + 1 : SubSeq(s, c + 1, Len(s))[i] = s[(c + 1) + i - 1]
    <2>1. Len(s) <= Len(s)
      BY <1>1
    <2> QED BY <1>1, <2>1, SubSeqFacts
  <1> DEFINE l == Len(s)
             t == SubSeq(s, c + 1, l)
  <1>3. l \in Nat /\ c <= l /\ l - (c + 1) + 1 = l - c
    BY <1>1
  <1>4. t \in Seq(Msg) /\ Len(t) = IF c + 1 <= l THEN l - (c + 1) + 1 ELSE 0
    BY <1>2
  <1>5. \A i \in 1 .. l - (c + 1) + 1 : t[i] = s[(c + 1) + i - 1]
    BY <1>2
  <1> HIDE DEF l, t
  <1>6. Len(t) = l - c
    BY <1>3, <1>4
  <1>7. ASSUME NEW i \in 1 .. l - c PROVE t[i] = s[c + i]
    <2>1. i \in 1 .. l - (c + 1) + 1 /\ (c + 1) + i - 1 = c + i
      BY <1>3
    <2> QED BY <2>1, <1>5
  <1> QED BY <1>4, <1>6, <1>7 DEF l, t

LEMMA PrefixFacts ==
  ASSUME NEW s \in Seq(Msg), NEW k \in Nat, k <= Len(s)
  PROVE  /\ SubSeq(s, 1, k) \in Seq(Msg) /\ Len(SubSeq(s, 1, k)) = k
         /\ \A i \in 1 .. k : SubSeq(s, 1, k)[i] = s[i]
  <1>1. /\ SubSeq(s, 1, k) \in Seq(Msg)
        /\ Len(SubSeq(s, 1, k)) = IF 1 <= k THEN k - 1 + 1 ELSE 0
        /\ \A i \in 1 .. k - 1 + 1 : SubSeq(s, 1, k)[i] = s[1 + i - 1]
    <2>1. 1 \in Nat \ {0}
      OBVIOUS
    <2> QED BY <2>1, SubSeqFacts
  <1>2. (k - 1) + 1 = k /\ (1 <= k \/ k = 0) /\ \A i \in 1 .. k : 1 + i - 1 = i
    OBVIOUS
  <1> QED BY <1>1, <1>2

\* A prefix that ends before the request.
LEMMA PrefixOfGlue ==
  ASSUME NEW f \in Seq(Msg), NEW q \in Msg, NEW b \in Seq(Msg), NEW k \in Nat, k <= Len(f)
  PROVE  SubSeq(Glue(f, q, b), 1, k) = SubSeq(f, 1, k)
  <1> DEFINE g == Glue(f, q, b)
  <1>1. Glues(g, f, q, b)
    BY GlueFacts
  <1> HIDE DEF g
  <1>2. g \in Seq(Msg) /\ k <= Len(g) /\ \A i \in 1 .. k : g[i] = f[i]
    BY <1>1 DEF Glues
  <1> DEFINE s == SubSeq(g, 1, k)
             t == SubSeq(f, 1, k)
  <1>3. s \in Seq(Msg) /\ Len(s) = k /\ \A i \in 1 .. k : s[i] = g[i]
    BY <1>2, PrefixFacts
  <1>4. t \in Seq(Msg) /\ Len(t) = k /\ \A i \in 1 .. k : t[i] = f[i]
    BY PrefixFacts
  <1> HIDE DEF s, t
  <1>5. Len(s) = Len(t) /\ \A i \in 1 .. Len(s) : s[i] = t[i]
    BY <1>2, <1>3, <1>4
  <1>6. s = t
    BY ONLY <1>3, <1>4, <1>5, SeqEqual
  <1> QED BY <1>6 DEF s, t, g

\* A suffix that holds the request.
LEMMA SuffixOfGlue ==
  ASSUME NEW f \in Seq(Msg), NEW q \in Msg, NEW b \in Seq(Msg), NEW c \in Nat, c <= Len(f)
  PROVE  SubSeq(Glue(f, q, b), c + 1, Len(Glue(f, q, b))) = Glue(SubSeq(f, c + 1, Len(f)), q, b)
  <1> DEFINE g == Glue(f, q, b)
             h == SubSeq(f, c + 1, Len(f))
             s == SubSeq(g, c + 1, Len(g))
             t == Glue(h, q, b)
  <1>1. Glues(g, f, q, b)
    BY GlueFacts
  <1>2. h \in Seq(Msg) /\ Len(h) = Len(f) - c /\ \A i \in 1 .. Len(f) - c : h[i] = f[c + i]
    BY SuffixFacts
  <1> HIDE DEF h
  <1>3. Glues(t, h, q, b)
    BY <1>2, GlueFacts
  <1> HIDE DEF g, t
  <1>4. g \in Seq(Msg) /\ c <= Len(g) /\ Len(g) = Len(f) + 1 + Len(b) /\ Len(f) \in Nat /\ Len(b) \in Nat
    BY <1>1 DEF Glues
  <1>5. s \in Seq(Msg) /\ Len(s) = Len(g) - c /\ \A i \in 1 .. Len(g) - c : s[i] = g[c + i]
    BY <1>4, SuffixFacts
  <1> HIDE DEF s
  <1>6. t \in Seq(Msg) /\ Len(t) = (Len(f) - c) + 1 + Len(b)
    BY <1>2, <1>3 DEF Glues
  <1>7. Len(s) = Len(t)
    BY <1>4, <1>5, <1>6
  <1>8. ASSUME NEW i \in 1 .. Len(s) PROVE s[i] = t[i]
    <2>1. s[i] = g[c + i] /\ i \in Nat /\ i >= 1 /\ c + i <= Len(f) + 1 + Len(b)
      BY <1>4, <1>5
    <2>2. CASE c + i <= Len(f)
      <3>1. c + i \in 1 .. Len(f) /\ i \in 1 .. Len(f) - c /\ i \in 1 .. Len(h)
        BY <2>1, <2>2, <1>2, <1>4
      <3>2. g[c + i] = f[c + i]
        BY <3>1, <1>1 DEF Glues
      <3>3. t[i] = h[i]
        BY <3>1, <1>3 DEF Glues
      <3> QED BY <2>1, <3>1, <3>2, <3>3, <1>2
    <2>3. CASE c + i = Len(f) + 1
      <3>1. i = Len(h) + 1
        BY <2>1, <2>3, <1>2, <1>4
      <3>2. g[c + i] = q
        BY <2>3, <1>1 DEF Glues
      <3>3. t[i] = q
        BY <3>1, <1>3 DEF Glues
      <3> QED BY <2>1, <3>2, <3>3
    <2>4. CASE c + i > Len(f) + 1
      <3>1. /\ c + i \in Len(f) + 2 .. Len(f) + 1 + Len(b) /\ i \in Len(h) + 2 .. Len(h) + 1 + Len(b)
            /\ (c + i) - (Len(f) + 1) = i - (Len(h) + 1)
        BY <2>1, <2>4, <1>2, <1>4
      <3>2. g[c + i] = b[(c + i) - (Len(f) + 1)]
        BY <3>1, <1>1 DEF Glues
      <3>3. t[i] = b[i - (Len(h) + 1)]
        BY <3>1, <1>3 DEF Glues
      <3> QED BY <2>1, <3>1, <3>2, <3>3
    <2>5. c + i \in Nat /\ Len(f) \in Nat
      BY <2>1, <1>4
    <2>6. c + i <= Len(f) \/ c + i = Len(f) + 1 \/ c + i > Len(f) + 1
      BY ONLY <2>5
    <2> QED BY ONLY <2>2, <2>3, <2>4, <2>6
  <1>9. s = t
    BY ONLY <1>5, <1>6, <1>7, <1>8, SeqEqual
  <1> QED BY <1>9 DEF s, t, g, h

\* One that does not.
LEMMA RestOfGlue ==
  ASSUME NEW f \in Seq(Msg), NEW q \in Msg, NEW b \in Seq(Msg), NEW d \in Nat, d <= Len(b)
  PROVE  SubSeq(Glue(f, q, b), Len(f) + 1 + d + 1, Len(Glue(f, q, b))) = SubSeq(b, d + 1, Len(b))
  <1> DEFINE g == Glue(f, q, b)
             c == Len(f) + 1 + d
             s == SubSeq(g, c + 1, Len(g))
             t == SubSeq(b, d + 1, Len(b))
  <1>1. Glues(g, f, q, b)
    BY GlueFacts
  <1> HIDE DEF g
  <1>2. g \in Seq(Msg) /\ c \in Nat /\ c <= Len(g) /\ Len(g) - c = Len(b) - d /\ Len(f) \in Nat /\ Len(b) \in Nat
        /\ Len(g) \in Nat
    BY <1>1 DEF Glues
  <1>c. c = Len(f) + 1 + d
    OBVIOUS
  <1> HIDE DEF c
  <1>3. s \in Seq(Msg) /\ Len(s) = Len(g) - c /\ \A i \in 1 .. Len(g) - c : s[i] = g[c + i]
    BY <1>2, SuffixFacts
  <1>4. t \in Seq(Msg) /\ Len(t) = Len(b) - d /\ \A i \in 1 .. Len(b) - d : t[i] = b[d + i]
    BY SuffixFacts
  <1> HIDE DEF s, t
  <1>5. ASSUME NEW i \in 1 .. Len(s) PROVE s[i] = t[i]
    <2>1. i \in 1 .. Len(b) - d /\ d + i \in 1 .. Len(b) /\ c + i = Len(f) + 1 + (d + i)
      <3>1. /\ Len(b) \in Nat /\ d \in Nat /\ d <= Len(b) /\ Len(f) \in Nat /\ c \in Nat
            /\ Len(s) = Len(b) - d /\ c = Len(f) + 1 + d /\ i \in 1 .. Len(s)
        BY <1>2, <1>3, <1>c
      <3> QED BY ONLY <3>1
    <2>2. g[Len(f) + 1 + (d + i)] = b[d + i]
      BY <2>1, <1>1 DEF Glues
    <2> QED BY <2>1, <2>2, <1>2, <1>3, <1>4
  <1>6. Len(s) = Len(t)
    BY <1>2, <1>3, <1>4
  <1>7. s = t
    BY ONLY <1>3, <1>4, <1>5, <1>6, SeqEqual
  <1> QED BY <1>7, <1>c DEF s, t, g

-----------------------------------------------------------------------------
(* What stands before the request                                          *)

\* The messages the loop adds itself.
LEMMA Singles ==
  /\ Elision \in Msg /\ Ack \in Msg /\ Hint \in Msg /\ Note \in Msg
  /\ Elision.kind = "elision" /\ Ack.kind = "ack" /\ Hint.kind = "hint" /\ Note.kind = "note"
  /\ <<Elision>> \in Seq(Msg) /\ Len(<<Elision>>) = 1 /\ <<Elision>>[1] = Elision
  <1>1. /\ Elision \in Msg /\ Ack \in Msg /\ Hint \in Msg /\ Note \in Msg
        /\ Elision.kind = "elision" /\ Ack.kind = "ack" /\ Hint.kind = "hint" /\ Note.kind = "note"
    BY DEF Elision, Ack, Hint, Note, Message, Msg
  <1> HIDE DEF Elision
  <1> QED BY <1>1

\* Places of two sequences, one behind the other.
LEMMA ConcatFacts ==
  ASSUME NEW u \in Seq(Msg), NEW v \in Seq(Msg)
  PROVE  /\ u \o v \in Seq(Msg) /\ Len(u) \in Nat /\ Len(v) \in Nat /\ Len(u \o v) = Len(u) + Len(v)
         /\ \A i \in 1 .. Len(u) : (u \o v)[i] = u[i]
         /\ \A i \in 1 .. Len(v) : (u \o v)[Len(u) + i] = v[i]
         /\ \A i \in Len(u) + 1 .. Len(u) + Len(v) : i - Len(u) \in 1 .. Len(v) /\ (u \o v)[i] = v[i - Len(u)]
  <1> DEFINE w == u \o v
  <1>1. /\ w \in Seq(Msg) /\ Len(w) = Len(u) + Len(v)
        /\ \A i \in 1 .. Len(u) + Len(v) : w[i] = IF i <= Len(u) THEN u[i] ELSE v[i - Len(u)]
    BY ONLY u \in Seq(Msg), v \in Seq(Msg), ConcatProperties
  <1>2. Len(u) \in Nat /\ Len(v) \in Nat
    OBVIOUS
  <1> HIDE DEF w
  <1>3. ASSUME NEW i \in 1 .. Len(u) PROVE w[i] = u[i]
    <2>1. i \in 1 .. Len(u) + Len(v) /\ i <= Len(u)
      BY ONLY <1>2, i \in 1 .. Len(u)
    <2> QED BY ONLY <1>1, <2>1
  <1>4. ASSUME NEW i \in 1 .. Len(v) PROVE w[Len(u) + i] = v[i]
    <2>1. Len(u) + i \in 1 .. Len(u) + Len(v) /\ ~ (Len(u) + i <= Len(u)) /\ (Len(u) + i) - Len(u) = i
      BY <1>2
    <2> QED BY <2>1, <1>1
  <1>5. ASSUME NEW i \in Len(u) + 1 .. Len(u) + Len(v)
        PROVE  i - Len(u) \in 1 .. Len(v) /\ w[i] = v[i - Len(u)]
    <2>1. i \in 1 .. Len(u) + Len(v) /\ ~ (i <= Len(u)) /\ i - Len(u) \in 1 .. Len(v)
      BY <1>2
    <2> QED BY <2>1, <1>1
  <1> QED BY <1>1, <1>2, <1>3, <1>4, <1>5 DEF w

LEMMA ProtectedFacts ==
  ASSUME NEW f, FrontOK(f)
  PROVE  /\ SubSeq(f, 1, LeadOf(f)) \in Seq(Msg) /\ Len(SubSeq(f, 1, LeadOf(f))) = LeadOf(f)
         /\ \A i \in 1 .. LeadOf(f) : SubSeq(f, 1, LeadOf(f))[i] = f[i]
  <1>1. f \in Seq(Msg) /\ LeadOf(f) \in Nat /\ LeadOf(f) <= Len(f)
    BY LeadFacts DEF FrontOK
  <1> QED BY <1>1, PrefixFacts

\* The contract alone is a front, and with a summary and its acknowledgement.
LEMMA ProtectedIsFront ==
  ASSUME NEW f, FrontOK(f)
  PROVE  FrontOK(SubSeq(f, 1, LeadOf(f)))
  <1> DEFINE p == SubSeq(f, 1, LeadOf(f))
             n == LeadOf(f)
  <1>1. p \in Seq(Msg) /\ Len(p) = n /\ \A i \in 1 .. n : p[i] = f[i]
    BY ProtectedFacts
  <1>2. n \in {1, 2} /\ n <= Len(f) /\ (n = 2 => f[2].kind = "elision") /\ f[1].kind = "contract" /\ Len(f) \in Nat
    BY LeadFacts DEF LeadOf, FrontOK
  <1> HIDE DEF p, n
  <1>3. p[1] = f[1] /\ (n = 2 => p[2] = f[2])
    BY <1>1, <1>2
  <1>4. LeadOf(p) = n
    BY <1>1, <1>2, <1>3 DEF LeadOf
  <1>5. ASSUME NEW i \in 2 .. Len(p) PROVE i = 2 /\ p[i].kind = "elision"
    BY <1>1, <1>2, <1>3
  <1>6. ~ (LeadOf(p) < Len(p)) /\ Len(p) >= 1 /\ p[1].kind = "contract"
    BY <1>1, <1>2, <1>3, <1>4
  <1>7. FrontOK(p)
    BY <1>1, <1>5, <1>6 DEF FrontOK
  <1> QED BY <1>7 DEF p, n

\* A summary, or what was recovered of the text, in the place of the history.
LEMMA ReplacedIsFront ==
  ASSUME NEW f, FrontOK(f), NEW m \in Msg, m.kind \in {"summary", "recovery"}
  PROVE  FrontOK(SubSeq(f, 1, LeadOf(f)) \o <<m, Ack>>)
  <1> DEFINE p == SubSeq(f, 1, LeadOf(f))
             n == LeadOf(f)
             t == <<m, Ack>>
             h == p \o t
  <1>1. p \in Seq(Msg) /\ Len(p) = n /\ \A i \in 1 .. n : p[i] = f[i]
    BY ProtectedFacts
  <1>2. n \in {1, 2} /\ n <= Len(f) /\ (n = 2 <=> Len(f) >= 2 /\ f[2].kind = "elision") /\ f[1].kind = "contract"
        /\ Len(f) \in Nat
    BY LeadFacts DEF LeadOf, FrontOK
  <1>3. t \in Seq(Msg) /\ Len(t) = 2 /\ t[1] = m /\ t[2] = Ack
    BY Singles
  <1> HIDE DEF p, n, t
  <1>4. /\ h \in Seq(Msg) /\ Len(h) = n + 2 /\ \A i \in 1 .. n : h[i] = p[i]
        /\ \A i \in 1 .. 2 : h[n + i] = t[i]
    <2>1. /\ h \in Seq(Msg) /\ Len(h) = Len(p) + Len(t) /\ \A i \in 1 .. Len(p) : h[i] = p[i]
          /\ \A i \in 1 .. Len(t) : h[Len(p) + i] = t[i]
      BY <1>1, <1>3, ConcatFacts
    <2> HIDE DEF h
    <2> QED BY <2>1, <1>1, <1>3
  <1> HIDE DEF h
  <1>5. /\ h[1] = f[1] /\ (n = 2 => h[2] = f[2]) /\ h[n + 1] = m /\ h[n + 2] = Ack
    BY <1>1, <1>2, <1>3, <1>4
  <1>6. m.role = "user" /\ m.kind # "elision" /\ Ack.kind = "ack"
    BY Roles, Singles
  <1>7. LeadOf(h) = n
    BY <1>2, <1>4, <1>5, <1>6 DEF LeadOf
  <1>8. ASSUME NEW i \in 2 .. Len(h)
        PROVE  h[i].kind \in {"elision", "summary", "recovery", "ack"} /\ (h[i].kind = "elision" => i = 2)
    <2>1. (i = 2 /\ n = 2) \/ i = n + 1 \/ i = n + 2
      BY <1>2, <1>4
    <2> QED BY <2>1, <1>2, <1>5, <1>6
  <1>9. Len(h) >= 1 /\ h[1].kind = "contract" /\ h[LeadOf(h) + 1].role = "user"
    BY <1>2, <1>4, <1>5, <1>6, <1>7
  <1>10. FrontOK(h)
    BY <1>4, <1>8, <1>9 DEF FrontOK
  <1> QED BY <1>10 DEF h, p, t, n

\* A cut in the history.
LEMMA CutIsFront ==
  ASSUME NEW f, FrontOK(f), NEW c \in 2 .. Len(f), c < Len(f) => IsRequestTurn(f[c + 1])
  PROVE  FrontOK((SubSeq(f, 1, 1) \o <<Elision>>) \o SubSeq(f, c + 1, Len(f)))
  <1> DEFINE p == SubSeq(f, 1, 1)
             u == p \o <<Elision>>
             s == SubSeq(f, c + 1, Len(f))
             h == u \o s
  <1>1. f \in Seq(Msg) /\ Len(f) \in Nat /\ c \in Nat /\ c <= Len(f) /\ 1 <= Len(f)
    BY DEF FrontOK
  <1>2. p \in Seq(Msg) /\ Len(p) = 1 /\ p[1] = f[1]
    BY <1>1, PrefixFacts
  <1>3. s \in Seq(Msg) /\ Len(s) = Len(f) - c /\ \A i \in 1 .. Len(f) - c : s[i] = f[c + i]
    BY <1>1, SuffixFacts
  <1> HIDE DEF p, s
  <1>4. u \in Seq(Msg) /\ Len(u) = 2 /\ u[1] = f[1] /\ u[2] = Elision
    <2>1. /\ u \in Seq(Msg) /\ Len(u) = Len(p) + Len(<<Elision>>)
          /\ \A i \in 1 .. Len(p) : u[i] = p[i]
          /\ \A i \in 1 .. Len(<<Elision>>) : u[Len(p) + i] = <<Elision>>[i]
      BY <1>2, Singles, ConcatFacts
    <2> HIDE DEF u
    <2>2. 1 \in 1 .. Len(p) /\ 1 \in 1 .. Len(<<Elision>>) /\ Len(p) + 1 = 2 /\ Len(p) + Len(<<Elision>>) = 2
      BY <1>2, Singles
    <2>3. <<Elision>>[1] = Elision
      OBVIOUS
    <2> QED BY <2>1, <2>2, <2>3, <1>2
  <1> HIDE DEF u
  <1>5. /\ h \in Seq(Msg) /\ Len(h) = 2 + (Len(f) - c)
        /\ \A i \in 1 .. 2 : h[i] = u[i]
        /\ \A i \in 3 .. 2 + (Len(f) - c) : i - 2 \in 1 .. Len(f) - c /\ h[i] = s[i - 2]
    <2>1. /\ h \in Seq(Msg) /\ Len(h) = Len(u) + Len(s)
          /\ \A i \in 1 .. Len(u) : h[i] = u[i]
          /\ \A i \in Len(u) + 1 .. Len(u) + Len(s) : i - Len(u) \in 1 .. Len(s) /\ h[i] = s[i - Len(u)]
      BY <1>3, <1>4, ConcatFacts
    <2> HIDE DEF h
    <2> QED BY <2>1, <1>3, <1>4, <1>1
  <1> HIDE DEF h
  <1>6. h[1] = f[1] /\ h[2] = Elision /\ f[1].kind = "contract"
    BY <1>4, <1>5 DEF FrontOK
  <1>7. LeadOf(h) = 2
    BY <1>1, <1>5, <1>6, Singles DEF LeadOf
  <1>8. ASSUME NEW i \in 3 .. Len(h)
        PROVE  /\ h[i] = f[c + (i - 2)] /\ c + (i - 2) \in 3 .. Len(f)
               /\ h[i].kind \in {"past", "summary", "recovery", "ack"}
    <2>1. i - 2 \in 1 .. Len(f) - c /\ h[i] = s[i - 2] /\ s[i - 2] = f[c + (i - 2)]
      BY <1>3, <1>5
    <2>2. c + (i - 2) \in 3 .. Len(f)
      BY <2>1, <1>1
    <2>3. f[c + (i - 2)].kind \in {"elision", "past", "summary", "recovery", "ack"} /\ f[c + (i - 2)].kind # "elision"
      BY <2>2, <1>1 DEF FrontOK
    <2> QED BY <2>1, <2>2, <2>3
  <1>9. ASSUME 2 < Len(h) PROVE h[3].role = "user"
    <2>1. 3 \in 3 .. Len(h) /\ c < Len(f)
      BY <1>9, <1>1, <1>5
    <2>2. h[3] = f[c + (3 - 2)] /\ c + (3 - 2) = c + 1
      BY <2>1, <1>8, <1>1
    <2> QED BY <2>1, <2>2 DEF IsRequestTurn
  <1>10. ASSUME NEW i \in 2 .. Len(h)
         PROVE  h[i].kind \in {"elision", "past", "summary", "recovery", "ack"} /\ (h[i].kind = "elision" => i = 2)
    <2>1. i = 2 \/ i \in 3 .. Len(h)
      BY <1>1, <1>5
    <2> QED BY <2>1, <1>6, <1>8, Singles
  <1>11. Len(h) >= 1 /\ 2 + 1 = 3
    BY <1>1, <1>5
  <1> QED BY <1>5, <1>6, <1>7, <1>9, <1>10, <1>11 DEF FrontOK, h, u, s, p

-----------------------------------------------------------------------------
(* What stands after it                                                    *)

\* The kinds after the request.
LEMMA BackKinds ==
  ASSUME NEW b, BackOK(b), NEW i \in 1 .. Len(b)
  PROVE  /\ b \in Seq(Msg) /\ Len(b) \in Nat /\ b[i] \in Msg
         /\ b[i].kind \in {"call", "result", "stub", "hint", "note", "part", "elision"}
         /\ b[i].kind = "elision" => i = 1
         /\ b[i].role = "tool" => Answers(b, i)
         /\ b[i].kind = "call" => Answered(b, i)
         /\ b[i].role = "tool" /\ (\A j \in i + 1 .. Len(b) : b[j].role # "tool") => b[i].kind = "result"
  BY DEF BackOK

\* A sequence whose places, from one on, are those of a back.
LEMMA ShiftedAnswers ==
  ASSUME NEW u \in Seq(Msg), NEW v \in Seq(Msg), NEW d \in Nat, NEW i \in 1 .. Len(v),
         d + i \in Nat, \A j \in 1 .. i : u[d + j] = v[j], Answers(v, i)
  PROVE  Answers(u, d + i)
  <1>1. PICK j \in 1 .. i - 1 : /\ v[j].kind = "call" /\ v[j].id = v[i].id
                                /\ \A k \in j + 1 .. i : v[k].role # "assistant"
    BY DEF Answers
  <1>2. i \in 1 .. i /\ j \in 1 .. i /\ d + j \in 1 .. (d + i) - 1
    OBVIOUS
  <1>3. u[d + j].kind = "call" /\ u[d + j].id = u[d + i].id
    BY <1>1, <1>2
  <1>4. ASSUME NEW k \in (d + j) + 1 .. d + i PROVE u[k].role # "assistant"
    <2>1. k - d \in j + 1 .. i /\ k - d \in 1 .. i /\ d + (k - d) = k
      OBVIOUS
    <2> QED BY <2>1, <1>1
  <1> QED BY <1>2, <1>3, <1>4 DEF Answers

LEMMA ShiftedAnswered ==
  ASSUME NEW u \in Seq(Msg), NEW v \in Seq(Msg), NEW d \in Nat, NEW i \in 1 .. Len(v),
         d + Len(v) <= Len(u), \A j \in 1 .. Len(v) : u[d + j] = v[j], Answered(v, i)
  PROVE  Answered(u, d + i)
  <1>1. u[d + i] = v[i] /\ Len(u) \in Nat /\ Len(v) \in Nat
    OBVIOUS
  <1>2. ASSUME NEW n \in 1 .. v[i].n
        PROVE  \E j \in (d + i) + 1 .. Len(u) : u[j].role = "tool" /\ u[j].id = v[i].id /\ u[j].n = n
    <2>1. PICK j \in i + 1 .. Len(v) : v[j].role = "tool" /\ v[j].id = v[i].id /\ v[j].n = n
      BY DEF Answered
    <2>2. j \in 1 .. Len(v) /\ d + j \in (d + i) + 1 .. Len(u)
      BY <1>1
    <2> QED BY <2>1, <2>2
  <1> QED BY <1>1, <1>2 DEF Answered

\* One back after another, without a mark in it, is a back.
LEMMA BackAfterBack ==
  ASSUME NEW b, BackOK(b), NEW r, BackOK(r), \A i \in 1 .. Len(r) : r[i].kind # "elision"
  PROVE  BackOK(b \o r)
  <1> DEFINE h == b \o r
             n == Len(b)
             m == Len(r)
  <1>1. b \in Seq(Msg) /\ r \in Seq(Msg)
    BY DEF BackOK
  <1>2. /\ h \in Seq(Msg) /\ n \in Nat /\ m \in Nat /\ Len(h) = n + m
        /\ \A i \in 1 .. n : h[i] = b[i]
        /\ \A i \in 1 .. m : h[n + i] = r[i]
        /\ \A i \in n + 1 .. n + m : i - n \in 1 .. m /\ h[i] = r[i - n]
    BY <1>1, ConcatFacts
  <1> HIDE DEF h
  <1>3. ASSUME NEW i \in 1 .. n
        PROVE  /\ h[i].kind \in {"call", "result", "stub", "hint", "note", "part", "elision"}
               /\ h[i].kind = "elision" => i = 1
               /\ h[i].role = "tool" => Answers(h, i)
               /\ h[i].kind = "call" => Answered(h, i)
               /\ h[i].role = "tool" /\ (\A j \in i + 1 .. Len(h) : h[j].role # "tool") => h[i].kind = "result"
    <2>1. h[i] = b[i] /\ i \in 1 .. Len(b)
      BY <1>2
    <2>2. /\ b[i].kind \in {"call", "result", "stub", "hint", "note", "part", "elision"}
          /\ b[i].kind = "elision" => i = 1
          /\ b[i].role = "tool" => Answers(b, i)
          /\ b[i].kind = "call" => Answered(b, i)
          /\ b[i].role = "tool" /\ (\A j \in i + 1 .. Len(b) : b[j].role # "tool") => b[i].kind = "result"
      BY <2>1, BackKinds
    <2>3. ASSUME Answers(b, i) PROVE Answers(h, i)
      <3>0. PICK z \in Nat : z = 0
        OBVIOUS
      <3>1. (\A j \in 1 .. i : h[z + j] = b[j]) /\ z + i \in Nat
        <4>1. z \in Nat /\ z = 0 /\ \A j \in 1 .. i : h[j] = b[j] /\ z + j = j
          <5>1. \A j \in 1 .. i : j \in 1 .. n /\ z + j = j
            BY <1>2, <3>0
          <5> QED BY <1>2, <3>0, <5>1
        <4> QED BY ONLY <4>1, <2>1, <1>2, i \in 1 .. n
      <3>2. Answers(h, z + i)
        BY ONLY <3>1, <2>3, <2>1, <1>1, <1>2, ShiftedAnswers
      <3>3. z + i = i
        BY <3>0
      <3> QED BY <3>2, <3>3
    <2>4. ASSUME Answered(b, i) PROVE Answered(h, i)
      <3>1. (\A j \in 1 .. Len(b) : h[0 + j] = b[j]) /\ 0 + Len(b) <= Len(h)
        BY <1>2
      <3>2. Answered(h, 0 + i)
        BY ONLY <3>1, <2>4, <2>1, <1>1, <1>2, ShiftedAnswered
      <3> QED BY <3>2
    <2>5. ASSUME \A j \in i + 1 .. Len(h) : h[j].role # "tool"
          PROVE  \A j \in i + 1 .. Len(b) : b[j].role # "tool"
      BY <2>5, <1>2
    <2> QED BY <2>1, <2>2, <2>3, <2>4, <2>5
  <1>4. ASSUME NEW k \in 1 .. m
        PROVE  /\ h[n + k].kind \in {"call", "result", "stub", "hint", "note", "part"}
               /\ h[n + k].role = "tool" => Answers(h, n + k)
               /\ h[n + k].kind = "call" => Answered(h, n + k)
               /\ h[n + k].role = "tool" /\ (\A j \in n + k + 1 .. Len(h) : h[j].role # "tool")
                    => h[n + k].kind = "result"
    <2>1. h[n + k] = r[k] /\ k \in 1 .. Len(r)
      BY <1>2
    <2>2. /\ r[k].kind \in {"call", "result", "stub", "hint", "note", "part", "elision"}
          /\ r[k].role = "tool" => Answers(r, k)
          /\ r[k].kind = "call" => Answered(r, k)
          /\ r[k].role = "tool" /\ (\A j \in k + 1 .. Len(r) : r[j].role # "tool") => r[k].kind = "result"
      BY <2>1, BackKinds
    <2>3. ASSUME Answers(r, k) PROVE Answers(h, n + k)
      <3>1. (\A j \in 1 .. k : h[n + j] = r[j]) /\ n + k \in Nat
        BY <1>2
      <3> QED BY ONLY <3>1, <2>3, <2>1, <1>1, <1>2, ShiftedAnswers
    <2>4. ASSUME Answered(r, k) PROVE Answered(h, n + k)
      <3>1. (\A j \in 1 .. Len(r) : h[n + j] = r[j]) /\ n + Len(r) <= Len(h)
        BY <1>2
      <3> QED BY ONLY <3>1, <2>4, <2>1, <1>1, <1>2, ShiftedAnswered
    <2>5. ASSUME \A j \in n + k + 1 .. Len(h) : h[j].role # "tool", NEW j \in k + 1 .. Len(r)
          PROVE  r[j].role # "tool"
      <3>1. j \in 1 .. m /\ n + j \in n + k + 1 .. Len(h)
        BY <1>2
      <3> QED BY <3>1, <2>5, <1>2
    <2> QED BY <2>1, <2>2, <2>3, <2>4, <2>5
  <1>5. ASSUME NEW i \in 1 .. Len(h)
        PROVE  /\ h[i].kind \in {"call", "result", "stub", "hint", "note", "part", "elision"}
               /\ h[i].kind = "elision" => i = 1
               /\ h[i].role = "tool" => Answers(h, i)
               /\ h[i].kind = "call" => Answered(h, i)
               /\ h[i].role = "tool" /\ (\A j \in i + 1 .. Len(h) : h[j].role # "tool") => h[i].kind = "result"
    <2>1. CASE i \in 1 .. n
      BY <2>1, <1>3
    <2>2. CASE i \notin 1 .. n
      <3>1. i - n \in 1 .. m /\ n + (i - n) = i
        BY <2>2, <1>2
      <3> QED BY <3>1, <1>4
    <2> QED BY <2>1, <2>2
  <1> QED BY <1>2, <1>5 DEF BackOK, h

\* A cut among what the turn has added leaves rounds whole.
LEMMA BackAfterCut ==
  ASSUME NEW b, BackOK(b), NEW d \in Nat, d < Len(b), b[d + 1].role = "assistant",
         \A i \in d + 1 .. Len(b) : b[i].kind # "elision"
  PROVE  BackOK(<<Elision>> \o SubSeq(b, d + 1, Len(b)))
  <1> DEFINE s == SubSeq(b, d + 1, Len(b))
             h == <<Elision>> \o s
             n == Len(b) - d
  <1>1. b \in Seq(Msg) /\ Len(b) \in Nat /\ n \in Nat /\ n >= 1 /\ d <= Len(b)
    BY DEF BackOK
  <1>2. s \in Seq(Msg) /\ Len(s) = n /\ \A i \in 1 .. n : s[i] = b[d + i]
    BY <1>1, SuffixFacts
  <1> HIDE DEF s
  <1>3. /\ h \in Seq(Msg) /\ Len(h) = 1 + n /\ h[1] = Elision
        /\ \A i \in 1 .. n : h[1 + i] = b[d + i]
    <2> DEFINE one == <<Elision>>
    <2>0. one \in Seq(Msg) /\ Len(one) = 1 /\ one[1] = Elision
      BY Singles
    <2> HIDE DEF one
    <2>1. /\ one \o s \in Seq(Msg) /\ Len(one \o s) = Len(one) + Len(s)
          /\ \A i \in 1 .. Len(one) : (one \o s)[i] = one[i]
          /\ \A i \in 1 .. Len(s) : (one \o s)[Len(one) + i] = s[i]
      BY <2>0, <1>2, ConcatFacts
    <2> DEFINE w == one \o s
    <2>2. /\ w \in Seq(Msg) /\ Len(w) = Len(one) + Len(s)
          /\ \A i \in 1 .. Len(one) : w[i] = one[i]
          /\ \A i \in 1 .. Len(s) : w[Len(one) + i] = s[i]
      BY <2>1
    <2>3. h = w
      BY DEF one
    <2> HIDE DEF w, h, n
    <2>4. w \in Seq(Msg) /\ Len(w) = 1 + n /\ w[1] = Elision
      BY <2>0, <2>2, <1>2, <1>1
    <2>5. \A i \in 1 .. n : w[1 + i] = b[d + i]
      BY <2>0, <2>2, <1>2
    <2> QED BY <2>3, <2>4, <2>5
  <1> HIDE DEF h, n
  <1>n. n = Len(b) - d
    BY DEF n
  <1>4. Elision.kind = "elision" /\ Elision.role # "tool"
    BY Singles, Roles
  <1>5. ASSUME NEW i \in 1 .. n
        PROVE  /\ h[1 + i].kind \in {"call", "result", "stub", "hint", "note", "part"}
               /\ h[1 + i].role = "tool" => Answers(h, 1 + i)
               /\ h[1 + i].kind = "call" => Answered(h, 1 + i)
               /\ h[1 + i].role = "tool" /\ (\A j \in 1 + i + 1 .. Len(h) : h[j].role # "tool")
                    => h[1 + i].kind = "result"
    <2>0. d \in Nat /\ n \in Nat /\ Len(b) \in Nat /\ n = Len(b) - d /\ i \in Nat /\ 1 <= i /\ i <= n
      BY <1>1, <1>3, <1>n
    <2>1. d + i \in 1 .. Len(b) /\ d + i \in d + 1 .. Len(b) /\ h[1 + i] = b[d + i]
      <3>1. d + i \in 1 .. Len(b) /\ d + i \in d + 1 .. Len(b)
        BY ONLY <2>0
      <3> QED BY <1>3, <3>1
    <2>2. /\ b[d + i].kind \in {"call", "result", "stub", "hint", "note", "part", "elision"}
          /\ b[d + i].kind # "elision"
          /\ b[d + i].role = "tool" => Answers(b, d + i)
          /\ b[d + i].kind = "call" => Answered(b, d + i)
          /\ b[d + i].role = "tool" /\ (\A j \in d + i + 1 .. Len(b) : b[j].role # "tool") => b[d + i].kind = "result"
      BY <2>1, BackKinds
    <2>3. ASSUME Answers(b, d + i) PROVE Answers(h, 1 + i)
      <3>1. PICK j \in 1 .. (d + i) - 1 : /\ b[j].kind = "call" /\ b[j].id = b[d + i].id
                                          /\ \A k \in j + 1 .. d + i : b[k].role # "assistant"
        BY <2>3 DEF Answers
      <3>2. j > d
        <4> SUFFICES ASSUME j <= d PROVE FALSE
          BY <1>1
        <4>1. d + 1 \in j + 1 .. d + i
          BY <1>1, <1>n
        <4> QED BY <4>1, <3>1
      <3>3. j - d \in 1 .. n /\ d + (j - d) = j /\ 1 + (j - d) \in 1 .. (1 + i) - 1
        BY <3>2, <1>1, <1>n
      <3>4. h[1 + (j - d)] = b[j]
        BY <3>3, <1>3
      <3>5. ASSUME NEW k \in (1 + (j - d)) + 1 .. 1 + i PROVE h[k].role # "assistant"
        <4>1. k - 1 \in 1 .. n /\ 1 + (k - 1) = k /\ d + (k - 1) \in j + 1 .. d + i
          BY <3>3, <1>1, <1>n
        <4> QED BY <4>1, <1>3, <3>1
      <3> QED BY <3>1, <3>3, <3>4, <3>5, <2>1 DEF Answers
    <2>4. ASSUME Answered(b, d + i) PROVE Answered(h, 1 + i)
      <3>1. ASSUME NEW x \in 1 .. h[1 + i].n
            PROVE  \E j \in (1 + i) + 1 .. Len(h) : h[j].role = "tool" /\ h[j].id = h[1 + i].id /\ h[j].n = x
        <4>1. PICK j \in d + i + 1 .. Len(b) : b[j].role = "tool" /\ b[j].id = b[d + i].id /\ b[j].n = x
          BY <3>1, <2>1, <2>4 DEF Answered
        <4>2. j - d \in 1 .. n /\ d + (j - d) = j /\ 1 + (j - d) \in (1 + i) + 1 .. Len(h)
          <5>1. /\ Len(b) \in Nat /\ n \in Nat /\ n = Len(b) - d /\ Len(h) = 1 + n
                /\ i \in Nat /\ d \in Nat /\ j \in d + i + 1 .. Len(b)
            BY <1>1, <1>n, <1>3
          <5> QED BY ONLY <5>1
        <4>3. h[1 + (j - d)] = b[j]
          BY <4>2, <1>3
        <4> QED BY <4>1, <4>2, <4>3, <2>1
      <3> QED BY <3>1 DEF Answered
    <2>5. ASSUME \A j \in 1 + i + 1 .. Len(h) : h[j].role # "tool", NEW j \in d + i + 1 .. Len(b)
          PROVE  b[j].role # "tool"
      <3>1. j - d \in 1 .. n /\ d + (j - d) = j /\ 1 + (j - d) \in 1 + i + 1 .. Len(h)
        BY <1>1, <1>n, <1>3
      <3> QED BY <3>1, <2>5, <1>3
    <2> QED BY <2>1, <2>2, <2>3, <2>4, <2>5
  <1>6. ASSUME NEW i \in 1 .. Len(h)
        PROVE  /\ h[i].kind \in {"call", "result", "stub", "hint", "note", "part", "elision"}
               /\ h[i].kind = "elision" => i = 1
               /\ h[i].role = "tool" => Answers(h, i)
               /\ h[i].kind = "call" => Answered(h, i)
               /\ h[i].role = "tool" /\ (\A j \in i + 1 .. Len(h) : h[j].role # "tool") => h[i].kind = "result"
    <2>1. CASE i = 1
      BY <2>1, <1>3, <1>4
    <2>2. CASE i # 1
      <3>1. i - 1 \in 1 .. n /\ 1 + (i - 1) = i
        BY <2>2, <1>3, <1>1
      <3> QED BY <3>1, <1>5
    <2> QED BY <2>1, <2>2
  <1> QED BY <1>3, <1>6 DEF BackOK, h, s

\* Pruning: old results become stubs, and the newest stays.
LEMMA BackAfterPrune ==
  ASSUME NEW b, BackOK(b), NEW h \in Seq(Msg), Len(h) = Len(b),
         \A i \in 1 .. Len(b) :
            \/ h[i] = b[i]
            \/ /\ b[i].kind = "result" /\ h[i] = Stub(b[i])
               /\ \E j \in i + 1 .. Len(b) : b[j].role = "tool"
  PROVE  BackOK(h) /\ \A i \in 1 .. Len(b) : (h[i].kind = "elision" <=> b[i].kind = "elision")
  <1>1. b \in Seq(Msg) /\ Len(b) \in Nat
    BY DEF BackOK
  <1>2. ASSUME NEW i \in 1 .. Len(b)
        PROVE  /\ h[i].role = b[i].role /\ h[i].id = b[i].id /\ h[i].n = b[i].n
               /\ h[i].kind = b[i].kind \/ (b[i].kind = "result" /\ h[i].kind = "stub")
    <2>1. b[i] \in Msg
      BY <1>1
    <2>2. /\ Stub(b[i]).role = b[i].role /\ Stub(b[i]).id = b[i].id /\ Stub(b[i]).n = b[i].n
          /\ Stub(b[i]).kind = "stub"
      BY <2>1 DEF Stub, Msg
    <2> QED BY <2>2
  <1>3. ASSUME NEW i \in 1 .. Len(h)
        PROVE  /\ h[i].kind \in {"call", "result", "stub", "hint", "note", "part", "elision"}
               /\ h[i].kind = "elision" => i = 1
               /\ h[i].role = "tool" => Answers(h, i)
               /\ h[i].kind = "call" => Answered(h, i)
               /\ h[i].role = "tool" /\ (\A j \in i + 1 .. Len(h) : h[j].role # "tool") => h[i].kind = "result"
    <2>1. i \in 1 .. Len(b)
      OBVIOUS
    <2>2. /\ b[i].kind \in {"call", "result", "stub", "hint", "note", "part", "elision"}
          /\ b[i].kind = "elision" => i = 1
          /\ b[i].role = "tool" => Answers(b, i)
          /\ b[i].kind = "call" => Answered(b, i)
          /\ b[i].role = "tool" /\ (\A j \in i + 1 .. Len(b) : b[j].role # "tool") => b[i].kind = "result"
      BY <2>1, BackKinds
    <2>3. ASSUME Answers(b, i) PROVE Answers(h, i)
      <3>1. PICK j \in 1 .. i - 1 : /\ b[j].kind = "call" /\ b[j].id = b[i].id
                                    /\ \A k \in j + 1 .. i : b[k].role # "assistant"
        BY <2>3 DEF Answers
      <3>2. j \in 1 .. Len(b) /\ \A k \in j + 1 .. i : k \in 1 .. Len(b)
        BY <2>1, <1>1
      <3>3. h[j].kind = "call" /\ h[j].id = h[i].id
        BY <3>1, <3>2, <2>1, <1>2
      <3>4. \A k \in j + 1 .. i : h[k].role # "assistant"
        BY <3>1, <3>2, <1>2
      <3> QED BY <3>3, <3>4 DEF Answers
    <2>4. ASSUME Answered(b, i) PROVE Answered(h, i)
      <3>1. ASSUME NEW x \in 1 .. h[i].n
            PROVE  \E j \in i + 1 .. Len(h) : h[j].role = "tool" /\ h[j].id = h[i].id /\ h[j].n = x
        <4>1. PICK j \in i + 1 .. Len(b) : b[j].role = "tool" /\ b[j].id = b[i].id /\ b[j].n = x
          BY <3>1, <2>1, <2>4, <1>2 DEF Answered
        <4>2. j \in 1 .. Len(b) /\ j \in i + 1 .. Len(h)
          BY <2>1, <1>1
        <4> QED BY <4>1, <4>2, <2>1, <1>2
      <3> QED BY <3>1 DEF Answered
    <2>5. ASSUME h[i].role = "tool", \A j \in i + 1 .. Len(h) : h[j].role # "tool"
          PROVE  h[i].kind = "result"
      <3>1. \A j \in i + 1 .. Len(b) : b[j].role # "tool"
        <4>1. ASSUME NEW j \in i + 1 .. Len(b) PROVE b[j].role # "tool"
          <5>1. j \in 1 .. Len(b) /\ j \in i + 1 .. Len(h)
            BY <2>1, <1>1
          <5> QED BY <5>1, <2>5, <1>2
        <4> QED BY <4>1
      <3>2. h[i] = b[i]
        BY <3>1, <2>1
      <3> QED BY <3>1, <3>2, <2>2, <2>5
    <2>6. h[i].role = b[i].role /\ (h[i].kind = b[i].kind \/ (b[i].kind = "result" /\ h[i].kind = "stub"))
      BY <2>1, <1>2
    <2> QED BY <2>2, <2>3, <2>4, <2>5, <2>6
  <1>4. \A i \in 1 .. Len(b) : (h[i].kind = "elision" <=> b[i].kind = "elision")
    BY <1>2
  <1> QED BY <1>3, <1>4 DEF BackOK

-----------------------------------------------------------------------------
(* The cap                                                                 *)

\* What a cut leaves, in terms of the parts.
LEMMA KeptTailForm ==
  ASSUME NEW f, NEW q, NEW b, PartsOK(f, q, b), NEW c
  PROVE  KeptTail(Glue(f, q, b), c) =
           ((SubSeq(f, 1, 1) \o (IF Len(f) + 1 <= c THEN <<q>> ELSE <<>>))
            \o ElisionNote((2 .. c) \ {Len(f) + 1}))
           \o SubSeq(Glue(f, q, b), c + 1, Len(Glue(f, q, b)))
  <1> DEFINE g == Glue(f, q, b)
  <1>1. f \in Seq(Msg) /\ q \in Msg /\ b \in Seq(Msg) /\ 1 <= Len(f)
    BY DEF PartsOK, FrontOK, BackOK
  <1>2. ActiveStart(g) = Len(f) + 1 /\ HeadLength(g) = 1
    BY ActiveStartOf, LeadingOf
  <1>3. SubSeq(g, 1, 1) = SubSeq(f, 1, 1)
    BY <1>1, PrefixOfGlue
  <1>4. g[Len(f) + 1] = q
    <2>1. Glues(g, f, q, b)
      BY <1>1, GlueFacts
    <2> QED BY <2>1 DEF Glues
  <1> HIDE DEF g
  <1>5. 1 + 1 = 2
    OBVIOUS
  <1>6. KeptTail(g, c) =
           ((SubSeq(f, 1, 1) \o (IF Len(f) + 1 <= c THEN <<q>> ELSE <<>>))
            \o ElisionNote((2 .. c) \ {Len(f) + 1})) \o SubSeq(g, c + 1, Len(g))
    BY <1>2, <1>3, <1>4, <1>5 DEF KeptTail
  <1> QED BY <1>6 DEF g

\* Parentheses.
LEMMA GlueFront ==
  ASSUME NEW u \in Seq(Msg), NEW h \in Seq(Msg), NEW q \in Msg, NEW b \in Seq(Msg)
  PROVE  u \o Glue(h, q, b) = Glue(u \o h, q, b)
  <1> DEFINE o == <<q>>
  <1>1. o \in Seq(Msg)
    OBVIOUS
  <1> HIDE DEF o
  <1> DEFINE w == h \o o
  <1>2. w \in Seq(Msg)
    BY <1>1, ConcatFacts
  <1>3. (u \o h) \o o = u \o w
    BY ONLY <1>1, u \in Seq(Msg), h \in Seq(Msg), ConcatAssociative
  <1> HIDE DEF w
  <1>4. (u \o w) \o b = u \o (w \o b)
    BY ONLY <1>2, u \in Seq(Msg), b \in Seq(Msg), ConcatAssociative
  <1>5. ((u \o h) \o o) \o b = u \o (w \o b)
    BY ONLY <1>3, <1>4
  <1> QED BY <1>5 DEF Glue, o, w

LEMMA GlueBack ==
  ASSUME NEW h \in Seq(Msg), NEW q \in Msg, NEW e \in Seq(Msg), NEW b \in Seq(Msg)
  PROVE  Glue(h, q, e) \o b = Glue(h, q, e \o b)
  <1> DEFINE u == h \o <<q>>
  <1>1. u \in Seq(Msg)
    <2>1. <<q>> \in Seq(Msg)
      OBVIOUS
    <2> QED BY <2>1, ConcatFacts
  <1> HIDE DEF u
  <1>2. (u \o e) \o b = u \o (e \o b)
    BY <1>1, ConcatAssociative
  <1> QED BY <1>2 DEF Glue, u

LEMMA EmptyFacts ==
  /\ <<>> \in Seq(Msg) /\ Len(<<>>) = 0
  /\ \A s \in Seq(Msg) : s \o <<>> = s /\ <<>> \o s = s
  BY EmptySeq, ConcatEmptySeq

LEMMA WholeOf ==
  ASSUME NEW f, NEW q, NEW b, PartsOK(f, q, b)
  PROVE  IsWhole(Glue(f, q, b))
  BY DEF IsWhole, PartsOK, FrontOK, BackOK

\* A cut in the history.
LEMMA CutInHistory ==
  ASSUME NEW f, NEW q, NEW b, PartsOK(f, q, b), NEW c \in 1 .. Len(f),
         c < Len(f) => IsRequestTurn(f[c + 1])
  PROVE  IsWhole(KeptTail(Glue(f, q, b), c))
  <1> DEFINE g == Glue(f, q, b)
             s == SubSeq(f, c + 1, Len(f))
  <1>1. f \in Seq(Msg) /\ q \in Msg /\ b \in Seq(Msg) /\ Len(f) \in Nat /\ 1 <= Len(f) /\ FrontOK(f) /\ BackOK(b)
        /\ q.kind = "request" /\ OneMark(f, b) /\ c \in Nat /\ c <= Len(f)
    BY DEF PartsOK, FrontOK, BackOK
  <1>2. SubSeq(f, 1, 1) \in Seq(Msg)
    BY <1>1, PrefixFacts
  <1>3. ~ (Len(f) + 1 <= c) /\ (2 .. c) \ {Len(f) + 1} = 2 .. c
    BY <1>1
  <1>4. SubSeq(g, c + 1, Len(g)) = Glue(s, q, b)
    BY <1>1, SuffixOfGlue
  <1>5. KeptTail(g, c) = ((SubSeq(f, 1, 1) \o <<>>) \o ElisionNote(2 .. c)) \o Glue(s, q, b)
    <2>1. KeptTail(g, c) =
            ((SubSeq(f, 1, 1) \o (IF Len(f) + 1 <= c THEN <<q>> ELSE <<>>))
             \o ElisionNote((2 .. c) \ {Len(f) + 1}))
            \o SubSeq(g, c + 1, Len(g))
      BY KeptTailForm
    <2> HIDE DEF g, s
    <2> QED BY ONLY <1>3, <1>4, <2>1
  <1>6. SubSeq(f, 1, 1) \o <<>> = SubSeq(f, 1, 1)
    BY <1>2, EmptyFacts
  <1>7. s \in Seq(Msg)
    BY <1>1, SuffixFacts
  <1> HIDE DEF g, s
  <1>8. CASE c = 1
    <2>1. 2 .. c = {}
      BY <1>8
    <2>2. ElisionNote(2 .. c) = <<>>
      BY <2>1 DEF ElisionNote
    <2> DEFINE p == SubSeq(f, 1, 1)
    <2>p. p \in Seq(Msg) /\ p \o <<>> = p
      BY <1>2, <1>6
    <2>k. KeptTail(g, c) = ((p \o <<>>) \o <<>>) \o Glue(s, q, b)
      BY <1>5, <2>2
    <2> HIDE DEF p
    <2>l. KeptTail(g, c) = p \o Glue(s, q, b)
      BY <2>k, <2>p
    <2>m. KeptTail(g, c) = Glue(p \o s, q, b)
      <3>1. p \in Seq(Msg) /\ s \in Seq(Msg) /\ q \in Msg /\ b \in Seq(Msg)
        BY <2>p, <1>7, <1>1
      <3>2. p \o Glue(s, q, b) = Glue(p \o s, q, b)
        BY ONLY <3>1, GlueFront
      <3> QED BY <2>l, <3>2
    <2>3. KeptTail(g, c) = Glue(SubSeq(f, 1, 1) \o s, q, b)
      BY <2>m DEF p
    <2>4. SubSeq(f, 1, 1) \o SubSeq(f, 1 + 1, Len(f)) = SubSeq(f, 1, Len(f))
      <3>1. 1 \in 1 .. Len(f) + 1 /\ 1 \in 1 - 1 .. Len(f) /\ Len(f) \in 1 .. Len(f)
        BY <1>1
      <3> QED BY ONLY <1>1, <3>1, ConcatAdjacentSubSeq
    <2>5. SubSeq(f, 1, Len(f)) = f
      BY <1>1, SubSeqFull
    <2>6. KeptTail(g, c) = g
      BY <2>3, <2>4, <2>5, <1>8 DEF s, g
    <2>7. IsWhole(g)
      BY WholeOf DEF g
    <2> QED BY <2>6, <2>7 DEF g
  <1>9. CASE c # 1
    <2>1. c \in 2 .. Len(f) /\ 2 .. c # {}
      <3>1. c \in 2 .. Len(f) /\ 2 \in 2 .. c
        BY <1>9, <1>1
      <3> QED BY <3>1
    <2>2. ElisionNote(2 .. c) = <<Elision>>
      BY <2>1 DEF ElisionNote
    <2> DEFINE u == SubSeq(f, 1, 1) \o <<Elision>>
    <2>3. u \in Seq(Msg)
      BY <1>2, Singles, ConcatFacts
    <2>4. KeptTail(g, c) = u \o Glue(s, q, b)
      BY <1>5, <1>6, <2>2
    <2>5. FrontOK(u \o s)
      BY <1>1, <2>1, CutIsFront DEF s
    <2> HIDE DEF u
    <2>6. KeptTail(g, c) = Glue(u \o s, q, b)
      <3>1. u \in Seq(Msg) /\ s \in Seq(Msg) /\ q \in Msg /\ b \in Seq(Msg)
        BY <2>3, <1>7, <1>1
      <3>2. u \o Glue(s, q, b) = Glue(u \o s, q, b)
        BY ONLY <3>1, GlueFront
      <3> QED BY <2>4, <3>2
    <2>7. ASSUME NEW i \in 1 .. Len(b), b[i].kind = "elision" PROVE FALSE
      <3>1. Len(f) = 1
        BY <2>7, <1>1 DEF OneMark
      <3> QED BY <3>1, <2>1
    <2>8. PartsOK(u \o s, q, b)
      BY <1>1, <2>5, <2>7 DEF PartsOK, OneMark
    <2>9. IsWhole(Glue(u \o s, q, b))
      BY <2>8, WholeOf
    <2> QED BY <2>6, <2>9 DEF g
  <1> QED BY <1>8, <1>9 DEF g

\* A cut at the request or behind it, at the boundary of a round.
LEMMA CutInTurn ==
  ASSUME NEW f, NEW q, NEW b, PartsOK(f, q, b), NEW d \in Nat, d < Len(b),
         IsRoundBoundary(b[d + 1])
  PROVE  IsWhole(KeptTail(Glue(f, q, b), Len(f) + 1 + d))
  <1> DEFINE g == Glue(f, q, b)
             c == Len(f) + 1 + d
             p == SubSeq(f, 1, 1)
             s == SubSeq(b, d + 1, Len(b))
             e == ElisionNote((2 .. c) \ {Len(f) + 1})
  <1>1. f \in Seq(Msg) /\ q \in Msg /\ b \in Seq(Msg) /\ Len(f) \in Nat /\ 1 <= Len(f) /\ FrontOK(f) /\ BackOK(b)
        /\ q.kind = "request" /\ OneMark(f, b) /\ Len(b) \in Nat /\ d <= Len(b) /\ d + 1 \in 1 .. Len(b)
    BY DEF PartsOK, FrontOK, BackOK
  <1>2. p \in Seq(Msg) /\ Len(p) = 1 /\ p[1] = f[1]
    BY <1>1, PrefixFacts
  <1>3. Len(f) + 1 <= c /\ c \in Nat /\ c + 1 = Len(f) + 1 + d + 1
    BY <1>1
  <1>4. SubSeq(g, c + 1, Len(g)) = s
    BY <1>1, RestOfGlue
  <1>5. KeptTail(g, c) = ((p \o <<q>>) \o e) \o s
    BY <1>3, <1>4, KeptTailForm
  <1>6. s \in Seq(Msg)
    BY <1>1, SuffixFacts
  <1>7. e \in Seq(Msg) /\ (e = <<Elision>> \/ e = <<>>)
    BY Singles, EmptyFacts DEF ElisionNote
  <1>8. KeptTail(g, c) = Glue(p, q, e \o s)
    <2> HIDE DEF p, s, e, g, c
    <2>1. p \in Seq(Msg) /\ q \in Msg /\ e \in Seq(Msg) /\ s \in Seq(Msg)
      BY <1>1, <1>2, <1>6, <1>7
    <2>q. \A x \in Seq(Msg), y \in Seq(Msg), z \in Seq(Msg) : Glue(x, q, y) \o z = Glue(x, q, y \o z)
      BY <2>1, GlueBack
    <2>2. Glue(p, q, e) \o s = Glue(p, q, e \o s)
      BY ONLY <2>1, <2>q
    <2> QED BY <2>2, <1>5 DEF Glue
  <1>9. FrontOK(p) /\ Len(p) = 1
    <2> HIDE DEF p
    <2>1. LeadOf(p) = 1
      BY <1>2 DEF LeadOf
    <2>2. f[1].kind = "contract"
      BY <1>1 DEF FrontOK
    <2> QED BY <2>1, <2>2, <1>2 DEF FrontOK
  <1>10. b[d + 1].role = "assistant"
    BY <1>1, BackFacts DEF IsRoundBoundary
  <1>11. BackOK(e \o s)
    <2>1. CASE (2 .. c) \ {Len(f) + 1} = {}
      <3>1. c = 2 /\ Len(f) = 1
        <4>1. 2 \in 2 .. c /\ c \in 2 .. c
          BY <1>1, <1>3
        <4> HIDE DEF c
        <4>2. 2 = Len(f) + 1 /\ c = Len(f) + 1
          BY <4>1, <2>1
        <4>0. Len(f) \in Nat /\ 2 = Len(f) + 1
          BY <4>2, <1>1
        <4>3. Len(f) = 1
          <5>1. \A x \in Nat : 2 = x + 1 => x = 1
            OBVIOUS
          <5> QED BY ONLY <4>0, <5>1
        <4>4. c = 2
          BY <4>2, <1>1
        <4> QED BY <4>3, <4>4
      <3>2. d = 0 /\ d + 1 = 1
        BY <3>1, <1>1
      <3>3. e = <<>>
        BY <2>1 DEF ElisionNote
      <3>4. s = b
        BY <3>2, <1>1, SubSeqFull
      <3> HIDE DEF s, e
      <3>5. e \o s = b
        BY <3>3, <3>4, <1>1, EmptyFacts
      <3> QED BY <3>5, <1>1
    <2>2. CASE (2 .. c) \ {Len(f) + 1} # {}
      <3>1. e = <<Elision>>
        BY <2>2 DEF ElisionNote
      <3>2. ASSUME NEW i \in d + 1 .. Len(b), b[i].kind = "elision" PROVE FALSE
        <4>1. i \in 1 .. Len(b)
          BY <1>1
        <4>2. i = 1 /\ Len(f) = 1
          BY <4>1, <3>2, <1>1, BackKinds DEF OneMark
        <4>3. d = 0 /\ c = 2
          BY <4>2, <1>1
        <4>4. \A x \in 2 .. c : x = Len(f) + 1
          BY <4>2, <4>3
        <4> QED BY <4>4, <2>2
      <3>3. BackOK(<<Elision>> \o s)
        BY <1>1, <1>10, <3>2, BackAfterCut
      <3> QED BY <3>1, <3>3
    <2> QED BY <2>1, <2>2
  <1> HIDE DEF p, e, s, g, c
  <1>12. PartsOK(p, q, e \o s)
    BY <1>1, <1>9, <1>11 DEF PartsOK, OneMark
  <1>13. IsWhole(KeptTail(g, c))
    BY <1>8, <1>12, WholeOf
  <1> QED BY <1>13 DEF g, c

\* Both together: a cut at a place the cap may choose, aligned.
LEMMA CutIsWhole ==
  ASSUME NEW f, NEW q, NEW b, PartsOK(f, q, b),
         NEW c \in Nat, 1 <= c, c < Len(Glue(f, q, b)),
         c <= Len(f) \/ IsRoundBoundary(Glue(f, q, b)[c + 1])
  PROVE  IsWhole(KeptTail(Glue(f, q, b), Aligned(Glue(f, q, b), c)))
  <1> DEFINE g == Glue(f, q, b)
  <1>1. f \in Seq(Msg) /\ q \in Msg /\ b \in Seq(Msg) /\ Len(f) \in Nat /\ Len(b) \in Nat /\ q.kind = "request"
    BY DEF PartsOK, FrontOK, BackOK
  <1>2. Glues(g, f, q, b)
    BY <1>1, GlueFacts
  <1>3. ActiveStart(g) = Len(f) + 1
    BY ActiveStartOf
  <1> HIDE DEF g
  <1>4. CASE c <= Len(f)
    <2> DEFINE to == {x \in c .. Len(f) : IsRequestTurn(g[x + 1])}
    <2>1. Aligned(g, c) = Min(to)
      <3>1. ~ (Len(f) + 1 <= c) /\ (Len(f) + 1) - 1 = Len(f)
        BY <1>4, <1>1
      <3> QED BY <3>1, <1>3 DEF Aligned
    <2>2. Len(f) \in to
      <3>1. g[Len(f) + 1] = q /\ IsRequestTurn(q)
        BY <1>1, <1>2, Roles DEF Glues, IsRequestTurn
      <3> QED BY <3>1, <1>1, <1>4
    <2>3. to \in SUBSET Nat /\ to # {}
      BY <2>2, <1>1
    <2> DEFINE m == Min(to)
    <2>4. m \in to
      BY <2>3, MinOfSome
    <2>5. m \in 1 .. Len(f) /\ IsRequestTurn(g[m + 1])
      <3> HIDE DEF m
      <3> QED BY <2>4, <1>1
    <2> HIDE DEF m, to
    <2>6. m < Len(f) => IsRequestTurn(f[m + 1])
      <3> SUFFICES ASSUME m < Len(f) PROVE IsRequestTurn(f[m + 1])
        OBVIOUS
      <3>1. m + 1 \in 1 .. Len(f)
        BY <2>5, <1>1
      <3>2. g[m + 1] = f[m + 1]
        BY <3>1, <1>2 DEF Glues
      <3> QED BY <3>2, <2>5
    <2>7. IsWhole(KeptTail(g, m))
      BY <2>5, <2>6, CutInHistory DEF g
    <2> QED BY <2>1, <2>7 DEF g, m
  <1>5. CASE ~ (c <= Len(f))
    <2> DEFINE d == c - (Len(f) + 1)
    <2>1. Len(g) = Len(f) + 1 + Len(b) /\ c < Len(g) /\ IsRoundBoundary(g[c + 1])
      BY <1>2, <1>5 DEF Glues, g
    <2>2. d \in Nat /\ d < Len(b) /\ c = Len(f) + 1 + d /\ Len(f) + 1 <= c
      BY <1>1, <1>5, <2>1
    <2>3. g[c + 1] = b[d + 1]
      <3>1. d + 1 \in 1 .. Len(b) /\ c + 1 = Len(f) + 1 + (d + 1)
        BY <2>2, <1>1
      <3> HIDE DEF d
      <3> QED BY <3>1, <1>2 DEF Glues
    <2>4. Aligned(g, c) = c
      BY <2>2, <1>3 DEF Aligned
    <2> HIDE DEF d
    <2>5. IsWhole(KeptTail(Glue(f, q, b), Len(f) + 1 + d))
      BY <2>1, <2>2, <2>3, CutInTurn
    <2> QED BY <2>2, <2>4, <2>5 DEF g
  <1> QED BY <1>4, <1>5

\* The cap on the number of messages.
LEMMA CapIsWhole ==
  ASSUME NEW msgs, IsWhole(msgs)
  PROVE  IsWhole(MessageCap(msgs))
  <1>1. PICK f \in Seq(Msg), q \in Msg, b \in Seq(Msg) : msgs = Glue(f, q, b) /\ PartsOK(f, q, b)
    BY DEF IsWhole
  <1>2. Glues(msgs, f, q, b)
    BY <1>1, GlueFacts
  <1>3. /\ Len(msgs) \in Nat /\ Len(f) \in Nat /\ 1 <= Len(f) /\ Len(f) < Len(msgs) /\ HeadLength(msgs) = 1
    BY <1>1, <1>2, LeadingOf DEF Glues, PartsOK, FrontOK
  <1> DEFINE wanted == Len(msgs) - KeepRecent
             places == {1} \union {c \in 1 .. wanted : IsRoundBoundary(msgs[c + 1])}
             forwards == {c \in wanted .. Len(msgs) - 1 : IsRoundBoundary(msgs[c + 1])}
             Cut(c) == KeptTail(msgs, Aligned(msgs, c))
  <1>4. ASSUME NEW c \in Nat, 1 <= c, c < Len(msgs), c <= Len(f) \/ IsRoundBoundary(msgs[c + 1])
        PROVE  IsWhole(Cut(c))
    BY <1>1, <1>4, CutIsWhole
  <1> HIDE DEF Cut
  <1>5. ASSUME ~ (Len(msgs) <= HardLimit)
        PROVE  IsWhole(Cut(Max(places))) /\ (forwards # {} => IsWhole(Cut(Min(forwards))))
    <2>1. wanted \in Nat /\ 1 <= wanted /\ wanted < Len(msgs)
      <3>1. KeepRecent \in Nat /\ HardLimit \in Nat /\ 0 < KeepRecent /\ KeepRecent < HardLimit
        BY WindowAssumption
      <3> QED BY <3>1, <1>3, <1>5
    <2> HIDE DEF wanted
    <2>2. Max(places) \in places
      <3>1. places \in SUBSET (0 .. wanted) /\ places # {}
        BY <2>1
      <3> QED BY ONLY <3>1, <2>1, MaxOfSome
    <2> DEFINE k == Max(places)
    <2>3. k \in Nat /\ 1 <= k /\ k < Len(msgs) /\ (k <= Len(f) \/ IsRoundBoundary(msgs[k + 1]))
      <3>1. k = 1 \/ (k \in 1 .. wanted /\ IsRoundBoundary(msgs[k + 1]))
        BY <2>2
      <3> HIDE DEF k
      <3> QED BY <3>1, <2>1, <1>3
    <2> HIDE DEF k, places
    <2>4. IsWhole(Cut(k))
      BY <2>3, <1>4
    <2>5. ASSUME forwards # {} PROVE IsWhole(Cut(Min(forwards)))
      <3>1. forwards \in SUBSET Nat
        BY <2>1, <1>3
      <3>2. Min(forwards) \in forwards
        BY ONLY <3>1, <2>5, MinOfSome
      <3> DEFINE j == Min(forwards)
      <3>3. j \in wanted .. Len(msgs) - 1 /\ IsRoundBoundary(msgs[j + 1])
        BY <3>2
      <3> HIDE DEF j
      <3>4. j \in Nat /\ 1 <= j /\ j < Len(msgs)
        BY <3>3, <2>1, <1>3
      <3>5. IsWhole(Cut(j))
        BY <3>3, <3>4, <1>4
      <3> QED BY <3>5 DEF j
    <2> QED BY <2>4, <2>5 DEF k
  <1>6. MessageCap(msgs) =
          IF Len(msgs) <= HardLimit THEN msgs
          ELSE IF Len(Cut(Max(places))) < Len(msgs) THEN Cut(Max(places))
          ELSE IF forwards # {} /\ Len(Cut(Min(forwards))) < Len(msgs) THEN Cut(Min(forwards))
          ELSE msgs
    BY <1>3 DEF MessageCap, Cut
  <1> HIDE DEF places, forwards
  <1> QED BY <1>5, <1>6

-----------------------------------------------------------------------------
(* Measures                                                                *)

\* SizeOf is the last of its partial sums.
IsSums(t, msgs) ==
    /\ t \in [0 .. Len(msgs) -> Nat] /\ t[0] = 0
    /\ \A i \in 1 .. Len(msgs) : t[i] = t[i - 1] + msgs[i].size

LEMMA SumsExist ==
  ASSUME NEW msgs \in Seq(Msg)
  PROVE  \E t : IsSums(t, msgs) /\ SizeOf(msgs) = t[Len(msgs)]
  <1> DEFINE n == Len(msgs)
             step == [p \in Nat \X (1 .. n) |-> AddSize(p[1], msgs[p[2]])]
             Eq(it) == it = [s \in SUBSET (1 .. n) |->
                               IF s = {} THEN 0 ELSE AddSize(it[s \ {Max(s)}], msgs[Max(s)])]
             it == CHOOSE it : Eq(it)
             t == [i \in 0 .. n |-> it[1 .. i]]
  <1>1. n \in Nat /\ DOMAIN msgs = 1 .. n /\ \A i \in 1 .. n : msgs[i] \in Msg
    OBVIOUS
  <1>2. \A x \in Nat, m \in Msg : AddSize(x, m) \in Nat
    BY Roles DEF AddSize
  <1>3. step \in [Nat \X (1 .. n) -> Nat]
    <2> HIDE DEF n
    <2> QED BY <1>1, <1>2
  <1>4. PICK j \in [SUBSET (1 .. n) -> Nat] : IsIteration(j, n, 0, step)
    <2> HIDE DEF n, step
    <2> QED BY <1>1, <1>3, IterationExists
  <1>5. Eq(j)
    <2>1. ASSUME NEW s \in SUBSET (1 .. n), s # {}
          PROVE  step[<<j[s \ {Max(s)}], Max(s)>>] = AddSize(j[s \ {Max(s)}], msgs[Max(s)])
      <3>0. s \in SUBSET (0 .. n)
        OBVIOUS
      <3>1. Max(s) \in 1 .. n
        BY <2>1, <3>0, <1>1, MaxOfSome
      <3>2. j[s \ {Max(s)}] \in Nat
        BY <1>4
      <3> QED BY <3>1, <3>2
    <2> HIDE DEF step
    <2> QED BY <2>1, <1>4 DEF IsIteration
  <1>6. Eq(it)
    BY <1>5
  <1>7. SizeOf(msgs) = it[1 .. n]
    BY <1>1 DEF SizeOf, FoldLeft, MapThenFoldSet
  <1> HIDE DEF it
  <1>8. t[0] = 0
    <2>1. 1 .. 0 = {} /\ {} \in SUBSET (1 .. n)
      OBVIOUS
    <2> QED BY <1>1, <1>6, <2>1
  <1>9. ASSUME NEW i \in 1 .. n PROVE t[i] = AddSize(t[i - 1], msgs[i])
    <2>1. 1 .. i \in SUBSET (1 .. n) /\ i \in 1 .. i /\ i \in 0 .. n /\ i - 1 \in 0 .. n
      BY <1>1
    <2>2. it[1 .. i] = AddSize(it[(1 .. i) \ {Max(1 .. i)}], msgs[Max(1 .. i)])
      BY <1>6, <2>1
    <2>3. i \in Nat /\ i # 0
      OBVIOUS
    <2>4. Max(1 .. i) = i /\ (1 .. i) \ {i} = 1 .. (i - 1)
      BY <2>3, MaxOfPrefix
    <2> QED BY <2>1, <2>2, <2>4
  <1> DEFINE Good == {i \in 0 .. n : t[i] \in Nat}
  <1> HIDE DEF t
  <1>10. 0 \in Good
    BY <1>1, <1>8
  <1>11. ASSUME NEW i \in 1 .. n, i - 1 \in Good PROVE i \in Good
    <2>1. t[i - 1] \in Nat /\ msgs[i] \in Msg /\ i \in 0 .. n
      BY <1>1, <1>11
    <2>2. t[i] = AddSize(t[i - 1], msgs[i])
      BY <1>9
    <2>3. t[i] \in Nat
      BY ONLY <2>1, <2>2, <1>2
    <2> QED BY <2>1, <2>3
  <1>12. \A i \in 0 .. n : t[i] \in Nat
    <2> HIDE DEF Good
    <2>1. \A i \in 0 .. n : i \in Good
      BY <1>1, <1>10, <1>11, IntervalInduction
    <2> QED BY <2>1 DEF Good
  <1>13. t \in [0 .. n -> Nat] /\ t[n] = it[1 .. n]
    BY <1>1, <1>12 DEF t
  <1>14. IsSums(t, msgs)
    BY <1>8, <1>9, <1>13 DEF IsSums, AddSize
  <1> QED BY <1>7, <1>13, <1>14

\* Sizes add up.
LEMMA SizeOfBoth ==
  ASSUME NEW u \in Seq(Msg), NEW v \in Seq(Msg)
  PROVE  /\ SizeOf(u) \in Nat /\ SizeOf(v) \in Nat
         /\ SizeOf(u \o v) = SizeOf(u) + SizeOf(v)
  <1> DEFINE w == u \o v
  <1>1. /\ w \in Seq(Msg) /\ Len(u) \in Nat /\ Len(v) \in Nat /\ Len(w) = Len(u) + Len(v)
        /\ \A i \in 1 .. Len(u) : w[i] = u[i]
        /\ \A i \in 1 .. Len(v) : w[Len(u) + i] = v[i]
    BY ConcatFacts
  <1> HIDE DEF w
  <1>2. PICK t : IsSums(t, u) /\ SizeOf(u) = t[Len(u)]
    BY SumsExist
  <1>3. PICK r : IsSums(r, v) /\ SizeOf(v) = r[Len(v)]
    BY SumsExist
  <1>4. PICK x : IsSums(x, w) /\ SizeOf(w) = x[Len(w)]
    BY <1>1, SumsExist
  <1>5. /\ t \in [0 .. Len(u) -> Nat] /\ t[0] = 0
        /\ r \in [0 .. Len(v) -> Nat] /\ r[0] = 0
        /\ x \in [0 .. Len(w) -> Nat] /\ x[0] = 0
        /\ t[Len(u)] \in Nat /\ r[Len(v)] \in Nat
    <2>1. /\ t \in [0 .. Len(u) -> Nat] /\ t[0] = 0
          /\ r \in [0 .. Len(v) -> Nat] /\ r[0] = 0
          /\ x \in [0 .. Len(w) -> Nat] /\ x[0] = 0
      BY <1>2, <1>3, <1>4 DEF IsSums
    <2>2. Len(u) \in 0 .. Len(u) /\ Len(v) \in 0 .. Len(v)
      BY <1>1
    <2> QED BY <2>1, <2>2
  <1> DEFINE Same == {i \in 0 .. Len(u) : x[i] = t[i]}
             Shifted == {i \in 0 .. Len(v) : x[Len(u) + i] = t[Len(u)] + r[i]}
  <1>6. Len(u) \in Same
    <2>1. 0 \in Same
      BY <1>1, <1>5
    <2>2. ASSUME NEW i \in 1 .. Len(u), i - 1 \in Same PROVE i \in Same
      <3>1. i \in 1 .. Len(w) /\ w[i] = u[i]
        BY <1>1
      <3>2. x[i] = x[i - 1] + w[i].size /\ t[i] = t[i - 1] + u[i].size
        BY <3>1, <1>2, <1>4 DEF IsSums
      <3> QED BY <2>2, <3>1, <3>2
    <2> HIDE DEF Same
    <2>3. Len(u) \in 0 .. Len(u)
      BY <1>1
    <2> QED BY <1>1, <2>1, <2>2, <2>3, IntervalInduction
  <1>7. Len(v) \in Shifted
    <2>1. 0 \in Shifted
      BY <1>1, <1>5, <1>6
    <2>2. ASSUME NEW i \in 1 .. Len(v), i - 1 \in Shifted PROVE i \in Shifted
      <3>1. Len(u) + i \in 1 .. Len(w) /\ w[Len(u) + i] = v[i] /\ (Len(u) + i) - 1 = Len(u) + (i - 1)
        BY <1>1
      <3>2. x[Len(u) + i] = x[Len(u) + (i - 1)] + v[i].size /\ r[i] = r[i - 1] + v[i].size
        BY <3>1, <1>3, <1>4 DEF IsSums
      <3>3. x[Len(u) + (i - 1)] = t[Len(u)] + r[i - 1]
        BY <2>2
      <3>4. t[Len(u)] \in Nat /\ r[i - 1] \in Nat /\ v[i].size \in Nat
        <4>1. i - 1 \in 0 .. Len(v) /\ v[i] \in Msg
          BY <1>1
        <4> QED BY <4>1, <1>5, Roles
      <3>5. x[Len(u) + i] = t[Len(u)] + r[i]
        BY <3>2, <3>3, <3>4
      <3> QED BY <3>5
    <2> HIDE DEF Shifted
    <2>3. Len(v) \in 0 .. Len(v)
      BY <1>1
    <2> QED BY <1>1, <2>1, <2>2, <2>3, IntervalInduction
  <1>8. SizeOf(w) = SizeOf(u) + SizeOf(v)
    BY <1>1, <1>2, <1>3, <1>4, <1>7
  <1> QED BY <1>2, <1>3, <1>5, <1>8 DEF w

LEMMA Measures ==
  ASSUME NEW msgs \in Seq(Msg)
  PROVE  /\ Len(msgs) \in Nat /\ SizeOf(msgs) \in Nat /\ MessageTokens(msgs) \in Nat
         /\ Estimated(msgs) \in Nat
  <1>1. Len(msgs) \in Nat /\ SizeOf(msgs) \in Nat /\ ToolCost \in Nat
    BY SizeOfBoth, WindowAssumption
  <1> QED BY <1>1 DEF MessageTokens, Estimated

-----------------------------------------------------------------------------
(* The history, summarised or cut                                          *)

\* What is protected, what is active, and the history between them.
LEMMA ThreeParts ==
  ASSUME NEW f, NEW q, NEW b, PartsOK(f, q, b)
  PROVE  /\ Protected(Glue(f, q, b)) = SubSeq(f, 1, LeadOf(f))
         /\ Active(Glue(f, q, b)) = Glue(<<>>, q, b)
         /\ History(Glue(f, q, b)) \in Seq(Msg)
         /\ LeadOf(f) = Len(f) => History(Glue(f, q, b)) = <<>>
  <1> DEFINE g == Glue(f, q, b)
  <1>1. f \in Seq(Msg) /\ q \in Msg /\ b \in Seq(Msg) /\ Len(f) \in Nat /\ FrontOK(f)
        /\ LeadOf(f) \in 1 .. Len(f) /\ LeadOf(f) \in Nat
    BY LeadFacts DEF PartsOK, FrontOK, BackOK
  <1>2. Leading(g) = LeadOf(f) /\ ActiveStart(g) = Len(f) + 1
    BY LeadingOf, ActiveStartOf
  <1>3. SubSeq(g, 1, LeadOf(f)) = SubSeq(f, 1, LeadOf(f))
    BY <1>1, PrefixOfGlue
  <1>4. SubSeq(g, Len(f) + 1, Len(g)) = Glue(SubSeq(f, Len(f) + 1, Len(f)), q, b)
    <2>1. Len(f) \in Nat /\ Len(f) <= Len(f)
      BY <1>1
    <2> QED BY ONLY <1>1, <2>1, SuffixOfGlue DEF g
  <1>5. SubSeq(f, Len(f) + 1, Len(f)) = <<>>
    <2>1. Len(f) + 1 > Len(f)
      BY <1>1
    <2> QED BY <1>1, <2>1, SubSeqEmpty
  <1>6. g \in Seq(Msg) /\ Len(g) = Len(f) + 1 + Len(b) /\ Len(g) \in Nat /\ Len(b) \in Nat
    <2>1. Glues(g, f, q, b)
      BY <1>1, GlueFacts
    <2> HIDE DEF g
    <2> QED BY <2>1 DEF Glues
  <1> HIDE DEF g
  <1>7. Protected(g) = SubSeq(f, 1, LeadOf(f))
    BY <1>2, <1>3 DEF Protected
  <1>8. Active(g) = Glue(<<>>, q, b)
    BY <1>2, <1>4, <1>5 DEF Active
  <1>9. History(g) = SubSeq(g, LeadOf(f) + 1, Len(f))
    <2>1. (Len(f) + 1) - 1 = Len(f)
      BY <1>1
    <2> QED BY <1>2, <2>1 DEF History
  <1>10. History(g) \in Seq(Msg)
    <2>1. \A i \in LeadOf(f) + 1 .. Len(f) : i \in 1 .. Len(g)
      BY <1>1, <1>6
    <2>2. CASE LeadOf(f) = Len(f)
      <3>1. LeadOf(f) + 1 > Len(f) /\ LeadOf(f) + 1 \in Int /\ Len(f) \in Int
        BY <2>2, <1>1
      <3> QED BY <1>9, <1>6, <3>1, SubSeqEmpty, EmptyFacts
    <2>3. CASE LeadOf(f) # Len(f)
      <3>1. LeadOf(f) + 1 \in 1 .. Len(g) /\ Len(f) \in LeadOf(f) + 1 .. Len(g)
        BY <2>3, <1>1, <1>6
      <3> QED BY <1>9, <1>6, <3>1, SubSeqProperties
    <2> QED BY <2>2, <2>3
  <1>11. ASSUME LeadOf(f) = Len(f) PROVE History(g) = <<>>
    <2>1. LeadOf(f) + 1 > Len(f) /\ LeadOf(f) + 1 \in Int /\ Len(f) \in Int
      BY <1>11, <1>1
    <2> QED BY <1>9, <1>6, <2>1, SubSeqEmpty
  <1> QED BY <1>7, <1>8, <1>10, <1>11 DEF g

LEMMA Rejoined ==
  ASSUME NEW f, NEW q, NEW b, PartsOK(f, q, b), NEW h \in Seq(Msg)
  PROVE  h \o Active(Glue(f, q, b)) = Glue(h, q, b)
  <1>1. q \in Msg /\ b \in Seq(Msg)
    BY DEF PartsOK, BackOK
  <1>2. Active(Glue(f, q, b)) = Glue(<<>>, q, b)
    BY ThreeParts
  <1>3. h \o Glue(<<>>, q, b) = Glue(h \o <<>>, q, b)
    <2> DEFINE o == <<>>
    <2>1. h \in Seq(Msg) /\ o \in Seq(Msg) /\ q \in Msg /\ b \in Seq(Msg)
      BY <1>1, EmptyFacts
    <2> HIDE DEF o
    <2>2. h \o Glue(o, q, b) = Glue(h \o o, q, b)
      BY ONLY <2>1, GlueFront
    <2> QED BY <2>2 DEF o
  <1> QED BY <1>2, <1>3, EmptyFacts

\* Nothing is left of the history.
LEMMA WithoutHistory ==
  ASSUME NEW msgs, IsWhole(msgs)
  PROVE  IsWhole(Protected(msgs) \o Active(msgs))
  <1>1. PICK f \in Seq(Msg), q \in Msg, b \in Seq(Msg) : msgs = Glue(f, q, b) /\ PartsOK(f, q, b)
    BY DEF IsWhole
  <1> DEFINE p == SubSeq(f, 1, LeadOf(f))
  <1>2. FrontOK(f) /\ q.kind = "request" /\ BackOK(b) /\ OneMark(f, b)
    BY <1>1 DEF PartsOK
  <1>3. FrontOK(p) /\ p \in Seq(Msg) /\ Len(p) = LeadOf(f)
    BY <1>2, ProtectedIsFront, ProtectedFacts
  <1>4. OneMark(p, b)
    <2>1. LeadOf(f) \in {1, 2} /\ LeadOf(f) <= Len(f) /\ Len(f) \in Nat
      BY <1>2, LeadFacts DEF FrontOK
    <2> HIDE DEF p
    <2>2. Len(f) = 1 => Len(p) = 1
      BY <2>1, <1>3
    <2> QED BY <2>2, <1>2 DEF OneMark
  <1>5. Protected(msgs) = p
    BY <1>1, ThreeParts
  <1> HIDE DEF p
  <1>6. PartsOK(p, q, b)
    BY <1>2, <1>3, <1>4 DEF PartsOK
  <1>7. Protected(msgs) \o Active(msgs) = Glue(p, q, b)
    <2>1. PartsOK(f, q, b) /\ p \in Seq(Msg)
      BY <1>1, <1>3
    <2>2. p \o Active(Glue(f, q, b)) = Glue(p, q, b)
      BY ONLY <2>1, Rejoined
    <2> QED BY <2>2, <1>1, <1>5
  <1> QED BY <1>6, <1>7, WholeOf

\* A message, acknowledged, is put in the place of a history.
LEMMA HistoryReplaced ==
  ASSUME NEW msgs, IsWhole(msgs), History(msgs) # <<>>,
         NEW m \in Msg, m.kind \in {"summary", "recovery"}
  PROVE  IsWhole(Protected(msgs) \o <<m, Ack>> \o Active(msgs))
  <1>1. PICK f \in Seq(Msg), q \in Msg, b \in Seq(Msg) : msgs = Glue(f, q, b) /\ PartsOK(f, q, b)
    BY DEF IsWhole
  <1> DEFINE h == SubSeq(f, 1, LeadOf(f)) \o <<m, Ack>>
  <1>2. FrontOK(f) /\ q.kind = "request" /\ BackOK(b) /\ OneMark(f, b)
    BY <1>1 DEF PartsOK
  <1>3. FrontOK(h) /\ h \in Seq(Msg)
    <2>1. FrontOK(h)
      BY <1>2, ReplacedIsFront
    <2> HIDE DEF h
    <2> QED BY <2>1 DEF FrontOK
  <1>4. Protected(msgs) \o <<m, Ack>> = h
    BY <1>1, ThreeParts
  <1>5. Len(f) # 1
    <2>1. LeadOf(f) # Len(f)
      BY <1>1, ThreeParts
    <2>3. \A x \in {1, 2}, y \in Nat : x # y /\ x <= y => y # 1
      OBVIOUS
    <2>2. LeadOf(f) \in {1, 2} /\ LeadOf(f) <= Len(f) /\ Len(f) \in Nat
      BY <1>2, LeadFacts DEF FrontOK
    <2> QED BY ONLY <2>1, <2>2, <2>3
  <1>6. OneMark(h, b)
    BY <1>2, <1>5 DEF OneMark
  <1> HIDE DEF h
  <1>7. PartsOK(h, q, b)
    BY <1>2, <1>3, <1>6 DEF PartsOK
  <1>8. h \o Active(msgs) = Glue(h, q, b)
    <2>1. PartsOK(f, q, b) /\ h \in Seq(Msg)
      BY <1>1, <1>3
    <2>2. h \o Active(Glue(f, q, b)) = Glue(h, q, b)
      BY ONLY <2>1, Rejoined
    <2> QED BY <2>2, <1>1
  <1>9. IsWhole(h \o Active(msgs))
    BY <1>7, <1>8, WholeOf
  <1> QED BY <1>4, <1>9

LEMMA MessageFacts ==
  ASSUME NEW k \in Nat
  PROVE  /\ Message("user", "summary", 0, 0, k) \in Msg /\ Message("user", "summary", 0, 0, k).kind = "summary"
         /\ Message("user", "recovery", 0, 0, k) \in Msg /\ Message("user", "recovery", 0, 0, k).kind = "recovery"
  BY DEF Message, Msg

\* compact_history, whatever size of summary the model answers with.
LEMMA CompactedIsWhole ==
  ASSUME NEW msgs, IsWhole(msgs), NEW summary \in Nat
  PROVE  IsWhole(Compacted(msgs, summary))
  BY MessageFacts, HistoryReplaced DEF Compacted

\* With no history, there is nothing to cut that would make it fit.
LEMMA NothingToCut ==
  ASSUME NEW msgs, IsWhole(msgs), History(msgs) = <<>>, NEW m \in Msg
  PROVE  MessageTokens(msgs) <= MessageTokens(Protected(msgs) \o <<m, Ack>> \o Active(msgs))
  <1>1. PICK f \in Seq(Msg), q \in Msg, b \in Seq(Msg) : msgs = Glue(f, q, b) /\ PartsOK(f, q, b)
    BY DEF IsWhole
  <1>2. f \in Seq(Msg) /\ Len(f) \in Nat /\ LeadOf(f) \in 1 .. Len(f)
    BY <1>1, LeadFacts DEF PartsOK, FrontOK
  <1>3. LeadOf(f) = Len(f)
    <2> SUFFICES ASSUME LeadOf(f) # Len(f) PROVE FALSE
      OBVIOUS
    <2>1. Leading(msgs) = LeadOf(f) /\ ActiveStart(msgs) = Len(f) + 1
      BY <1>1, LeadingOf, ActiveStartOf
    <2>2. msgs \in Seq(Msg) /\ Len(msgs) \in Nat /\ Len(f) + 1 <= Len(msgs)
      <3>1. Glues(msgs, f, q, b)
        BY <1>1, GlueFacts
      <3> QED BY <3>1 DEF Glues
    <2>3. History(msgs) = SubSeq(msgs, LeadOf(f) + 1, Len(f))
      <3>1. (Len(f) + 1) - 1 = Len(f)
        BY <1>2
      <3> QED BY <2>1, <3>1 DEF History
    <2>4. LeadOf(f) + 1 \in Nat \ {0} /\ Len(f) \in Nat /\ Len(f) <= Len(msgs)
          /\ LeadOf(f) + 1 <= Len(f) /\ Len(f) - (LeadOf(f) + 1) + 1 # 0
      BY <2>2, <1>2
    <2>5. Len(History(msgs)) = Len(f) - (LeadOf(f) + 1) + 1
      <3>1. Len(SubSeq(msgs, LeadOf(f) + 1, Len(f))) = Len(f) - (LeadOf(f) + 1) + 1
        BY ONLY <2>2, <2>4, SubSeqFacts
      <3> QED BY <2>3, <3>1
    <2> QED BY <2>4, <2>5, EmptyFacts
  <1> DEFINE p == Protected(msgs)
             t == <<m, Ack>>
             a == Active(msgs)
             u == p \o t
  <1>4. p = f
    <2>1. SubSeq(f, 1, Len(f)) = f
      BY <1>2, SubSeqFull
    <2> QED BY <1>1, <1>3, <2>1, ThreeParts
  <1>5. t \in Seq(Msg) /\ Len(t) = 2
    BY Singles
  <1>6. a \in Seq(Msg)
    <2>1. q \in Msg /\ b \in Seq(Msg) /\ a = Glue(<<>>, q, b)
      BY <1>1, ThreeParts
    <2>2. Glues(Glue(<<>>, q, b), <<>>, q, b)
      BY <2>1, EmptyFacts, GlueFacts
    <2> QED BY <2>1, <2>2 DEF Glues
  <1>7. msgs = p \o a
    <2>1. PartsOK(f, q, b) /\ f \in Seq(Msg)
      BY <1>1, <1>2
    <2>2. f \o Active(Glue(f, q, b)) = Glue(f, q, b)
      BY ONLY <2>1, Rejoined
    <2> QED BY <2>2, <1>1, <1>4
  <1> HIDE DEF p, t, a
  <1>8. p \in Seq(Msg)
    BY <1>2, <1>4
  <1>9. u \in Seq(Msg) /\ Len(u) = Len(p) + 2 /\ Len(p) \in Nat /\ Len(a) \in Nat
    <2>1. p \o t \in Seq(Msg) /\ Len(p \o t) = Len(p) + Len(t) /\ Len(p) \in Nat
      BY ONLY <1>5, <1>8, ConcatFacts
    <2>2. Len(a) \in Nat
      BY <1>6
    <2> QED BY <2>1, <2>2, <1>5
  <1>10. SizeOf(u) = SizeOf(p) + SizeOf(t) /\ SizeOf(p) \in Nat /\ SizeOf(t) \in Nat /\ SizeOf(a) \in Nat
    BY <1>5, <1>6, <1>8, SizeOfBoth
  <1> HIDE DEF u
  <1>11. SizeOf(u \o a) = SizeOf(u) + SizeOf(a) /\ Len(u \o a) = Len(u) + Len(a)
    BY <1>6, <1>9, SizeOfBoth, ConcatFacts
  <1>12. SizeOf(p \o a) = SizeOf(p) + SizeOf(a) /\ Len(p \o a) = Len(p) + Len(a)
    BY <1>6, <1>8, SizeOfBoth, ConcatFacts
  <1>13. MessageTokens(p \o a) <= MessageTokens(u \o a)
    BY <1>9, <1>10, <1>11, <1>12 DEF MessageTokens
  <1> QED BY <1>7, <1>13 DEF u, p, t, a

\* trim_conversation_for_context_limit: a message stands for a history only if
\* there was one, since it costs more than nothing.
LEMMA CutHistoryIsWhole ==
  ASSUME NEW msgs, IsWhole(msgs), NEW budget \in Nat
  PROVE  IsWhole(CutHistory(msgs, budget))
  <1> DEFINE Of(keep) == Message("user", "recovery", 0, 0, 1 + keep)
             Recovered(keep) == Protected(msgs) \o <<Of(keep), Ack>> \o Active(msgs)
             room == SizeOf(History(msgs))
             fitting == {keep \in 0 .. room : MessageTokens(Recovered(keep)) <= budget}
  <1>1. History(msgs) \in Seq(Msg) /\ msgs \in Seq(Msg)
    <2>1. PICK f \in Seq(Msg), q \in Msg, b \in Seq(Msg) : msgs = Glue(f, q, b) /\ PartsOK(f, q, b)
      BY DEF IsWhole
    <2> QED BY <2>1, ThreeParts, GlueFacts DEF Glues
  <1>2. room \in Nat /\ MessageTokens(msgs) \in Nat
    BY <1>1, Measures
  <1>3. \A keep \in 0 .. room : Of(keep) \in Msg /\ Of(keep).kind = "recovery"
    <2> TAKE keep \in 0 .. room
    <2>1. 1 + keep \in Nat
      BY <1>2
    <2> QED BY <2>1, MessageFacts
  <1> HIDE DEF Of, room
  <1>4. ASSUME fitting # {}, ~ (MessageTokens(msgs) <= budget) PROVE IsWhole(Recovered(Max(fitting)))
    <2>1. fitting \in SUBSET (0 .. room)
      OBVIOUS
    <2>2. Max(fitting) \in fitting
      BY ONLY <1>2, <1>4, <2>1, MaxOfSome
    <2> DEFINE k == Max(fitting)
    <2>3. k \in 0 .. room /\ MessageTokens(Recovered(k)) <= budget
      BY <2>2
    <2> HIDE DEF k, fitting
    <2>4. Of(k) \in Msg /\ Of(k).kind = "recovery"
      BY <1>3, <2>3
    <2>5. History(msgs) # <<>>
      <3> SUFFICES ASSUME History(msgs) = <<>> PROVE FALSE
        OBVIOUS
      <3>1. MessageTokens(msgs) <= MessageTokens(Recovered(k))
        BY <2>4, NothingToCut
      <3>2. MessageTokens(Recovered(k)) \in Nat
        <4>1. IsWhole(msgs) /\ Protected(msgs) \in Seq(Msg) /\ Active(msgs) \in Seq(Msg)
          <5>1. PICK f \in Seq(Msg), q \in Msg, b \in Seq(Msg) : msgs = Glue(f, q, b) /\ PartsOK(f, q, b)
            BY DEF IsWhole
          <5>2. Protected(msgs) \in Seq(Msg)
            <6>1. FrontOK(f) /\ Protected(msgs) = SubSeq(f, 1, LeadOf(f))
              BY <5>1, ThreeParts DEF PartsOK
            <6> QED BY <6>1, ProtectedFacts
          <5>3. Active(msgs) = Glue(<<>>, q, b)
            BY <5>1, ThreeParts
          <5>4. Glue(<<>>, q, b) \in Seq(Msg)
            BY EmptyFacts, GlueFacts DEF Glues
          <5> QED BY <5>2, <5>3, <5>4
        <4>2. <<Of(k), Ack>> \in Seq(Msg)
          BY <2>4, Singles
        <4> DEFINE u == Protected(msgs) \o <<Of(k), Ack>>
        <4>3. u \in Seq(Msg)
          BY <4>1, <4>2, ConcatFacts
        <4> HIDE DEF u
        <4>4. u \o Active(msgs) \in Seq(Msg)
          BY <4>1, <4>3, ConcatFacts
        <4>5. MessageTokens(u \o Active(msgs)) \in Nat
          BY <4>4, Measures
        <4> QED BY <4>5 DEF u
      <3> HIDE DEF Recovered
      <3> QED BY <3>1, <3>2, <2>3, <1>2, <1>4
    <2>6. IsWhole(Recovered(k))
      BY <2>4, <2>5, HistoryReplaced
    <2> HIDE DEF Recovered
    <2> QED BY <2>6 DEF k
  <1>5. IsWhole(Protected(msgs) \o Active(msgs))
    BY WithoutHistory
  <1>6. CutHistory(msgs, budget) =
          IF MessageTokens(msgs) <= budget THEN msgs
          ELSE IF fitting = {} THEN Protected(msgs) \o Active(msgs)
          ELSE Recovered(Max(fitting))
    BY DEF CutHistory, Of, room
  <1> HIDE DEF Recovered, fitting
  <1> QED BY <1>4, <1>5, <1>6

-----------------------------------------------------------------------------
(* Old output, and the fitter                                              *)

LEMMA SizeAtNowhere ==
  ASSUME NEW msgs
  PROVE  SizeAt(msgs, {}) = 0
  <1> DEFINE Eq(it) == it = [s \in SUBSET {} |->
                               IF s = {} THEN 0
                               ELSE msgs[CHOOSE x \in s : TRUE].size + it[s \ {CHOOSE x \in s : TRUE}]]
             it == CHOOSE it : Eq(it)
  <1>1. Eq([s \in SUBSET {} |-> 0])
    <2>1. \A s \in SUBSET {} : s = {}
      OBVIOUS
    <2> QED BY <2>1
  <1>2. Eq(it)
    BY <1>1
  <1>3. it[{}] = 0
    <2>1. {} \in SUBSET {}
      OBVIOUS
    <2> HIDE DEF it
    <2> QED BY <1>2, <2>1
  <1>4. SizeAt(msgs, {}) = it[{}]
    BY DEF SizeAt, MapThenSumSet, MapThenFoldSet
  <1> QED BY <1>3, <1>4

\* The newest tool result is not old.
LEMMA OldHasNewer ==
  ASSUME NEW msgs, Len(msgs) \in Nat, NEW i \in OldOutput(msgs)
  PROVE  msgs[i].kind = "result" /\ \E j \in i + 1 .. Len(msgs) : msgs[j].role = "tool"
  <1>1. msgs[i].kind = "result" /\ OutputAfter(msgs, i) > ProtectThreshold
    BY DEF OldOutput
  <1>2. ProtectThreshold \in Nat
    BY WindowAssumption
  <1>3. {j \in i + 1 .. Len(msgs) : msgs[j].role = "tool"} # {}
    <2> SUFFICES ASSUME {j \in i + 1 .. Len(msgs) : msgs[j].role = "tool"} = {} PROVE FALSE
      OBVIOUS
    <2>1. OutputAfter(msgs, i) = 0
      BY SizeAtNowhere DEF OutputAfter
    <2> QED BY <2>1, <1>1, <1>2
  <1> QED BY <1>1, <1>3

\* prune_tool_outputs: stubs answer calls as results do, and the newest result
\* is not among them.
LEMMA PrunedIsWhole ==
  ASSUME NEW msgs, IsWhole(msgs)
  PROVE  IsWhole(Pruned(msgs))
  <1>1. PICK f \in Seq(Msg), q \in Msg, b \in Seq(Msg) : msgs = Glue(f, q, b) /\ PartsOK(f, q, b)
    BY DEF IsWhole
  <1>2. Glues(msgs, f, q, b) /\ FrontOK(f) /\ q.kind = "request" /\ BackOK(b) /\ OneMark(f, b)
    BY <1>1, GlueFacts DEF PartsOK
  <1>3. /\ msgs \in Seq(Msg) /\ Len(f) \in Nat /\ Len(b) \in Nat
        /\ Len(msgs) = Len(f) + 1 + Len(b) /\ DOMAIN msgs = 1 .. Len(msgs)
        /\ \A i \in 1 .. Len(f) : msgs[i] = f[i]
        /\ msgs[Len(f) + 1] = q
        /\ \A i \in 1 .. Len(b) : msgs[Len(f) + 1 + i] = b[i]
    BY <1>2 DEF Glues
  <1>4. SUFFICES IsWhole([i \in DOMAIN msgs |->
                            IF i \in OldOutput(msgs) THEN Stub(msgs[i]) ELSE msgs[i]])
    BY DEF Pruned
  <1> DEFINE old == OldOutput(msgs)
             g == [i \in 1 .. Len(msgs) |-> IF i \in old THEN Stub(msgs[i]) ELSE msgs[i]]
             h == [i \in 1 .. Len(b) |-> g[Len(f) + 1 + i]]
  <1>5. \A m \in Msg : m.kind = "result" => Stub(m) \in Msg
    BY DEF Stub, Msg
  <1>6. \A i \in old : i \in 1 .. Len(msgs) /\ msgs[i].kind = "result"
                       /\ \E j \in i + 1 .. Len(msgs) : msgs[j].role = "tool"
    <2> TAKE i \in old
    <2>1. i \in 1 .. Len(msgs)
      BY <1>3 DEF OldOutput
    <2>2. Len(msgs) \in Nat /\ i \in OldOutput(msgs)
      BY <1>3
    <2> HIDE DEF old
    <2>3. msgs[i].kind = "result" /\ \E j \in i + 1 .. Len(msgs) : msgs[j].role = "tool"
      BY ONLY <2>2, OldHasNewer
    <2> QED BY <2>1, <2>3
  <1> HIDE DEF old
  <1>7. \A i \in 1 .. Len(msgs) : g[i] \in Msg
    <2> TAKE i \in 1 .. Len(msgs)
    <2>1. msgs[i] \in Msg
      BY <1>3
    <2> QED BY <2>1, <1>5, <1>6
  <1>8. g \in Seq(Msg) /\ Len(g) = Len(msgs)
    <2>1. Len(msgs) \in Nat
      BY <1>3
    <2>2. g \in [1 .. Len(msgs) -> Msg]
      <3>1. \A i \in 1 .. Len(msgs) : (IF i \in old THEN Stub(msgs[i]) ELSE msgs[i]) \in Msg
        BY <1>7
      <3> QED BY <3>1
    <2> HIDE DEF g
    <2> QED BY <2>1, <2>2, SeqDef, LenProperties
  <1>9. h \in Seq(Msg) /\ Len(h) = Len(b) /\ \A i \in 1 .. Len(b) : h[i] = g[Len(f) + 1 + i]
    <2>1. h \in [1 .. Len(b) -> Msg]
      <3>1. \A i \in 1 .. Len(b) : Len(f) + 1 + i \in 1 .. Len(msgs)
        BY <1>3
      <3> HIDE DEF g
      <3> QED BY <3>1, <1>7
    <2>2. \A i \in 1 .. Len(b) : h[i] = g[Len(f) + 1 + i]
      OBVIOUS
    <2>3. Len(b) \in Nat
      BY <1>3
    <2> HIDE DEF h, g
    <2>4. h \in Seq(Msg)
      BY ONLY <2>1, <2>3, SeqDef
    <2>5. Len(h) = Len(b)
      BY ONLY <2>1, <2>3, <2>4, LenProperties
    <2> QED BY <2>2, <2>4, <2>5
  <1>10. ASSUME NEW i \in 1 .. Len(b)
         PROVE  \/ h[i] = b[i]
                \/ /\ b[i].kind = "result" /\ h[i] = Stub(b[i])
                   /\ \E j \in i + 1 .. Len(b) : b[j].role = "tool"
    <2> DEFINE k == Len(f) + 1 + i
    <2>1. k \in 1 .. Len(msgs) /\ msgs[k] = b[i] /\ h[i] = g[k]
      <3> HIDE DEF h, g
      <3>1. k \in 1 .. Len(msgs)
        BY <1>3
      <3> QED BY <3>1, <1>3, <1>9
    <2>2. CASE k \notin old
      BY <2>1, <2>2
    <2>3. CASE k \in old
      <3>1. b[i].kind = "result" /\ h[i] = Stub(b[i])
        BY <2>1, <2>3, <1>6
      <3>2. PICK j \in k + 1 .. Len(msgs) : msgs[j].role = "tool"
        BY <2>3, <1>6
      <3> DEFINE l == j - (Len(f) + 1)
      <3>3. l \in i + 1 .. Len(b) /\ l \in 1 .. Len(b) /\ Len(f) + 1 + l = j
        BY <1>3
      <3> HIDE DEF l
      <3>4. b[l].role = "tool"
        BY <1>3, <3>2, <3>3
      <3> QED BY <3>1, <3>3, <3>4
    <2> QED BY <2>2, <2>3
  <1>11. ASSUME NEW i \in 1 .. Len(f) + 1 PROVE g[i] = msgs[i]
    <2>1. i \in 1 .. Len(msgs)
      BY <1>3
    <2>2. i \notin old
      <3>1. msgs[i].kind # "result"
        <4>1. CASE i \in 1 .. Len(f)
          <5>1. msgs[i] = f[i] /\ f[i] \in Msg /\ f[i].role # "tool"
            BY <4>1, <1>2, <1>3, LeadFacts
          <5> QED BY <5>1, Roles
        <4>2. CASE i = Len(f) + 1
          BY <4>2, <1>2, <1>3
        <4> QED BY <4>1, <4>2, <1>3
      <3> QED BY <3>1, <1>6
    <2> QED BY <2>1, <2>2
  <1> HIDE DEF g, h
  <1>12. BackOK(h) /\ \A i \in 1 .. Len(b) : h[i].kind = "elision" <=> b[i].kind = "elision"
    BY <1>2, <1>9, <1>10, BackAfterPrune
  <1>13. OneMark(f, h)
    BY <1>2, <1>9, <1>12 DEF OneMark
  <1>14. Glue(f, q, h) = g
    <2> DEFINE w == Glue(f, q, h)
    <2>1. Glues(w, f, q, h)
      BY <1>9, GlueFacts
    <2> HIDE DEF w
    <2>2. /\ w \in Seq(Msg) /\ Len(w) = Len(f) + 1 + Len(b)
          /\ \A i \in 1 .. Len(f) : w[i] = f[i]
          /\ w[Len(f) + 1] = q
          /\ \A i \in Len(f) + 2 .. Len(f) + 1 + Len(b) :
                i - (Len(f) + 1) \in 1 .. Len(b) /\ w[i] = h[i - (Len(f) + 1)]
      BY <2>1, <1>9 DEF Glues
    <2>3. ASSUME NEW i \in 1 .. Len(w) PROVE w[i] = g[i]
      <3>1. CASE i \in 1 .. Len(f)
        <4>1. i \in 1 .. Len(f) + 1
          BY <3>1, <1>3
        <4> QED BY <4>1, <3>1, <2>2, <1>3, <1>11
      <3>2. CASE i = Len(f) + 1
        <4>1. i \in 1 .. Len(f) + 1
          BY <3>2, <1>3
        <4> QED BY <4>1, <3>2, <2>2, <1>3, <1>11
      <3>3. CASE i \in Len(f) + 2 .. Len(f) + 1 + Len(b)
        <4> DEFINE k == i - (Len(f) + 1)
        <4>1. k \in 1 .. Len(b) /\ w[i] = h[k]
          BY <3>3, <2>2
        <4>2. Len(f) + 1 + k = i
          BY <1>3
        <4> HIDE DEF k
        <4> QED BY <4>1, <4>2, <1>9
      <3> QED BY <3>1, <3>2, <3>3, <2>2, <1>3
    <2>4. Len(w) = Len(g)
      BY <2>2, <1>8, <1>3
    <2>5. w = g
      BY <2>2, <2>3, <2>4, <1>8, SeqEqual
    <2> QED BY <2>5 DEF w
  <1>15. PartsOK(f, q, h)
    BY <1>2, <1>12, <1>13 DEF PartsOK
  <1>16. IsWhole(g)
    BY <1>14, <1>15, WholeOf
  <1> QED BY <1>3, <1>16 DEF g, old

LEMMA WholeFacts ==
  ASSUME NEW msgs, IsWhole(msgs)
  PROVE  /\ msgs \in Seq(Msg) /\ Protected(msgs) \o Active(msgs) \in Seq(Msg)
         /\ MessageBudget(msgs) \in Nat
         /\ Estimated(msgs) \in Nat
  <1>1. msgs \in Seq(Msg) /\ Protected(msgs) \o Active(msgs) \in Seq(Msg)
    <2>1. \A w : IsWhole(w) => w \in Seq(Msg)
      BY GlueFacts DEF IsWhole, Glues
    <2> QED BY <2>1, WithoutHistory
  <1>2. Len(Protected(msgs) \o Active(msgs)) \in Nat
    BY <1>1
  <1>3. SafeBudget \in Nat /\ ToolCost \in Nat
    BY WindowAssumption
  <1>4. MessageBudget(msgs) \in Nat
    <2> DEFINE n == Len(Protected(msgs) \o Active(msgs))
    <2> HIDE DEF n
    <2>1. n \in Nat
      BY <1>2 DEF n
    <2>2. ProtocolReserve(msgs) = n + 2
      BY DEF ProtocolReserve, n
    <2> QED BY <2>1, <2>2, <1>3 DEF MessageBudget
  <1> QED BY <1>1, <1>4, Measures

\* Whatever the fitter does, it leaves a whole conversation, and what it calls
\* fitting fits.
LEMMA FittedIsWhole ==
  ASSUME NEW msgs, IsWhole(msgs), NEW summary \in Nat, NEW may
  PROVE  /\ IsWhole(FitRequest(msgs, summary, may).msgs)
         /\ FitRequest(msgs, summary, may).fits => Estimated(FitRequest(msgs, summary, may).msgs) <= SafeBudget
  <1> DEFINE pruned == Pruned(msgs)
             tries == may /\ Estimated(pruned) >= Trigger
             compacted == IF tries THEN Compacted(pruned, summary) ELSE pruned
             failed == tries /\ compacted = pruned
             recovered == CutHistory(compacted, MessageBudget(compacted))
             fit == FitRequest(msgs, summary, may)
  <1>1. IsWhole(pruned)
    BY PrunedIsWhole
  <1>2. IsWhole(compacted)
    <2>1. IsWhole(Compacted(pruned, summary))
      BY <1>1, CompactedIsWhole
    <2> HIDE DEF pruned
    <2> QED BY <1>1, <2>1
  <1> HIDE DEF compacted
  <1>3. IsWhole(recovered)
    BY <1>2, WholeFacts, CutHistoryIsWhole
  <1>4. \/ fit = Fitting(msgs, FALSE, FALSE)
        \/ fit = Fitting(pruned, FALSE, FALSE)
        \/ Estimated(pruned) < Trigger /\ fit = Fitting(pruned, TRUE, FALSE)
        \/ FitsBudget(compacted) /\ fit = Fitting(compacted, TRUE, failed)
        \/ fit = Fitting(recovered, FitsBudget(recovered), failed)
    BY DEF FitRequest, compacted
  <1>5. Estimated(pruned) \in Nat /\ Trigger \in Nat /\ SafeBudget \in Nat /\ Trigger <= SafeBudget
    BY <1>1, WholeFacts, WindowAssumption
  <1> HIDE DEF fit, pruned, recovered, failed
  <1>6. CASE fit = Fitting(msgs, FALSE, FALSE)
    BY <1>6 DEF Fitting, fit
  <1>7. CASE fit = Fitting(pruned, FALSE, FALSE)
    BY <1>7, <1>1 DEF Fitting, fit
  <1>8. CASE Estimated(pruned) < Trigger /\ fit = Fitting(pruned, TRUE, FALSE)
    <2>1. Estimated(pruned) <= SafeBudget
      BY <1>5, <1>8
    <2>2. fit.msgs = pruned
      BY <1>8 DEF Fitting
    <2> QED BY <2>1, <2>2, <1>1 DEF fit
  <1>9. CASE FitsBudget(compacted) /\ fit = Fitting(compacted, TRUE, failed)
    <2>1. fit.msgs = compacted
      BY <1>9 DEF Fitting
    <2> QED BY <2>1, <1>9, <1>2 DEF FitsBudget, fit
  <1>10. CASE fit = Fitting(recovered, FitsBudget(recovered), failed)
    <2>1. fit.msgs = recovered /\ fit.fits = FitsBudget(recovered)
      BY <1>10 DEF Fitting
    <2> QED BY <2>1, <1>3 DEF FitsBudget, fit
  <1> QED BY <1>4, <1>6, <1>7, <1>8, <1>9, <1>10

-----------------------------------------------------------------------------
(* What a turn adds                                                        *)

\* The messages of the calls of a round, one call after the other.
LEMMA FlattenSteps ==
  ASSUME NEW n \in Nat, n # 0, NEW seqs \in [1 .. n -> Seq(Msg)]
  PROVE  \E t \in [0 .. n -> Seq(Msg)] :
            /\ t[0] = <<>>
            /\ \A i \in 1 .. n : t[i] = t[i - 1] \o seqs[i]
            /\ FlattenSeq(seqs) = t[n]
  <1> DEFINE step == [p \in Seq(Msg) \X (1 .. n) |-> p[1] \o seqs[p[2]]]
             Eq(flat) == flat = [i \in 1 .. n |-> IF i = 1 THEN seqs[i] ELSE flat[i - 1] \o seqs[i]]
             flat == CHOOSE flat : Eq(flat)
             t == [i \in 0 .. n |-> IF i = 0 THEN <<>> ELSE flat[i]]
  <1>1. step \in [Seq(Msg) \X (1 .. n) -> Seq(Msg)] /\ <<>> \in Seq(Msg)
    <2>1. \A u \in Seq(Msg), i \in 1 .. n : u \o seqs[i] \in Seq(Msg)
      BY ConcatFacts
    <2> QED BY <2>1, EmptyFacts
  <1>2. PICK it \in [SUBSET (1 .. n) -> Seq(Msg)] : IsIteration(it, n, <<>>, step)
    <2> HIDE DEF step
    <2> QED BY <1>1, IterationExists
  <1>3. it[{}] = <<>> /\ \A i \in 1 .. n : it[1 .. i] = it[1 .. (i - 1)] \o seqs[i]
    <2>1. {} \in SUBSET (1 .. n)
      OBVIOUS
    <2>2. it[{}] = <<>>
      BY <1>2, <2>1 DEF IsIteration
    <2>3. ASSUME NEW i \in 1 .. n PROVE it[1 .. i] = it[1 .. (i - 1)] \o seqs[i]
      <3>1. 1 .. i \in SUBSET (1 .. n) /\ 1 .. i # {} /\ i \in Nat /\ i # 0
            /\ 1 .. (i - 1) \in SUBSET (1 .. n)
        <4>1. i \in 1 .. i /\ i \in Nat /\ i # 0
          OBVIOUS
        <4>2. \A k \in 1 .. i : k \in 1 .. n
          OBVIOUS
        <4>3. \A k \in 1 .. (i - 1) : k \in 1 .. n
          OBVIOUS
        <4> QED BY ONLY <4>1, <4>2, <4>3
      <3>2. it[1 .. i] = step[<<it[(1 .. i) \ {Max(1 .. i)}], Max(1 .. i)>>]
        BY <1>2, <3>1 DEF IsIteration
      <3>3. Max(1 .. i) = i /\ (1 .. i) \ {i} = 1 .. (i - 1)
        BY <3>1, MaxOfPrefix
      <3>4. it[1 .. i] = step[<<it[1 .. (i - 1)], i>>]
        BY <3>2, <3>3
      <3>5. it[1 .. (i - 1)] \in Seq(Msg)
        BY <3>1, <1>2
      <3> QED BY <3>4, <3>5
    <2> QED BY <2>2, <2>3
  <1>4. Eq([i \in 1 .. n |-> it[1 .. i]])
    <2> DEFINE g == [i \in 1 .. n |-> it[1 .. i]]
    <2>1. ASSUME NEW i \in 1 .. n
          PROVE  g[i] = IF i = 1 THEN seqs[i] ELSE g[i - 1] \o seqs[i]
      <3>1. CASE i = 1
        <4>1. 1 .. (1 - 1) = {}
          OBVIOUS
        <4>2. it[1 .. 1] = <<>> \o seqs[1]
          BY <1>3, <3>1, <4>1
        <4>3. <<>> \o seqs[1] = seqs[1]
          BY <3>1, EmptyFacts
        <4> QED BY <4>2, <4>3, <3>1
      <3>2. CASE i # 1
        <4>1. i - 1 \in 1 .. n
          BY <3>2
        <4> QED BY <4>1, <3>2, <1>3
      <3> QED BY <3>1, <3>2
    <2>2. g = [i \in 1 .. n |-> g[i]]
      OBVIOUS
    <2> HIDE DEF g
    <2>3. Eq(g)
      BY <2>1, <2>2
    <2> QED BY <2>3 DEF g
  <1>5. Eq(flat)
    <2> HIDE DEF Eq
    <2> QED BY <1>4
  <1>6. FlattenSeq(seqs) = flat[n]
    <2>1. Len(seqs) = n
      BY LenProperties, SeqDef
    <2> QED BY <2>1 DEF FlattenSeq
  <1> HIDE DEF flat
  <1>7. \A i \in 1 .. n : flat[i] = IF i = 1 THEN seqs[i] ELSE flat[i - 1] \o seqs[i]
    BY <1>5
  <1>8. t[0] = <<>> /\ t[n] = flat[n]
    OBVIOUS
  <1>9. ASSUME NEW i \in 1 .. n PROVE t[i] = t[i - 1] \o seqs[i]
    <2>1. CASE i = 1
      <3>1. t[1] = flat[1] /\ t[1 - 1] = <<>> /\ flat[1] = seqs[1]
        BY <1>7, <2>1
      <3>2. <<>> \o seqs[1] = seqs[1]
        BY <2>1, EmptyFacts
      <3> QED BY <3>1, <3>2, <2>1
    <2>2. CASE i # 1
      <3>1. i \in 0 .. n /\ i # 0 /\ i - 1 \in 0 .. n /\ i - 1 # 0
        BY <2>2
      <3>2. t[i] = flat[i] /\ t[i - 1] = flat[i - 1]
        BY <3>1
      <3> QED BY <3>2, <2>2, <1>7
    <2> QED BY <2>1, <2>2
  <1>10. \A i \in 0 .. n : t[i] \in Seq(Msg)
    <2> DEFINE Good == {i \in 0 .. n : t[i] \in Seq(Msg)}
    <2> HIDE DEF t
    <2>1. 0 \in Good
      <3>1. 0 \in 0 .. n
        OBVIOUS
      <3> QED BY <3>1, <1>1, <1>8
    <2>2. ASSUME NEW i \in 1 .. n, i - 1 \in Good PROVE i \in Good
      <3>1. t[i - 1] \in Seq(Msg) /\ seqs[i] \in Seq(Msg) /\ i \in 0 .. n
        BY <2>2
      <3>2. t[i - 1] \o seqs[i] \in Seq(Msg)
        BY <3>1, ConcatFacts
      <3> QED BY <3>1, <3>2, <1>9
    <2> HIDE DEF Good
    <2>3. \A i \in 0 .. n : i \in Good
      BY <2>1, <2>2, IntervalInduction
    <2> QED BY <2>3 DEF Good
  <1>11. t \in [0 .. n -> Seq(Msg)]
    BY <1>10
  <1> HIDE DEF t
  <1> QED BY <1>6, <1>8, <1>9, <1>11

\* What the first k calls of a round have left.
Results(v, id, k) ==
    /\ v \in Seq(Msg)
    /\ \A i \in 1 .. Len(v) :
          /\ v[i].kind \in {"result", "hint", "note"}
          /\ v[i].kind = "result" => v[i].id = id
    /\ \A m \in 1 .. k : \E j \in 1 .. Len(v) : v[j].kind = "result" /\ v[j].id = id /\ v[j].n = m

\* What one call has left.
OneResult(v, id, n) ==
    /\ v \in Seq(Msg)
    /\ \A i \in 1 .. Len(v) :
          /\ v[i].kind \in {"result", "hint", "note"}
          /\ v[i].kind = "result" => v[i].id = id
    /\ \E j \in 1 .. Len(v) : v[j].kind = "result" /\ v[j].id = id /\ v[j].n = n

LEMMA MessagesFacts ==
  ASSUME NEW id \in Nat, NEW n \in Nat, NEW shape \in Shapes
  PROVE  OneResult(Messages(id, n, shape), id, n)
  <1> DEFINE Good(v) == OneResult(v, id, n)
  <1>1. \A size \in Nat : /\ Result(id, n, size) \in Msg /\ Result(id, n, size).kind = "result"
                          /\ Result(id, n, size).id = id /\ Result(id, n, size).n = n
    BY DEF Result, Message, Msg
  <1>2. ASSUME NEW m \in Msg, m.kind = "result", m.id = id, m.n = n,
               NEW x \in Msg, x.kind \in {"hint", "note"}
        PROVE  Good(<<m>>) /\ Good(<<m, x>>) /\ Good(<<x, m>>)
    <2>1. Good(<<m>>)
      <3> DEFINE v == <<m>>
      <3>1. v \in Seq(Msg) /\ Len(v) = 1 /\ v[1] = m
        OBVIOUS
      <3> HIDE DEF v
      <3>2. 1 \in 1 .. Len(v) /\ \A i \in 1 .. Len(v) : i = 1
        BY <3>1
      <3>3. Good(v)
        BY <3>1, <3>2, <1>2 DEF OneResult
      <3> QED BY <3>3 DEF v
    <2>2. Good(<<m, x>>)
      <3> DEFINE v == <<m, x>>
      <3>1. v \in Seq(Msg) /\ Len(v) = 2 /\ v[1] = m /\ v[2] = x
        OBVIOUS
      <3> HIDE DEF v
      <3>2. 1 \in 1 .. Len(v) /\ \A i \in 1 .. Len(v) : i = 1 \/ i = 2
        BY <3>1
      <3>3. Good(v)
        BY <3>1, <3>2, <1>2 DEF OneResult
      <3> QED BY <3>3 DEF v
    <2>3. Good(<<x, m>>)
      <3> DEFINE v == <<x, m>>
      <3>1. v \in Seq(Msg) /\ Len(v) = 2 /\ v[1] = x /\ v[2] = m
        OBVIOUS
      <3> HIDE DEF v
      <3>2. 2 \in 1 .. Len(v) /\ \A i \in 1 .. Len(v) : i = 1 \/ i = 2
        BY <3>1
      <3>3. Good(v)
        BY <3>1, <3>2, <1>2 DEF OneResult
      <3> QED BY <3>3 DEF v
    <2> QED BY <2>1, <2>2, <2>3
  <1> HIDE DEF Good
  <1>3. 1 \in Nat /\ BigResult \in Nat
    BY WindowAssumption
  <1>4. Good(Messages(id, n, shape))
    <2> DEFINE R(size) == Result(id, n, size)
    <2> HIDE DEF R
    <2>1. /\ R(1) \in Msg /\ R(1).kind = "result" /\ R(1).id = id /\ R(1).n = n
          /\ R(BigResult) \in Msg /\ R(BigResult).kind = "result"
          /\ R(BigResult).id = id /\ R(BigResult).n = n
      BY <1>1, <1>3 DEF R
    <2>2. Hint \in Msg /\ Hint.kind \in {"hint", "note"} /\ Note \in Msg /\ Note.kind \in {"hint", "note"}
      BY Singles
    <2>3. Good(<<R(1)>>) /\ Good(<<R(BigResult)>>) /\ Good(<<R(1), Hint>>) /\ Good(<<Hint, R(1)>>)
          /\ Good(<<R(1), Note>>)
      BY <1>2, <2>1, <2>2
    <2> QED BY <2>3 DEF Messages, Shapes, R
  <1> QED BY <1>4 DEF Good

\* Every call of a round has its result.
LEMMA RoundResults ==
  ASSUME NEW id \in Nat, NEW n \in Nat, n # 0, NEW shapes \in [1 .. n -> Shapes]
  PROVE  Results(FlattenSeq([k \in DOMAIN shapes |-> Messages(id, k, shapes[k])]), id, n)
  <1> DEFINE seqs == [k \in 1 .. n |-> Messages(id, k, shapes[k])]
  <1>1. seqs \in [1 .. n -> Seq(Msg)]
    <2>1. \A k \in 1 .. n : Messages(id, k, shapes[k]) \in Seq(Msg)
      BY MessagesFacts DEF OneResult
    <2> QED BY <2>1
  <1>2. DOMAIN shapes = 1 .. n
    OBVIOUS
  <1>3. \A k \in 1 .. n : seqs[k] = Messages(id, k, shapes[k])
    OBVIOUS
  <1> HIDE DEF seqs
  <1>4. PICK t \in [0 .. n -> Seq(Msg)] :
            /\ t[0] = <<>>
            /\ \A i \in 1 .. n : t[i] = t[i - 1] \o seqs[i]
            /\ FlattenSeq(seqs) = t[n]
    BY <1>1, FlattenSteps
  <1> DEFINE Good == {k \in 0 .. n : Results(t[k], id, k)}
  <1>5. 0 \in Good
    <2>1. 0 \in 0 .. n /\ t[0] \in Seq(Msg) /\ Len(t[0]) = 0
      BY <1>4, EmptyFacts
    <2>2. Results(t[0], id, 0)
      BY <2>1 DEF Results
    <2> QED BY <2>1, <2>2
  <1>6. ASSUME NEW k \in 1 .. n, k - 1 \in Good PROVE k \in Good
    <2> DEFINE u == t[k - 1]
               v == seqs[k]
               w == t[k]
    <2>1. Results(u, id, k - 1)
      BY <1>6
    <2>2. /\ v \in Seq(Msg)
          /\ \A i \in 1 .. Len(v) : /\ v[i].kind \in {"result", "hint", "note"}
                                    /\ v[i].kind = "result" => v[i].id = id
          /\ \E j \in 1 .. Len(v) : v[j].kind = "result" /\ v[j].id = id /\ v[j].n = k
      <3>1. k \in Nat /\ shapes[k] \in Shapes
        OBVIOUS
      <3>2. OneResult(Messages(id, k, shapes[k]), id, k)
        BY ONLY id \in Nat, <3>1, MessagesFacts
      <3>3. v = Messages(id, k, shapes[k])
        BY <1>3
      <3> HIDE DEF v
      <3>4. OneResult(v, id, k)
        BY <3>2, <3>3
      <3> QED BY <3>4 DEF OneResult
    <2>3. w = u \o v /\ u \in Seq(Msg)
      BY <1>4, <2>1 DEF Results
    <2> HIDE DEF u, v, w
    <2>4. /\ w \in Seq(Msg) /\ Len(u) \in Nat /\ Len(v) \in Nat /\ Len(w) = Len(u) + Len(v)
          /\ \A i \in 1 .. Len(u) : w[i] = u[i]
          /\ \A i \in 1 .. Len(v) : w[Len(u) + i] = v[i]
          /\ \A i \in Len(u) + 1 .. Len(u) + Len(v) : i - Len(u) \in 1 .. Len(v) /\ w[i] = v[i - Len(u)]
      BY <2>2, <2>3, ConcatFacts
    <2>5. ASSUME NEW i \in 1 .. Len(w)
          PROVE  /\ w[i].kind \in {"result", "hint", "note"}
                 /\ w[i].kind = "result" => w[i].id = id
      <3>1. CASE i \in 1 .. Len(u)
        BY <3>1, <2>1, <2>4 DEF Results
      <3>2. CASE i \in Len(u) + 1 .. Len(u) + Len(v)
        BY <3>2, <2>2, <2>4
      <3> QED BY <3>1, <3>2, <2>4
    <2>6. ASSUME NEW m \in 1 .. k
          PROVE  \E j \in 1 .. Len(w) : w[j].kind = "result" /\ w[j].id = id /\ w[j].n = m
      <3>1. CASE m \in 1 .. k - 1
        <4>1. PICK j \in 1 .. Len(u) : u[j].kind = "result" /\ u[j].id = id /\ u[j].n = m
          BY <3>1, <2>1 DEF Results
        <4>2. j \in 1 .. Len(w) /\ w[j] = u[j]
          BY <2>4
        <4> QED BY <4>1, <4>2
      <3>2. CASE m = k
        <4>1. PICK j \in 1 .. Len(v) : v[j].kind = "result" /\ v[j].id = id /\ v[j].n = k
          BY <2>2
        <4>2. Len(u) + j \in 1 .. Len(w) /\ w[Len(u) + j] = v[j]
          BY <2>4
        <4> QED BY <4>1, <4>2, <3>2
      <3>3. m \in 1 .. k - 1 \/ m = k
        OBVIOUS
      <3> QED BY <3>1, <3>2, <3>3
    <2>7. Results(w, id, k)
      BY <2>4, <2>5, <2>6 DEF Results
    <2> QED BY <2>7 DEF w
  <1>7. Results(t[n], id, n)
    <2> HIDE DEF Good
    <2>1. \A k \in 0 .. n : k \in Good
      BY <1>5, <1>6, IntervalInduction
    <2> QED BY <2>1 DEF Good
  <1> QED BY <1>2, <1>4, <1>7 DEF seqs

\* A round of calls is whole.
LEMMA RoundIsBack ==
  ASSUME NEW id \in Nat, NEW n \in Nat, NEW v, Results(v, id, n)
  PROVE  /\ BackOK(<<CallMessage(id, n)>> \o v)
         /\ \A i \in 1 .. Len(<<CallMessage(id, n)>> \o v) : (<<CallMessage(id, n)>> \o v)[i].kind # "elision"
  <1> DEFINE c == CallMessage(id, n)
             u == <<c>>
             w == u \o v
  <1>1. c \in Msg /\ c.kind = "call" /\ c.id = id /\ c.n = n
    BY DEF CallMessage, Message, Msg
  <1> HIDE DEF c
  <1>2. u \in Seq(Msg) /\ Len(u) = 1 /\ u[1] = c /\ v \in Seq(Msg)
    BY <1>1 DEF Results
  <1> HIDE DEF u
  <1>3. /\ w \in Seq(Msg) /\ Len(v) \in Nat /\ Len(w) = 1 + Len(v) /\ w[1] = c
        /\ \A i \in 1 .. Len(v) : w[1 + i] = v[i]
        /\ \A i \in 2 .. 1 + Len(v) : i - 1 \in 1 .. Len(v) /\ w[i] = v[i - 1]
    <2>1. /\ w \in Seq(Msg) /\ Len(u) \in Nat /\ Len(v) \in Nat /\ Len(w) = Len(u) + Len(v)
          /\ \A i \in 1 .. Len(u) : w[i] = u[i]
          /\ \A i \in 1 .. Len(v) : w[Len(u) + i] = v[i]
          /\ \A i \in Len(u) + 1 .. Len(u) + Len(v) : i - Len(u) \in 1 .. Len(v) /\ w[i] = v[i - Len(u)]
      BY ONLY <1>2, ConcatFacts
    <2> HIDE DEF w
    <2> QED BY <1>2, <2>1
  <1> HIDE DEF w
  <1>4. \A i \in 2 .. Len(w) : /\ w[i] \in Msg /\ w[i].kind \in {"result", "hint", "note"}
                               /\ w[i].role # "assistant"
                               /\ w[i].role = "tool" => w[i].kind = "result" /\ w[i].id = id
    <2> TAKE i \in 2 .. Len(w)
    <2>1. w[i] \in Msg /\ w[i].kind \in {"result", "hint", "note"} /\ (w[i].kind = "result" => w[i].id = id)
      BY <1>3 DEF Results
    <2> QED BY <2>1, Roles
  <1>5. \A i \in 1 .. Len(w) : i = 1 \/ i \in 2 .. Len(w)
    BY <1>3
  <1>6. c.role # "tool"
    BY <1>1, Roles
  <1>7. ASSUME NEW i \in 1 .. Len(w), w[i].role = "tool" PROVE Answers(w, i)
    <2>1. i \in 2 .. Len(w)
      BY <1>3, <1>5, <1>6, <1>7
    <2>2. w[i].id = id /\ 1 \in 1 .. i - 1
      BY <2>1, <1>4, <1>7
    <2>3. \A k \in 1 + 1 .. i : w[k].role # "assistant"
      BY <1>4, <1>3, <2>1
    <2> QED BY <2>2, <2>3, <1>1, <1>3 DEF Answers
  <1>8. ASSUME NEW i \in 1 .. Len(w), w[i].kind = "call" PROVE Answered(w, i)
    <2>1. i = 1
      BY <1>4, <1>5, <1>8
    <2>2. ASSUME NEW m \in 1 .. n
          PROVE  \E j \in 1 + 1 .. Len(w) : w[j].role = "tool" /\ w[j].id = id /\ w[j].n = m
      <3>1. PICK j \in 1 .. Len(v) : v[j].kind = "result" /\ v[j].id = id /\ v[j].n = m
        BY DEF Results
      <3>2. 1 + j \in 1 + 1 .. Len(w) /\ w[1 + j] = v[j] /\ v[j] \in Msg
        BY <1>2, <1>3
      <3>3. v[j].role = "tool"
        BY <3>1, <3>2, Roles
      <3> QED BY <3>1, <3>2, <3>3
    <2> QED BY <2>1, <2>2, <1>1, <1>3 DEF Answered
  <1>9. ASSUME NEW i \in 1 .. Len(w)
        PROVE  /\ w[i].kind \in {"call", "result", "stub", "hint", "note", "part", "elision"}
               /\ w[i].kind # "elision" /\ (w[i].role = "tool" => w[i].kind = "result")
    BY <1>1, <1>3, <1>4, <1>5, <1>6
  <1>10. BackOK(w)
    BY <1>3, <1>7, <1>8, <1>9 DEF BackOK
  <1> QED BY <1>9, <1>10 DEF w, u, c

\* And so is an answer that goes on.
LEMMA PartIsBack ==
  ASSUME NEW id \in Nat
  PROVE  /\ BackOK(<<Message("assistant", "part", id, 0, 1), Hint>>)
         /\ \A i \in 1 .. Len(<<Message("assistant", "part", id, 0, 1), Hint>>) :
               <<Message("assistant", "part", id, 0, 1), Hint>>[i].kind # "elision"
  <1> DEFINE m == Message("assistant", "part", id, 0, 1)
             w == <<m, Hint>>
  <1>1. m \in Msg /\ m.kind = "part"
    BY DEF Message, Msg
  <1> HIDE DEF m
  <1>2. w \in Seq(Msg) /\ Len(w) = 2 /\ w[1] = m /\ w[2] = Hint
    BY <1>1, Singles
  <1> HIDE DEF w
  <1>3. \A i \in 1 .. Len(w) : i = 1 \/ i = 2
    BY <1>2
  <1>4. \A i \in 1 .. Len(w) : w[i].kind \in {"part", "hint"} /\ w[i].role # "tool"
    BY <1>1, <1>2, <1>3, Singles, Roles
  <1>5. BackOK(w)
    BY <1>2, <1>4 DEF BackOK
  <1> QED BY <1>4, <1>5 DEF w, m

\* The turn adds what is whole.
LEMMA AddedIsWhole ==
  ASSUME NEW msgs, IsWhole(msgs), NEW r, BackOK(r), \A i \in 1 .. Len(r) : r[i].kind # "elision"
  PROVE  IsWhole(msgs \o r)
  <1>1. PICK f \in Seq(Msg), q \in Msg, b \in Seq(Msg) : msgs = Glue(f, q, b) /\ PartsOK(f, q, b)
    BY DEF IsWhole
  <1>2. FrontOK(f) /\ q.kind = "request" /\ BackOK(b) /\ OneMark(f, b) /\ r \in Seq(Msg)
    BY <1>1 DEF PartsOK, BackOK
  <1>3. BackOK(b \o r)
    BY <1>2, BackAfterBack
  <1>4. Glue(f, q, b) \o r = Glue(f, q, b \o r)
    BY <1>2, GlueBack
  <1>5. OneMark(f, b \o r)
    <2> DEFINE w == b \o r
    <2>1. /\ w \in Seq(Msg) /\ Len(b) \in Nat /\ Len(r) \in Nat /\ Len(w) = Len(b) + Len(r)
          /\ \A i \in 1 .. Len(b) : w[i] = b[i]
          /\ \A i \in Len(b) + 1 .. Len(b) + Len(r) : i - Len(b) \in 1 .. Len(r) /\ w[i] = r[i - Len(b)]
      BY <1>2, ConcatFacts
    <2> HIDE DEF w
    <2>2. ASSUME NEW i \in 1 .. Len(w), w[i].kind = "elision" PROVE Len(f) = 1
      <3>1. i \notin Len(b) + 1 .. Len(b) + Len(r)
        BY <2>1, <2>2
      <3>2. i \in 1 .. Len(b) /\ b[i].kind = "elision"
        BY <2>1, <2>2, <3>1
      <3> QED BY <3>2, <1>2 DEF OneMark
    <2>3. OneMark(f, w)
      BY <2>2 DEF OneMark
    <2> QED BY <2>3 DEF w
  <1>6. PartsOK(f, q, b \o r)
    BY <1>2, <1>3, <1>5 DEF PartsOK
  <1>7. IsWhole(Glue(f, q, b \o r))
    BY <1>6, WholeOf
  <1> QED BY <1>1, <1>4, <1>7

-----------------------------------------------------------------------------
(* The theorems                                                            *)

WindowInv ==
    /\ IsWhole(conversation)
    /\ windowStage \in {"top", "sent", "unfit", "over"}
    /\ turns \in Nat
    /\ SentFits

\* The conversation a run begins with.
LEMMA FirstConversationIsWhole ==
  ASSUME NEW c \in Nat, NEW r \in Nat, NEW past \in Nat
  PROVE  IsWhole(<<Message("system", "contract", 0, 0, c)>>
               \o [i \in 1 .. past |-> Past(i)] \o <<Request(r)>>)
  <1> DEFINE m == Message("system", "contract", 0, 0, c)
             h == [i \in 1 .. past |-> Past(i)]
             f == <<m>> \o h
             q == Request(r)
  <1>1. m \in Msg /\ m.kind = "contract" /\ q \in Msg /\ q.kind = "request"
    BY DEF Message, Request, Msg
  <1>2. \A i \in 1 .. past : Past(i) \in Msg /\ Past(i).kind = "past"
    BY DEF Past, Message, Msg
  <1>3. h \in Seq(Msg) /\ Len(h) = past /\ \A i \in 1 .. past : h[i] = Past(i)
    <2>1. h \in [1 .. past -> Msg]
      BY <1>2
    <2>2. h \in Seq(Msg)
      BY <2>1, SeqDef
    <2>3. Len(h) = past
      BY <2>1, <2>2, LenProperties
    <2> QED BY <2>2, <2>3
  <1>4. Past(1).role = "user"
    BY DEF Past, Message
  <1>5. <<m>> \in Seq(Msg) /\ Len(<<m>>) = 1 /\ <<m>>[1] = m
    <2> HIDE DEF m
    <2> QED BY <1>1
  <1> HIDE DEF m, h, q
  <1>6. /\ f \in Seq(Msg) /\ Len(f) = 1 + past /\ f[1] = m
        /\ \A i \in 2 .. 1 + past : i - 1 \in 1 .. past /\ f[i] = Past(i - 1)
    <2> DEFINE u == <<m>>
    <2>0. u \in Seq(Msg) /\ Len(u) = 1 /\ u[1] = m
      BY <1>5
    <2> HIDE DEF u
    <2> DEFINE w == u \o h
    <2>1. /\ w \in Seq(Msg) /\ Len(w) = Len(u) + Len(h)
          /\ \A i \in 1 .. Len(u) : w[i] = u[i]
          /\ \A i \in Len(u) + 1 .. Len(u) + Len(h) : i - Len(u) \in 1 .. Len(h) /\ w[i] = h[i - Len(u)]
      BY ONLY <1>3, <2>0, ConcatFacts
    <2> HIDE DEF w
    <2>2. /\ w \in Seq(Msg) /\ Len(w) = 1 + past /\ w[1] = m
          /\ \A i \in 2 .. 1 + past : i - 1 \in 1 .. past /\ w[i] = Past(i - 1)
      BY <2>0, <2>1, <1>3
    <2> QED BY <2>2 DEF w, u
  <1> HIDE DEF f
  <1>7. \A i \in 2 .. Len(f) : f[i].kind = "past"
    BY <1>2, <1>6
  <1>8. LeadOf(f) = 1
    BY <1>6, <1>7 DEF LeadOf
  <1>9. 1 < Len(f) => f[2].role = "user"
    <2> SUFFICES ASSUME 1 < Len(f) PROVE f[2].role = "user"
      OBVIOUS
    <2>1. 2 \in 2 .. 1 + past /\ 2 - 1 = 1
      BY <1>6
    <2> QED BY <2>1, <1>4, <1>6
  <1>10. FrontOK(f)
    BY <1>1, <1>6, <1>7, <1>8, <1>9 DEF FrontOK
  <1>11. BackOK(<<>>) /\ OneMark(f, <<>>)
    BY EmptyFacts DEF BackOK, OneMark
  <1>12. PartsOK(f, q, <<>>)
    BY <1>1, <1>10, <1>11 DEF PartsOK
  <1>13. Glue(f, q, <<>>) = f \o <<q>>
    <2>1. <<q>> \in Seq(Msg)
      BY <1>1
    <2> DEFINE w == f \o <<q>>
    <2>2. w \in Seq(Msg)
      BY <2>1, <1>6, ConcatFacts
    <2> HIDE DEF w
    <2>3. w \o <<>> = w
      BY <2>2, EmptyFacts
    <2> QED BY <2>3 DEF w, Glue
  <1>14. IsWhole(f \o <<q>>)
    BY <1>12, <1>13, WholeOf
  <1> QED BY <1>14 DEF f, h, m, q

\* The inductive invariant: cap, fitter, provider's refusal and turn each leave a
\* conversation that is whole, whatever the others have made of it.
THEOREM WindowInvariant == WindowSpec => []WindowInv
  <1>1. WindowInit => WindowInv
    <2> SUFFICES ASSUME WindowInit PROVE WindowInv
      OBVIOUS
    <2>1. PICK c \in ContractSizes, r \in RequestSizes, past \in 0 .. MaxPast :
             conversation = <<Message("system", "contract", 0, 0, c)>>
                            \o [i \in 1 .. past |-> Past(i)] \o <<Request(r)>>
      BY DEF WindowInit
    <2>2. c \in Nat /\ r \in Nat /\ past \in Nat
      BY WindowAssumption
    <2>3. IsWhole(conversation)
      BY <2>1, <2>2, FirstConversationIsWhole
    <2> QED BY <2>3 DEF WindowInit, WindowInv, SentFits, Sent
  <1>2. WindowInv /\ [WindowNext]_windowVars => WindowInv'
    <2> SUFFICES ASSUME WindowInv, [WindowNext]_windowVars PROVE WindowInv'
      OBVIOUS
    <2>1. IsWhole(conversation) /\ windowStage \in {"top", "sent", "unfit", "over"} /\ turns \in Nat
      BY DEF WindowInv
    <2>2. ASSUME NEW summary \in SummarySizes \union {Unusable}, Fit(summary) PROVE WindowInv'
      <3> DEFINE capped == MessageCap(conversation)
                 may == compactionFailures < MaxCompactionFailures
                 fit == FitRequest(capped, summary, may)
      <3>1. IsWhole(capped) /\ summary \in Nat
        BY <2>1, CapIsWhole, WindowAssumption DEF Unusable
      <3> HIDE DEF capped, may
      <3>2. IsWhole(fit.msgs) /\ (fit.fits => Estimated(fit.msgs) <= SafeBudget)
        BY <3>1, FittedIsWhole
      <3> HIDE DEF fit
      <3>3. /\ conversation' = fit.msgs
            /\ windowStage' = IF fit.fits THEN "sent" ELSE "unfit"
            /\ turns' = turns
        BY <2>2 DEF Fit, fit, may, capped
      <3>4. IsWhole(conversation')
        BY <3>2, <3>3
      <3>5. windowStage' = "sent" => Estimated(conversation') <= SafeBudget
        BY <3>2, <3>3
      <3> QED BY <2>1, <3>3, <3>4, <3>5 DEF WindowInv, SentFits, Sent
    <2>3. ASSUME NEW calls \in 1 .. MaxCallsPerRound, NEW shapes \in [1 .. calls -> Shapes],
                 ToolRound(shapes)
          PROVE  WindowInv'
      <3> DEFINE v == FlattenSeq([n \in DOMAIN shapes |-> Messages(turns + 1, n, shapes[n])])
                 c == <<CallMessage(turns + 1, Len(shapes))>>
      <3>1. turns + 1 \in Nat /\ calls \in Nat /\ calls # 0
        BY <2>1, WindowAssumption
      <3>2. Len(shapes) = calls
        BY <3>1, SeqDef, LenProperties
      <3>3. Results(v, turns + 1, calls)
        BY <3>1, RoundResults
      <3> HIDE DEF v
      <3>4. BackOK(c \o v) /\ \A i \in 1 .. Len(c \o v) : (c \o v)[i].kind # "elision"
        BY <3>1, <3>2, <3>3, RoundIsBack
      <3>5. c \in Seq(Msg) /\ v \in Seq(Msg)
        <4>1. CallMessage(turns + 1, calls) \in Msg
          BY <3>1 DEF CallMessage, Message, Msg
        <4> QED BY <4>1, <3>2, <3>3 DEF Results
      <3>6. conversation' = conversation \o c \o v /\ windowStage' = "top" /\ turns' = turns + 1
        BY <2>3 DEF ToolRound, v
      <3> HIDE DEF c
      <3>7. conversation \in Seq(Msg)
        BY <2>1, WholeFacts
      <3>8. conversation' = conversation \o (c \o v)
        <4>1. conversation \in Seq(Msg) /\ c \in Seq(Msg) /\ v \in Seq(Msg)
          BY <3>5, <3>7
        <4>2. (conversation \o c) \o v = conversation \o (c \o v)
          BY ONLY <4>1, ConcatAssociative
        <4> QED BY <3>6, <4>2
      <3> DEFINE w == c \o v
      <3> HIDE DEF w
      <3>9. BackOK(w) /\ (\A i \in 1 .. Len(w) : w[i].kind # "elision") /\ conversation' = conversation \o w
        BY <3>4, <3>8 DEF w
      <3>10. IsWhole(conversation \o w)
        BY <2>1, <3>9, AddedIsWhole
      <3>11. IsWhole(conversation')
        BY <3>9, <3>10
      <3> QED BY <3>1, <3>6, <3>11 DEF WindowInv, SentFits, Sent
    <2>4. CASE Continuation
      <3> DEFINE w == <<Message("assistant", "part", turns + 1, 0, 1), Hint>>
      <3>1. turns + 1 \in Nat
        BY <2>1
      <3>2. BackOK(w) /\ \A i \in 1 .. Len(w) : w[i].kind # "elision"
        BY <3>1, PartIsBack
      <3>3. conversation' = conversation \o w /\ windowStage' = "top" /\ turns' = turns + 1
        BY <2>4 DEF Continuation
      <3> HIDE DEF w
      <3>4. IsWhole(conversation \o w)
        BY <2>1, <3>2, AddedIsWhole
      <3>5. IsWhole(conversation')
        BY <3>3, <3>4
      <3> QED BY <3>1, <3>3, <3>5 DEF WindowInv, SentFits, Sent
    <2>5. CASE ContextLimit
      <3>1. IsWhole(CutHistory(conversation, RejectBudget))
        BY <2>1, CutHistoryIsWhole, WindowAssumption
      <3>2. \/ windowStage' = "over" /\ conversation' = conversation
            \/ windowStage' = "top" /\ conversation' = CutHistory(conversation, RejectBudget)
        BY <2>5 DEF ContextLimit
      <3>3. turns' = turns /\ IsWhole(conversation') /\ windowStage' \in {"top", "over"}
        BY <2>1, <2>5, <3>1, <3>2 DEF ContextLimit
      <3> QED BY <2>1, <3>3 DEF WindowInv, SentFits, Sent
    <2>6. CASE UNCHANGED windowVars
      <3>1. conversation' = conversation /\ windowStage' = windowStage /\ turns' = turns
        BY <2>6 DEF windowVars
      <3>2. Estimated(conversation') = Estimated(conversation)
        BY <3>1
      <3>3. WindowInv
        OBVIOUS
      <3> QED BY <3>1, <3>2, <3>3, <2>1 DEF WindowInv, SentFits, Sent
    <2> QED BY <2>2, <2>3, <2>4, <2>5, <2>6 DEF WindowNext
  <1> QED BY <1>1, <1>2, PTL DEF WindowSpec

LEMMA AtMostOne ==
  ASSUME NEW S, NEW x, S \subseteq {x}
  PROVE  Cardinality(S) <= 1 /\ (x \in S => Cardinality(S) = 1)
  <1>1. S = {} \/ S = {x}
    OBVIOUS
  <1>2. Cardinality({}) = 0 /\ Cardinality({x}) = 1
    BY FS_EmptySet, FS_Singleton
  <1> QED BY <1>1, <1>2

\* What is whole keeps its meaning, and its newest result, and has one mark.
LEMMA WholeMeans ==
  ASSUME IsWhole(conversation)
  PROVE  RequestSurvives /\ PairsStayWhole /\ OpensWithUser /\ NewestResultIsWhole /\ OneElision
  <1> DEFINE g == conversation
  <1>1. PICK f \in Seq(Msg), q \in Msg, b \in Seq(Msg) : g = Glue(f, q, b) /\ PartsOK(f, q, b)
    BY DEF IsWhole
  <1>2. Glues(g, f, q, b) /\ FrontOK(f) /\ q.kind = "request" /\ BackOK(b) /\ OneMark(f, b)
    BY <1>1, GlueFacts DEF PartsOK
  <1> DEFINE d == Len(f) + 1
  <1>3. /\ g \in Seq(Msg) /\ Len(f) \in Nat /\ 1 <= Len(f) /\ Len(b) \in Nat
        /\ Len(g) = d + Len(b) /\ DOMAIN g = 1 .. Len(g) /\ d \in Nat /\ Len(g) \in Nat
        /\ \A i \in 1 .. Len(f) : g[i] = f[i]
        /\ g[d] = q
        /\ \A i \in 1 .. Len(b) : g[d + i] = b[i]
    BY <1>2 DEF Glues, FrontOK
  <1>4. ActiveStart(g) = d /\ Leading(g) = LeadOf(f)
    BY <1>1, ActiveStartOf, LeadingOf
  <1> DEFINE InBack(i) == i - d \in 1 .. Len(b) /\ i = d + (i - d) /\ g[i] = b[i - d]
  <1>5. ASSUME NEW i \in DOMAIN g
        PROVE  \/ i \in 1 .. Len(f)
               \/ i = d
               \/ InBack(i)
    <2>1. i \in 1 .. d + Len(b)
      BY <1>3
    <2>2. i \in 1 .. Len(f) \/ i = d \/ i \in d + 1 .. d + Len(b)
      BY <2>1, <1>3
    <2>3. ASSUME i \in d + 1 .. d + Len(b) PROVE InBack(i)
      <3>1. i - d \in 1 .. Len(b) /\ i = d + (i - d)
        BY <2>3, <1>3
      <3> QED BY <3>1, <1>3
    <2> QED BY <2>2, <2>3
  <1>6. \A i \in 1 .. Len(f) : /\ g[i] \in Msg /\ g[i].kind # "request" /\ g[i].role # "tool" /\ g[i].kind # "call"
                               /\ g[i].kind = "elision" => i = 2
    <2> TAKE i \in 1 .. Len(f)
    <2>1. g[i] = f[i] /\ f[i] \in Msg /\ f[i].kind # "request" /\ f[i].role # "tool" /\ f[i].kind # "call"
      BY <1>2, <1>3, LeadFacts
    <2>2. f[i].kind = "elision" => i = 2
      <3>1. i = 1 \/ i \in 2 .. Len(f)
        BY <1>3
      <3> QED BY <3>1, <1>2 DEF FrontOK
    <2> QED BY <2>1, <2>2
  <1>7. g[d].kind = "request" /\ g[d].role = "user"
    BY <1>2, <1>3, Roles
  <1>8. \A i \in 1 .. Len(b) : b[i].kind # "request"
    BY <1>2, BackFacts
  <1> HIDE DEF d
  <1>9. RequestSurvives
    <2> DEFINE S == {i \in DOMAIN g : g[i].kind = "request"}
    <2>1. d \in DOMAIN g
      BY <1>3 DEF d
    <2>2. S \subseteq {d} /\ d \in S
      BY <2>1, <1>5, <1>6, <1>7, <1>8
    <2> HIDE DEF S
    <2>3. Cardinality(S) = 1
      BY <2>2, AtMostOne
    <2> QED BY <2>3, <1>4, <1>7 DEF RequestSurvives, S
  <1>10. PairsStayWhole
    <2> SUFFICES ASSUME NEW i \in DOMAIN g
                 PROVE  (g[i].role = "tool" => Answers(g, i)) /\ (g[i].kind = "call" => Answered(g, i))
      BY DEF PairsStayWhole, Answers, Answered
    <2>1. CASE i \in 1 .. Len(f)
      BY <2>1, <1>6
    <2>2. CASE i = d
      BY <2>2, <1>7
    <2>3. CASE InBack(i)
      <3> DEFINE k == i - d
      <3>1. k \in 1 .. Len(b) /\ i = d + k /\ g[i] = b[k] /\ d + k \in Nat
        BY <2>3, <1>3
      <3> HIDE DEF k
      <3>2. (b[k].role = "tool" => Answers(b, k)) /\ (b[k].kind = "call" => Answered(b, k))
        BY <3>1, <1>2, BackKinds
      <3>3. \A j \in 1 .. k : g[d + j] = b[j]
        BY <3>1, <1>3
      <3>4. Answers(b, k) => Answers(g, d + k)
        BY <3>1, <3>3, <1>3, ShiftedAnswers
      <3>5. Answered(b, k) => Answered(g, d + k)
        BY <3>1, <1>3, ShiftedAnswered
      <3> QED BY <3>1, <3>2, <3>4, <3>5
    <2> QED BY <2>1, <2>2, <2>3, <1>5
  <1>11. OpensWithUser
    <2>1. LeadOf(f) \in 1 .. Len(f)
      BY <1>2, <1>3, LeadFacts
    <2>2. CASE LeadOf(f) = Len(f)
      BY <2>2, <1>4, <1>7 DEF OpensWithUser, d
    <2>3. CASE LeadOf(f) < Len(f)
      <3>1. LeadOf(f) + 1 \in 1 .. Len(f)
        BY <2>1, <2>3, <1>3
      <3>2. f[LeadOf(f) + 1].role = "user"
        BY <2>3, <1>2 DEF FrontOK
      <3>3. g[LeadOf(f) + 1].role = "user"
        BY <3>1, <3>2, <1>3
      <3> QED BY <3>3, <1>4 DEF OpensWithUser
    <2> QED BY <2>1, <2>2, <2>3, <1>3
  <1>12. NewestResultIsWhole
    <2> DEFINE results == {i \in DOMAIN g : g[i].role = "tool"}
    <2> SUFFICES ASSUME results # {} PROVE g[Max(results)].kind = "result"
      BY DEF NewestResultIsWhole
    <2>1. results \in SUBSET (0 .. Len(g)) /\ Len(g) \in Nat
      BY <1>3
    <2> HIDE DEF results
    <2>2. Max(results) \in results /\ \A y \in results : y <= Max(results)
      BY <2>1, MaxOfSome
    <2> DEFINE m == Max(results)
    <2> HIDE DEF m
    <2>3. m \in DOMAIN g /\ g[m].role = "tool" /\ \A y \in DOMAIN g : g[y].role = "tool" => y <= m
      BY <2>2 DEF results, m
    <2>4. InBack(m)
      BY <2>3, <1>5, <1>6, <1>7
    <2> DEFINE k == m - d
    <2>5. k \in 1 .. Len(b) /\ m = d + k /\ g[m] = b[k]
      BY <2>4
    <2> HIDE DEF k
    <2>6. ASSUME NEW j \in k + 1 .. Len(b), b[j].role = "tool" PROVE FALSE
      <3>1. j \in 1 .. Len(b) /\ d + j \in DOMAIN g /\ ~ (d + j <= m)
        BY <2>5, <1>3
      <3> QED BY <3>1, <2>3, <2>6, <1>3
    <2>7. b[k].kind = "result"
      BY <2>3, <2>5, <2>6, <1>2, BackKinds
    <2> QED BY <2>5, <2>7 DEF m
  <1>13. OneElision
    <2> DEFINE S == {i \in DOMAIN g : g[i].kind = "elision"}
               x == IF Len(f) = 1 THEN d + 1 ELSE 2
    <2>1. ASSUME NEW i \in S PROVE i = x
      <3>0. i \in DOMAIN g /\ g[i].kind = "elision"
        OBVIOUS
      <3>1. CASE i \in 1 .. Len(f)
        <4>1. i = 2
          BY <3>0, <3>1, <1>6
        <4>2. Len(f) # 1
          <5>1. 2 \in 1 .. Len(f) /\ Len(f) \in Nat
            BY <4>1, <3>1, <1>3
          <5>2. \A n \in Nat : 2 \in 1 .. n => n # 1
            OBVIOUS
          <5> QED BY ONLY <5>1, <5>2
        <4> QED BY <4>1, <4>2
      <3>2. CASE i = d
        BY <3>0, <3>2, <1>7
      <3>3. CASE InBack(i)
        <4> DEFINE k == i - d
        <4>1. k \in 1 .. Len(b) /\ i = d + k /\ b[k].kind = "elision"
          BY <3>0, <3>3
        <4> HIDE DEF k
        <4>2. k = 1 /\ Len(f) = 1
          BY <4>1, <1>2, BackKinds DEF OneMark
        <4> QED BY <4>1, <4>2
      <3> QED BY <3>0, <3>1, <3>2, <3>3, <1>5
    <2>2. S \subseteq {x}
      BY <2>1
    <2> HIDE DEF S, x
    <2>3. Cardinality(S) <= 1
      BY <2>2, AtMostOne
    <2> QED BY <2>3 DEF OneElision, S
  <1> QED BY <1>9, <1>10, <1>11, <1>12, <1>13

\* For any sizes, budgets and thresholds, any number of rounds and calls, and any
\* order of cap, pruning, summary, cut and refusal: what the model is sent holds
\* the request once and as the newest user turn, every call with its results, and
\* a user's message first.
THEOREM WindowMeaningIsKept == WindowSpec => []WindowKeepsMeaning
  <1>1. WindowInv => WindowKeepsMeaning
    BY WholeMeans DEF WindowInv, WindowKeepsMeaning
  <1> QED BY <1>1, WindowInvariant, PTL

\* What is sent is within the budget, ends in tool output that is not a stub, and
\* has one mark for all that was dropped.
THEOREM WindowAlwaysFits == WindowSpec => []WindowFits
  <1>1. WindowInv => WindowFits
    BY WholeMeans DEF WindowInv, WindowFits
  <1> QED BY <1>1, WindowInvariant, PTL

=============================================================================
