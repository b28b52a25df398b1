---------------------------- MODULE ShellProofs ----------------------------
(***************************************************************************)
(* Proofs about a conversation: ShellBridge and ShellTranscript in the     *)
(* shell, SessionTurns in the server, which share no state.  First         *)
(* ShellBridge, then SessionTurns, then ShellTranscript, each part with    *)
(* its own introduction.                                                   *)
(***************************************************************************)
EXTENDS ShellBridge, SessionTurns, ShellTranscript, SequenceFacts, SequenceTheorems,
        FiniteSetTheorems, TLAPS

(***************************************************************************)
(* ShellBridge, for any number of messages, operations and approvals and   *)
(* any limit of the queue: the flags of the shell follow its requests, and *)
(* what the user typed or must answer is not lost.                         *)
(*                                                                         *)
(* Neither is inductive.  That a handed-off message shows as busy needs    *)
(* that no queued message has been cancelled, which needs that a message   *)
(* is sent or queued and never both; that the end of a configuration       *)
(* command may clear the busy flag needs that no request is live while an  *)
(* operation holds the input; that a new session may take the prompt down  *)
(* needs that the server asks only for a live request.                     *)
(***************************************************************************)

ShellOps == {"load", "clear", "recover", "model", "config"}
OpRequests == MaxMessages + 1 .. MaxMessages + ops

ShellTypeOK ==
    /\ active \in Nat /\ aborted \in SUBSET Nat
    /\ busy \in BOOLEAN /\ locked \in BOOLEAN /\ compressing \in BOOLEAN
    /\ shellOp \in ShellOps \cup {"none"}
    /\ queued \in Seq(Nat) /\ sent \in Seq(Nat)
    /\ typed \in 0 .. MaxMessages /\ ops \in 0 .. MaxShellOps
    /\ asking \in Nat /\ prompt \in Nat /\ prompts \in Nat

\* A message is sent or queued, once; only what has been sent, or belongs to
\* an operation, is in flight or cancelled.
RequestsAreOwn ==
    /\ ToSet(queued) \subseteq 1 .. typed /\ ToSet(sent) \subseteq 1 .. typed
    /\ IsInjective(queued) /\ IsInjective(sent)
    /\ ToSet(sent) \cap ToSet(queued) = {}
    /\ active \in {0} \cup ToSet(sent) \cup OpRequests
    /\ aborted \subseteq ToSet(sent) \cup OpRequests

\* While an operation holds the input no request is live, and the request the
\* operation may become has not been made.
OperationsExclude ==
    /\ locked <=> shellOp # "none"
    /\ shellOp # "none" => /\ ~ Live
                           /\ ops # 0
                           /\ OpRequest(ops) \notin aborted
                           /\ OpRequest(ops) # active

\* The server waits only for the live request, and an answer under way has
\* been given.
AsksForLive ==
    /\ asking # 0 => Live
    /\ posts \subseteq settled

MessagesHavePlaces ==
    \A m \in 1 .. typed : m \in ToSet(sent) \/ m \in ToSet(queued) \/ m \in dropped

ShellInv ==
    /\ ShellTypeOK /\ RequestsAreOwn /\ OperationsExclude /\ AsksForLive
    /\ MessagesHavePlaces /\ PromptStays /\ BusyMeansBusy /\ SessionIsChosen

-----------------------------------------------------------------------------
(* Sequences without repetition                                            *)

LEMMA EmptySet ==
    <<>> \in Seq(Nat) /\ ToSet(<<>>) = {} /\ IsInjective(<<>>)
  BY DEF ToSet, IsInjective

LEMMA AppendSet ==
    ASSUME NEW s \in Seq(Nat), NEW x \in Nat
    PROVE  /\ Append(s, x) \in Seq(Nat)
           /\ ToSet(Append(s, x)) = ToSet(s) \cup {x}
           /\ IsInjective(s) /\ x \notin ToSet(s) => IsInjective(Append(s, x))
  <1>1. /\ DOMAIN s = 1 .. Len(s) /\ Len(s) \in Nat
        /\ DOMAIN Append(s, x) = 1 .. Len(s) + 1
        /\ \A i \in 1 .. Len(s) : Append(s, x)[i] = s[i]
        /\ Append(s, x)[Len(s) + 1] = x
        /\ Append(s, x) \in Seq(Nat)
    OBVIOUS
  <1>2. ToSet(Append(s, x)) = ToSet(s) \cup {x}
    <2>1. \A y \in ToSet(Append(s, x)) : y \in ToSet(s) \cup {x}
      BY <1>1 DEF ToSet
    <2>2. \A y \in ToSet(s) : y \in ToSet(Append(s, x))
      BY <1>1 DEF ToSet
    <2>3. x \in ToSet(Append(s, x))
      BY <1>1 DEF ToSet
    <2> QED  BY <2>1, <2>2, <2>3
  <1>3. IsInjective(s) /\ x \notin ToSet(s) => IsInjective(Append(s, x))
    BY <1>1 DEF IsInjective, ToSet
  <1> QED  BY <1>1, <1>2, <1>3

LEMMA TailSet ==
    ASSUME NEW s \in Seq(Nat), s # <<>>, IsInjective(s)
    PROVE  /\ Head(s) \in Nat /\ Head(s) \in ToSet(s)
           /\ Tail(s) \in Seq(Nat) /\ IsInjective(Tail(s))
           /\ ToSet(Tail(s)) = ToSet(s) \ {Head(s)}
           /\ <<Head(s)>> \o Tail(s) = s
  <1>1. /\ DOMAIN s = 1 .. Len(s) /\ Len(s) \in Nat \ {0}
        /\ Head(s) = s[1] /\ Head(s) \in Nat
        /\ Tail(s) \in Seq(Nat) /\ Len(Tail(s)) = Len(s) - 1
        /\ DOMAIN Tail(s) = 1 .. Len(s) - 1
        /\ \A i \in 1 .. Len(s) - 1 : Tail(s)[i] = s[i + 1]
    OBVIOUS
  <1>2. Head(s) \in ToSet(s)
    BY <1>1 DEF ToSet
  <1>3. IsInjective(Tail(s))
    BY <1>1 DEF IsInjective
  <1>4. ToSet(Tail(s)) = ToSet(s) \ {Head(s)}
    <2>1. \A y \in ToSet(Tail(s)) : y \in ToSet(s) /\ y # Head(s)
      <3> TAKE y \in ToSet(Tail(s))
      <3>1. PICK i \in 1 .. Len(s) - 1 : y = Tail(s)[i]
        BY <1>1 DEF ToSet
      <3>2. i + 1 \in DOMAIN s /\ 1 \in DOMAIN s /\ i + 1 # 1 /\ y = s[i + 1]
        BY <1>1, <3>1
      <3> QED  BY <1>1, <3>2 DEF ToSet, IsInjective
    <2>2. \A y \in ToSet(s) : y # Head(s) => y \in ToSet(Tail(s))
      <3> SUFFICES ASSUME NEW y \in ToSet(s), y # Head(s) PROVE y \in ToSet(Tail(s))
        OBVIOUS
      <3>1. PICK i \in 1 .. Len(s) : y = s[i]
        BY <1>1 DEF ToSet
      <3>2. i # 1
        BY <1>1, <3>1
      <3>3. i - 1 \in 1 .. Len(s) - 1 /\ (i - 1) + 1 = i
        BY <1>1, <3>2
      <3>4. i - 1 \in DOMAIN Tail(s) /\ Tail(s)[i - 1] = y
        BY <1>1, <3>1, <3>3
      <3> QED  BY <3>4 DEF ToSet
    <2> QED  BY <2>1, <2>2
  <1>5. <<Head(s)>> \o Tail(s) = s
    BY <1>1
  <1> QED  BY <1>1, <1>2, <1>3, <1>4, <1>5

LEMMA PrefixFacts ==
    ASSUME NEW s \in Seq(Nat), NEW n \in 0 .. Len(s)
    PROVE  /\ SubSeq(s, 1, n) \in Seq(Nat) /\ DOMAIN SubSeq(s, 1, n) = 1 .. n
           /\ \A i \in 1 .. n : SubSeq(s, 1, n)[i] = s[i]
  <1>1. /\ DOMAIN SubSeq(s, 1, n) = 1 .. n
        /\ \A i \in 1 .. n : SubSeq(s, 1, n)[i] = s[i]
    OBVIOUS
  <1>2. SubSeq(s, 1, n) \in Seq(Nat)
    OBVIOUS
  <1> QED  BY <1>1, <1>2

LEMMA FrontSet ==
    ASSUME NEW s \in Seq(Nat), s # <<>>, IsInjective(s)
    PROVE  /\ Front(s) \in Seq(Nat) /\ IsInjective(Front(s))
           /\ Last(s) \in ToSet(s)
           /\ ToSet(Front(s)) = ToSet(s) \ {Last(s)}
  <1> DEFINE f == Front(s)
             n == Len(s) - 1
  <1>1. /\ DOMAIN s = 1 .. n + 1 /\ n \in Nat /\ n \in 0 .. Len(s)
        /\ Last(s) = s[n + 1]
    BY DEF Last
  <1>2. f \in Seq(Nat) /\ DOMAIN f = 1 .. n /\ \A i \in 1 .. n : f[i] = s[i]
    BY <1>1, PrefixFacts DEF Front
  <1> HIDE DEF f, n
  <1>3. Last(s) \in ToSet(s)
    BY <1>1 DEF ToSet
  <1>4. \A i \in DOMAIN f : i \in DOMAIN s /\ i # n + 1 /\ f[i] = s[i] /\ n + 1 \in DOMAIN s
    BY <1>1, <1>2
  <1>5. IsInjective(f)
    BY <1>4 DEF IsInjective
  <1>6. ToSet(f) = ToSet(s) \ {Last(s)}
    <2>1. \A y \in ToSet(f) : y \in ToSet(s) /\ y # Last(s)
      BY <1>1, <1>4 DEF ToSet, IsInjective
    <2>2. \A i \in DOMAIN s : i = n + 1 \/ i \in DOMAIN f
      BY <1>1, <1>2
    <2>3. \A y \in ToSet(s) : y # Last(s) => y \in ToSet(f)
      BY <1>1, <1>4, <2>2 DEF ToSet
    <2> QED  BY <2>1, <2>3
  <1> QED  BY <1>2, <1>3, <1>5, <1>6 DEF f

LEMMA ConcatInjective ==
    ASSUME NEW s \in Seq(Nat), NEW t \in Seq(Nat),
           IsInjective(s), IsInjective(t), ToSet(s) \cap ToSet(t) = {}
    PROVE  IsInjective(s \o t)
  <1> DEFINE u == s \o t
  <1>1. /\ Len(s) \in Nat /\ Len(t) \in Nat
        /\ DOMAIN s = 1 .. Len(s) /\ DOMAIN t = 1 .. Len(t)
        /\ DOMAIN u = 1 .. Len(s) + Len(t)
        /\ \A i \in 1 .. Len(s) + Len(t) :
              u[i] = IF i <= Len(s) THEN s[i] ELSE t[i - Len(s)]
    OBVIOUS
  <1> HIDE DEF u
  <1> SUFFICES ASSUME NEW a \in DOMAIN u, NEW b \in DOMAIN u, u[a] = u[b] PROVE a = b
    BY DEF u, IsInjective
  <1>2. a \in 1 .. Len(s) + Len(t) /\ b \in 1 .. Len(s) + Len(t)
    BY <1>1
  <1>3. ASSUME NEW i \in 1 .. Len(s) + Len(t), ~ i <= Len(s)
        PROVE  i - Len(s) \in DOMAIN t /\ u[i] = t[i - Len(s)] /\ u[i] \in ToSet(t)
    <2>1. i - Len(s) \in 1 .. Len(t)
      BY <1>1, <1>3
    <2>2. i - Len(s) \in DOMAIN t /\ u[i] = t[i - Len(s)]
      BY <1>1, <1>3, <2>1
    <2> QED  BY <2>2 DEF ToSet
  <1>4. ASSUME NEW i \in 1 .. Len(s) + Len(t), i <= Len(s)
        PROVE  i \in DOMAIN s /\ u[i] = s[i] /\ u[i] \in ToSet(s)
    <2>1. i \in DOMAIN s /\ u[i] = s[i]
      BY <1>1, <1>4
    <2> QED  BY <2>1 DEF ToSet
  <1>5. CASE a <= Len(s) /\ b <= Len(s)
    BY <1>2, <1>4, <1>5 DEF IsInjective
  <1>6. CASE ~ a <= Len(s) /\ ~ b <= Len(s)
    <2>1. a - Len(s) = b - Len(s)
      BY <1>2, <1>3, <1>6 DEF IsInjective
    <2> QED  BY <1>1, <1>2, <2>1
  <1>7. CASE a <= Len(s) /\ ~ b <= Len(s)
    BY <1>2, <1>3, <1>4, <1>7
  <1>8. CASE ~ a <= Len(s) /\ b <= Len(s)
    BY <1>2, <1>3, <1>4, <1>8
  <1> QED  BY <1>5, <1>6, <1>7, <1>8

-----------------------------------------------------------------------------
(* The steps                                                               *)

LEMMA ShellConstants ==
    MaxMessages \in Nat /\ MaxQueued \in Nat /\ MaxShellOps \in Nat /\ MaxPrompts \in Nat
  BY ShellAssumption

\* A new message is in no sequence yet.
LEMMA TypeStep ==
    ASSUME ShellInv, Type
    PROVE  ShellInv'
  <1> USE ShellConstants DEF ShellInv, Live, OpRequest, Type, SendNow, Start
  <1>a. typed + 1 \notin ToSet(queued) /\ typed + 1 \notin ToSet(sent) /\ typed + 1 \in Nat
    BY DEF Type, RequestsAreOwn, ShellTypeOK
  <1>b. /\ Append(queued, typed + 1) \in Seq(Nat)
        /\ ToSet(Append(queued, typed + 1)) = ToSet(queued) \cup {typed + 1}
        /\ IsInjective(Append(queued, typed + 1))
    BY <1>a, AppendSet DEF RequestsAreOwn, ShellTypeOK
  <1>c. /\ Append(sent, typed + 1) \in Seq(Nat)
        /\ ToSet(Append(sent, typed + 1)) = ToSet(sent) \cup {typed + 1}
        /\ IsInjective(Append(sent, typed + 1))
    BY <1>a, AppendSet DEF RequestsAreOwn, ShellTypeOK
  <1>1. ShellTypeOK'
    <2>1. typed' \in 0 .. MaxMessages
      BY DEF ShellTypeOK
    <2>2. /\ active' \in Nat /\ busy' \in BOOLEAN /\ compressing' \in BOOLEAN
          /\ queued' \in Seq(Nat) /\ sent' \in Seq(Nat)
      BY <1>a, <1>b, <1>c DEF ShellTypeOK
    <2> QED  BY <2>1, <2>2 DEF ShellTypeOK
  <1>2. RequestsAreOwn'
    <2>1. typed' = typed + 1 /\ typed \in Nat /\ ops' = ops /\ aborted' = aborted
      BY DEF ShellTypeOK
    <2>2. 1 .. typed \subseteq 1 .. typed' /\ typed + 1 \in 1 .. typed' /\ OpRequests' = OpRequests
      BY <2>1 DEF OpRequests
    <2>3. CASE queued' = Append(queued, typed + 1) /\ UNCHANGED <<active, sent>>
      BY <1>a, <1>b, <2>1, <2>2, <2>3 DEF RequestsAreOwn
    <2>4. CASE active' = typed + 1 /\ sent' = Append(sent, typed + 1) /\ UNCHANGED queued
      BY <1>a, <1>c, <2>1, <2>2, <2>4 DEF RequestsAreOwn
    <2> QED  BY <2>3, <2>4
  <1>3. OperationsExclude'
    BY <1>a, <1>b, <1>c DEF OperationsExclude, ShellTypeOK, ShellOps, RequestsAreOwn, OpRequests, BusyMeansBusy
  <1>4. AsksForLive'
    BY <1>a, <1>b, <1>c DEF AsksForLive, OperationsExclude, RequestsAreOwn, OpRequests, ShellTypeOK, BusyMeansBusy
  <1>5. MessagesHavePlaces'
    <2>1. \A m \in 1 .. typed' : m \in 1 .. typed \/ m = typed + 1
      BY DEF ShellTypeOK
    <2>2. /\ ToSet(queued) \subseteq ToSet(queued') /\ ToSet(sent) \subseteq ToSet(sent')
          /\ typed + 1 \in ToSet(queued') \cup ToSet(sent') /\ dropped' = dropped
      BY <1>b, <1>c
    <2> QED  BY <2>1, <2>2 DEF MessagesHavePlaces
  <1>6. PromptStays'
    BY <1>a, <1>b, <1>c DEF PromptStays, AsksForLive, OperationsExclude, BusyMeansBusy, ShellTypeOK
  <1>7. BusyMeansBusy'
    BY <1>a, <1>b, <1>c DEF BusyMeansBusy, OperationsExclude, RequestsAreOwn, OpRequests, ShellTypeOK, ShellOps
  <1>8. SessionIsChosen'
    BY <1>a, <1>b, <1>c DEF SessionIsChosen
  <1> QED  BY <1>1, <1>2, <1>3, <1>4, <1>5, <1>6, <1>7, <1>8

\* The newest queued message is given up.
LEMMA RemoveQueuedStep ==
    ASSUME ShellInv, RemoveQueued
    PROVE  ShellInv'
  <1> USE ShellConstants DEF ShellInv, Live, OpRequest, RemoveQueued
  <1>a. /\ Front(queued) \in Seq(Nat) /\ IsInjective(Front(queued))
        /\ ToSet(Front(queued)) = ToSet(queued) \ {Last(queued)}
    BY FrontSet DEF RemoveQueued, RequestsAreOwn, ShellTypeOK
  <1>1. ShellTypeOK'
    BY <1>a DEF ShellTypeOK, ShellOps
  <1>2. RequestsAreOwn'
    BY <1>a DEF RequestsAreOwn, OpRequests, ShellTypeOK, BusyMeansBusy
  <1>3. OperationsExclude'
    BY <1>a DEF OperationsExclude, ShellTypeOK, ShellOps, RequestsAreOwn, OpRequests, BusyMeansBusy
  <1>4. AsksForLive'
    BY <1>a DEF AsksForLive, OperationsExclude, RequestsAreOwn, OpRequests, ShellTypeOK, BusyMeansBusy
  <1>5. MessagesHavePlaces'
    BY <1>a DEF MessagesHavePlaces, ShellTypeOK
  <1>6. PromptStays'
    BY <1>a DEF PromptStays, AsksForLive, OperationsExclude, BusyMeansBusy, ShellTypeOK
  <1>7. BusyMeansBusy'
    BY <1>a DEF BusyMeansBusy, OperationsExclude, RequestsAreOwn, OpRequests, ShellTypeOK, ShellOps
  <1>8. SessionIsChosen'
    BY <1>a DEF SessionIsChosen
  <1> QED  BY <1>1, <1>2, <1>3, <1>4, <1>5, <1>6, <1>7, <1>8

\* A cancelled request is one that is in flight.
LEMMA CancelRequestStep ==
    ASSUME ShellInv, CancelRequest
    PROVE  ShellInv'
  <1> USE ShellConstants DEF ShellInv, Live, OpRequest, CancelRequest, GoIdle
  <1>1. ShellTypeOK'
    BY DEF ShellTypeOK, ShellOps
  <1>2. RequestsAreOwn'
    BY DEF RequestsAreOwn, OpRequests, ShellTypeOK, BusyMeansBusy
  <1>3. OperationsExclude'
    BY DEF OperationsExclude, ShellTypeOK, ShellOps, RequestsAreOwn, OpRequests, BusyMeansBusy
  <1>4. AsksForLive'
    BY DEF AsksForLive, OperationsExclude, RequestsAreOwn, OpRequests, ShellTypeOK, BusyMeansBusy
  <1>5. MessagesHavePlaces'
    BY DEF MessagesHavePlaces, ShellTypeOK
  <1>6. PromptStays'
    BY DEF PromptStays, AsksForLive, OperationsExclude, BusyMeansBusy, ShellTypeOK
  <1>7. BusyMeansBusy'
    BY DEF BusyMeansBusy, OperationsExclude, RequestsAreOwn, OpRequests, ShellTypeOK, ShellOps
  <1>8. SessionIsChosen'
    BY DEF SessionIsChosen
  <1> QED  BY <1>1, <1>2, <1>3, <1>4, <1>5, <1>6, <1>7, <1>8

\* An answer under way is one the user gave.
LEMMA ResolveApprovalStep ==
    ASSUME ShellInv, ResolveApproval
    PROVE  ShellInv'
  <1> USE ShellConstants DEF ShellInv, Live, OpRequest, ResolveApproval
  <1>1. ShellTypeOK'
    BY DEF ShellTypeOK, ShellOps
  <1>2. RequestsAreOwn'
    BY DEF RequestsAreOwn, OpRequests, ShellTypeOK, BusyMeansBusy
  <1>3. OperationsExclude'
    BY DEF OperationsExclude, ShellTypeOK, ShellOps, RequestsAreOwn, OpRequests, BusyMeansBusy
  <1>4. AsksForLive'
    BY DEF AsksForLive, OperationsExclude, RequestsAreOwn, OpRequests, ShellTypeOK, BusyMeansBusy
  <1>5. MessagesHavePlaces'
    BY DEF MessagesHavePlaces, ShellTypeOK
  <1>6. PromptStays'
    BY DEF PromptStays, AsksForLive, OperationsExclude, BusyMeansBusy, ShellTypeOK
  <1>7. BusyMeansBusy'
    BY DEF BusyMeansBusy, OperationsExclude, RequestsAreOwn, OpRequests, ShellTypeOK, ShellOps
  <1>8. SessionIsChosen'
    BY DEF SessionIsChosen
  <1> QED  BY <1>1, <1>2, <1>3, <1>4, <1>5, <1>6, <1>7, <1>8

\* The server takes an answer.
LEMMA AnswerTakenStep ==
    ASSUME ShellInv, NEW a \in 1 .. MaxPrompts, AnswerTaken(a)
    PROVE  ShellInv'
  <1> USE ShellConstants DEF ShellInv, Live, OpRequest, AnswerTaken
  <1>1. ShellTypeOK'
    BY DEF ShellTypeOK, ShellOps
  <1>2. RequestsAreOwn'
    BY DEF RequestsAreOwn, OpRequests, ShellTypeOK, BusyMeansBusy
  <1>3. OperationsExclude'
    BY DEF OperationsExclude, ShellTypeOK, ShellOps, RequestsAreOwn, OpRequests, BusyMeansBusy
  <1>4. AsksForLive'
    BY DEF AsksForLive, OperationsExclude, RequestsAreOwn, OpRequests, ShellTypeOK, BusyMeansBusy
  <1>5. MessagesHavePlaces'
    BY DEF MessagesHavePlaces, ShellTypeOK
  <1>6. PromptStays'
    BY DEF PromptStays, AsksForLive, OperationsExclude, BusyMeansBusy, ShellTypeOK
  <1>7. BusyMeansBusy'
    BY DEF BusyMeansBusy, OperationsExclude, RequestsAreOwn, OpRequests, ShellTypeOK, ShellOps
  <1>8. SessionIsChosen'
    BY DEF SessionIsChosen
  <1> QED  BY <1>1, <1>2, <1>3, <1>4, <1>5, <1>6, <1>7, <1>8

\* The response of a POST takes only its own prompt down.
LEMMA ApprovalPostedStep ==
    ASSUME ShellInv, NEW a \in 1 .. MaxPrompts, ApprovalPosted(a)
    PROVE  ShellInv'
  <1> USE ShellConstants DEF ShellInv, Live, OpRequest, ApprovalPosted, OwnsPrompt
  <1>1. ShellTypeOK'
    BY DEF ShellTypeOK, ShellOps
  <1>2. RequestsAreOwn'
    BY DEF RequestsAreOwn, OpRequests, ShellTypeOK, BusyMeansBusy
  <1>3. OperationsExclude'
    BY DEF OperationsExclude, ShellTypeOK, ShellOps, RequestsAreOwn, OpRequests, BusyMeansBusy
  <1>4. AsksForLive'
    BY DEF AsksForLive, OperationsExclude, RequestsAreOwn, OpRequests, ShellTypeOK, BusyMeansBusy
  <1>5. MessagesHavePlaces'
    BY DEF MessagesHavePlaces, ShellTypeOK
  <1>6. PromptStays'
    BY DEF PromptStays, AsksForLive, OperationsExclude, BusyMeansBusy, ShellTypeOK
  <1>7. BusyMeansBusy'
    BY DEF BusyMeansBusy, OperationsExclude, RequestsAreOwn, OpRequests, ShellTypeOK, ShellOps
  <1>8. SessionIsChosen'
    BY DEF SessionIsChosen
  <1> QED  BY <1>1, <1>2, <1>3, <1>4, <1>5, <1>6, <1>7, <1>8

\* A new session lets the queue go.
LEMMA StartNewSessionStep ==
    ASSUME ShellInv, StartNewSession
    PROVE  ShellInv'
  <1> USE ShellConstants DEF ShellInv, Live, OpRequest, StartNewSession, Fresh, GoIdle, Idle, MayOperate
  <1>a. <<>> \in Seq(Nat) /\ ToSet(<<>>) = {} /\ IsInjective(<<>>)
    BY EmptySet
  <1>1. ShellTypeOK'
    <2>1. ops' \in 0 .. MaxShellOps
      BY DEF ShellTypeOK
    <2> QED  BY <1>a, <2>1 DEF ShellTypeOK, ShellOps
  <1>2. RequestsAreOwn'
    BY <1>a DEF RequestsAreOwn, OpRequests, ShellTypeOK, BusyMeansBusy
  <1>3. OperationsExclude'
    BY <1>a DEF OperationsExclude, ShellTypeOK, ShellOps, RequestsAreOwn, OpRequests, BusyMeansBusy
  <1>4. AsksForLive'
    BY <1>a DEF AsksForLive, OperationsExclude, RequestsAreOwn, OpRequests, ShellTypeOK, BusyMeansBusy
  <1>5. MessagesHavePlaces'
    BY <1>a DEF MessagesHavePlaces, ShellTypeOK
  <1>6. PromptStays'
    BY <1>a DEF PromptStays, AsksForLive, OperationsExclude, BusyMeansBusy, ShellTypeOK
  <1>7. BusyMeansBusy'
    BY <1>a DEF BusyMeansBusy, OperationsExclude, RequestsAreOwn, OpRequests, ShellTypeOK, ShellOps
  <1>8. SessionIsChosen'
    BY <1>a DEF SessionIsChosen
  <1> QED  BY <1>1, <1>2, <1>3, <1>4, <1>5, <1>6, <1>7, <1>8

\* An operation begins while no request is live.
LEMMA BeginOpStep ==
    ASSUME ShellInv, NEW kind \in ShellOps, BeginOp(kind)
    PROVE  ShellInv'
  <1> USE ShellConstants DEF ShellInv, Live, OpRequest, BeginOp, Idle, MayOperate
  <1>1. ShellTypeOK'
    BY DEF ShellTypeOK, ShellOps
  <1>2. RequestsAreOwn'
    BY DEF RequestsAreOwn, OpRequests, ShellTypeOK, BusyMeansBusy
  <1>3. OperationsExclude'
    BY DEF OperationsExclude, ShellTypeOK, ShellOps, RequestsAreOwn, OpRequests, BusyMeansBusy
  <1>4. AsksForLive'
    BY DEF AsksForLive, OperationsExclude, RequestsAreOwn, OpRequests, ShellTypeOK, BusyMeansBusy
  <1>5. MessagesHavePlaces'
    BY DEF MessagesHavePlaces, ShellTypeOK
  <1>6. PromptStays'
    BY DEF PromptStays, AsksForLive, OperationsExclude, BusyMeansBusy, ShellTypeOK
  <1>7. BusyMeansBusy'
    BY DEF BusyMeansBusy, OperationsExclude, RequestsAreOwn, OpRequests, ShellTypeOK, ShellOps
  <1>8. SessionIsChosen'
    BY DEF SessionIsChosen
  <1> QED  BY <1>1, <1>2, <1>3, <1>4, <1>5, <1>6, <1>7, <1>8

\* An operation fails.
LEMMA OpFailsStep ==
    ASSUME ShellInv, OpFails
    PROVE  ShellInv'
  <1> USE ShellConstants DEF ShellInv, Live, OpRequest, OpFails, Unlock
  <1>1. ShellTypeOK'
    BY DEF ShellTypeOK, ShellOps
  <1>2. RequestsAreOwn'
    BY DEF RequestsAreOwn, OpRequests, ShellTypeOK, BusyMeansBusy
  <1>3. OperationsExclude'
    BY DEF OperationsExclude, ShellTypeOK, ShellOps, RequestsAreOwn, OpRequests, BusyMeansBusy
  <1>4. AsksForLive'
    BY DEF AsksForLive, OperationsExclude, RequestsAreOwn, OpRequests, ShellTypeOK, BusyMeansBusy
  <1>5. MessagesHavePlaces'
    BY DEF MessagesHavePlaces, ShellTypeOK
  <1>6. PromptStays'
    BY DEF PromptStays, AsksForLive, OperationsExclude, BusyMeansBusy, ShellTypeOK
  <1>7. BusyMeansBusy'
    BY DEF BusyMeansBusy, OperationsExclude, RequestsAreOwn, OpRequests, ShellTypeOK, ShellOps
  <1>8. SessionIsChosen'
    BY DEF SessionIsChosen
  <1> QED  BY <1>1, <1>2, <1>3, <1>4, <1>5, <1>6, <1>7, <1>8

\* A session is loaded.
LEMMA LoadedStep ==
    ASSUME ShellInv, Loaded
    PROVE  ShellInv'
  <1> USE ShellConstants DEF ShellInv, Live, OpRequest, Loaded, Unlock
  <1>a. <<>> \in Seq(Nat) /\ ToSet(<<>>) = {} /\ IsInjective(<<>>)
    BY EmptySet
  <1>1. ShellTypeOK'
    BY <1>a DEF ShellTypeOK, ShellOps
  <1>2. RequestsAreOwn'
    BY <1>a DEF RequestsAreOwn, OpRequests, ShellTypeOK, BusyMeansBusy
  <1>3. OperationsExclude'
    BY <1>a DEF OperationsExclude, ShellTypeOK, ShellOps, RequestsAreOwn, OpRequests, BusyMeansBusy
  <1>4. AsksForLive'
    BY <1>a DEF AsksForLive, OperationsExclude, RequestsAreOwn, OpRequests, ShellTypeOK, BusyMeansBusy
  <1>5. MessagesHavePlaces'
    BY <1>a DEF MessagesHavePlaces, ShellTypeOK
  <1>6. PromptStays'
    BY <1>a DEF PromptStays, AsksForLive, OperationsExclude, BusyMeansBusy, ShellTypeOK
  <1>7. BusyMeansBusy'
    BY <1>a DEF BusyMeansBusy, OperationsExclude, RequestsAreOwn, OpRequests, ShellTypeOK, ShellOps
  <1>8. SessionIsChosen'
    BY <1>a DEF SessionIsChosen
  <1> QED  BY <1>1, <1>2, <1>3, <1>4, <1>5, <1>6, <1>7, <1>8

\* The session is cleared.
LEMMA ClearedStep ==
    ASSUME ShellInv, Cleared
    PROVE  ShellInv'
  <1> USE ShellConstants DEF ShellInv, Live, OpRequest, Cleared, Unlock, Fresh, GoIdle
  <1>a. <<>> \in Seq(Nat) /\ ToSet(<<>>) = {} /\ IsInjective(<<>>)
    BY EmptySet
  <1>1. ShellTypeOK'
    BY <1>a DEF ShellTypeOK, ShellOps
  <1>2. RequestsAreOwn'
    BY <1>a DEF RequestsAreOwn, OpRequests, ShellTypeOK, BusyMeansBusy
  <1>3. OperationsExclude'
    BY <1>a DEF OperationsExclude, ShellTypeOK, ShellOps, RequestsAreOwn, OpRequests, BusyMeansBusy
  <1>4. AsksForLive'
    BY <1>a DEF AsksForLive, OperationsExclude, RequestsAreOwn, OpRequests, ShellTypeOK, BusyMeansBusy
  <1>5. MessagesHavePlaces'
    BY <1>a DEF MessagesHavePlaces, ShellTypeOK
  <1>6. PromptStays'
    BY <1>a DEF PromptStays, AsksForLive, OperationsExclude, BusyMeansBusy, ShellTypeOK
  <1>7. BusyMeansBusy'
    BY <1>a DEF BusyMeansBusy, OperationsExclude, RequestsAreOwn, OpRequests, ShellTypeOK, ShellOps
  <1>8. SessionIsChosen'
    BY <1>a DEF SessionIsChosen
  <1> QED  BY <1>1, <1>2, <1>3, <1>4, <1>5, <1>6, <1>7, <1>8

\* A configuration command ends.
LEMMA ConfiguredStep ==
    ASSUME ShellInv, Configured
    PROVE  ShellInv'
  <1> USE ShellConstants DEF ShellInv, Live, OpRequest, Configured, Unlock
  <1>1. ShellTypeOK'
    BY DEF ShellTypeOK, ShellOps
  <1>2. RequestsAreOwn'
    BY DEF RequestsAreOwn, OpRequests, ShellTypeOK, BusyMeansBusy
  <1>3. OperationsExclude'
    BY DEF OperationsExclude, ShellTypeOK, ShellOps, RequestsAreOwn, OpRequests, BusyMeansBusy
  <1>4. AsksForLive'
    BY DEF AsksForLive, OperationsExclude, RequestsAreOwn, OpRequests, ShellTypeOK, BusyMeansBusy
  <1>5. MessagesHavePlaces'
    BY DEF MessagesHavePlaces, ShellTypeOK
  <1>6. PromptStays'
    BY DEF PromptStays, AsksForLive, OperationsExclude, BusyMeansBusy, ShellTypeOK
  <1>7. BusyMeansBusy'
    BY DEF BusyMeansBusy, OperationsExclude, RequestsAreOwn, OpRequests, ShellTypeOK, ShellOps
  <1>8. SessionIsChosen'
    BY DEF SessionIsChosen
  <1> QED  BY <1>1, <1>2, <1>3, <1>4, <1>5, <1>6, <1>7, <1>8

\* The request of a recovery is new.
LEMMA RecoveredStep ==
    ASSUME ShellInv, Recovered
    PROVE  ShellInv'
  <1> USE ShellConstants DEF ShellInv, Live, OpRequest, Recovered, Unlock, Start
  <1>a. <<>> \in Seq(Nat) /\ ToSet(<<>>) = {} /\ IsInjective(<<>>)
    BY EmptySet
  <1>1. ShellTypeOK'
    <2>1. queued' = queued \/ queued' = <<>>
      OBVIOUS
    <2>2. active' = MaxMessages + ops /\ active' \in Nat
      BY DEF ShellTypeOK
    <2> QED  BY <1>a, <2>1, <2>2 DEF ShellTypeOK, ShellOps
  <1>2. RequestsAreOwn'
    <2>1. active' \in OpRequests /\ OpRequests' = OpRequests
      BY DEF OpRequests, OperationsExclude, ShellTypeOK
    <2>2. queued' = queued \/ queued' = <<>>
      OBVIOUS
    <2> QED  BY <1>a, <2>1, <2>2 DEF RequestsAreOwn
  <1>3. OperationsExclude'
    BY <1>a DEF OperationsExclude, ShellTypeOK, ShellOps, RequestsAreOwn, OpRequests, BusyMeansBusy
  <1>4. AsksForLive'
    BY <1>a DEF AsksForLive, OperationsExclude, RequestsAreOwn, OpRequests, ShellTypeOK, BusyMeansBusy
  <1>5. MessagesHavePlaces'
    BY <1>a DEF MessagesHavePlaces, ShellTypeOK
  <1>6. PromptStays'
    BY <1>a DEF PromptStays, AsksForLive, OperationsExclude, BusyMeansBusy, ShellTypeOK
  <1>7. BusyMeansBusy'
    BY <1>a DEF BusyMeansBusy, OperationsExclude, RequestsAreOwn, OpRequests, ShellTypeOK, ShellOps
  <1>8. SessionIsChosen'
    BY <1>a DEF SessionIsChosen
  <1> QED  BY <1>1, <1>2, <1>3, <1>4, <1>5, <1>6, <1>7, <1>8

\* The request of a compression is new.
LEMMA CompressSessionStep ==
    ASSUME ShellInv, CompressSession
    PROVE  ShellInv'
  <1> USE ShellConstants DEF ShellInv, Live, OpRequest, CompressSession, Idle
  <1>1. ShellTypeOK'
    BY DEF ShellTypeOK, ShellOps
  <1>2. RequestsAreOwn'
    BY DEF RequestsAreOwn, OpRequests, ShellTypeOK, BusyMeansBusy
  <1>3. OperationsExclude'
    BY DEF OperationsExclude, ShellTypeOK, ShellOps, RequestsAreOwn, OpRequests, BusyMeansBusy
  <1>4. AsksForLive'
    BY DEF AsksForLive, OperationsExclude, RequestsAreOwn, OpRequests, ShellTypeOK, BusyMeansBusy
  <1>5. MessagesHavePlaces'
    BY DEF MessagesHavePlaces, ShellTypeOK
  <1>6. PromptStays'
    BY DEF PromptStays, AsksForLive, OperationsExclude, BusyMeansBusy, ShellTypeOK
  <1>7. BusyMeansBusy'
    BY DEF BusyMeansBusy, OperationsExclude, RequestsAreOwn, OpRequests, ShellTypeOK, ShellOps
  <1>8. SessionIsChosen'
    BY DEF SessionIsChosen
  <1> QED  BY <1>1, <1>2, <1>3, <1>4, <1>5, <1>6, <1>7, <1>8

\* A session was created for a message.
LEMMA CreatedStep ==
    ASSUME ShellInv, NEW r \in ShellRequest, Created(r)
    PROVE  ShellInv'
  <1> USE ShellConstants DEF ShellInv, Live, OpRequest, Created, Adopts
  <1>1. ShellTypeOK'
    BY DEF ShellTypeOK, ShellOps
  <1>2. RequestsAreOwn'
    BY DEF RequestsAreOwn, OpRequests, ShellTypeOK, BusyMeansBusy
  <1>3. OperationsExclude'
    BY DEF OperationsExclude, ShellTypeOK, ShellOps, RequestsAreOwn, OpRequests, BusyMeansBusy
  <1>4. AsksForLive'
    BY DEF AsksForLive, OperationsExclude, RequestsAreOwn, OpRequests, ShellTypeOK, BusyMeansBusy
  <1>5. MessagesHavePlaces'
    BY DEF MessagesHavePlaces, ShellTypeOK
  <1>6. PromptStays'
    BY DEF PromptStays, AsksForLive, OperationsExclude, BusyMeansBusy, ShellTypeOK
  <1>7. BusyMeansBusy'
    BY DEF BusyMeansBusy, OperationsExclude, RequestsAreOwn, OpRequests, ShellTypeOK, ShellOps
  <1>8. SessionIsChosen'
    BY DEF SessionIsChosen
  <1> QED  BY <1>1, <1>2, <1>3, <1>4, <1>5, <1>6, <1>7, <1>8

\* The server asks.
LEMMA ApprovalRequiredStep ==
    ASSUME ShellInv, ApprovalRequired
    PROVE  ShellInv'
  <1> USE ShellConstants DEF ShellInv, Live, OpRequest, ApprovalRequired
  <1>1. ShellTypeOK'
    BY DEF ShellTypeOK, ShellOps
  <1>2. RequestsAreOwn'
    BY DEF RequestsAreOwn, OpRequests, ShellTypeOK, BusyMeansBusy
  <1>3. OperationsExclude'
    BY DEF OperationsExclude, ShellTypeOK, ShellOps, RequestsAreOwn, OpRequests, BusyMeansBusy
  <1>4. AsksForLive'
    BY DEF AsksForLive, OperationsExclude, RequestsAreOwn, OpRequests, ShellTypeOK, BusyMeansBusy
  <1>5. MessagesHavePlaces'
    BY DEF MessagesHavePlaces, ShellTypeOK
  <1>6. PromptStays'
    BY DEF PromptStays, AsksForLive, OperationsExclude, BusyMeansBusy, ShellTypeOK
  <1>7. BusyMeansBusy'
    BY DEF BusyMeansBusy, OperationsExclude, RequestsAreOwn, OpRequests, ShellTypeOK, ShellOps
  <1>8. SessionIsChosen'
    BY DEF SessionIsChosen
  <1> QED  BY <1>1, <1>2, <1>3, <1>4, <1>5, <1>6, <1>7, <1>8

\* The server stops asking.
LEMMA ApprovalTimedOutStep ==
    ASSUME ShellInv, ApprovalTimedOut
    PROVE  ShellInv'
  <1> USE ShellConstants DEF ShellInv, Live, OpRequest, ApprovalTimedOut
  <1>1. ShellTypeOK'
    BY DEF ShellTypeOK, ShellOps
  <1>2. RequestsAreOwn'
    BY DEF RequestsAreOwn, OpRequests, ShellTypeOK, BusyMeansBusy
  <1>3. OperationsExclude'
    BY DEF OperationsExclude, ShellTypeOK, ShellOps, RequestsAreOwn, OpRequests, BusyMeansBusy
  <1>4. AsksForLive'
    BY DEF AsksForLive, OperationsExclude, RequestsAreOwn, OpRequests, ShellTypeOK, BusyMeansBusy
  <1>5. MessagesHavePlaces'
    BY DEF MessagesHavePlaces, ShellTypeOK
  <1>6. PromptStays'
    BY DEF PromptStays, AsksForLive, OperationsExclude, BusyMeansBusy, ShellTypeOK
  <1>7. BusyMeansBusy'
    BY DEF BusyMeansBusy, OperationsExclude, RequestsAreOwn, OpRequests, ShellTypeOK, ShellOps
  <1>8. SessionIsChosen'
    BY DEF SessionIsChosen
  <1> QED  BY <1>1, <1>2, <1>3, <1>4, <1>5, <1>6, <1>7, <1>8

\* The run reports a compression.
LEMMA CompressionEventStep ==
    ASSUME ShellInv, NEW on \in BOOLEAN, CompressionEvent(on)
    PROVE  ShellInv'
  <1> USE ShellConstants DEF ShellInv, Live, OpRequest, CompressionEvent
  <1>1. ShellTypeOK'
    BY DEF ShellTypeOK, ShellOps
  <1>2. RequestsAreOwn'
    BY DEF RequestsAreOwn, OpRequests, ShellTypeOK, BusyMeansBusy
  <1>3. OperationsExclude'
    BY DEF OperationsExclude, ShellTypeOK, ShellOps, RequestsAreOwn, OpRequests, BusyMeansBusy
  <1>4. AsksForLive'
    BY DEF AsksForLive, OperationsExclude, RequestsAreOwn, OpRequests, ShellTypeOK, BusyMeansBusy
  <1>5. MessagesHavePlaces'
    BY DEF MessagesHavePlaces, ShellTypeOK
  <1>6. PromptStays'
    BY DEF PromptStays, AsksForLive, OperationsExclude, BusyMeansBusy, ShellTypeOK
  <1>7. BusyMeansBusy'
    BY DEF BusyMeansBusy, OperationsExclude, RequestsAreOwn, OpRequests, ShellTypeOK, ShellOps
  <1>8. SessionIsChosen'
    BY DEF SessionIsChosen
  <1> QED  BY <1>1, <1>2, <1>3, <1>4, <1>5, <1>6, <1>7, <1>8

\* The stream of a request is over.
LEMMA StreamDoneStep ==
    ASSUME ShellInv, NEW r \in ShellRequest, StreamDone(r)
    PROVE  ShellInv'
  <1> USE ShellConstants DEF ShellInv, Live, OpRequest, StreamDone
  <1>1. ShellTypeOK'
    BY DEF ShellTypeOK, ShellOps
  <1>2. RequestsAreOwn'
    BY DEF RequestsAreOwn, OpRequests, ShellTypeOK, BusyMeansBusy
  <1>3. OperationsExclude'
    BY DEF OperationsExclude, ShellTypeOK, ShellOps, RequestsAreOwn, OpRequests, BusyMeansBusy
  <1>4. AsksForLive'
    BY DEF AsksForLive, OperationsExclude, RequestsAreOwn, OpRequests, ShellTypeOK, BusyMeansBusy
  <1>5. MessagesHavePlaces'
    BY DEF MessagesHavePlaces, ShellTypeOK
  <1>6. PromptStays'
    BY DEF PromptStays, AsksForLive, OperationsExclude, BusyMeansBusy, ShellTypeOK
  <1>7. BusyMeansBusy'
    BY DEF BusyMeansBusy, OperationsExclude, RequestsAreOwn, OpRequests, ShellTypeOK, ShellOps
  <1>8. SessionIsChosen'
    BY DEF SessionIsChosen
  <1> QED  BY <1>1, <1>2, <1>3, <1>4, <1>5, <1>6, <1>7, <1>8

\* The next queued message has never been in flight, nor cancelled.
LEMMA FinishStep ==
    ASSUME ShellInv, NEW r \in ShellRequest, Finish(r)
    PROVE  ShellInv'
  <1> USE ShellConstants DEF ShellInv, Live, OpRequest, Finish, FinishRequest, GoIdle, MayHandOff, Requeue
  <1>a. queued # <<>> => /\ Head(queued) \in Nat /\ Head(queued) \in ToSet(queued)
                            /\ Tail(queued) \in Seq(Nat) /\ IsInjective(Tail(queued))
                            /\ ToSet(Tail(queued)) = ToSet(queued) \ {Head(queued)}
                            /\ <<Head(queued)>> \o Tail(queued) = queued
    BY TailSet DEF RequestsAreOwn, ShellTypeOK
  <1>b. queued # <<>> => /\ Append(sent, Head(queued)) \in Seq(Nat)
                            /\ ToSet(Append(sent, Head(queued))) = ToSet(sent) \cup {Head(queued)}
                            /\ IsInjective(Append(sent, Head(queued)))
    BY <1>a, AppendSet DEF RequestsAreOwn, ShellTypeOK
  <1>1. ShellTypeOK'
    <2>1. asking' \in Nat
      BY DEF ShellTypeOK
    <2>2. CASE active # r
      BY <2>1, <2>2 DEF ShellTypeOK
    <2>3. CASE active = r /\ queued = <<>>
      BY <2>1, <2>3 DEF ShellTypeOK
    <2>4. CASE active = r /\ queued # <<>> /\ ~ locked /\ ~ compressing
      BY <1>a, <1>b, <2>1, <2>4 DEF ShellTypeOK
    <2>5. CASE active = r /\ queued # <<>> /\ ~ (~ locked /\ ~ compressing)
      BY <1>a, <1>b, <2>1, <2>5 DEF ShellTypeOK
    <2> QED  BY <2>2, <2>3, <2>4, <2>5
  <1>2. RequestsAreOwn'
    BY <1>a, <1>b DEF RequestsAreOwn, OpRequests, ShellTypeOK, BusyMeansBusy
  <1>3. OperationsExclude'
    BY <1>a, <1>b DEF OperationsExclude, ShellTypeOK, ShellOps, RequestsAreOwn, OpRequests, BusyMeansBusy
  <1>4. AsksForLive'
    BY <1>a, <1>b DEF AsksForLive, OperationsExclude, RequestsAreOwn, OpRequests, ShellTypeOK, BusyMeansBusy
  <1>5. MessagesHavePlaces'
    BY <1>a, <1>b DEF MessagesHavePlaces, ShellTypeOK
  <1>6. PromptStays'
    BY <1>a, <1>b DEF PromptStays, AsksForLive, OperationsExclude, BusyMeansBusy, ShellTypeOK
  <1>7. BusyMeansBusy'
    BY <1>a, <1>b DEF BusyMeansBusy, OperationsExclude, RequestsAreOwn, OpRequests, ShellTypeOK, ShellOps
  <1>8. SessionIsChosen'
    BY <1>a, <1>b DEF SessionIsChosen
  <1> QED  BY <1>1, <1>2, <1>3, <1>4, <1>5, <1>6, <1>7, <1>8

-----------------------------------------------------------------------------
(* The theorems                                                            *)

LEMMA ShellInitially ==
    ASSUME ShellInit PROVE ShellInv
  <1>1. /\ ToSet(queued) = {} /\ ToSet(sent) = {} /\ IsInjective(queued) /\ IsInjective(sent)
        /\ queued \in Seq(Nat) /\ sent \in Seq(Nat)
    BY EmptySet DEF ShellInit
  <1>2. ShellTypeOK
    <2>1. busy \in BOOLEAN /\ locked \in BOOLEAN /\ compressing \in BOOLEAN
      BY Zenon DEF ShellInit
    <2>2. /\ active \in Nat /\ aborted \in SUBSET Nat
          /\ asking \in Nat /\ prompt \in Nat /\ prompts \in Nat
      BY DEF ShellInit
    <2>3. typed \in 0 .. MaxMessages /\ ops \in 0 .. MaxShellOps
      BY ShellConstants DEF ShellInit
    <2>4. shellOp \in ShellOps \cup {"none"}
      BY DEF ShellInit
    <2> QED  BY <1>1, <2>1, <2>2, <2>3, <2>4 DEF ShellTypeOK
  <1>3. RequestsAreOwn
    BY <1>1 DEF ShellInit, RequestsAreOwn
  <1>4. OperationsExclude /\ AsksForLive /\ BusyMeansBusy
    BY DEF ShellInit, OperationsExclude, AsksForLive, BusyMeansBusy, Live
  <1>5. MessagesHavePlaces /\ PromptStays /\ SessionIsChosen
    BY DEF ShellInit, MessagesHavePlaces, PromptStays, SessionIsChosen
  <1> QED  BY <1>2, <1>3, <1>4, <1>5 DEF ShellInv

LEMMA ShellStutters ==
    ASSUME ShellInv, UNCHANGED shellVars PROVE ShellInv'
  BY DEF shellVars, ShellInv, ShellTypeOK, RequestsAreOwn, OperationsExclude, AsksForLive,
         MessagesHavePlaces, PromptStays, BusyMeansBusy, SessionIsChosen, Live, OpRequests,
         OpRequest

LEMMA ShellStep ==
    ASSUME ShellInv, [ShellNext]_shellVars PROVE ShellInv'
  <1>1. CASE UNCHANGED shellVars
    BY <1>1, ShellStutters
  <1>2. CASE ShellNext
    BY <1>2, TypeStep, RemoveQueuedStep, CancelRequestStep, ResolveApprovalStep,
       AnswerTakenStep, ApprovalPostedStep, StartNewSessionStep, BeginOpStep, OpFailsStep,
       LoadedStep, ClearedStep, ConfiguredStep, RecoveredStep, CompressSessionStep,
       CreatedStep, ApprovalRequiredStep, ApprovalTimedOutStep, CompressionEventStep,
       StreamDoneStep, FinishStep
       DEF ShellNext, ShellOps
  <1> QED  BY <1>1, <1>2

\* The inductive invariant of the bridge.
THEOREM ShellInvariant == ShellSpec => []ShellInv
  BY ShellInitially, ShellStep, PTL DEF ShellSpec

\* The shell is busy exactly for a request that has not been cancelled or a
\* configuration command, and its session is the one the user's actions lead
\* to, however requests, operations and their ends interleave
\* (NodeBridge.finishRequest, startRequest, runShellOperation).
THEOREM ShellStaysInStep == ShellSpec => []ShellIsInStep
  <1>1. ShellInv => ShellIsInStep
    BY DEF ShellInv, ShellIsInStep
  <1> QED  BY <1>1, ShellInvariant, PTL

\* What the user typed is sent once, queued or given up, through refused
\* handoffs and a full queue, and the prompt of an approval the server waits
\* for stays until the user has answered it (NodeBridge.sendMessage,
\* finishRequest, resolveApproval).
THEOREM InputIsAlwaysKept == ShellSpec => []InputIsKept
  <1>1. ShellInv => InputIsKept
    <2> SUFFICES ASSUME ShellInv PROVE InputIsKept
      OBVIOUS
    <2>1. IsInjective(sent \o queued)
      BY ConcatInjective DEF ShellInv, ShellTypeOK, RequestsAreOwn
    <2> QED  BY <2>1 DEF ShellInv, InputIsKept, MessagesAreKept, MessagesHavePlaces
  <1> QED  BY <1>1, ShellInvariant, PTL

-----------------------------------------------------------------------------
(***************************************************************************)
(* SessionTurns: SessionIsSound, for any set of turns and resumes, any     *)
(* _HISTORY_LIMIT and any number of faults and compressions.               *)
(*                                                                         *)
(* It is not inductive.  That nothing comes between a turn's read and its  *)
(* insert needs that one request at most is under the lock, which needs    *)
(* that those who wait for it wait for the lock of the table, which needs  *)
(* that the table's count is exact: an entry is evicted only when the      *)
(* count says nobody uses it.  That a resume has the window before its     *)
(* message needs that the message has one row, which no later deletion of  *)
(* replies removes, and that the resume has seen every row before it.      *)
(***************************************************************************)

StoredRow == [role : {"user", "assistant"}, of : NewTurns, by : Requests]
Summary == [cutoff : Nat, covers : SUBSET StoredRow]
RequestStages == {"idle", "refused", "done", "claim", "resolved", "queued", "read", "ready",
                  "streaming", "persist", "discarded"}
RequestRecord ==
    [stage : RequestStages, msg : NewTurns \cup {None}, want : Wants \cup {None},
     id : Identities \cup {None}, lock : Requests \cup {None},
     hist : SUBSET StoredRow, past : SUBSET StoredRow]

SessionTypeOK ==
    /\ rows \in Seq(StoredRow) /\ ctx \in Summary /\ comp \in Summary \cup {None}
    /\ pin \in Identities \cup {None} /\ exists \in BOOLEAN
    /\ slot \in Requests \cup {None} /\ users \in Nat /\ lockHeld \in SUBSET Requests
    /\ req \in [Requests -> RequestRecord]
    /\ run \in [NewTurns -> {"none", "running", "stopped", "completed"}]
    /\ sessionFaults \in Nat /\ replied \in SUBSET NewTurns /\ stolen \in SUBSET NewTurns

\* A request that is under way has its message; a new turn's is its own.
MessageIsKnown ==
    \A t \in Requests : req[t].stage \notin Ended =>
        /\ req[t].msg \in NewTurns
        /\ t \in NewTurns => req[t].msg = t
        /\ req[t].stage = "read" => t \in NewTurns
        /\ req[t].stage = "discarded" => t \in Resumes

\* The requests that the table's entry counts.
Using == {t \in Requests : req[t].stage \in {"queued", "read"}}

\* They are counted, wait for or hold the lock of the table, and one holds it.
LockIsShared ==
    /\ IsFiniteSet(Using) /\ users = Cardinality(Using)
    /\ \A t \in Using : req[t].lock = slot /\ slot # None
    /\ \A t \in Requests : req[t].stage = "read" => slot \in lockHeld
    /\ \A t, u \in Requests : req[t].stage = "read" /\ req[u].stage = "read" => t = u

\* A message is inserted once, when its turn leaves the lock.
MessagesAreSingle ==
    /\ \A i \in DOMAIN rows : rows[i].role = "user" =>
          /\ rows[i] = UserRow(rows[i].of)
          /\ req[rows[i].of].stage \in {"streaming", "persist", "done"}
    /\ \A i, j \in DOMAIN rows : rows[i].role = "user" /\ rows[i] = rows[j] => i = j

Saw(t, x) == x \in req[t].hist \cup req[t].past

\* What a reader has seen, of the rows that matter to it.
ReadersHaveSeen ==
    /\ \A t \in NewTurns : req[t].stage = "read" =>
          \A i \in DOMAIN rows : rows[i].role = "user" => Saw(t, rows[i])
    /\ \A t \in Resumes : req[t].stage \in {"claim", "resolved", "queued", "ready"} /\ exists =>
          \E j \in DOMAIN rows : /\ rows[j] = UserRow(req[t].msg)
                                 /\ \A i \in 1 .. j - 1 : Saw(t, rows[i])

IdentityIsSettled ==
    \A t \in Requests :
        /\ req[t].stage \notin Ended => req[t].id # None
        /\ req[t].stage \notin Ended \cup {"claim"} => req[t].id = pin

StoryInv ==
    /\ SessionTypeOK /\ MessageIsKnown /\ LockIsShared /\ MessagesAreSingle
    /\ ReadersHaveSeen /\ IdentityIsSettled /\ ReplyIsKept

-----------------------------------------------------------------------------
LEMMA RowShape ==
    ASSUME SessionTypeOK
    PROVE  /\ rows \in Seq(StoredRow) /\ Len(rows) \in Nat /\ DOMAIN rows = 1 .. Len(rows)
           /\ \A i \in DOMAIN rows :
                 rows[i] \in StoredRow /\ rows[i].role \in {"user", "assistant"} /\ rows[i].of \in NewTurns
  <1>1. rows \in Seq(StoredRow)
    BY DEF SessionTypeOK
  <1>2. \A x \in StoredRow : x.role \in {"user", "assistant"} /\ x.of \in NewTurns
    BY DEF StoredRow
  <1> QED  BY <1>1, <1>2

LEMMA RequestShape ==
    ASSUME SessionTypeOK, NEW t \in Requests
    PROVE  /\ req[t] \in RequestRecord /\ req[t].stage \in RequestStages
           /\ req[t].msg \in NewTurns \cup {None} /\ req[t].want \in Wants \cup {None}
           /\ req[t].id \in Identities \cup {None} /\ req[t].lock \in Requests \cup {None}
           /\ req[t].hist \in SUBSET StoredRow /\ req[t].past \in SUBSET StoredRow
  <1>1. req[t] \in RequestRecord
    BY DEF SessionTypeOK
  <1> QED  BY <1>1 DEF RequestRecord

LEMMA UserRowShape ==
    ASSUME NEW m \in NewTurns
    PROVE  /\ UserRow(m) \in StoredRow /\ UserRow(m).role = "user" /\ UserRow(m).of = m
           /\ m \in Requests
  BY DEF UserRow, StoredRow, Requests

\* The rows of a slice.
LEMMA SliceMembers ==
    ASSUME NEW S, NEW q \in Seq(S), NEW a \in Nat \ {0}, NEW b \in 0 .. Len(q)
    PROVE  /\ ToSet(SubSeq(q, a, b)) \in SUBSET S
           /\ \A x : x \in ToSet(SubSeq(q, a, b)) <=> \E i \in a .. b : x = q[i]
  <1> DEFINE s == SubSeq(q, a, b)
  <1>1. \A k \in DOMAIN s : k + a - 1 \in a .. b /\ s[k] = q[k + a - 1]
    OBVIOUS
  <1>2. \A i \in a .. b : i - a + 1 \in DOMAIN s /\ s[i - a + 1] = q[i]
    OBVIOUS
  <1>3. \A i \in a .. b : q[i] \in S
    OBVIOUS
  <1> HIDE DEF s
  <1>4. \A x : x \in ToSet(s) <=> \E i \in a .. b : x = q[i]
    <2>1. ASSUME NEW x, x \in ToSet(s) PROVE \E i \in a .. b : x = q[i]
      <3>1. PICK k \in DOMAIN s : x = s[k]
        BY <2>1 DEF ToSet
      <3> QED  BY <1>1, <3>1
    <2>2. ASSUME NEW i \in a .. b PROVE q[i] \in ToSet(s)
      BY <1>2, <2>2 DEF ToSet
    <2> QED  BY ONLY <2>1, <2>2
  <1> QED  BY <1>3, <1>4 DEF s

LEMMA RowsAreASet ==
    ASSUME SessionTypeOK
    PROVE  ToSet(rows) \in SUBSET StoredRow /\ \A x : x \in ToSet(rows) <=> \E i \in DOMAIN rows : x = rows[i]
  BY RowShape DEF ToSet

\* When the prefix is what was summarised, its rows are in the summary.
LEMMA SummaryHasPrefix ==
    ASSUME SessionTypeOK, PrefixIsSummarized, NEW i \in DOMAIN rows, i <= ctx.cutoff
    PROVE  rows[i] \in ctx.covers
  <1>1. ctx.cutoff \in Nat /\ i \in Nat \ {0} /\ i <= Len(rows) /\ Len(rows) \in Nat
    BY RowShape DEF SessionTypeOK, Summary
  <1> DEFINE b == IF ctx.cutoff < Len(rows) THEN ctx.cutoff ELSE Len(rows)
  <1>2. b \in 0 .. Len(rows) /\ i \in 1 .. b
    BY <1>1
  <1>3. rows[i] \in ToSet(SubSeq(rows, 1, b))
    BY <1>2, RowShape, SliceMembers
  <1> QED  BY <1>1, <1>3 DEF PrefixIsSummarized, Page

\* A new turn under the lock has seen every row it is not excused from.
LEMMA RecentIsRead ==
    ASSUME SessionTypeOK
    PROVE  /\ RecentHistory \in SUBSET StoredRow /\ Excused(Recent) \in SUBSET StoredRow
           /\ \A i \in DOMAIN rows : rows[i] \in RecentHistory \cup Excused(Recent)
  <1>0. /\ ctx.cutoff \in Nat /\ ctx.covers \in SUBSET StoredRow /\ Len(rows) \in Nat
        /\ HistoryLimit \in Nat \ {0} /\ rows \in Seq(StoredRow)
    BY RowShape, SessionAssumption DEF SessionTypeOK, Summary
  <1> DEFINE low == Larger(0, Len(rows) - HistoryLimit)
             start == Larger(ctx.cutoff, Len(rows) - HistoryLimit)
             end == IF start + HistoryLimit < Len(rows) THEN start + HistoryLimit ELSE Len(rows)
  <1>1. /\ low \in Nat /\ low >= Len(rows) - HistoryLimit /\ low <= Len(rows) + 0 /\ low + 1 \in Nat \ {0}
        /\ start \in Nat /\ start + 1 \in Nat \ {0}
        /\ start = ctx.cutoff \/ start = Len(rows) - HistoryLimit
        /\ start >= Len(rows) - HistoryLimit /\ end = Len(rows) /\ end \in 0 .. Len(rows)
    BY <1>0 DEF Larger
  <1>2. /\ ToSet(Recent) \in SUBSET StoredRow
        /\ \A x : x \in ToSet(Recent) <=> \E i \in low + 1 .. Len(rows) : x = rows[i]
    <2>1. Recent = SubSeq(rows, low + 1, Len(rows)) /\ Len(rows) \in 0 .. Len(rows)
      BY <1>0 DEF Recent
    <2>2. low + 1 \in Nat \ {0}
      BY <1>1
    <2> HIDE DEF low
    <2>3. rows \in Seq(StoredRow) /\ low + 1 \in Nat \ {0} /\ Len(rows) \in 0 .. Len(rows)
      BY <1>0, <2>1, <2>2
    <2>4. /\ ToSet(SubSeq(rows, low + 1, Len(rows))) \in SUBSET StoredRow
          /\ \A x : x \in ToSet(SubSeq(rows, low + 1, Len(rows))) <=> \E i \in low + 1 .. Len(rows) : x = rows[i]
      BY ONLY <2>3, SliceMembers
    <2> QED  BY ONLY <2>1, <2>4
  <1>3. /\ ToSet(Page(rows, start + 1, start + HistoryLimit)) \in SUBSET StoredRow
        /\ \A x : x \in ToSet(Page(rows, start + 1, start + HistoryLimit))
                     <=> \E i \in start + 1 .. Len(rows) : x = rows[i]
    <2>1. Page(rows, start + 1, start + HistoryLimit) = SubSeq(rows, start + 1, end)
      BY DEF Page
    <2>2. start + 1 \in Nat \ {0} /\ end = Len(rows) /\ end \in 0 .. Len(rows)
      BY <1>1
    <2> HIDE DEF start, end
    <2>3. /\ ToSet(SubSeq(rows, start + 1, end)) \in SUBSET StoredRow
          /\ \A x : x \in ToSet(SubSeq(rows, start + 1, end)) <=> \E i \in start + 1 .. end : x = rows[i]
      BY <1>0, <2>2, SliceMembers
    <2> QED  BY <2>1, <2>2, <2>3
  <1>4. RecentHistory = IF ctx.cutoff > 0
                        THEN ctx.covers \cup ToSet(Page(rows, start + 1, start + HistoryLimit))
                        ELSE ToSet(Recent)
    BY DEF RecentHistory
  <1> HIDE DEF low, start, end
  <1>5. RecentHistory \in SUBSET StoredRow /\ Excused(Recent) \in SUBSET StoredRow
    BY <1>0, <1>2, <1>3, <1>4, RowsAreASet DEF Excused
  <1>6. ASSUME NEW i \in DOMAIN rows PROVE rows[i] \in RecentHistory \cup Excused(Recent)
    <2>0. i \in 1 .. Len(rows) /\ rows[i] \in ToSet(rows)
      BY RowShape, RowsAreASet
    <2>1. CASE ~ PrefixIsSummarized \/ rows[i] \notin ToSet(Recent)
      BY <2>0, <2>1 DEF Excused
    <2>2. CASE PrefixIsSummarized /\ rows[i] \in ToSet(Recent)
      <3>1. PICK k \in low + 1 .. Len(rows) : rows[i] = rows[k]
        BY <1>2, <2>2
      <3>2. k \in DOMAIN rows /\ k > Len(rows) - HistoryLimit
        BY <1>0, <1>1, RowShape
      <3>3. CASE ctx.cutoff = 0
        BY <1>4, <2>2, <3>3
      <3>4. CASE ctx.cutoff > 0 /\ k > start
        <4>1. k \in start + 1 .. Len(rows)
          BY <1>0, <1>1, <3>2, <3>4
        <4> QED  BY <1>3, <1>4, <3>1, <3>4, <4>1
      <3>5. CASE ctx.cutoff > 0 /\ k <= start
        <4>1. k <= ctx.cutoff
          BY <1>0, <1>1, <3>2, <3>5
        <4> QED  BY <1>4, <2>2, <3>1, <3>2, <3>5, <4>1, SummaryHasPrefix
      <3> QED  BY <1>0, <1>1, <3>3, <3>4, <3>5
    <2> QED  BY <2>1, <2>2
  <1> QED  BY <1>5, <1>6

\* So has a resume, of the rows before its message.
LEMMA BeforeIsRead ==
    ASSUME SessionTypeOK, NEW m \in NewTurns, NEW n \in DOMAIN rows, IndexOf(m) = n
    PROVE  /\ HistoryBefore(m) \in SUBSET StoredRow /\ Excused(Before(m)) \in SUBSET StoredRow
           /\ \A i \in DOMAIN rows : rows[i] \in HistoryBefore(m) \cup Excused(Before(m))
           /\ \A x \in ToSet(Before(m)) : \E i \in 1 .. n - 1 : x = rows[i]
  <1>0. /\ ctx.cutoff \in Nat /\ ctx.covers \in SUBSET StoredRow /\ Len(rows) \in Nat
        /\ HistoryLimit \in Nat \ {0} /\ rows \in Seq(StoredRow) /\ n \in 1 .. Len(rows)
    BY RowShape, SessionAssumption DEF SessionTypeOK, Summary
  <1> DEFINE low == Larger(0, n - 1 - HistoryLimit)
             w == Before(m)
             drop == IF ctx.cutoff > 0 THEN Larger(0, ctx.cutoff - (n - 1 - Len(w))) ELSE 0
  <1>1. low \in Nat /\ low + 1 \in Nat \ {0} /\ n - 1 \in 0 .. Len(rows) /\ low <= n - 1
    BY <1>0 DEF Larger
  <1>2. w = SubSeq(rows, low + 1, n - 1)
    BY DEF Before
  <1> HIDE DEF low, w
  <1>3. /\ ToSet(w) \in SUBSET StoredRow
        /\ \A x : x \in ToSet(w) <=> \E i \in low + 1 .. n - 1 : x = rows[i]
    BY <1>0, <1>1, <1>2, SliceMembers
  <1>4. w \in Seq(StoredRow) /\ Len(w) = n - 1 - low /\ \A i \in 1 .. Len(w) : w[i] = rows[low + i]
    <2>1. w \in Seq(StoredRow)
      BY <1>0, <1>1, <1>2
    <2>2. Len(w) = n - 1 - low
      BY <1>0, <1>1, <1>2
    <2>3. \A i \in 1 .. n - 1 - low : w[i] = rows[(low + 1) + i - 1] /\ (low + 1) + i - 1 = low + i
      BY <1>0, <1>1, <1>2
    <2> QED  BY <2>1, <2>2, <2>3
  <1>5. /\ drop \in Nat /\ drop + 1 \in Nat \ {0} /\ Len(w) \in 0 .. Len(w)
        /\ ctx.cutoff > 0 => drop = 0 \/ drop = ctx.cutoff - low
        /\ ctx.cutoff = 0 => drop = 0
    <2>1. n - 1 - Len(w) = low /\ Len(w) \in Nat
      BY <1>0, <1>1, <1>4
    <2>2. drop = IF ctx.cutoff > 0 THEN Larger(0, ctx.cutoff - low) ELSE 0
      BY <2>1
    <2> HIDE DEF drop
    <2>3. CASE ctx.cutoff = 0 \/ ctx.cutoff <= low
      <3>1. drop = 0
        BY <1>0, <1>1, <2>2, <2>3 DEF Larger
      <3> QED  BY <2>1, <3>1
    <2>4. CASE ctx.cutoff > low
      <3>1. drop = ctx.cutoff - low /\ ctx.cutoff > 0
        BY <1>0, <1>1, <2>2, <2>4 DEF Larger
      <3>2. ctx.cutoff - low \in Nat /\ ctx.cutoff - low + 1 \in Nat \ {0}
        <4>1. ctx.cutoff \in Nat /\ low \in Nat
          BY <1>0, <1>1
        <4> QED  BY ONLY <2>4, <4>1
      <3> QED  BY <2>1, <3>1, <3>2
    <2> QED  BY <1>0, <1>1, <2>3, <2>4
  <1>6. HistoryBefore(m) = ctx.covers \cup ToSet(SubSeq(w, drop + 1, Len(w)))
    BY DEF HistoryBefore, w
  <1> HIDE DEF drop
  <1>7. /\ ToSet(SubSeq(w, drop + 1, Len(w))) \in SUBSET StoredRow
        /\ \A x : x \in ToSet(SubSeq(w, drop + 1, Len(w))) <=> \E i \in drop + 1 .. Len(w) : x = w[i]
    BY <1>4, <1>5, SliceMembers
  <1>8. HistoryBefore(m) \in SUBSET StoredRow /\ Excused(Before(m)) \in SUBSET StoredRow
    BY <1>0, <1>6, <1>7, RowsAreASet DEF Excused
  <1>9. ASSUME NEW i \in DOMAIN rows PROVE rows[i] \in HistoryBefore(m) \cup Excused(w)
    <2>0. rows[i] \in ToSet(rows)
      BY RowsAreASet
    <2>1. CASE ~ PrefixIsSummarized \/ rows[i] \notin ToSet(w)
      BY <2>0, <2>1 DEF Excused
    <2>2. CASE PrefixIsSummarized /\ rows[i] \in ToSet(w)
      <3>1. PICK k \in low + 1 .. n - 1 : rows[i] = rows[k]
        BY <1>3, <2>2
      <3>2. k \in DOMAIN rows /\ k - low \in 1 .. Len(w) /\ low + (k - low) = k
        <4>1. /\ low \in Nat /\ Len(w) = n - 1 - low /\ n \in 1 .. Len(rows) /\ Len(rows) \in Nat
              /\ DOMAIN rows = 1 .. Len(rows)
          BY <1>0, <1>1, <1>4, RowShape
        <4> QED  BY ONLY <4>1, k \in low + 1 .. n - 1
      <3>3. w[k - low] = rows[k]
        BY <1>4, <3>2
      <3>4. CASE k - low > drop
        <4>1. k - low \in drop + 1 .. Len(w)
          BY <1>5, <3>2, <3>4
        <4> QED  BY <1>6, <1>7, <3>1, <3>3, <4>1
      <3>5. CASE k - low <= drop
        <4>1. k <= ctx.cutoff
          <5>1. k \in Nat /\ k - low >= 1
            BY <1>0, <1>1
          <5>2. drop # 0
            BY <1>1, <1>5, <3>5, <5>1
          <5>3. drop = ctx.cutoff - low
            <6>1. ctx.cutoff = 0 \/ ctx.cutoff > 0
              BY <1>0
            <6> QED  BY <6>1, <5>2, <1>5
          <5> QED  BY <1>0, <1>1, <3>5, <5>1, <5>3
        <4> QED  BY <1>6, <2>2, <3>1, <3>2, <4>1, SummaryHasPrefix
      <3> QED  BY <1>1, <1>5, <3>2, <3>4, <3>5
    <2> QED  BY <2>1, <2>2
  <1>10. \A x \in ToSet(w) : \E i \in 1 .. n - 1 : x = rows[i]
    BY <1>0, <1>1, <1>3
  <1> QED  BY <1>8, <1>9, <1>10 DEF w

-----------------------------------------------------------------------------
Inserted == {"streaming", "persist", "done"}

\* What StoryInv asks of the record a request is given in a step.
WellFormed(t, r) ==
    /\ r \in RequestRecord
    /\ r.stage \notin Ended =>
          /\ r.msg \in NewTurns /\ r.id # None
          /\ t \in NewTurns => r.msg = t
          /\ r.stage = "read" => t \in NewTurns
          /\ r.stage = "discarded" => t \in Resumes
    /\ r.stage \notin Ended \cup {"claim"} => r.id = pin'
    /\ t \in NewTurns /\ r.stage = "read" =>
          \A i \in DOMAIN rows : rows[i].role = "user" => rows[i] \in r.hist \cup r.past
    /\ t \in Resumes /\ r.stage \in {"claim", "resolved", "queued", "ready"} /\ exists =>
          \E j \in DOMAIN rows : /\ rows[j] = UserRow(r.msg)
                                 /\ \A i \in 1 .. j - 1 : rows[i] \in r.hist \cup r.past

\* One request moves on; the rows stay, and so does an identity once claimed.
LEMMA RequestMoves ==
    ASSUME StoryInv, NEW t \in Requests, NEW r, req' = [req EXCEPT ![t] = r],
           UNCHANGED <<rows, exists>>, pin' = pin \/ pin = None, WellFormed(t, r),
           t \in NewTurns /\ req[t].stage \in Inserted => r.stage \in Inserted
    PROVE  /\ req' \in [Requests -> RequestRecord] /\ req'[t] = r
           /\ \A u \in Requests : u # t => req'[u] = req[u]
           /\ MessageIsKnown' /\ MessagesAreSingle' /\ ReadersHaveSeen' /\ IdentityIsSettled'
  <1> USE DEF StoryInv
  <1>1. /\ req' \in [Requests -> RequestRecord] /\ req'[t] = r
        /\ \A u \in Requests : u # t => req'[u] = req[u]
    BY DEF SessionTypeOK, WellFormed
  <1>2. MessageIsKnown'
    BY <1>1 DEF MessageIsKnown, WellFormed
  <1>3. IdentityIsSettled'
    <2>1. \A u \in Requests : req[u].stage \notin Ended \cup {"claim"} => req[u].id = pin /\ pin # None
      BY DEF IdentityIsSettled
    <2>2. \A u \in Requests : u # t =>
             /\ req'[u].stage \notin Ended => req'[u].id # None
             /\ req'[u].stage \notin Ended \cup {"claim"} => req'[u].id = pin'
      BY <1>1, <2>1 DEF IdentityIsSettled
    <2> QED  BY <1>1, <2>2 DEF IdentityIsSettled, WellFormed
  <1>4. MessagesAreSingle'
    <2>1. ASSUME NEW i \in DOMAIN rows, rows[i].role = "user"
          PROVE  rows[i].of \in Requests /\ req'[rows[i].of].stage \in Inserted
      <3>1. rows[i].of \in NewTurns /\ rows[i].of \in Requests /\ req[rows[i].of].stage \in Inserted
        BY <2>1, RowShape DEF MessagesAreSingle, Requests, Inserted
      <3> QED  BY <1>1, <3>1
    <2> QED  BY <2>1 DEF MessagesAreSingle, Inserted, UserRow
  <1>5. ReadersHaveSeen'
    <2>1. NewTurns \subseteq Requests /\ Resumes \subseteq Requests
      BY DEF Requests
    <2>2. ASSUME NEW u \in NewTurns, req'[u].stage = "read", NEW i \in DOMAIN rows, rows[i].role = "user"
          PROVE  rows[i] \in req'[u].hist \cup req'[u].past
      <3>1. CASE u = t
        BY <1>1, <2>2, <3>1 DEF WellFormed
      <3>2. CASE u # t
        BY <1>1, <2>1, <2>2, <3>2 DEF ReadersHaveSeen, Saw
      <3> QED  BY <3>1, <3>2
    <2>3. ASSUME NEW u \in Resumes, exists, req'[u].stage \in {"claim", "resolved", "queued", "ready"}
          PROVE  \E j \in DOMAIN rows : /\ rows[j] = UserRow(req'[u].msg)
                                        /\ \A i \in 1 .. j - 1 : rows[i] \in req'[u].hist \cup req'[u].past
      <3>1. CASE u = t
        BY <1>1, <2>3, <3>1 DEF WellFormed
      <3>2. CASE u # t
        BY <1>1, <2>1, <2>3, <3>2 DEF ReadersHaveSeen, Saw
      <3> QED  BY <3>1, <3>2
    <2> QED  BY <2>2, <2>3 DEF ReadersHaveSeen, Saw, UserRow
  <1> QED  BY <1>1, <1>2, <1>3, <1>4, <1>5

\* A request that neither takes nor leaves the lock.
LEMMA LockKept ==
    ASSUME StoryInv, NEW t \in Requests, UNCHANGED lockVars,
           \A u \in Requests : u # t => req'[u] = req[u],
           \/ req[t].stage \notin {"queued", "read"} /\ req'[t].stage \notin {"queued", "read"}
           \/ req'[t] = req[t]
    PROVE  LockIsShared'
  <1> USE DEF StoryInv
  <1>1. Using' = Using
    BY DEF Using
  <1>2. slot' = slot /\ users' = users /\ lockHeld' = lockHeld
    BY DEF lockVars
  <1>3. \A u \in Using : req'[u] = req[u]
    BY DEF Using
  <1>4. \A u \in Requests : req'[u].stage = "read" => req[u].stage = "read"
    OBVIOUS
  <1> QED  BY <1>1, <1>2, <1>3, <1>4 DEF LockIsShared

\* A request leaves _session_turn_lock.
LEMMA TurnReleased ==
    ASSUME StoryInv, NEW t \in Using, ReleaseTurn(t),
           \A u \in Requests : u # t => req'[u] = req[u],
           req'[t].stage \notin {"queued", "read"}
    PROVE  LockIsShared' /\ users' \in Nat /\ lockHeld' \in SUBSET Requests /\ slot' = slot
  <1> USE DEF StoryInv
  <1>0. t \in Requests /\ req[t].stage \in {"queued", "read"} /\ slot' = slot
    BY DEF Using, ReleaseTurn
  <1>1. Using' = Using \ {t}
    BY <1>0 DEF Using
  <1>2. /\ IsFiniteSet(Using') /\ Cardinality(Using') = Cardinality(Using) - 1
        /\ Cardinality(Using) \in Nat /\ Cardinality(Using') \in Nat
    BY <1>1, FS_RemoveElement, FS_CardinalityType DEF LockIsShared
  <1>3. users' = Cardinality(Using') /\ users' \in Nat
    BY <1>2 DEF LockIsShared, ReleaseTurn, Larger
  <1>4. lockHeld' \in SUBSET Requests
    BY DEF ReleaseTurn, SessionTypeOK
  <1>5. ASSUME NEW u \in Requests, req'[u].stage = "read" PROVE slot \in lockHeld' /\ u # t /\ req[u].stage = "read"
    <2>1. u # t /\ req[u].stage = "read" /\ slot \in lockHeld
      BY <1>0, <1>5 DEF LockIsShared
    <2>2. req[t].stage = "queued"
      BY <1>0, <2>1 DEF LockIsShared
    <2> QED  BY <2>1, <2>2 DEF ReleaseTurn
  <1>6. \A u \in Using' : req'[u].lock = slot' /\ slot' # None
    BY <1>0, <1>1 DEF LockIsShared, Using
  <1>7. LockIsShared'
    BY <1>0, <1>2, <1>3, <1>5, <1>6 DEF LockIsShared
  <1> QED  BY <1>0, <1>3, <1>4, <1>7

LEMMA ReplyStays ==
    ASSUME StoryInv, UNCHANGED <<rows, exists, replied, stolen, sessionFaults>>,
           \A u \in Resumes : req[u].stage = "discarded" =>
                                 req'[u].stage = "discarded" /\ req'[u].msg = req[u].msg
    PROVE  ReplyIsKept'
  BY DEF StoryInv, ReplyIsKept

\* A request has been made.
LEMMA ResolveStep ==
    ASSUME StoryInv, NEW t \in Requests, NEW r \in RequestRecord, Resolve(t, r),
           req[t].stage = "idle", r.msg \in NewTurns, t \in NewTurns => r.msg = t,
           t \in Resumes /\ exists =>
              \E j \in DOMAIN rows : /\ rows[j] = UserRow(r.msg)
                                     /\ \A i \in 1 .. j - 1 : rows[i] \in r.hist \cup r.past,
           UNCHANGED <<lockVars, rowVars, ghosts, pin, run, sessionFaults>>
    PROVE  StoryInv'
  <1> USE DEF StoryInv
  <1>0. UNCHANGED <<slot, users, lockHeld, rows, ctx, exists, comp, compressed, replied, stolen,
                    pin, run, sessionFaults>>
    BY DEF lockVars, rowVars, ghosts
  <1>1. \E n : /\ req' = [req EXCEPT ![t] = n] /\ WellFormed(t, n)
               /\ n.stage \in {"refused", "claim", "resolved"}
    <2>1. CASE Over(t, "refused")
      <3> DEFINE n == [FreshRequest EXCEPT !.stage = "refused"]
      <3>1. n \in RequestRecord /\ n.stage = "refused"
        BY DEF FreshRequest, RequestRecord, RequestStages
      <3>2. WellFormed(t, n)
        BY <3>1 DEF WellFormed, Ended
      <3> QED  BY <2>1, <3>1, <3>2 DEF Over, Becomes
    <2>2. CASE /\ exists /\ pin = None
               /\ Becomes(t, [r EXCEPT !.stage = "claim",
                                       !.id = IF r.want # None THEN r.want ELSE DefaultId])
      <3> DEFINE i == IF r.want # None THEN r.want ELSE DefaultId
                 n == [r EXCEPT !.stage = "claim", !.id = i]
      <3>1. i \in Identities /\ i # None
        BY SessionAssumption DEF RequestRecord
      <3> HIDE DEF i
      <3>2. n \in RequestRecord /\ n.stage = "claim" /\ n.id = i /\ n.msg = r.msg /\ n.hist = r.hist /\ n.past = r.past
        BY <3>1 DEF RequestRecord, RequestStages
      <3> HIDE DEF n
      <3>3. WellFormed(t, n)
        BY <2>2, <3>1, <3>2 DEF WellFormed, Ended
      <3> QED  BY <2>2, <3>2, <3>3 DEF Becomes, n, i
    <2>3. CASE /\ exists /\ pin # None
               /\ Becomes(t, [r EXCEPT !.stage = "resolved", !.id = pin])
      <3> DEFINE n == [r EXCEPT !.stage = "resolved", !.id = pin]
      <3>2. n \in RequestRecord /\ n.stage = "resolved" /\ n.id = pin /\ n.msg = r.msg /\ n.hist = r.hist /\ n.past = r.past
        BY DEF RequestRecord, RequestStages, SessionTypeOK
      <3> HIDE DEF n
      <3>3. WellFormed(t, n)
        BY <1>0, <2>3, <3>2 DEF WellFormed, Ended
      <3> QED  BY <2>3, <3>2, <3>3 DEF Becomes, n
    <2> QED  BY <2>1, <2>2, <2>3 DEF Resolve
  <1>2. PICK n : /\ req' = [req EXCEPT ![t] = n] /\ WellFormed(t, n)
                 /\ n.stage \in {"refused", "claim", "resolved"}
    BY <1>1
  <1>3. /\ req' \in [Requests -> RequestRecord] /\ req'[t] = n
        /\ \A u \in Requests : u # t => req'[u] = req[u]
        /\ MessageIsKnown' /\ MessagesAreSingle' /\ ReadersHaveSeen' /\ IdentityIsSettled'
    <2>1. req[t].stage \notin Inserted
      BY DEF Inserted
    <2> QED  BY <1>0, <1>2, <2>1, RequestMoves
  <1>4. LockIsShared'
    BY <1>2, <1>3, LockKept
  <1>5. ReplyIsKept'
    <2>1. \A u \in Resumes : req[u].stage = "discarded" => u # t /\ u \in Requests
      BY DEF Requests
    <2> QED  BY <1>0, <1>3, <2>1, ReplyStays
  <1>6. SessionTypeOK'
    BY <1>0, <1>3 DEF SessionTypeOK
  <1> QED  BY <1>3, <1>4, <1>5, <1>6

LEMMA SendMessageStep ==
    ASSUME StoryInv, NEW t \in NewTurns, NEW want \in Wants, SendMessage(t, want)
    PROVE  StoryInv'
  <1> DEFINE r == [FreshRequest EXCEPT !.msg = t, !.want = want]
  <1>1. r \in RequestRecord /\ r.msg = t
    BY DEF FreshRequest, RequestRecord, RequestStages
  <1>2. /\ Resolve(t, r) /\ req[t].stage = "idle" /\ t \in Requests /\ t \notin Resumes
        /\ UNCHANGED <<lockVars, rowVars, ghosts, pin, run, sessionFaults>>
    BY SessionAssumption DEF SendMessage, Requests
  <1> HIDE DEF r
  <1> QED  BY <1>1, <1>2, ResolveStep

\* There is one row of a message.
LEMMA IndexIsOne ==
    ASSUME StoryInv, NEW m \in NewTurns, NEW j \in DOMAIN rows, rows[j] = UserRow(m)
    PROVE  IndexOf(m) = j
  <1>1. \A i \in DOMAIN rows : rows[i] = UserRow(m) => i = j
    BY UserRowShape DEF StoryInv, MessagesAreSingle
  <1> QED  BY <1>1 DEF IndexOf

LEMMA PrepareResumeStep ==
    ASSUME StoryInv, NEW t \in Resumes, NEW m \in NewTurns, PrepareResume(t, m)
    PROVE  StoryInv'
  <1> DEFINE r == [FreshRequest EXCEPT !.msg = m, !.hist = HistoryBefore(m), !.past = Excused(Before(m))]
  <1>0. SessionTypeOK
    BY DEF StoryInv
  <1>1. PICK j \in DOMAIN rows : rows[j] = UserRow(m)
    BY <1>0, RowsAreASet DEF PrepareResume
  <1>2. IndexOf(m) = j /\ j \in 1 .. Len(rows) /\ Len(rows) \in Nat /\ DOMAIN rows = 1 .. Len(rows)
    BY <1>0, <1>1, IndexIsOne, RowShape
  <1>3. /\ HistoryBefore(m) \in SUBSET StoredRow /\ Excused(Before(m)) \in SUBSET StoredRow
        /\ \A i \in DOMAIN rows : rows[i] \in HistoryBefore(m) \cup Excused(Before(m))
    BY <1>0, <1>2, BeforeIsRead
  <1>4. r \in RequestRecord /\ r.msg = m /\ r.hist = HistoryBefore(m) /\ r.past = Excused(Before(m))
    BY <1>3 DEF FreshRequest, RequestRecord, RequestStages
  <1>5. /\ Resolve(t, r) /\ req[t].stage = "idle" /\ t \in Requests /\ t \notin NewTurns
        /\ UNCHANGED <<lockVars, rowVars, ghosts, pin, run, sessionFaults>>
    BY SessionAssumption DEF PrepareResume, Requests
  <1> HIDE DEF r
  <1>6. \A i \in 1 .. j - 1 : rows[i] \in r.hist \cup r.past
    BY <1>2, <1>3, <1>4
  <1> QED  BY <1>1, <1>4, <1>5, <1>6, ResolveStep

\* A request in the open moves on without touching rows, lock or ghosts.
LEMMA QuietStep ==
    ASSUME StoryInv, NEW t \in Requests, NEW r, req' = [req EXCEPT ![t] = r],
           UNCHANGED <<lockVars, rowVars, ghosts, sessionFaults>>,
           pin' \in Identities \cup {None}, pin' = pin \/ pin = None,
           run' \in [NewTurns -> {"none", "running", "stopped", "completed"}],
           WellFormed(t, r),
           t \in NewTurns /\ req[t].stage \in Inserted => r.stage \in Inserted,
           req[t].stage \notin {"queued", "read", "discarded"}, r.stage \notin {"queued", "read"}
    PROVE  StoryInv'
  <1> USE DEF StoryInv
  <1>0. UNCHANGED <<slot, users, lockHeld, rows, ctx, exists, comp, compressed, replied, stolen, sessionFaults>>
    BY DEF lockVars, rowVars, ghosts
  <1>1. /\ req' \in [Requests -> RequestRecord] /\ req'[t] = r
        /\ \A u \in Requests : u # t => req'[u] = req[u]
        /\ MessageIsKnown' /\ MessagesAreSingle' /\ ReadersHaveSeen' /\ IdentityIsSettled'
    BY <1>0, RequestMoves
  <1>2. LockIsShared'
    BY <1>1, LockKept
  <1>3. ReplyIsKept'
    <2>1. \A u \in Resumes : req[u].stage = "discarded" => u # t /\ u \in Requests
      BY DEF Requests
    <2> QED  BY <1>0, <1>1, <2>1, ReplyStays
  <1>4. SessionTypeOK'
    BY <1>0, <1>1 DEF SessionTypeOK
  <1> QED  BY <1>1, <1>2, <1>3, <1>4

\* A request that is over asks nothing of the session.
LEMMA OverIsWellFormed ==
    ASSUME StoryInv, NEW t \in Requests, NEW stage \in {"refused", "done"}, NEW r,
           r = [FreshRequest EXCEPT !.stage = stage]
    PROVE  WellFormed(t, r) /\ r.stage = stage
  <1>1. r \in RequestRecord /\ r.stage = stage
    BY DEF FreshRequest, RequestRecord, RequestStages
  <1> QED  BY <1>1 DEF WellFormed, Ended

LEMMA ClaimIdentityStep ==
    ASSUME StoryInv, NEW t \in Requests, ClaimIdentity(t)
    PROVE  StoryInv'
  <1> USE DEF StoryInv
  <1>0. /\ req[t].stage = "claim"
        /\ pin' = IF exists /\ pin = None THEN req[t].id ELSE pin
        /\ UNCHANGED <<lockVars, rowVars, ghosts, run, sessionFaults>>
        /\ \/ Over(t, "refused")
           \/ exists /\ Becomes(t, [req[t] EXCEPT !.stage = "resolved", !.id = pin'])
    BY DEF ClaimIdentity
  <1>1. /\ req[t] \in RequestRecord /\ req[t].id \in Identities \cup {None} /\ req[t].id # None
        /\ req[t].msg \in NewTurns
        /\ t \in NewTurns => req[t].msg = t
    BY <1>0, RequestShape DEF IdentityIsSettled, MessageIsKnown, Ended
  <1>2. /\ pin' \in Identities \cup {None}
        /\ pin' = pin \/ pin = None
    BY <1>0, <1>1 DEF SessionTypeOK
  <1>3. run' \in [NewTurns -> {"none", "running", "stopped", "completed"}]
    BY <1>0 DEF SessionTypeOK
  <1>4. req[t].stage \notin Inserted /\ req[t].stage \notin {"queued", "read", "discarded"}
    BY <1>0 DEF Inserted
  <1>5. CASE Over(t, "refused")
    <2> DEFINE r == [FreshRequest EXCEPT !.stage = "refused"]
    <2>1. WellFormed(t, r) /\ r.stage = "refused" /\ req' = [req EXCEPT ![t] = r]
      BY <1>5, OverIsWellFormed DEF Over, Becomes
    <2> HIDE DEF r
    <2> QED  BY <1>0, <1>2, <1>3, <1>4, <2>1, QuietStep
  <1>6. CASE exists /\ Becomes(t, [req[t] EXCEPT !.stage = "resolved", !.id = pin'])
    <2>1. PICK r : r = [req[t] EXCEPT !.stage = "resolved", !.id = pin']
      OBVIOUS
    <2>2. /\ r \in RequestRecord /\ r.stage = "resolved" /\ r.id = pin' /\ r.msg = req[t].msg
          /\ r.hist = req[t].hist /\ r.past = req[t].past
      BY <1>1, <1>2, <2>1 DEF RequestRecord, RequestStages
    <2>3. pin' # None
      BY <1>0, <1>1, <1>6
    <2>4. t \in Resumes /\ exists =>
             \E j \in DOMAIN rows : /\ rows[j] = UserRow(req[t].msg)
                                    /\ \A i \in 1 .. j - 1 : rows[i] \in req[t].hist \cup req[t].past
      BY <1>0 DEF ReadersHaveSeen, Saw
    <2>5. WellFormed(t, r)
      BY <1>1, <2>2, <2>3, <2>4 DEF WellFormed
    <2> QED  BY <1>0, <1>2, <1>3, <1>4, <1>6, <2>1, <2>2, <2>5, QuietStep DEF Becomes
  <1> QED  BY <1>0, <1>5, <1>6

LEMMA ResumeTurnStep ==
    ASSUME StoryInv, NEW t \in Requests, ResumeTurn(t)
    PROVE  StoryInv'
  <1> USE DEF StoryInv
  <1>0. /\ req[t].stage = "ready"
        /\ UNCHANGED <<lockVars, rowVars, ghosts, pin, sessionFaults>>
        /\ run' \in {run, [run EXCEPT ![req[t].msg] = "running"]}
        /\ \/ Over(t, "done")
           \/ Becomes(t, [req[t] EXCEPT !.stage = "streaming", !.hist = {}, !.past = {}])
    BY DEF ResumeTurn
  <1>1. /\ req[t] \in RequestRecord /\ req[t].id # None /\ req[t].id = pin
        /\ req[t].msg \in NewTurns
        /\ t \in NewTurns => req[t].msg = t
    BY <1>0, RequestShape DEF IdentityIsSettled, MessageIsKnown, Ended
  <1>2. pin' \in Identities \cup {None} /\ pin' = pin
    BY <1>0 DEF SessionTypeOK
  <1>3. run' \in [NewTurns -> {"none", "running", "stopped", "completed"}]
    BY <1>0, <1>1 DEF SessionTypeOK
  <1>4. req[t].stage \notin Inserted /\ req[t].stage \notin {"queued", "read", "discarded"}
    BY <1>0 DEF Inserted
  <1>5. CASE Over(t, "done")
    <2> DEFINE r == [FreshRequest EXCEPT !.stage = "done"]
    <2>1. WellFormed(t, r) /\ r.stage = "done" /\ req' = [req EXCEPT ![t] = r]
      BY <1>5, OverIsWellFormed DEF Over, Becomes
    <2> HIDE DEF r
    <2> QED  BY <1>0, <1>2, <1>3, <1>4, <2>1, QuietStep
  <1>6. CASE Becomes(t, [req[t] EXCEPT !.stage = "streaming", !.hist = {}, !.past = {}])
    <2>1. PICK r : r = [req[t] EXCEPT !.stage = "streaming", !.hist = {}, !.past = {}]
      OBVIOUS
    <2>2. r \in RequestRecord /\ r.stage = "streaming" /\ r.id = req[t].id /\ r.msg = req[t].msg
      BY <1>1, <2>1 DEF RequestRecord, RequestStages
    <2>3. WellFormed(t, r)
      BY <1>1, <1>2, <2>2 DEF WellFormed
    <2> QED  BY <1>0, <1>2, <1>3, <1>4, <1>6, <2>1, <2>2, <2>3, QuietStep DEF Becomes
  <1> QED  BY <1>0, <1>5, <1>6

LEMMA EndStreamStep ==
    ASSUME StoryInv, NEW t \in Requests, EndStream(t)
    PROVE  StoryInv'
  <1> USE DEF StoryInv
  <1>0. /\ req[t].stage = "streaming"
        /\ UNCHANGED <<lockVars, rowVars, ghosts, pin, sessionFaults>>
        /\ \E status \in {"completed", "stopped"} : run' = [run EXCEPT ![req[t].msg] = status]
        /\ \/ Becomes(t, [req[t] EXCEPT !.stage = "persist"])
           \/ Over(t, "done")
    BY DEF EndStream
  <1>1. /\ req[t] \in RequestRecord /\ req[t].id # None /\ req[t].id = pin
        /\ req[t].msg \in NewTurns
        /\ t \in NewTurns => req[t].msg = t
    BY <1>0, RequestShape DEF IdentityIsSettled, MessageIsKnown, Ended
  <1>2. pin' \in Identities \cup {None} /\ pin' = pin
    BY <1>0 DEF SessionTypeOK
  <1>3. run' \in [NewTurns -> {"none", "running", "stopped", "completed"}]
    BY <1>0, <1>1 DEF SessionTypeOK
  <1>4. "done" \in Inserted /\ "persist" \in Inserted /\ req[t].stage \notin {"queued", "read", "discarded"}
    BY <1>0 DEF Inserted
  <1>5. CASE Over(t, "done")
    <2> DEFINE r == [FreshRequest EXCEPT !.stage = "done"]
    <2>1. WellFormed(t, r) /\ r.stage = "done" /\ req' = [req EXCEPT ![t] = r]
      BY <1>5, OverIsWellFormed DEF Over, Becomes
    <2> HIDE DEF r
    <2> QED  BY <1>0, <1>2, <1>3, <1>4, <2>1, QuietStep
  <1>6. CASE Becomes(t, [req[t] EXCEPT !.stage = "persist"])
    <2>1. PICK r : r = [req[t] EXCEPT !.stage = "persist"]
      OBVIOUS
    <2>2. r \in RequestRecord /\ r.stage = "persist" /\ r.id = req[t].id /\ r.msg = req[t].msg
      BY <1>1, <2>1 DEF RequestRecord, RequestStages
    <2>3. WellFormed(t, r)
      BY <1>1, <1>2, <2>2 DEF WellFormed
    <2> QED  BY <1>0, <1>2, <1>3, <1>4, <1>6, <2>1, <2>2, <2>3, QuietStep DEF Becomes
  <1> QED  BY <1>0, <1>5, <1>6

-----------------------------------------------------------------------------
(* The lock                                                                *)

LEMMA AcquireSlotStep ==
    ASSUME StoryInv, NEW t \in Requests, AcquireSlot(t)
    PROVE  StoryInv'
  <1> USE DEF StoryInv
  <1>0. /\ req[t].stage = "resolved" /\ slot' = (IF slot = None THEN t ELSE slot) /\ users' = users + 1
        /\ Becomes(t, [req[t] EXCEPT !.stage = "queued", !.lock = slot'])
        /\ UNCHANGED <<lockHeld, rows, ctx, exists, comp, compressed, replied, stolen, pin, run, sessionFaults>>
    BY DEF AcquireSlot, rowVars, ghosts
  <1>1. /\ req[t] \in RequestRecord /\ req[t].id # None /\ req[t].id = pin
        /\ req[t].msg \in NewTurns
        /\ t \in NewTurns => req[t].msg = t
        /\ t \in Resumes /\ exists =>
             \E j \in DOMAIN rows : /\ rows[j] = UserRow(req[t].msg)
                                    /\ \A i \in 1 .. j - 1 : rows[i] \in req[t].hist \cup req[t].past
    BY <1>0, RequestShape DEF IdentityIsSettled, MessageIsKnown, Ended, ReadersHaveSeen, Saw
  <1>2. slot' \in Requests /\ slot' # None
    BY <1>0, SessionAssumption DEF SessionTypeOK, Requests
  <1>3. PICK r : r = [req[t] EXCEPT !.stage = "queued", !.lock = slot']
    OBVIOUS
  <1>4. /\ r \in RequestRecord /\ r.stage = "queued" /\ r.lock = slot' /\ r.id = req[t].id
        /\ r.msg = req[t].msg /\ r.hist = req[t].hist /\ r.past = req[t].past
    BY <1>1, <1>2, <1>3 DEF RequestRecord, RequestStages
  <1>5. WellFormed(t, r)
    BY <1>0, <1>1, <1>4 DEF WellFormed
  <1>6. /\ req' \in [Requests -> RequestRecord] /\ req'[t] = r
        /\ \A u \in Requests : u # t => req'[u] = req[u]
        /\ MessageIsKnown' /\ MessagesAreSingle' /\ ReadersHaveSeen' /\ IdentityIsSettled'
    <2>1. req[t].stage \notin Inserted /\ req' = [req EXCEPT ![t] = r]
      BY <1>0, <1>3 DEF Inserted, Becomes
    <2> QED  BY <1>0, <1>5, <2>1, RequestMoves
  <1>7. LockIsShared'
    <2>1. Using' = Using \cup {t} /\ t \notin Using
      BY <1>0, <1>4, <1>6 DEF Using
    <2>2. IsFiniteSet(Using') /\ Cardinality(Using') = Cardinality(Using) + 1
      BY <2>1, FS_AddElement DEF LockIsShared
    <2>3. \A u \in Using : slot' = slot /\ req'[u] = req[u]
      BY <1>0, <1>6, <2>1 DEF LockIsShared, Using
    <2>4. \A u \in Using' : req'[u].lock = slot' /\ slot' # None
      BY <1>2, <1>4, <1>6, <2>1, <2>3 DEF LockIsShared
    <2>5. \A u \in Requests : req'[u].stage = "read" => u \in Using /\ req[u].stage = "read"
      BY <1>4, <1>6 DEF Using
    <2> QED  BY <1>0, <2>2, <2>3, <2>4, <2>5 DEF LockIsShared
  <1>8. ReplyIsKept'
    <2>1. \A u \in Resumes : req[u].stage = "discarded" => u # t /\ u \in Requests
      BY <1>0 DEF Requests
    <2> QED  BY <1>0, <1>6, <2>1, ReplyStays
  <1>9. SessionTypeOK'
    BY <1>0, <1>2, <1>6 DEF SessionTypeOK
  <1> QED  BY <1>6, <1>7, <1>8, <1>9

LEMMA EvictByOthersStep ==
    ASSUME StoryInv, EvictByOthers
    PROVE  StoryInv'
  <1> USE DEF StoryInv
  <1>0. /\ users = 0 /\ slot' = None
        /\ UNCHANGED <<users, lockHeld, rows, ctx, exists, comp, compressed, replied, stolen, pin, req,
                       run, sessionFaults>>
    BY DEF EvictByOthers, Evictable, rowVars, ghosts
  <1>1. Using = {}
    BY <1>0, FS_EmptySet DEF LockIsShared
  <1>2. LockIsShared'
    BY <1>0, <1>1 DEF LockIsShared, Using
  <1>3. SessionTypeOK' /\ MessageIsKnown' /\ IdentityIsSettled' /\ ReplyIsKept'
    BY <1>0 DEF SessionTypeOK, MessageIsKnown, IdentityIsSettled, ReplyIsKept
  <1>4. MessagesAreSingle' /\ ReadersHaveSeen'
    BY <1>0 DEF MessagesAreSingle, ReadersHaveSeen, Saw, UserRow
  <1> QED  BY <1>2, <1>3, <1>4

LEMMA LockTurnStep ==
    ASSUME StoryInv, NEW t \in Requests, LockTurn(t)
    PROVE  StoryInv'
  <1> USE DEF StoryInv
  <1>0. /\ req[t].stage = "queued" /\ req[t].lock \notin lockHeld /\ t \in Using
        /\ UNCHANGED <<rows, ctx, exists, comp, compressed, replied, stolen, pin, run, sessionFaults>>
    BY DEF LockTurn, rowVars, ghosts, Using
  <1>1. /\ req[t] \in RequestRecord /\ req[t].id # None /\ req[t].id = pin
        /\ req[t].msg \in NewTurns
        /\ t \in NewTurns => req[t].msg = t
        /\ t \in Resumes /\ exists =>
             \E j \in DOMAIN rows : /\ rows[j] = UserRow(req[t].msg)
                                    /\ \A i \in 1 .. j - 1 : rows[i] \in req[t].hist \cup req[t].past
    BY <1>0, RequestShape DEF IdentityIsSettled, MessageIsKnown, Ended, ReadersHaveSeen, Saw
  <1>2. req[t].stage \notin Inserted /\ req[t].lock = slot /\ slot # None
    BY <1>0 DEF Inserted, LockIsShared
  <1>3. CASE /\ t \in NewTurns /\ lockHeld' = lockHeld \cup {req[t].lock} /\ UNCHANGED <<slot, users>>
             /\ Becomes(t, [req[t] EXCEPT !.stage = "read", !.hist = RecentHistory,
                                          !.past = Excused(Recent)])
    <2>1. PICK r : r = [req[t] EXCEPT !.stage = "read", !.hist = RecentHistory, !.past = Excused(Recent)]
      OBVIOUS
    <2>2. /\ RecentHistory \in SUBSET StoredRow /\ Excused(Recent) \in SUBSET StoredRow
          /\ \A i \in DOMAIN rows : rows[i] \in RecentHistory \cup Excused(Recent)
      BY RecentIsRead
    <2>3. /\ r \in RequestRecord /\ r.stage = "read" /\ r.lock = req[t].lock /\ r.id = req[t].id
          /\ r.msg = req[t].msg /\ r.hist = RecentHistory /\ r.past = Excused(Recent)
      BY <1>1, <2>1, <2>2 DEF RequestRecord, RequestStages
    <2>4. WellFormed(t, r)
      BY <1>0, <1>1, <1>3, <2>2, <2>3 DEF WellFormed
    <2>5. /\ req' \in [Requests -> RequestRecord] /\ req'[t] = r
          /\ \A u \in Requests : u # t => req'[u] = req[u]
          /\ MessageIsKnown' /\ MessagesAreSingle' /\ ReadersHaveSeen' /\ IdentityIsSettled'
      <3>1. req' = [req EXCEPT ![t] = r]
        BY <1>3, <2>1 DEF Becomes
      <3> QED  BY <1>0, <1>2, <2>4, <3>1, RequestMoves
    <2>6. LockIsShared'
      <3>1. Using' = Using
        BY <1>0, <2>3, <2>5 DEF Using
      <3>2. \A u \in Requests : req[u].stage # "read"
        BY <1>0, <1>2 DEF LockIsShared
      <3>3. \A u \in Requests : req'[u].stage = "read" => u = t
        BY <2>5, <3>2
      <3>4. \A u \in Using : req'[u].lock = slot
        BY <1>2, <2>3, <2>5 DEF LockIsShared, Using
      <3>5. slot' \in lockHeld' /\ slot' = slot /\ users' = users
        BY <1>2, <1>3
      <3> QED  BY <1>2, <3>1, <3>3, <3>4, <3>5 DEF LockIsShared
    <2>7. ReplyIsKept'
      <3>1. \A u \in Resumes : req[u].stage = "discarded" => u # t /\ u \in Requests
        BY <1>0 DEF Requests
      <3> QED  BY <1>0, <2>5, <3>1, ReplyStays
    <2>8. SessionTypeOK'
      <3>1. lockHeld' \in SUBSET Requests
        BY <1>2, <1>3 DEF SessionTypeOK
      <3> QED  BY <1>0, <1>3, <2>5, <3>1 DEF SessionTypeOK
    <2> QED  BY <2>5, <2>6, <2>7, <2>8
  <1>4. CASE /\ t \in Resumes /\ ReleaseTurn(t)
             /\ Becomes(t, [req[t] EXCEPT !.stage = "ready"])
    <2>1. PICK r : r = [req[t] EXCEPT !.stage = "ready"]
      OBVIOUS
    <2>2. /\ r \in RequestRecord /\ r.stage = "ready" /\ r.id = req[t].id
          /\ r.msg = req[t].msg /\ r.hist = req[t].hist /\ r.past = req[t].past
      BY <1>1, <2>1 DEF RequestRecord, RequestStages
    <2>3. WellFormed(t, r)
      BY <1>0, <1>1, <2>2 DEF WellFormed
    <2>4. /\ req' \in [Requests -> RequestRecord] /\ req'[t] = r
          /\ \A u \in Requests : u # t => req'[u] = req[u]
          /\ MessageIsKnown' /\ MessagesAreSingle' /\ ReadersHaveSeen' /\ IdentityIsSettled'
      <3>1. req' = [req EXCEPT ![t] = r]
        BY <1>4, <2>1 DEF Becomes
      <3> QED  BY <1>0, <1>2, <2>3, <3>1, RequestMoves
    <2>5. LockIsShared' /\ users' \in Nat /\ lockHeld' \in SUBSET Requests /\ slot' = slot
      BY <1>0, <1>4, <2>2, <2>4, TurnReleased
    <2>6. ReplyIsKept'
      <3>1. \A u \in Resumes : req[u].stage = "discarded" => u # t /\ u \in Requests
        BY <1>0 DEF Requests
      <3> QED  BY <1>0, <2>4, <3>1, ReplyStays
    <2>7. SessionTypeOK'
      BY <1>0, <2>4, <2>5 DEF SessionTypeOK
    <2> QED  BY <2>4, <2>5, <2>6, <2>7
  <1> QED  BY <1>3, <1>4 DEF LockTurn

\* The request is cancelled under the lock, or its session is gone.
LEMMA LeaveTurnStep ==
    ASSUME StoryInv, NEW t \in Using, ReleaseTurn(t), Over(t, "done"),
           UNCHANGED <<rows, ctx, exists, comp, compressed, ghosts, pin, run, sessionFaults>>
    PROVE  StoryInv'
  <1> USE DEF StoryInv
  <1> DEFINE r == [FreshRequest EXCEPT !.stage = "done"]
  <1>0. UNCHANGED <<replied, stolen>> /\ t \in Requests /\ req[t].stage \in {"queued", "read"}
    BY DEF ghosts, Using
  <1>1. WellFormed(t, r) /\ r.stage = "done" /\ req' = [req EXCEPT ![t] = r] /\ "done" \in Inserted
    BY <1>0, OverIsWellFormed DEF Over, Becomes, Inserted
  <1> HIDE DEF r
  <1>2. /\ req' \in [Requests -> RequestRecord] /\ req'[t] = r
        /\ \A u \in Requests : u # t => req'[u] = req[u]
        /\ MessageIsKnown' /\ MessagesAreSingle' /\ ReadersHaveSeen' /\ IdentityIsSettled'
    BY <1>0, <1>1, RequestMoves
  <1>3. LockIsShared' /\ users' \in Nat /\ lockHeld' \in SUBSET Requests /\ slot' = slot
    BY <1>1, <1>2, TurnReleased
  <1>4. ReplyIsKept'
    <2>1. \A u \in Resumes : req[u].stage = "discarded" => u # t /\ u \in Requests
      BY <1>0 DEF Requests
    <2> QED  BY <1>0, <1>2, <2>1, ReplyStays
  <1>5. SessionTypeOK'
    BY <1>0, <1>2, <1>3 DEF SessionTypeOK
  <1> QED  BY <1>2, <1>3, <1>4, <1>5
-----------------------------------------------------------------------------
(* The rows                                                                *)

\* A row is inserted, and the request that inserts it is past the lock.
LEMMA RowsGrow ==
    ASSUME StoryInv, NEW t \in Requests, NEW r \in RequestRecord, NEW x \in StoredRow,
           req' = [req EXCEPT ![t] = r], rows' = Append(rows, x), UNCHANGED <<exists, pin>>,
           r.stage \in {"streaming", "done"},
           r.stage = "streaming" =>
              r.msg \in NewTurns /\ (t \in NewTurns => r.msg = t) /\ r.id = pin /\ r.id # None,
           x.role = "user" => x = UserRow(t) /\ t \in NewTurns /\ req[t].stage = "read"
    PROVE  /\ rows' \in Seq(StoredRow) /\ ToSet(rows') = ToSet(rows) \cup {x}
           /\ req' \in [Requests -> RequestRecord] /\ req'[t] = r
           /\ \A u \in Requests : u # t => req'[u] = req[u]
           /\ MessageIsKnown' /\ MessagesAreSingle' /\ ReadersHaveSeen' /\ IdentityIsSettled'
  <1> USE DEF StoryInv
  <1>1. /\ req' \in [Requests -> RequestRecord] /\ req'[t] = r
        /\ \A u \in Requests : u # t => req'[u] = req[u]
    BY DEF SessionTypeOK
  <1> DEFINE n == Len(rows)
  <1>2. /\ n \in Nat /\ DOMAIN rows = 1 .. n /\ DOMAIN rows' = 1 .. n + 1 /\ rows' \in Seq(StoredRow)
        /\ \A i \in 1 .. n : rows'[i] = rows[i]
        /\ rows'[n + 1] = x
    BY RowShape
  <1> HIDE DEF n
  <1>3. ToSet(rows') = ToSet(rows) \cup {x}
    <2>1. \A y : y \in ToSet(rows') <=> \E i \in 1 .. n + 1 : y = rows'[i]
      BY <1>2 DEF ToSet
    <2>2. \A y : y \in ToSet(rows) <=> \E i \in 1 .. n : y = rows[i]
      BY <1>2 DEF ToSet
    <2>3. \A i \in 1 .. n + 1 : i \in 1 .. n \/ i = n + 1
      BY <1>2
    <2>4. n + 1 \in 1 .. n + 1 /\ \A i \in 1 .. n : i \in 1 .. n + 1
      BY <1>2
    <2> QED  BY <1>2, <2>1, <2>2, <2>3, <2>4
  <1>4. MessageIsKnown'
    BY <1>1 DEF MessageIsKnown, Ended
  <1>5. IdentityIsSettled'
    BY <1>1 DEF IdentityIsSettled, Ended
  <1>6. NewTurns \subseteq Requests /\ Resumes \subseteq Requests
    BY DEF Requests
  <1>7. MessagesAreSingle'
    <2>1. \A i \in 1 .. n : rows[i].role = "user" =>
             /\ rows[i] = UserRow(rows[i].of) /\ rows[i].of \in NewTurns
             /\ req[rows[i].of].stage \in {"streaming", "persist", "done"}
      BY <1>2, RowShape DEF MessagesAreSingle
    <2>2. \A i \in 1 .. n : rows[i].role = "user" => rows[i] # x
      <3>1. SUFFICES ASSUME NEW i \in 1 .. n, rows[i].role = "user", rows[i] = x PROVE FALSE
        OBVIOUS
      <3>2. x.of = t /\ req[t].stage = "read"
        BY <3>1, UserRowShape
      <3> QED  BY <2>1, <3>1, <3>2
    <2>3. ASSUME NEW i \in 1 .. n + 1, rows'[i].role = "user"
          PROVE  rows'[i] = UserRow(rows'[i].of) /\ req'[rows'[i].of].stage \in {"streaming", "persist", "done"}
      <3>1. CASE i = n + 1
        BY <1>1, <1>2, <2>3, <3>1, UserRowShape
      <3>2. CASE i \in 1 .. n
        BY <1>1, <1>2, <1>6, <2>1, <2>3, <3>2
      <3> QED  BY <1>2, <3>1, <3>2
    <2>4. ASSUME NEW i \in 1 .. n + 1, NEW j \in 1 .. n + 1, rows'[i].role = "user", rows'[i] = rows'[j]
          PROVE  i = j
      <3>1. CASE i \in 1 .. n /\ j \in 1 .. n
        BY <1>2, <2>4, <3>1 DEF MessagesAreSingle
      <3>2. CASE i = n + 1 /\ j \in 1 .. n
        BY <1>2, <2>2, <2>4, <3>2
      <3>3. CASE i \in 1 .. n /\ j = n + 1
        BY <1>2, <2>2, <2>4, <3>3
      <3> QED  BY <1>2, <3>1, <3>2, <3>3
    <2> QED  BY <1>2, <2>3, <2>4 DEF MessagesAreSingle, UserRow
  <1>8. ReadersHaveSeen'
    <2>1. ASSUME NEW u \in NewTurns, req'[u].stage = "read", NEW i \in 1 .. n + 1, rows'[i].role = "user"
          PROVE  rows'[i] \in req'[u].hist \cup req'[u].past
      <3>1. u # t /\ req'[u] = req[u] /\ req[u].stage = "read"
        BY <1>1, <1>6, <2>1
      <3>2. x.role # "user"
        BY <1>6, <3>1 DEF LockIsShared
      <3>3. i \in 1 .. n
        BY <1>2, <2>1, <3>2
      <3> QED  BY <1>2, <2>1, <3>1, <3>3 DEF ReadersHaveSeen, Saw
    <2>2. ASSUME NEW u \in Resumes, exists, req'[u].stage \in {"claim", "resolved", "queued", "ready"}
          PROVE  \E j \in 1 .. n + 1 : /\ rows'[j] = UserRow(req'[u].msg)
                                       /\ \A i \in 1 .. j - 1 : rows'[i] \in req'[u].hist \cup req'[u].past
      <3>1. u # t /\ req'[u] = req[u]
        BY <1>1, <1>6, <2>2
      <3>2. PICK j \in 1 .. n : /\ rows[j] = UserRow(req[u].msg)
                                /\ \A i \in 1 .. j - 1 : rows[i] \in req[u].hist \cup req[u].past
        BY <1>2, <2>2, <3>1 DEF ReadersHaveSeen, Saw
      <3>3. j \in 1 .. n + 1 /\ \A i \in 1 .. j - 1 : i \in 1 .. n
        BY <1>2
      <3>4. rows'[j] = UserRow(req'[u].msg) /\ \A i \in 1 .. j - 1 : rows'[i] \in req'[u].hist \cup req'[u].past
        BY <1>2, <3>1, <3>2, <3>3
      <3> QED  BY <3>3, <3>4
    <2> QED  BY <1>2, <2>1, <2>2 DEF ReadersHaveSeen, Saw, UserRow
  <1> QED  BY <1>1, <1>2, <1>3, <1>4, <1>5, <1>7, <1>8

LEMMA InsertUserStep ==
    ASSUME StoryInv, NEW t \in Requests, InsertUser(t)
    PROVE  StoryInv'
  <1> USE DEF StoryInv
  <1>0. /\ req[t].stage = "read" /\ ReleaseTurn(t) /\ t \in Using
        /\ UNCHANGED <<ctx, exists, comp, compressed, ghosts, pin, sessionFaults>>
        /\ UNCHANGED <<replied, stolen>>
    BY DEF InsertUser, ghosts, Using
  <1>1. CASE ~ exists /\ Over(t, "done") /\ UNCHANGED <<rows, run>>
    BY <1>0, <1>1, LeaveTurnStep
  <1>2. CASE /\ exists /\ rows' = Append(rows, UserRow(t)) /\ run' = [run EXCEPT ![t] = "running"]
             /\ Becomes(t, [req[t] EXCEPT !.stage = "streaming", !.hist = {}, !.past = {}])
    <2>1. /\ req[t] \in RequestRecord /\ req[t].id # None /\ req[t].id = pin
          /\ t \in NewTurns /\ req[t].msg = t
      BY <1>0, RequestShape DEF IdentityIsSettled, MessageIsKnown, Ended
    <2>2. PICK r : r = [req[t] EXCEPT !.stage = "streaming", !.hist = {}, !.past = {}]
      OBVIOUS
    <2>3. r \in RequestRecord /\ r.stage = "streaming" /\ r.id = req[t].id /\ r.msg = req[t].msg
      BY <2>1, <2>2 DEF RequestRecord, RequestStages
    <2>4. PICK x : x = UserRow(t)
      OBVIOUS
    <2>5. /\ rows' \in Seq(StoredRow) /\ ToSet(rows') = ToSet(rows) \cup {x}
          /\ req' \in [Requests -> RequestRecord] /\ req'[t] = r
          /\ \A u \in Requests : u # t => req'[u] = req[u]
          /\ MessageIsKnown' /\ MessagesAreSingle' /\ ReadersHaveSeen' /\ IdentityIsSettled'
      <3>1. req' = [req EXCEPT ![t] = r] /\ rows' = Append(rows, x)
        BY <1>2, <2>2, <2>4 DEF Becomes
      <3>2. x \in StoredRow
        BY <2>1, <2>4, UserRowShape
      <3> QED  BY <1>0, <2>1, <2>3, <2>4, <3>1, <3>2, RowsGrow
    <2>6. LockIsShared' /\ users' \in Nat /\ lockHeld' \in SUBSET Requests /\ slot' = slot
      BY <1>0, <2>3, <2>5, TurnReleased
    <2>7. ReplyIsKept'
      <3>1. \A u \in Resumes : req[u].stage = "discarded" => req'[u] = req[u]
        BY <1>0, <2>5 DEF Requests
      <3> QED  BY <1>0, <2>5, <3>1 DEF ReplyIsKept
    <2>8. run' \in [NewTurns -> {"none", "running", "stopped", "completed"}]
      BY <1>2 DEF SessionTypeOK
    <2>9. SessionTypeOK'
      BY <1>0, <2>5, <2>6, <2>8 DEF SessionTypeOK
    <2> QED  BY <2>5, <2>6, <2>7, <2>9
  <1> QED  BY <1>1, <1>2 DEF InsertUser

LEMMA CancelTurnStep ==
    ASSUME StoryInv, NEW t \in Requests, CancelTurn(t)
    PROVE  StoryInv'
  <1>1. /\ t \in Using /\ ReleaseTurn(t) /\ Over(t, "done")
        /\ UNCHANGED <<rows, ctx, exists, comp, compressed, ghosts, pin, run, sessionFaults>>
    BY DEF CancelTurn, Using, rowVars
  <1> QED  BY <1>1, LeaveTurnStep
LEMMA AddReplyStep ==
    ASSUME StoryInv, NEW t \in Requests, AddReply(t)
    PROVE  StoryInv'
  <1> USE DEF StoryInv
  <1>0. /\ req[t].stage \in {"discarded", "persist"} /\ Over(t, "done")
        /\ UNCHANGED <<slot, users, lockHeld, ctx, exists, comp, compressed, stolen, pin, run>>
        /\ UNCHANGED lockVars
        /\ t \in Resumes => req[t].stage = "discarded"
    BY DEF AddReply, WritesReply, lockVars
  <1>1. req[t] \in RequestRecord /\ req[t].msg \in NewTurns
    BY <1>0, RequestShape DEF MessageIsKnown, Ended
  <1>2. PICK r : r = [FreshRequest EXCEPT !.stage = "done"]
    OBVIOUS
  <1>3. WellFormed(t, r) /\ r.stage = "done" /\ req' = [req EXCEPT ![t] = r] /\ r \in RequestRecord
    BY <1>0, <1>2, OverIsWellFormed DEF Over, Becomes, WellFormed
  <1>4. CASE exists /\ rows' = Append(rows, ReplyRow(req[t].msg, t))
             /\ replied' = replied \cup {req[t].msg} /\ UNCHANGED sessionFaults
    <2>1. PICK x : x = ReplyRow(req[t].msg, t)
      OBVIOUS
    <2>2. x \in StoredRow /\ x.role = "assistant" /\ x.of = req[t].msg
      BY <1>1, <2>1 DEF ReplyRow, StoredRow
    <2>3. /\ rows' \in Seq(StoredRow) /\ ToSet(rows') = ToSet(rows) \cup {x}
          /\ req' \in [Requests -> RequestRecord] /\ req'[t] = r
          /\ \A u \in Requests : u # t => req'[u] = req[u]
          /\ MessageIsKnown' /\ MessagesAreSingle' /\ ReadersHaveSeen' /\ IdentityIsSettled'
      <3>1. rows' = Append(rows, x)
        BY <1>4, <2>1
      <3> QED  BY <1>0, <1>3, <2>2, <3>1, RowsGrow
    <2>4. LockIsShared'
      BY <1>0, <1>3, <2>3, LockKept
    <2>5. ReplyIsKept'
      <3>1. \A u \in Resumes : u # t /\ req[u].stage = "discarded" => req'[u] = req[u]
        BY <2>3 DEF Requests
      <3>2. ASSUME NEW m \in replied' \ stolen', sessionFaults' = 0 /\ exists'
            PROVE  \/ \E y \in ToSet(rows') : y.role = "assistant" /\ y.of = m
                   \/ \E u \in Resumes : req'[u].msg = m /\ req'[u].stage = "discarded"
        <4>1. CASE m = req[t].msg
          BY <2>2, <2>3, <4>1
        <4>2. CASE m # req[t].msg
          <5>1. m \in replied \ stolen /\ sessionFaults = 0 /\ exists
            BY <1>0, <1>4, <3>2, <4>2
          <5> QED  BY <2>3, <3>1, <4>2, <5>1 DEF ReplyIsKept
        <4> QED  BY <4>1, <4>2
      <3> QED  BY <3>2 DEF ReplyIsKept
    <2>6. SessionTypeOK'
      <3>1. replied' \in SUBSET NewTurns
        BY <1>1, <1>4 DEF SessionTypeOK
      <3> QED  BY <1>0, <1>4, <2>3, <3>1 DEF SessionTypeOK
    <2> QED  BY <2>3, <2>4, <2>5, <2>6
  <1>5. CASE /\ UNCHANGED <<rows, replied>> /\ sessionFaults' \in Nat
             /\ ~ exists \/ sessionFaults' # 0
    <2>1. /\ req' \in [Requests -> RequestRecord] /\ req'[t] = r
          /\ \A u \in Requests : u # t => req'[u] = req[u]
          /\ MessageIsKnown' /\ MessagesAreSingle' /\ ReadersHaveSeen' /\ IdentityIsSettled'
      <3>1. r.stage \in Inserted
        BY <1>3 DEF Inserted
      <3> QED  BY <1>0, <1>3, <1>5, <3>1, RequestMoves
    <2>2. LockIsShared'
      BY <1>0, <1>3, <2>1, LockKept
    <2>3. ReplyIsKept'
      BY <1>0, <1>5 DEF ReplyIsKept
    <2>4. SessionTypeOK'
      BY <1>0, <1>5, <2>1 DEF SessionTypeOK
    <2> QED  BY <2>1, <2>2, <2>3, <2>4
  <1>6. sessionFaults \in Nat /\ sessionFaults + 1 \in Nat /\ sessionFaults + 1 # 0
    BY DEF SessionTypeOK
  <1> QED  BY <1>4, <1>5, <1>6 DEF AddReply

\* What stands where in a concatenation.
LEMMA Joined ==
    ASSUME NEW S, NEW a \in Seq(S), NEW b \in Seq(S)
    PROVE  /\ a \o b \in Seq(S) /\ Len(a \o b) = Len(a) + Len(b) /\ DOMAIN (a \o b) = 1 .. Len(a) + Len(b)
           /\ \A k \in 1 .. Len(a) + Len(b) : (a \o b)[k] = IF k <= Len(a) THEN a[k] ELSE b[k - Len(a)]
  <1>1. a \o b \in Seq(S) /\ Len(a \o b) = Len(a) + Len(b) /\ DOMAIN (a \o b) = 1 .. Len(a) + Len(b)
    OBVIOUS
  <1>2. ASSUME NEW k \in 1 .. Len(a) + Len(b)
        PROVE  (a \o b)[k] = IF k <= Len(a) THEN a[k] ELSE b[k - Len(a)]
    OBVIOUS
  <1> QED  BY <1>1, <1>2

\* Which row of the session a row was before the replies between n and last
\* were taken out.
Old(n, last, k) == IF k <= n THEN k ELSE k + (last - n)

LEMMA Shifted ==
    ASSUME NEW k \in Nat, NEW n \in Nat, NEW last \in Nat, NEW z \in Nat, ~ (k <= n),
           k <= n + (z - last), n <= last, last <= z
    PROVE  /\ k - n \in 1 .. z - last /\ k - n + last = Old(n, last, k) /\ Old(n, last, k) \in 1 .. z
  BY DEF Old

\* The indices that stay keep their order, and none is lost.
LEMMA Reindexed ==
    ASSUME NEW n \in Nat, NEW last \in Nat, NEW z \in Nat, n >= 1, n <= last, last <= z
    PROVE  /\ \A i, k \in 1 .. n + (z - last) : i < k => Old(n, last, i) < Old(n, last, k)
           /\ \A j \in 1 .. z : j \notin n + 1 .. last =>
                 \E k \in 1 .. n + (z - last) : Old(n, last, k) = j
  <1>1. \A i, k \in 1 .. n + (z - last) : i < k => Old(n, last, i) < Old(n, last, k)
    BY DEF Old
  <1>2. ASSUME NEW j \in 1 .. z, j \notin n + 1 .. last
        PROVE  \E k \in 1 .. n + (z - last) : Old(n, last, k) = j
    <2>1. CASE j <= n
      <3>1. j \in 1 .. n + (z - last) /\ Old(n, last, j) = j
        BY <2>1 DEF Old
      <3> QED  BY <3>1
    <2>2. CASE j > last
      <3>1. j - (last - n) \in 1 .. n + (z - last) /\ Old(n, last, j - (last - n)) = j
        BY <2>2 DEF Old
      <3> QED  BY <3>1
    <2> QED  BY <1>2, <2>1, <2>2
  <1> QED  BY <1>1, <1>2

\* p is q without the rows n + 1 .. last.
TakenOut(q, n, last, p) ==
    /\ \A k \in DOMAIN p : Old(n, last, k) \in DOMAIN q /\ p[k] = q[Old(n, last, k)]
    /\ \A i, k \in DOMAIN p : i < k => Old(n, last, i) < Old(n, last, k)
    /\ \A j \in DOMAIN q : j \notin n + 1 .. last => \E k \in DOMAIN p : Old(n, last, k) = j

LEMMA RowsTakenOut ==
    ASSUME NEW S, NEW q \in Seq(S), NEW n \in 1 .. Len(q), NEW last \in n .. Len(q), NEW p,
           p = SubSeq(q, 1, n) \o SubSeq(q, last + 1, Len(q))
    PROVE  p \in Seq(S) /\ TakenOut(q, n, last, p)
  <1>1. Len(q) \in Nat /\ n \in Nat /\ last \in Nat /\ n <= last /\ last <= Len(q) /\ DOMAIN q = 1 .. Len(q) /\ n >= 1
    OBVIOUS
  <1>2. PICK a : a = SubSeq(q, 1, n)
    OBVIOUS
  <1>3. PICK b : b = SubSeq(q, last + 1, Len(q))
    OBVIOUS
  <1>4. a \in Seq(S) /\ Len(a) = n /\ \A k \in 1 .. n : a[k] = q[k]
    BY <1>1, <1>2
  <1>5. b \in Seq(S) /\ Len(b) = Len(q) - last /\ \A k \in 1 .. Len(q) - last : b[k] = q[k + last]
    <2>1. last + 1 \in 1 .. Len(q) + 1 /\ Len(q) \in Nat /\ last \in 0 .. Len(q)
      BY <1>1
    <2>2. b \in Seq(S) /\ Len(b) = IF last + 1 <= Len(q) THEN Len(q) - (last + 1) + 1 ELSE 0
      BY <1>3, <2>1
    <2>3. \A k \in 1 .. Len(q) - last : b[k] = q[(last + 1) + k - 1] /\ (last + 1) + k - 1 = k + last
      BY <1>3, <2>1
    <2>4. Len(b) = Len(q) - last
      BY <2>1, <2>2
    <2> QED  BY <2>2, <2>3, <2>4
  <1>6. p = a \o b
    BY <1>2, <1>3
  <1>7. /\ p \in Seq(S) /\ DOMAIN p = 1 .. n + (Len(q) - last)
        /\ \A k \in 1 .. n + (Len(q) - last) : p[k] = IF k <= n THEN a[k] ELSE b[k - n]
    <2>1. a \in Seq(S) /\ b \in Seq(S)
      BY <1>4, <1>5
    <2>2. /\ a \o b \in Seq(S) /\ DOMAIN (a \o b) = 1 .. Len(a) + Len(b)
          /\ \A k \in 1 .. Len(a) + Len(b) : (a \o b)[k] = IF k <= Len(a) THEN a[k] ELSE b[k - Len(a)]
      BY ONLY <2>1, Joined
    <2>3. Len(a) = n /\ Len(b) = Len(q) - last
      BY <1>4, <1>5
    <2> QED  BY ONLY <1>6, <2>2, <2>3, Zenon
  <1>8. ASSUME NEW k \in 1 .. n + (Len(q) - last)
        PROVE  Old(n, last, k) \in DOMAIN q /\ p[k] = q[Old(n, last, k)]
    <2>1. k \in Nat /\ k >= 1 /\ k <= n + (Len(q) - last)
      BY <1>1
    <2>2. CASE k <= n
      <3>1. k \in 1 .. n /\ k \in DOMAIN q /\ Old(n, last, k) = k
        BY <1>1, <2>1, <2>2 DEF Old
      <3> QED  BY <1>4, <1>7, <2>2, <3>1
    <2>3. CASE ~ (k <= n)
      <3>1. /\ k - n \in 1 .. Len(q) - last /\ k - n + last = Old(n, last, k)
            /\ Old(n, last, k) \in 1 .. Len(q)
        BY <1>1, <2>1, <2>3, Shifted
      <3>2. p[k] = b[k - n]
        BY <1>7, <2>3
      <3>3. b[k - n] = q[k - n + last]
        BY <1>5, <3>1
      <3> QED  BY <1>1, <3>1, <3>2, <3>3
    <2> QED  BY <2>2, <2>3
  <1>9. /\ \A i, k \in DOMAIN p : i < k => Old(n, last, i) < Old(n, last, k)
        /\ \A j \in DOMAIN q : j \notin n + 1 .. last =>
              \E k \in DOMAIN p : Old(n, last, k) = j
    <2>1. PICK z \in Nat : z = Len(q)
      BY <1>1
    <2>2. n \in Nat /\ last \in Nat /\ n >= 1 /\ n <= last /\ last <= z
      BY <1>1, <2>1
    <2>3. /\ \A i, k \in 1 .. n + (z - last) : i < k => Old(n, last, i) < Old(n, last, k)
          /\ \A j \in 1 .. z : j \notin n + 1 .. last =>
                \E k \in 1 .. n + (z - last) : Old(n, last, k) = j
      <3>1. z \in Nat
        OBVIOUS
      <3>2. n >= 1 /\ n <= last /\ last <= z /\ n \in Nat /\ last \in Nat
        BY ONLY <2>2
      <3> QED  BY ONLY <3>1, <3>2, Reindexed, Zenon
    <2>4. DOMAIN p = 1 .. n + (z - last) /\ DOMAIN q = 1 .. z
      BY <1>1, <1>7, <2>1
    <2> QED  BY ONLY <2>3, <2>4, Zenon
  <1> QED  BY ONLY <1>7, <1>8, <1>9, Zenon DEF TakenOut

\* The partial replies go before the replacement is written.
LEMMA DiscardStep ==
    ASSUME StoryInv, NEW t \in Requests, Discard(t)
    PROVE  StoryInv'
  <1> USE DEF StoryInv
  <1>0. /\ t \in Resumes /\ req[t].stage = "persist" /\ UNCHANGED lockVars
        /\ UNCHANGED <<slot, users, lockHeld, ctx, exists, comp, compressed, replied, pin, run, sessionFaults>>
        /\ Becomes(t, [req[t] EXCEPT !.stage = "discarded"])
    BY DEF Discard, lockVars
  <1>1. /\ req[t] \in RequestRecord /\ req[t].id # None /\ req[t].id = pin /\ req[t].msg \in NewTurns
        /\ t \notin NewTurns
    BY <1>0, RequestShape, SessionAssumption DEF IdentityIsSettled, MessageIsKnown, Ended
  <1>2. PICK r : r = [req[t] EXCEPT !.stage = "discarded"]
    OBVIOUS
  <1>3. /\ r \in RequestRecord /\ r.stage = "discarded" /\ r.id = req[t].id /\ r.msg = req[t].msg
        /\ req' = [req EXCEPT ![t] = r]
    BY <1>0, <1>1, <1>2 DEF RequestRecord, RequestStages, Becomes
  <1>4. WellFormed(t, r)
    BY <1>0, <1>1, <1>3 DEF WellFormed
  <1>5. CASE UNCHANGED <<rows, stolen>>
    <2>1. /\ req' \in [Requests -> RequestRecord] /\ req'[t] = r
          /\ \A u \in Requests : u # t => req'[u] = req[u]
          /\ MessageIsKnown' /\ MessagesAreSingle' /\ ReadersHaveSeen' /\ IdentityIsSettled'
      BY <1>0, <1>1, <1>3, <1>4, <1>5, RequestMoves
    <2>2. LockIsShared'
      BY <1>0, <1>3, <2>1, LockKept
    <2>3. ReplyIsKept'
      <3>1. \A u \in Resumes : req[u].stage = "discarded" => u # t /\ u \in Requests
        BY <1>0 DEF Requests
      <3> QED  BY <1>0, <1>5, <2>1, <3>1, ReplyStays
    <2>4. SessionTypeOK'
      BY <1>0, <1>5, <2>1 DEF SessionTypeOK
    <2> QED  BY <2>1, <2>2, <2>3, <2>4
  <1>6. CASE /\ UserRow(req[t].msg) \in ToSet(rows)
             /\ \E last \in IndexOf(req[t].msg) .. Len(rows) :
                  /\ RepliesEnd(req[t].msg, last)
                  /\ rows' = SubSeq(rows, 1, IndexOf(req[t].msg)) \o SubSeq(rows, last + 1, Len(rows))
                  /\ stolen' = stolen \cup
                        ({rows[i].of : i \in IndexOf(req[t].msg) + 1 .. last} \ {req[t].msg})
    <2>1. PICK n \in DOMAIN rows : rows[n] = UserRow(req[t].msg)
      BY <1>6, RowsAreASet
    <2>2. IndexOf(req[t].msg) = n /\ n \in 1 .. Len(rows) /\ Len(rows) \in Nat /\ DOMAIN rows = 1 .. Len(rows)
      BY <1>1, <2>1, IndexIsOne, RowShape
    <2>3. PICK last \in n .. Len(rows) :
              /\ \A j \in n + 1 .. last : rows[j].role = "assistant"
              /\ rows' = SubSeq(rows, 1, n) \o SubSeq(rows, last + 1, Len(rows))
              /\ stolen' = stolen \cup ({rows[i].of : i \in n + 1 .. last} \ {req[t].msg})
      BY <1>6, <2>2 DEF RepliesEnd
    <2>4. /\ rows' \in Seq(StoredRow)
          /\ \A k \in DOMAIN rows' : Old(n, last, k) \in DOMAIN rows /\ rows'[k] = rows[Old(n, last, k)]
          /\ \A i, k \in DOMAIN rows' : i < k => Old(n, last, i) < Old(n, last, k)
          /\ \A j \in DOMAIN rows : j \notin n + 1 .. last =>
                \E k \in DOMAIN rows' : Old(n, last, k) = j
      <3>1. rows \in Seq(StoredRow)
        BY RowShape
      <3>2. n \in 1 .. Len(rows) /\ last \in n .. Len(rows)
        BY <2>2
      <3>3. rows' \in Seq(StoredRow) /\ TakenOut(rows, n, last, rows')
        BY <2>3, <3>1, <3>2, RowsTakenOut
      <3> QED  BY <3>3 DEF TakenOut
    <2>5. \A k \in DOMAIN rows' : k \in Nat /\ k >= 1
      <3>1. DOMAIN rows' = 1 .. Len(rows') /\ Len(rows') \in Nat
        BY <2>4
      <3> QED  BY <3>1
    <2>6. /\ req' \in [Requests -> RequestRecord] /\ req'[t] = r
          /\ \A u \in Requests : u # t => req'[u] = req[u]
      BY <1>3 DEF SessionTypeOK
    <2>7. NewTurns \subseteq Requests /\ Resumes \subseteq Requests
      BY DEF Requests
    <2>8. MessageIsKnown' /\ IdentityIsSettled'
      <3>1. MessageIsKnown'
        BY <1>0, <1>1, <1>3, <2>6 DEF MessageIsKnown
      <3> QED  BY <1>0, <1>1, <1>3, <2>6, <3>1 DEF IdentityIsSettled
    <2>9. MessagesAreSingle'
      <3>1. ASSUME NEW k \in DOMAIN rows', rows'[k].role = "user"
            PROVE  rows'[k] = UserRow(rows'[k].of) /\ req'[rows'[k].of].stage \in {"streaming", "persist", "done"}
        <4>1. Old(n, last, k) \in DOMAIN rows /\ rows'[k] = rows[Old(n, last, k)]
          BY <2>4
        <4>2. /\ rows'[k] = UserRow(rows'[k].of) /\ req[rows'[k].of].stage \in {"streaming", "persist", "done"}
              /\ rows'[k].of \in NewTurns
          BY <3>1, <4>1, RowShape DEF MessagesAreSingle
        <4> QED  BY <1>1, <2>6, <2>7, <4>2
      <3>2. ASSUME NEW i \in DOMAIN rows', NEW k \in DOMAIN rows', rows'[i].role = "user", rows'[i] = rows'[k]
            PROVE  i = k
        <4>1. Old(n, last, i) = Old(n, last, k)
          BY <2>4, <3>2 DEF MessagesAreSingle
        <4>2. Old(n, last, i) \in Nat /\ Old(n, last, k) \in Nat /\ i \in Nat /\ k \in Nat
          BY <2>2, <2>4, <2>5
        <4>3. ~ (i < k) /\ ~ (k < i)
          BY <2>4, <4>1, <4>2
        <4> QED  BY <4>2, <4>3
      <3> QED  BY <3>1, <3>2 DEF MessagesAreSingle, UserRow
    <2>10. ReadersHaveSeen'
      <3>1. ASSUME NEW u \in NewTurns, req'[u].stage = "read", NEW k \in DOMAIN rows', rows'[k].role = "user"
            PROVE  rows'[k] \in req'[u].hist \cup req'[u].past
        BY <1>1, <2>4, <2>6, <2>7, <3>1 DEF ReadersHaveSeen, Saw
      <3>2. ASSUME NEW u \in Resumes, exists, req'[u].stage \in {"claim", "resolved", "queued", "ready"}
            PROVE  \E k \in DOMAIN rows' : /\ rows'[k] = UserRow(req'[u].msg)
                                           /\ \A i \in 1 .. k - 1 : rows'[i] \in req'[u].hist \cup req'[u].past
        <4>1. u # t /\ req'[u] = req[u] /\ req[u].msg \in NewTurns
          BY <1>3, <2>6, <2>7, <3>2 DEF MessageIsKnown, Ended
        <4>2. PICK j \in DOMAIN rows : /\ rows[j] = UserRow(req[u].msg)
                                       /\ \A i \in 1 .. j - 1 : rows[i] \in req[u].hist \cup req[u].past
          BY <3>2, <4>1 DEF ReadersHaveSeen, Saw
        <4>3. j \notin n + 1 .. last
          BY <2>3, <4>1, <4>2, UserRowShape
        <4>4. PICK k \in DOMAIN rows' : Old(n, last, k) = j
          BY <2>4, <4>3
        <4>5. ASSUME NEW i \in 1 .. k - 1 PROVE rows'[i] \in req'[u].hist \cup req'[u].past
          <5>1. i \in DOMAIN rows' /\ i < k
            <6>1. DOMAIN rows' = 1 .. Len(rows') /\ Len(rows') \in Nat
              BY <2>4
            <6> QED  BY <6>1
          <5>2. Old(n, last, i) < j /\ Old(n, last, i) \in DOMAIN rows /\ rows'[i] = rows[Old(n, last, i)]
            BY <2>4, <4>4, <5>1
          <5>3. Old(n, last, i) \in 1 .. j - 1
            BY <2>2, <5>2
          <5> QED  BY <4>1, <4>2, <5>2, <5>3
        <4>6. rows'[k] = UserRow(req'[u].msg)
          BY <2>4, <4>1, <4>2, <4>4
        <4> QED  BY <4>5, <4>6
      <3> QED  BY <1>0, <3>1, <3>2 DEF ReadersHaveSeen, Saw, UserRow
    <2>11. LockIsShared'
      BY <1>0, <1>3, <2>6, LockKept
    <2>12. stolen' \in SUBSET NewTurns
      <3>1. \A i \in n + 1 .. last : i \in DOMAIN rows
        BY <2>2
      <3> QED  BY <2>3, <3>1, RowShape DEF SessionTypeOK
    <2>13. ReplyIsKept'
      <3>1. ASSUME NEW m \in replied' \ stolen', sessionFaults' = 0 /\ exists'
            PROVE  \/ \E y \in ToSet(rows') : y.role = "assistant" /\ y.of = m
                   \/ \E u \in Resumes : req'[u].msg = m /\ req'[u].stage = "discarded"
        <4>1. m \in replied \ stolen /\ sessionFaults = 0 /\ exists
          BY <1>0, <2>3, <3>1
        <4>2. CASE \E u \in Resumes : req[u].msg = m /\ req[u].stage = "discarded"
          BY <1>0, <2>6, <2>7, <4>2
        <4>3. CASE m = req[t].msg
          BY <1>0, <1>3, <2>6, <4>3
        <4>4. CASE m # req[t].msg /\ \E y \in ToSet(rows) : y.role = "assistant" /\ y.of = m
          <5>1. PICK j \in DOMAIN rows : rows[j].role = "assistant" /\ rows[j].of = m
            BY <4>4, RowsAreASet
          <5>2. j \notin n + 1 .. last
            BY <2>3, <3>1, <4>4, <5>1
          <5>3. PICK k \in DOMAIN rows' : Old(n, last, k) = j
            BY <2>4, <5>2
          <5>4. rows'[k] \in ToSet(rows') /\ rows'[k] = rows[j]
            BY <2>4, <5>3 DEF ToSet
          <5> QED  BY <5>1, <5>4
        <4> QED  BY <4>1, <4>2, <4>3, <4>4 DEF ReplyIsKept
      <3> QED  BY <3>1 DEF ReplyIsKept
    <2>14. SessionTypeOK'
      BY <1>0, <2>4, <2>6, <2>12 DEF SessionTypeOK
    <2> QED  BY <2>8, <2>9, <2>10, <2>11, <2>13, <2>14, <2>6
  <1> QED  BY <1>5, <1>6 DEF Discard
-----------------------------------------------------------------------------
(* /compress, deletion and restart                                         *)

\* /compress touches the summary alone.
LEMMA CompressStep ==
    ASSUME StoryInv, CompressRead \/ CompressWrite
    PROVE  StoryInv'
  <1> USE DEF StoryInv
  <1>0. UNCHANGED <<slot, users, lockHeld, rows, exists, replied, stolen, pin, req, run, sessionFaults>>
    BY DEF CompressRead, CompressWrite, lockVars, ghosts
  <1>1. comp' \in Summary \cup {None} /\ ctx' \in Summary
    <2>1. CASE CompressRead
      BY <2>1, RowShape, RowsAreASet DEF CompressRead, Summary, SessionTypeOK
    <2>2. CASE CompressWrite
      BY <2>2 DEF CompressWrite, SessionTypeOK
    <2> QED  BY <2>1, <2>2
  <1>2. SessionTypeOK'
    BY <1>0, <1>1 DEF SessionTypeOK
  <1>3. MessageIsKnown' /\ IdentityIsSettled' /\ ReplyIsKept' /\ LockIsShared'
    BY <1>0 DEF MessageIsKnown, IdentityIsSettled, ReplyIsKept, LockIsShared, Using
  <1>4. MessagesAreSingle' /\ ReadersHaveSeen'
    BY <1>0 DEF MessagesAreSingle, ReadersHaveSeen, Saw, UserRow
  <1> QED  BY <1>2, <1>3, <1>4

LEMMA DeleteSessionStep ==
    ASSUME StoryInv, DeleteSession
    PROVE  StoryInv'
  <1> USE DEF StoryInv
  <1>0. /\ exists' = FALSE /\ rows' = <<>> /\ ctx' = NoSummary
        /\ slot' = IF users = 0 THEN None ELSE slot
        /\ UNCHANGED <<users, lockHeld, comp, compressed, replied, stolen, pin, req, run, sessionFaults>>
    BY DEF DeleteSession, Evictable, ghosts
  <1>1. DOMAIN rows' = {} /\ rows' \in Seq(StoredRow)
    BY <1>0
  <1>2. LockIsShared'
    <2>1. CASE users = 0
      <3>1. Using = {}
        BY <2>1, FS_EmptySet DEF LockIsShared
      <3> QED  BY <1>0, <3>1 DEF LockIsShared, Using
    <2>2. CASE users # 0
      BY <1>0, <2>2 DEF LockIsShared, Using
    <2> QED  BY <2>1, <2>2
  <1>3. MessageIsKnown' /\ IdentityIsSettled' /\ ReplyIsKept'
    BY <1>0 DEF MessageIsKnown, IdentityIsSettled, ReplyIsKept
  <1>4. MessagesAreSingle' /\ ReadersHaveSeen'
    BY <1>0, <1>1 DEF MessagesAreSingle, ReadersHaveSeen
  <1>5. ctx' \in Summary
    BY <1>0 DEF NoSummary, Summary
  <1>6. SessionTypeOK'
    BY <1>0, <1>1, <1>5 DEF SessionTypeOK
  <1> QED  BY <1>2, <1>3, <1>4, <1>6

LEMMA RestartServerStep ==
    ASSUME StoryInv, RestartServer
    PROVE  StoryInv'
  <1> USE DEF StoryInv
  <1>0. /\ sessionFaults' = sessionFaults + 1 /\ slot' = None /\ users' = 0 /\ lockHeld' = {}
        /\ run' = [m \in NewTurns |-> IF run[m] = "running" THEN "stopped" ELSE run[m]]
        /\ comp' = None
        /\ UNCHANGED <<rows, ctx, exists, compressed, replied, stolen, pin>>
    BY DEF RestartServer, ghosts
  <1>1. PICK r : r = [FreshRequest EXCEPT !.stage = "done"]
    OBVIOUS
  <1>2. r \in RequestRecord /\ r.stage = "done"
    BY <1>1 DEF FreshRequest, RequestRecord, RequestStages
  <1>3. req' = [t \in Requests |-> IF req[t].stage \in Ended THEN req[t] ELSE r]
    BY <1>1 DEF RestartServer
  <1>4. /\ req' \in [Requests -> RequestRecord]
        /\ \A t \in Requests : \/ req'[t] = req[t] /\ req[t].stage \in Ended
                               \/ req'[t] = r /\ req[t].stage \notin Ended
    BY <1>2, <1>3, RequestShape
  <1>5. \A t \in Requests : req'[t].stage \in Ended
    BY <1>2, <1>4 DEF Ended
  <1>6. NewTurns \subseteq Requests /\ Resumes \subseteq Requests
    BY DEF Requests
  <1>7. MessageIsKnown' /\ IdentityIsSettled' /\ ReadersHaveSeen'
    <2>1. MessageIsKnown' /\ IdentityIsSettled'
      BY <1>5 DEF MessageIsKnown, IdentityIsSettled
    <2>2. \A t \in Requests : req'[t].stage \notin {"read", "claim", "resolved", "queued", "ready"}
      BY <1>5 DEF Ended
    <2> QED  BY <1>6, <2>1, <2>2 DEF ReadersHaveSeen
  <1>8. LockIsShared'
    <2>1. Using' = {} /\ \A t \in Requests : req'[t].stage # "read"
      BY <1>5 DEF Using, Ended
    <2> QED  BY <1>0, <2>1, FS_EmptySet DEF LockIsShared
  <1>9. MessagesAreSingle'
    <2>1. ASSUME NEW i \in DOMAIN rows, rows[i].role = "user"
          PROVE  req'[rows[i].of].stage \in {"streaming", "persist", "done"}
      <3>1. rows[i].of \in Requests /\ req[rows[i].of].stage \in {"streaming", "persist", "done"}
        BY <1>6, <2>1, RowShape DEF MessagesAreSingle
      <3> QED  BY <1>2, <1>4, <3>1
    <2> QED  BY <1>0, <2>1 DEF MessagesAreSingle, UserRow
  <1>10. ReplyIsKept'
    BY <1>0 DEF ReplyIsKept, SessionTypeOK
  <1>11. SessionTypeOK'
    BY <1>0, <1>4 DEF SessionTypeOK
  <1> QED  BY <1>7, <1>8, <1>9, <1>10, <1>11

-----------------------------------------------------------------------------
LEMMA StoryInitially ==
    ASSUME SessionInit
    PROVE  StoryInv
  <1> USE DEF SessionInit
  <1>1. FreshRequest \in RequestRecord /\ FreshRequest.stage = "idle"
    BY DEF FreshRequest, RequestRecord, RequestStages
  <1>2. req \in [Requests -> RequestRecord] /\ \A t \in Requests : req[t].stage = "idle"
    BY <1>1
  <1>3. DOMAIN rows = {} /\ rows \in Seq(StoredRow) /\ NoSummary \in Summary
    BY DEF NoSummary, Summary
  <1>4. SessionTypeOK
    BY <1>2, <1>3 DEF SessionTypeOK
  <1>5. MessageIsKnown /\ IdentityIsSettled
    BY <1>2 DEF MessageIsKnown, IdentityIsSettled, Ended
  <1>6. LockIsShared
    <2>1. Using = {}
      BY <1>2 DEF Using
    <2> QED  BY <1>2, <2>1, FS_EmptySet DEF LockIsShared
  <1>7. MessagesAreSingle /\ ReplyIsKept
    BY <1>3 DEF MessagesAreSingle, ReplyIsKept
  <1>8. ReadersHaveSeen
    BY <1>2 DEF ReadersHaveSeen, Requests
  <1> QED  BY <1>4, <1>5, <1>6, <1>7, <1>8 DEF StoryInv

LEMMA StoryStep ==
    ASSUME StoryInv, [SessionNext]_sessionVars
    PROVE  StoryInv'
  <1>1. CASE UNCHANGED sessionVars
    <2>0. UNCHANGED <<slot, users, lockHeld, rows, ctx, exists, comp, compressed, replied, stolen, pin,
                      req, run, sessionFaults>>
      BY <1>1 DEF sessionVars, lockVars, rowVars, ghosts
    <2>1. SessionTypeOK' /\ MessageIsKnown' /\ IdentityIsSettled' /\ ReplyIsKept' /\ LockIsShared'
      BY <2>0 DEF StoryInv, SessionTypeOK, MessageIsKnown, IdentityIsSettled, ReplyIsKept, LockIsShared, Using
    <2>2. MessagesAreSingle' /\ ReadersHaveSeen'
      BY <2>0 DEF StoryInv, MessagesAreSingle, ReadersHaveSeen, Saw, UserRow
    <2> QED  BY <2>1, <2>2 DEF StoryInv
  <1>2. CASE \E t \in NewTurns, want \in Wants : SendMessage(t, want)
    BY <1>2, SendMessageStep
  <1>3. CASE \E t \in Resumes, m \in NewTurns : PrepareResume(t, m)
    BY <1>3, PrepareResumeStep
  <1>4. ASSUME NEW t \in Requests, RequestStep(t) \/ CancelTurn(t)
        PROVE  StoryInv'
    BY <1>4, ClaimIdentityStep, AcquireSlotStep, LockTurnStep, InsertUserStep, ResumeTurnStep,
       EndStreamStep, DiscardStep, AddReplyStep, CancelTurnStep DEF RequestStep
  <1>5. CASE EvictByOthers
    BY <1>5, EvictByOthersStep
  <1>6. CASE CompressRead \/ CompressWrite
    BY <1>6, CompressStep
  <1>7. CASE DeleteSession
    BY <1>7, DeleteSessionStep
  <1>8. CASE RestartServer
    BY <1>8, RestartServerStep
  <1> QED  BY <1>1, <1>2, <1>3, <1>4, <1>5, <1>6, <1>7, <1>8 DEF SessionNext

\* Along every behaviour of a session the lock of the table counts its users
\* and has one holder, a message has one row, and every reader of the history
\* has seen the rows that matter to it, for any number of requests and for any
\* _HISTORY_LIMIT.
THEOREM StoryInvariant == SessionSpec => []StoryInv
  <1>1. SessionInit => StoryInv
    BY StoryInitially
  <1>2. StoryInv /\ [SessionNext]_sessionVars => StoryInv'
    BY StoryStep
  <1> QED  BY <1>1, <1>2, PTL DEF SessionSpec

\* What a reader has seen makes its history complete.
LEMMA StoryIsSound ==
    ASSUME StoryInv
    PROVE  SessionIsSound
  <1> USE DEF StoryInv
  <1>1. /\ Len(rows) \in Nat /\ rows \in Seq(StoredRow) /\ DOMAIN rows = 1 .. Len(rows)
        /\ HistoryLimit \in Nat
    BY RowShape, SessionAssumption
  <1>2. \A x \in ToSet(Recent) : \E i \in DOMAIN rows : x = rows[i]
    <2> DEFINE low == Larger(0, Len(rows) - HistoryLimit) + 1
    <2>1. low \in Nat \ {0} /\ Len(rows) \in 0 .. Len(rows)
      BY <1>1 DEF Larger
    <2>2. Recent = SubSeq(rows, low, Len(rows))
      BY DEF Recent
    <2> HIDE DEF low
    <2>3. \A x : x \in ToSet(Recent) <=> \E i \in low .. Len(rows) : x = rows[i]
      BY <1>1, <2>1, <2>2, SliceMembers
    <2>4. \A i \in low .. Len(rows) : i \in DOMAIN rows
      BY <1>1, <2>1
    <2> QED  BY <2>3, <2>4
  <1>3. HistoryIsComplete
    <2>1. ASSUME NEW t \in NewTurns, req[t].stage = "read"
          PROVE  {x \in ToSet(Recent) : x.role = "user"} \subseteq req[t].hist \cup req[t].past
      BY <1>2, <2>1 DEF ReadersHaveSeen, Saw
    <2>2. ASSUME NEW t \in Resumes, req[t].stage \in {"claim", "resolved", "queued", "ready"}, exists
          PROVE  ToSet(Before(req[t].msg)) \subseteq req[t].hist \cup req[t].past
      <3>1. PICK m : m = req[t].msg
        OBVIOUS
      <3>2. m \in NewTurns
        BY <2>2, <3>1 DEF MessageIsKnown, Ended, Requests
      <3>3. PICK j \in DOMAIN rows : /\ rows[j] = UserRow(m)
                                     /\ \A i \in 1 .. j - 1 : rows[i] \in req[t].hist \cup req[t].past
        BY <2>2, <3>1 DEF ReadersHaveSeen, Saw
      <3>4. IndexOf(m) = j
        BY <3>2, <3>3, IndexIsOne
      <3>5. \A x \in ToSet(Before(m)) : \E i \in 1 .. j - 1 : x = rows[i]
        BY <3>2, <3>4, BeforeIsRead
      <3> QED  BY <3>1, <3>3, <3>5
    <2> QED  BY <2>1, <2>2 DEF HistoryIsComplete
  <1>4. IdentityIsPinned
    BY DEF IdentityIsSettled, IdentityIsPinned
  <1> QED  BY <1>3, <1>4 DEF SessionIsSound

\* A session keeps its story (session_service.py): the history a turn or a
\* resume works with is complete, the identity is claimed once, and a
\* delivered reply stays in the rows, for any number of overlapping turns and
\* resumes, evictions of the lock, uses of /compress and restarts.
THEOREM SessionIsAlwaysSound == SessionSpec => []SessionIsSound
  <1>1. StoryInv => SessionIsSound
    BY StoryIsSound
  <1> QED  BY <1>1, StoryInvariant, PTL

-----------------------------------------------------------------------------
(***************************************************************************)
(* ShellTranscript: TranscriptIsExact and StaticOnlyGrows, for any length  *)
(* of a stream, any number of turns and resumes, and any limit of the      *)
(* transcript.                                                             *)
(*                                                                         *)
(* Neither is inductive.  The screen is compared with the one that every   *)
(* event applied at once would have made, so what an event makes of a      *)
(* turn must be the same before and after the text held back, which needs  *)
(* that one batcher at most holds something and that a draft held back is  *)
(* the one draft open.  That, and that no card is left running, needs what *)
(* the server may send: a frame is about what is open when it is applied,  *)
(* after all the frames that are still on their way.  That a trim takes    *)
(* neither the turn of the stream nor the notice asked for needs a count   *)
(* of the lines behind the turn.                                           *)
(***************************************************************************)

DraftRec == [id : Nat, text : Seq(Nat)]
CardRec == [kind : {"thinking", "tool", "skill"}, id : Nat, state : AnyState]
TurnRec == [kind : {"turn"}, id : Nat, text : Seq(Nat), drafts : Seq(DraftRec), cards : Seq(CardRec),
            streaming : BOOLEAN]
LineRec == [kind : {"system"}, id : Nat, approval : Nat]
Entries == Seq(TurnRec \cup LineRec)
ScreenRec == [transcript : Entries, epoch : Nat, usage : Nat, approval : Nat]

\* What a turn may be told by its stream.
Text == Seq(Nat) \ {<<>>}
Event ==
    [type : {"message"}, text : Text] \cup [type : {"draft"}, id : Nat, text : Seq(Nat)]
    \cup [type : {"commit", "retract", "tool", "result"}, id : Nat]
    \cup [type : {"ask"}, id : Nat \ {0}, made : Nat]
    \cup [type : {"thinking", "usage", "await", "started"}]
    \cup [type : {"skill"}, status : {"running", "retry", "done"}]
    \cup [type : {"done"}, status : {"completed", "failed"}]

LEMMA RemoveAtFacts ==
  ASSUME NEW S, NEW w \in Seq(S), NEW k \in DOMAIN w
  PROVE  /\ RemoveAt(w, k) \in Seq(S)
         /\ Len(RemoveAt(w, k)) = Len(w) - 1
         /\ \A i \in 1 .. Len(w) - 1 : RemoveAt(w, k)[i] = IF i < k THEN w[i] ELSE w[i + 1]
  <1> DEFINE a == SubSeq(w, 1, k - 1)
             b == SubSeq(w, k + 1, Len(w))
  <1>1. Len(w) \in Nat /\ DOMAIN w = 1 .. Len(w) /\ k \in 1 .. Len(w) /\ \A i \in 1 .. Len(w) : w[i] \in S
    OBVIOUS
  <1>2. /\ a \in Seq(S) /\ Len(a) = k - 1 /\ \A i \in 1 .. k - 1 : a[i] = w[i]
    BY <1>1
  <1>3. /\ b \in Seq(S) /\ Len(b) = Len(w) - k /\ \A i \in 1 .. Len(w) - k : b[i] = w[k + i]
    <2>1. /\ k + 1 \in Int /\ Len(w) \in Int /\ \A i \in k + 1 .. Len(w) : w[i] \in S
      BY <1>1
    <2>2. /\ b \in Seq(S) /\ Len(b) = IF k + 1 <= Len(w) THEN Len(w) - (k + 1) + 1 ELSE 0
          /\ \A i \in 1 .. Len(w) - (k + 1) + 1 : b[i] = w[(k + 1) + i - 1]
      BY <2>1, SubSeqProperties
    <2>3. Len(w) - (k + 1) + 1 = Len(w) - k /\ (~ k + 1 <= Len(w) => Len(w) - k = 0)
      BY <1>1
    <2>4. \A i \in 1 .. Len(w) - k : (k + 1) + i - 1 = k + i
      BY <1>1
    <2> HIDE DEF b
    <2> QED  BY <2>2, <2>3, <2>4
  <1> HIDE DEF a, b
  <1>4. /\ a \o b \in Seq(S) /\ Len(a \o b) = Len(a) + Len(b)
        /\ \A i \in 1 .. Len(a) + Len(b) : (a \o b)[i] = IF i <= Len(a) THEN a[i] ELSE b[i - Len(a)]
    BY <1>2, <1>3, ConcatProperties
  <1>5. Len(a) + Len(b) = Len(w) - 1
    BY <1>1, <1>2, <1>3
  <1>6. ASSUME NEW i \in 1 .. Len(w) - 1 PROVE (a \o b)[i] = IF i < k THEN w[i] ELSE w[i + 1]
    <2>1. CASE i < k
      BY <2>1, <1>1, <1>2, <1>4, <1>5
    <2>2. CASE ~ i < k
      <3>1. i - Len(a) \in 1 .. Len(w) - k /\ k + (i - Len(a)) = i + 1 /\ ~ i <= Len(a) /\ ~ i < k
        BY <2>2, <1>1, <1>2
      <3> QED BY <3>1, <1>3, <1>4, <1>5
    <2> QED BY <2>1, <2>2, <1>1
  <1> QED BY <1>4, <1>5, <1>6 DEF RemoveAt, a, b

-----------------------------------------------------------------------------
(* Cards                                                                   *)

Kinds == {"thinking", "tool", "skill"}

\* Cards with the same kinds and ids, one by one.
SameCards(cards, next) ==
    /\ Len(next) = Len(cards)
    /\ \A i \in 1 .. Len(cards) : next[i].kind = cards[i].kind /\ next[i].id = cards[i].id

LEMMA FinishThinkingFacts ==
  ASSUME NEW cards \in Seq(CardRec)
  PROVE  LET f == FinishThinking(cards)
         IN  /\ f \in Seq(CardRec) /\ SameCards(cards, f)
             /\ \A i \in 1 .. Len(cards) :
                   f[i].state = IF i = Len(cards) /\ cards[i].kind = "thinking" THEN "done"
                                ELSE cards[i].state
             /\ FinishThinking(f) = f
  <1> DEFINE n == Len(cards)
             f == FinishThinking(cards)
             done == [cards[n] EXCEPT !.state = "done"]
  <1>1. n \in Nat /\ \A i \in 1 .. n : cards[i] \in CardRec
    OBVIOUS
  <1>2. CASE cards # <<>> /\ cards[n].kind = "thinking"
    <2>1. n \in 1 .. n /\ cards[n] \in CardRec /\ done \in CardRec /\ done.kind = "thinking"
          /\ done.id = cards[n].id /\ done.state = "done"
      BY <1>1, <1>2 DEF CardRec, AnyState
    <2>2. f = [cards EXCEPT ![n] = done]
      BY <1>2 DEF FinishThinking, Last
    <2> HIDE DEF f, done
    <2>3. f \in Seq(CardRec) /\ Len(f) = n /\ \A i \in 1 .. n : f[i] = IF i = n THEN done ELSE cards[i]
      BY <2>1, <2>2, ExceptSeq
    <2>4. [f EXCEPT ![n] = [f[n] EXCEPT !.state = "done"]] = f
      <3>1. f[n] = done /\ [done EXCEPT !.state = "done"] = done
        BY <2>1, <2>3 DEF CardRec
      <3>2. [f EXCEPT ![n] = done] = f
        BY <2>1, <2>3, <3>1
      <3> QED BY <3>1, <3>2
    <2>5. FinishThinking(f) = f
      BY <2>3, <2>4 DEF FinishThinking, Last
    <2> QED BY <2>1, <2>3, <2>5, <1>2 DEF SameCards, f
  <1>3. CASE ~ (cards # <<>> /\ cards[n].kind = "thinking")
    <2>1. f = cards
      BY <1>3 DEF FinishThinking, Last
    <2>2. \A i \in 1 .. n : i = n => cards # <<>>
      BY <1>1
    <2> QED BY <2>1, <2>2, <1>1, <1>3 DEF SameCards
  <1> QED BY <1>2, <1>3

\* p is cards with one more card, or with another state of one.
IsPut(cards, p, kind, id, states, state) ==
    /\ p \in Seq(CardRec)
    /\ \/ /\ p = Append(cards, Card(kind, id, state)) /\ Len(p) = Len(cards) + 1
          /\ p[Len(cards) + 1] = Card(kind, id, state)
          /\ \A i \in 1 .. Len(cards) :
                /\ p[i] = cards[i]
                /\ ~ (cards[i].kind = kind /\ cards[i].id = id /\ cards[i].state \in states)
       \/ \E m \in 1 .. Len(cards) :
             /\ SameCards(cards, p)
             /\ cards[m].kind = kind /\ cards[m].id = id /\ cards[m].state \in states
             /\ p[m].state = state
             /\ \A i \in 1 .. Len(cards) : i # m => p[i] = cards[i]

LEMMA PutCardFacts ==
  ASSUME NEW cards \in Seq(CardRec), NEW kind \in Kinds, NEW id \in Nat,
         NEW states, NEW state \in AnyState,
         NEW p, p = PutCard(cards, kind, id, states, state)
  PROVE  IsPut(cards, p, kind, id, states, state)
  <1> DEFINE n == Len(cards)
             open == {i \in DOMAIN cards : cards[i].kind = kind /\ cards[i].id = id
                                           /\ cards[i].state \in states}
  <1>1. n \in Nat /\ DOMAIN cards = 1 .. n /\ \A i \in 1 .. n : cards[i] \in CardRec
    OBVIOUS
  <1>2. CASE open = {}
    <2>1. p = Append(cards, Card(kind, id, state)) /\ Card(kind, id, state) \in CardRec
      BY <1>2 DEF PutCard, Card, CardRec, Kinds
    <2>2. \A i \in 1 .. n : ~ (cards[i].kind = kind /\ cards[i].id = id /\ cards[i].state \in states)
      BY <1>1, <1>2
    <2> HIDE DEF open
    <2> QED BY <2>1, <2>2, <1>1, AppendProperties DEF IsPut
  <1>3. CASE open # {}
    <2> DEFINE m == Max(open)
               new == [cards[m] EXCEPT !.state = state]
    <2>1. m \in open
      <3>1. open \in SUBSET (0 .. n)
        BY <1>1
      <3> HIDE DEF open
      <3> QED BY <1>1, <1>3, <3>1, MaxOfSome
    <2>2. p = [cards EXCEPT ![m] = new]
      BY <1>3 DEF PutCard
    <2>3. /\ m \in 1 .. n /\ cards[m] \in CardRec /\ cards[m].kind = kind /\ cards[m].id = id
          /\ cards[m].state \in states
      BY <1>1, <2>1
    <2> HIDE DEF m, open
    <2>4. new \in CardRec /\ new.kind = kind /\ new.id = id /\ new.state = state
      BY <2>3 DEF CardRec
    <2> HIDE DEF new
    <2>5. p \in Seq(CardRec) /\ Len(p) = n /\ \A i \in 1 .. n : p[i] = IF i = m THEN new ELSE cards[i]
      BY <2>2, <2>3, <2>4, ExceptSeq
    <2>6. SameCards(cards, p)
      BY <2>3, <2>4, <2>5 DEF SameCards
    <2> QED BY <2>3, <2>4, <2>5, <2>6 DEF IsPut
  <1> QED BY <1>2, <1>3

-----------------------------------------------------------------------------
(* Drafts                                                                  *)

UniqueIds(drafts) == \A i, j \in DOMAIN drafts : drafts[i].id = drafts[j].id => i = j
DraftIds(drafts) == {drafts[i].id : i \in DOMAIN drafts}

LEMMA TextIsAssociative ==
  ASSUME NEW a \in Seq(Nat), NEW b \in Seq(Nat), NEW c \in Seq(Nat)
  PROVE  (a \o b) \o c = a \o (b \o c)
  BY ConcatAssociative

LEMMA DraftAtFacts ==
  ASSUME NEW drafts \in Seq(DraftRec), NEW id
  PROVE  /\ DraftAt(drafts, id) # {} => /\ Min(DraftAt(drafts, id)) \in 1 .. Len(drafts)
                                        /\ drafts[Min(DraftAt(drafts, id))].id = id
         /\ DraftAt(drafts, id) = {} => \A i \in 1 .. Len(drafts) : drafts[i].id # id
  <1>1. Len(drafts) \in Nat /\ DOMAIN drafts = 1 .. Len(drafts)
    OBVIOUS
  <1>2. ASSUME DraftAt(drafts, id) # {} PROVE Min(DraftAt(drafts, id)) \in DraftAt(drafts, id)
    <2>1. DraftAt(drafts, id) \in SUBSET Nat
      BY <1>1 DEF DraftAt
    <2> QED BY <2>1, <1>2, MinOfSome
  <1> QED BY <1>1, <1>2 DEF DraftAt

LEMMA AppendDraftFacts ==
  ASSUME NEW drafts \in Seq(DraftRec), NEW id \in Nat, NEW text \in Seq(Nat)
  PROVE  LET a == AppendDraft(drafts, id, text)
         IN  /\ a \in Seq(DraftRec)
             /\ UniqueIds(drafts) => UniqueIds(a)
             /\ DraftIds(a) = DraftIds(drafts) \cup {id}
             /\ \A more \in Seq(Nat) : AppendDraft(a, id, more) = AppendDraft(drafts, id, text \o more)
  <1> DEFINE a == AppendDraft(drafts, id, text)
             n == Len(drafts)
  <1>1. n \in Nat /\ DOMAIN drafts = 1 .. n /\ \A i \in 1 .. n : drafts[i] \in DraftRec
    OBVIOUS
  <1>2. CASE DraftAt(drafts, id) = {}
    <2> DEFINE new == [id |-> id, text |-> text]
    <2>1. a = Append(drafts, new) /\ new \in DraftRec /\ new.id = id /\ new.text = text
      BY <1>2 DEF AppendDraft, DraftRec
    <2> HIDE DEF a
    <2>2. /\ a \in Seq(DraftRec) /\ Len(a) = n + 1 /\ a[n + 1] = new /\ DOMAIN a = 1 .. n + 1
          /\ \A i \in 1 .. n : a[i] = drafts[i]
      <3> HIDE DEF new
      <3> QED BY <2>1, <1>1, AppendProperties
    <2>3. \A i \in 1 .. n : drafts[i].id # id
      BY <1>2, DraftAtFacts
    <2>4. DraftIds(a) = DraftIds(drafts) \cup {id}
      <3>1. \A i \in 1 .. n + 1 : i \in 1 .. n \/ i = n + 1
        BY <1>1
      <3>2. ASSUME NEW x \in DraftIds(a) PROVE x \in DraftIds(drafts) \cup {id}
        BY <3>1, <2>2, <2>1, <1>1 DEF DraftIds
      <3>3. ASSUME NEW x \in DraftIds(drafts) \cup {id} PROVE x \in DraftIds(a)
        <4>1. CASE x = id
          <5>1. n + 1 \in DOMAIN a /\ a[n + 1].id = x
            BY <4>1, <2>1, <2>2, <1>1
          <5> QED BY <5>1 DEF DraftIds
        <4>2. CASE x \in DraftIds(drafts)
          <5>1. PICK i \in 1 .. n : drafts[i].id = x
            BY <4>2, <1>1 DEF DraftIds
          <5>2. i \in DOMAIN a /\ a[i].id = x
            BY <5>1, <2>2, <1>1
          <5> QED BY <5>2 DEF DraftIds
        <4> QED BY <4>1, <4>2
      <3> QED BY <3>2, <3>3
    <2>5. UniqueIds(drafts) => UniqueIds(a)
      <3>1. \A i \in 1 .. n + 1 : a[i].id = IF i = n + 1 THEN id ELSE drafts[i].id
        BY <2>1, <2>2, <1>1
      <3> QED BY <3>1, <2>2, <2>3, <1>1 DEF UniqueIds
    <2>6. ASSUME NEW more \in Seq(Nat)
          PROVE  AppendDraft(a, id, more) = AppendDraft(drafts, id, text \o more)
      <3> DEFINE newer == [id |-> id, text |-> text \o more]
                 b == AppendDraft(a, id, more)
      <3>1. DraftAt(a, id) = {n + 1}
        BY <2>1, <2>2, <2>3, <1>1 DEF DraftAt
      <3>2. Min(DraftAt(a, id)) = n + 1
        <4>1. {n + 1} \in SUBSET Nat /\ {n + 1} # {}
          BY <1>1
        <4> QED BY <3>1, <4>1, MinOfSome
      <3>3. b = [a EXCEPT ![n + 1] = newer]
        <4>1. b = [a EXCEPT ![n + 1] = [a[n + 1] EXCEPT !.text = @ \o more]]
          BY <3>1, <3>2 DEF AppendDraft
        <4>2. [new EXCEPT !.text = @ \o more] = newer
          <5>1. [new EXCEPT !.text = @ \o more] = [new EXCEPT !.text = text \o more]
            BY <2>1
          <5> DEFINE longer == text \o more
          <5>2. [new EXCEPT !.text = longer] = [id |-> id, text |-> longer]
            <6> HIDE DEF longer
            <6> QED OBVIOUS
          <5> QED BY <5>1, <5>2
        <4> HIDE DEF b, new, newer
        <4> QED BY <4>1, <4>2, <2>2
      <3>4. AppendDraft(drafts, id, text \o more) = Append(drafts, newer)
        BY <1>2 DEF AppendDraft
      <3>5. newer \in DraftRec
        <4>1. text \o more \in Seq(Nat)
          BY ConcatProperties
        <4> QED BY <4>1 DEF DraftRec
      <3> HIDE DEF newer, new
      <3>6. [a EXCEPT ![n + 1] = newer] = Append(drafts, newer)
        <4> DEFINE l == [a EXCEPT ![n + 1] = newer]
                   r == Append(drafts, newer)
        <4>1. n + 1 \in 1 .. Len(a)
          BY <2>2, <1>1
        <4>2. l \in Seq(DraftRec) /\ Len(l) = n + 1 /\ \A i \in 1 .. n + 1 : l[i] = IF i = n + 1 THEN newer ELSE a[i]
          BY <4>1, <2>2, <3>5, ExceptSeq
        <4>3. r \in Seq(DraftRec) /\ Len(r) = n + 1 /\ r[n + 1] = newer /\ \A i \in 1 .. n : r[i] = drafts[i]
          BY <3>5, <1>1, AppendProperties
        <4> HIDE DEF l, r
        <4>4. ASSUME NEW i \in 1 .. n + 1 PROVE l[i] = r[i]
          <5>1. CASE i = n + 1
            BY <5>1, <4>2, <4>3
          <5>2. CASE i # n + 1
            <6>1. i \in 1 .. n
              BY <5>2, <1>1
            <6>2. l[i] = a[i] /\ r[i] = drafts[i] /\ a[i] = drafts[i]
              BY <6>1, <5>2, <4>2, <4>3, <2>2
            <6> QED BY <6>2
          <5> QED BY <5>1, <5>2
        <4> QED BY <4>2, <4>3, <4>4, SeqEqual DEF l, r
      <3> QED BY <3>3, <3>4, <3>6
    <2> QED BY <2>2, <2>4, <2>5, <2>6 DEF a
  <1>3. CASE DraftAt(drafts, id) # {}
    <2> DEFINE m == Min(DraftAt(drafts, id))
               Longer(t) == [drafts[m] EXCEPT !.text = @ \o t]
               With(t) == [drafts EXCEPT ![m] = Longer(t)]
    <2>1. m \in 1 .. n /\ drafts[m].id = id /\ drafts[m] \in DraftRec
      BY <1>3, <1>1, DraftAtFacts
    <2>2. \A t : AppendDraft(drafts, id, t) = With(t)
      BY <1>3 DEF AppendDraft
    <2> HIDE DEF m
    <2>3. \A t \in Seq(Nat) : Longer(t) \in DraftRec /\ Longer(t).id = id /\ Longer(t).text = drafts[m].text \o t
      <3> TAKE t \in Seq(Nat)
      <3>1. drafts[m].text \o t \in Seq(Nat)
        BY <2>1, ConcatProperties DEF DraftRec
      <3> QED BY <2>1, <3>1 DEF DraftRec
    <2> HIDE DEF Longer
    <2>4. \A t \in Seq(Nat) : With(t) \in Seq(DraftRec) /\ Len(With(t)) = n
             /\ \A i \in 1 .. n : With(t)[i] = IF i = m THEN Longer(t) ELSE drafts[i]
      BY <2>1, <2>3, ExceptSeq
    <2>5. a = With(text)
      BY <2>2
    <2> HIDE DEF With, a
    <2>6. /\ a \in Seq(DraftRec) /\ Len(a) = n /\ DOMAIN a = 1 .. n
          /\ \A i \in 1 .. n : a[i].id = drafts[i].id
      <3>1. /\ a \in Seq(DraftRec) /\ Len(a) = n
            /\ \A i \in 1 .. n : a[i] = IF i = m THEN Longer(text) ELSE drafts[i]
        BY <2>4, <2>5
      <3>2. Longer(text).id = id
        BY <2>3
      <3>3. DOMAIN a = 1 .. n
        BY <3>1
      <3>4. ASSUME NEW i \in 1 .. n PROVE a[i].id = drafts[i].id
        BY <3>1, <3>2, <2>1
      <3> QED BY <3>1, <3>3, <3>4
    <2>7. DraftIds(a) = DraftIds(drafts) /\ id \in DraftIds(drafts) /\ (UniqueIds(drafts) => UniqueIds(a))
      BY <2>6, <2>1, <1>1 DEF DraftIds, UniqueIds
    <2>8. ASSUME NEW more \in Seq(Nat)
          PROVE  AppendDraft(a, id, more) = AppendDraft(drafts, id, text \o more)
      <3>1. DraftAt(a, id) = DraftAt(drafts, id)
        BY <2>6, <1>1 DEF DraftAt
      <3>2. AppendDraft(a, id, more) = [a EXCEPT ![m] = [a[m] EXCEPT !.text = @ \o more]]
        BY <3>1, <1>3 DEF AppendDraft, m
      <3>3. text \o more \in Seq(Nat)
        BY ConcatProperties
      <3>4. [a[m] EXCEPT !.text = @ \o more] = Longer(text \o more)
        <4>1. a[m] = Longer(text)
          BY <2>1, <2>4, <2>5
        <4>2. drafts[m].text \in Seq(Nat)
          BY <2>1 DEF DraftRec
        <4>3. (drafts[m].text \o text) \o more = drafts[m].text \o (text \o more)
          BY <4>2, TextIsAssociative
        <4> QED BY <4>1, <4>3, <2>1 DEF Longer, DraftRec
      <3>5. [a EXCEPT ![m] = Longer(text \o more)] = With(text \o more)
        <4> DEFINE l == [a EXCEPT ![m] = Longer(text \o more)]
        <4>1. l \in Seq(DraftRec) /\ Len(l) = n
              /\ \A i \in 1 .. n : l[i] = IF i = m THEN Longer(text \o more) ELSE a[i]
          BY <2>1, <2>3, <2>6, <3>3, ExceptSeq
        <4> HIDE DEF l
        <4>2. \A i \in 1 .. n : l[i] = With(text \o more)[i]
          BY <4>1, <2>4, <2>5, <3>3
        <4>3. With(text \o more) \in Seq(DraftRec) /\ Len(With(text \o more)) = n
          BY <2>4, <3>3
        <4>4. Len(l) = Len(With(text \o more)) /\ \A i \in 1 .. Len(l) : l[i] = With(text \o more)[i]
          BY <4>1, <4>2, <4>3
        <4> QED BY <4>1, <4>3, <4>4, SeqEqual DEF l
      <3> QED BY <3>2, <3>4, <3>5, <2>2
    <2> QED BY <2>6, <2>7, <2>8 DEF a
  <1> QED BY <1>2, <1>3

LEMMA WithoutDraftFacts ==
  ASSUME NEW drafts \in Seq(DraftRec), NEW id
  PROVE  LET w == WithoutDraft(drafts, id)
         IN  /\ w \in Seq(DraftRec)
             /\ UniqueIds(drafts) => UniqueIds(w) /\ DraftIds(w) \subseteq DraftIds(drafts) \ {id}
             /\ DraftText(drafts, id) \in Seq(Nat)
  <1> DEFINE w == WithoutDraft(drafts, id)
             n == Len(drafts)
  <1>1. n \in Nat /\ DOMAIN drafts = 1 .. n /\ \A i \in 1 .. n : drafts[i] \in DraftRec
    OBVIOUS
  <1>2. CASE DraftAt(drafts, id) = {}
    BY <1>1, <1>2, DraftAtFacts DEF WithoutDraft, DraftIds, DraftText
  <1>3. CASE DraftAt(drafts, id) # {}
    <2> DEFINE m == Min(DraftAt(drafts, id))
    <2>1. m \in 1 .. n /\ drafts[m].id = id /\ drafts[m] \in DraftRec
      BY <1>3, <1>1, DraftAtFacts
    <2>2. w = RemoveAt(drafts, m) /\ DraftText(drafts, id) = drafts[m].text
      BY <1>3 DEF WithoutDraft, DraftText
    <2> HIDE DEF m, w
    <2>3. /\ w \in Seq(DraftRec) /\ Len(w) = n - 1
          /\ \A i \in 1 .. n - 1 : w[i] = IF i < m THEN drafts[i] ELSE drafts[i + 1]
      BY <2>1, <2>2, <1>1, RemoveAtFacts
    <2>4. DOMAIN w = 1 .. n - 1
      BY <2>3
    <2>5. ASSUME UniqueIds(drafts) PROVE UniqueIds(w) /\ DraftIds(w) \subseteq DraftIds(drafts) \ {id}
      <3> DEFINE kept(i) == IF i < m THEN i ELSE i + 1
      <3>1. \A i \in 1 .. n - 1 : kept(i) \in 1 .. n /\ kept(i) # m /\ w[i] = drafts[kept(i)]
        BY <2>1, <2>3, <1>1
      <3>2. \A i, j \in 1 .. n - 1 : kept(i) = kept(j) => i = j
        BY <2>1, <1>1
      <3> HIDE DEF kept
      <3>3. UniqueIds(w)
        BY <2>5, <3>1, <3>2, <2>4, <1>1 DEF UniqueIds
      <3>4. \A i \in 1 .. n - 1 : w[i].id \in DraftIds(drafts) /\ w[i].id # id
        BY <2>5, <3>1, <2>1, <1>1 DEF UniqueIds, DraftIds
      <3> QED BY <3>3, <3>4, <2>4 DEF DraftIds
    <2> QED BY <2>1, <2>2, <2>3, <2>5 DEF w, DraftRec
  <1> QED BY <1>2, <1>3

LEMMA AllDraftTextFacts ==
  ASSUME NEW drafts \in Seq(DraftRec)
  PROVE  AllDraftText(drafts) \in Seq(Nat) /\ (drafts = <<>> => AllDraftText(drafts) = <<>>)
  <1> DEFINE n == Len(drafts)
             Texts == Seq(Nat)
             step == [p \in Texts \X (1 .. n) |-> JoinDraft(p[1], drafts[p[2]])]
             Eq(it) == it = [s \in SUBSET (1 .. n) |->
                               IF s = {} THEN <<>> ELSE JoinDraft(it[s \ {Max(s)}], drafts[Max(s)])]
             it == CHOOSE it : Eq(it)
  <1>1. n \in Nat /\ DOMAIN drafts = 1 .. n /\ <<>> \in Texts /\ \A i \in 1 .. n : drafts[i] \in DraftRec
    OBVIOUS
  <1>2. step \in [Texts \X (1 .. n) -> Texts]
    <2>1. ASSUME NEW p \in Texts \X (1 .. n) PROVE JoinDraft(p[1], drafts[p[2]]) \in Texts
      <3>1. p[1] \in Seq(Nat) /\ drafts[p[2]].text \in Seq(Nat)
        BY <1>1 DEF DraftRec
      <3> QED BY <3>1, ConcatProperties DEF JoinDraft
    <2> HIDE DEF Texts
    <2> QED BY <2>1
  <1>3. PICK j \in [SUBSET (1 .. n) -> Texts] : IsIteration(j, n, <<>>, step)
    <2> HIDE DEF n, Texts, step
    <2> QED BY <1>1, <1>2, IterationExists
  <1>4. Eq(j)
    <2>1. ASSUME NEW s \in SUBSET (1 .. n), s # {}
          PROVE  step[<<j[s \ {Max(s)}], Max(s)>>] = JoinDraft(j[s \ {Max(s)}], drafts[Max(s)])
      <3>0. s \in SUBSET (0 .. n)
        OBVIOUS
      <3>1. Max(s) \in 1 .. n
        BY <2>1, <3>0, <1>1, MaxOfSome
      <3>2. j[s \ {Max(s)}] \in Texts
        BY <1>3
      <3> HIDE DEF Texts
      <3> QED BY <3>1, <3>2
    <2> HIDE DEF step
    <2> QED BY <2>1, <1>3 DEF IsIteration
  <1>5. Eq(it)
    BY <1>4
  <1>6. AllDraftText(drafts) = it[1 .. n]
    BY <1>1 DEF AllDraftText, FoldLeft, MapThenFoldSet
  <1>7. \A s \in SUBSET (1 .. n) : it[s] \in Texts
    <2> HIDE DEF it
    <2> DEFINE Good == {k \in 0 .. n : \A s \in SUBSET (1 .. k) : it[s] \in Texts}
    <2>1. 0 \in Good
      <3>1. \A s \in SUBSET (1 .. 0) : s = {} /\ s \in SUBSET (1 .. n)
        OBVIOUS
      <3>2. it[{}] = <<>>
        BY <1>5, <3>1
      <3>3. ASSUME NEW s \in SUBSET (1 .. 0) PROVE it[s] \in Texts
        <4>1. s = {}
          OBVIOUS
        <4> HIDE DEF Texts
        <4> QED BY <4>1, <3>2, <1>1
      <3> HIDE DEF Texts
      <3> QED BY <3>3, <1>1
    <2>2. ASSUME NEW k \in 1 .. n, k - 1 \in Good PROVE k \in Good
      <3>0. k \in 0 .. n /\ k \in Nat
        OBVIOUS
      <3>1. ASSUME NEW s \in SUBSET (1 .. k) PROVE it[s] \in Texts
        <4>1. CASE s \in SUBSET (1 .. k - 1)
          BY <4>1, <2>2
        <4>2. CASE ~ s \in SUBSET (1 .. k - 1)
          <5>1. k \in s /\ s # {} /\ s \in SUBSET (0 .. k) /\ s \in SUBSET (1 .. n)
            BY <4>2, <3>0
          <5>2. Max(s) \in s /\ k <= Max(s)
            BY <5>1, <3>0, MaxOfSome
          <5>3. Max(s) = k
            <6>1. Max(s) \in 1 .. k
              BY <5>2
            <6> QED BY <6>1, <5>2, <3>0
          <5>4. s \ {k} \in SUBSET (1 .. k - 1)
            BY <3>0
          <5>5. it[s \ {k}] \in Seq(Nat) /\ drafts[k].text \in Seq(Nat)
            BY <5>4, <2>2, <1>1 DEF DraftRec
          <5>6. it[s] = JoinDraft(it[s \ {k}], drafts[k])
            BY <1>5, <5>1, <5>3
          <5> QED BY <5>5, <5>6, ConcatProperties DEF JoinDraft
        <4> QED BY <4>1, <4>2
      <3> QED BY <3>0, <3>1
    <2> HIDE DEF Good
    <2>3. n \in Good
      <3>1. \A k \in 0 .. n : k \in Good
        BY <1>1, <2>1, <2>2, IntervalInduction
      <3> QED BY <3>1, <1>1
    <2> QED BY <2>3 DEF Good
  <1>8. drafts = <<>> => it[1 .. n] = <<>>
    <2> SUFFICES ASSUME drafts = <<>> PROVE it[1 .. n] = <<>>
      OBVIOUS
    <2>1. n = 0 /\ 1 .. n = {} /\ {} \in SUBSET (1 .. n)
      OBVIOUS
    <2> HIDE DEF it, n
    <2> QED BY <2>1, <1>5
  <1> QED BY <1>6, <1>7, <1>8

-----------------------------------------------------------------------------
(* Turns                                                                   *)

\* What is open of a turn: its drafts, and the tools that show as running.
RunningTools(cards) ==
    {cards[i].id : i \in {j \in DOMAIN cards : cards[j].kind = "tool" /\ cards[j].state \in Running}}
OpenOf(turn) == ({"draft"} \X DraftIds(turn.drafts)) \cup ({"tool"} \X RunningTools(turn.cards))

\* What a frame opens, and what it closes.
Opens(e) ==
    CASE e.type = "draft" -> {<<"draft", e.id>>}
      [] e.type = "tool" -> {<<"tool", e.id>>}
      [] e.type = "ask" -> {<<"notice", e.id>>}
      [] OTHER -> {}
Closes(e) ==
    CASE e.type \in {"commit", "retract"} -> {<<"draft", e.id>>}
      [] e.type = "result" -> {<<"tool", e.id>>, <<"notice", e.id>>}
      [] OTHER -> {}

NoThought(cards) ==
    \A i \in DOMAIN cards : cards[i].kind = "thinking" => cards[i].state \notin Running

\* The cards of a turn under way: only the last can be a thought under way, and
\* a tool has one card.
TidyCards(cards) ==
    /\ \A i \in DOMAIN cards :
          cards[i].kind = "thinking" /\ cards[i].state \in Running =>
             i = Len(cards) /\ cards[i] = Card("thinking", 0, "running")
    /\ \A i, j \in DOMAIN cards :
          cards[i].kind = "tool" /\ cards[j].kind = "tool" /\ cards[i].id = cards[j].id => i = j

Tidy(turn) == TidyCards(turn.cards) /\ UniqueIds(turn.drafts)

\* A turn that nothing changes any more.
Finished(turn) ==
    /\ ~ turn.streaming /\ turn.drafts = <<>>
    /\ \A i \in DOMAIN turn.cards : turn.cards[i].state \notin Running
    /\ turn.cards # <<>> /\ Last(turn.cards).kind = "thinking" => Last(turn.cards).state = "done"

LEMMA EventFields ==
  ASSUME NEW e \in Event
  PROVE  /\ e.type \in {"message", "draft", "commit", "retract", "tool", "result", "ask", "thinking",
                        "usage", "await", "started", "skill", "done"}
         /\ e.type \in {"message", "draft"} => e.text \in Seq(Nat)
         /\ e.type = "message" => e.text # <<>>
         /\ e.type \in {"draft", "commit", "retract", "tool", "result", "ask"} => e.id \in Nat
         /\ e.type = "ask" => e.made \in Nat /\ e.id # 0
         /\ e.type = "skill" => e.status \in {"running", "retry", "done"}
         /\ e.type = "done" => e.status \in {"completed", "failed"}
  BY DEF Event, Text

LEMMA FinishedCards ==
  ASSUME NEW cards \in Seq(CardRec), TidyCards(cards)
  PROVE  LET f == FinishThinking(cards)
         IN  TidyCards(f) /\ NoThought(f) /\ RunningTools(f) = RunningTools(cards)
  <1> DEFINE f == FinishThinking(cards)
             n == Len(cards)
  <1>1. n \in Nat /\ DOMAIN cards = 1 .. n
    OBVIOUS
  <1>2. /\ f \in Seq(CardRec) /\ SameCards(cards, f)
        /\ \A i \in 1 .. n :
              f[i].state = IF i = n /\ cards[i].kind = "thinking" THEN "done" ELSE cards[i].state
    BY FinishThinkingFacts
  <1> HIDE DEF f
  <1>3. /\ DOMAIN f = 1 .. n /\ Len(f) = n
        /\ \A i \in 1 .. n : f[i].kind = cards[i].kind /\ f[i].id = cards[i].id
    <2>1. Len(f) = n /\ \A i \in 1 .. n : f[i].kind = cards[i].kind /\ f[i].id = cards[i].id
      BY <1>2 DEF SameCards
    <2> QED BY <1>2, <2>1
  <1>4. NoThought(f)
    BY <1>1, <1>2, <1>3 DEF NoThought, TidyCards, Running
  <1>5. TidyCards(f)
    BY <1>1, <1>3, <1>4 DEF TidyCards, NoThought
  <1>6. \A i \in 1 .. n : f[i].kind = "tool" => f[i].state = cards[i].state
    BY <1>2, <1>3
  <1>7. RunningTools(f) = RunningTools(cards)
    BY <1>1, <1>3, <1>6 DEF RunningTools
  <1> QED BY <1>4, <1>5, <1>7 DEF f

LEMMA PutTool ==
  ASSUME NEW cards \in Seq(CardRec), TidyCards(cards), NoThought(cards), NEW id \in Nat,
         NEW state \in AnyState
  PROVE  LET p == PutCard(cards, "tool", id, AnyState, state)
         IN  /\ p \in Seq(CardRec) /\ TidyCards(p) /\ NoThought(p)
             /\ RunningTools(p) \subseteq (RunningTools(cards) \ {id})
                                          \cup (IF state \in Running THEN {id} ELSE {})
  <1> DEFINE p == PutCard(cards, "tool", id, AnyState, state)
             n == Len(cards)
             new == Card("tool", id, state)
  <1>1. n \in Nat /\ DOMAIN cards = 1 .. n /\ \A i \in 1 .. n : cards[i] \in CardRec
    OBVIOUS
  <1>a. new.kind = "tool" /\ new.id = id /\ new.state = state
    BY DEF Card
  <1>2. /\ p \in Seq(CardRec)
        /\ \/ /\ p = Append(cards, new) /\ Len(p) = n + 1 /\ p[n + 1] = new
              /\ \A i \in 1 .. n :
                    /\ p[i] = cards[i]
                    /\ ~ (cards[i].kind = "tool" /\ cards[i].id = id /\ cards[i].state \in AnyState)
           \/ \E m \in 1 .. n :
                 /\ SameCards(cards, p)
                 /\ cards[m].kind = "tool" /\ cards[m].id = id /\ cards[m].state \in AnyState
                 /\ p[m].state = state
                 /\ \A i \in 1 .. n : i # m => p[i] = cards[i]
    <2>1. PICK kind \in Kinds : kind = "tool"
      BY DEF Kinds
    <2>2. PICK any \in SUBSET AnyState : any = AnyState
      OBVIOUS
    <2> PICK q : q = PutCard(cards, kind, id, any, state)
      OBVIOUS
    <2> HIDE DEF p, new
    <2>3. IsPut(cards, q, kind, id, any, state)
      BY PutCardFacts
    <2>4. q = p /\ Card(kind, id, state) = new
      BY <2>1, <2>2 DEF p, new
    <2> QED BY <2>1, <2>2, <2>3, <2>4 DEF IsPut
  <1> HIDE DEF p, new
  <1>3. \A i \in 1 .. n : cards[i].state \in AnyState
    BY <1>1 DEF CardRec
  <1>4. CASE /\ Len(p) = n + 1 /\ p[n + 1] = new
             /\ \A i \in 1 .. n : p[i] = cards[i] /\ ~ (cards[i].kind = "tool" /\ cards[i].id = id)
    <2>1. DOMAIN p = 1 .. n + 1
      BY <1>2, <1>4
    <2>2. \A i \in 1 .. n + 1 : i \in 1 .. n \/ i = n + 1
      BY <1>1
    <2>3. NoThought(p)
      BY <1>1, <1>4, <1>a, <2>1, <2>2 DEF NoThought
    <2>4. TidyCards(p)
      BY <1>1, <1>4, <1>a, <2>1, <2>2, <2>3 DEF TidyCards, NoThought
    <2>5. RunningTools(p) \subseteq (RunningTools(cards) \ {id}) \cup (IF state \in Running THEN {id} ELSE {})
      BY <1>1, <1>4, <1>a, <2>1, <2>2 DEF RunningTools
    <2> QED BY <1>2, <2>3, <2>4, <2>5 DEF p
  <1>5. CASE \E m \in 1 .. n :
                 /\ SameCards(cards, p)
                 /\ cards[m].kind = "tool" /\ cards[m].id = id
                 /\ p[m].state = state
                 /\ \A i \in 1 .. n : i # m => p[i] = cards[i]
    <2>1. PICK m \in 1 .. n :
                 /\ SameCards(cards, p)
                 /\ cards[m].kind = "tool" /\ cards[m].id = id
                 /\ p[m].state = state
                 /\ \A i \in 1 .. n : i # m => p[i] = cards[i]
      BY <1>5
    <2>2. /\ DOMAIN p = 1 .. n /\ Len(p) = n
          /\ \A i \in 1 .. n : p[i].kind = cards[i].kind /\ p[i].id = cards[i].id
      BY <1>2, <2>1 DEF SameCards
    <2>3. NoThought(p)
      BY <1>1, <2>1, <2>2 DEF NoThought
    <2>4. TidyCards(p)
      BY <1>1, <2>2, <2>3 DEF TidyCards, NoThought
    <2>5. \A i \in 1 .. n : p[i].kind = "tool" /\ p[i].id = id => i = m
      BY <1>1, <2>1, <2>2 DEF TidyCards
    <2>6. RunningTools(p) \subseteq (RunningTools(cards) \ {id}) \cup (IF state \in Running THEN {id} ELSE {})
      BY <1>1, <2>1, <2>2, <2>5 DEF RunningTools
    <2> QED BY <1>2, <2>3, <2>4, <2>6 DEF p
  <1> QED BY <1>2, <1>3, <1>4, <1>5

LEMMA PutSkill ==
  ASSUME NEW cards \in Seq(CardRec), TidyCards(cards), NoThought(cards),
         NEW states \in SUBSET AnyState, NEW state \in AnyState
  PROVE  LET p == PutCard(cards, "skill", 0, states, state)
         IN  /\ p \in Seq(CardRec) /\ TidyCards(p) /\ NoThought(p)
             /\ RunningTools(p) \subseteq RunningTools(cards)
  <1> DEFINE p == PutCard(cards, "skill", 0, states, state)
             n == Len(cards)
             new == Card("skill", 0, state)
  <1>1. n \in Nat /\ DOMAIN cards = 1 .. n
    OBVIOUS
  <1>a. new.kind = "skill"
    BY DEF Card
  <1>2. /\ p \in Seq(CardRec)
        /\ \/ Len(p) = n + 1 /\ p[n + 1] = new /\ \A i \in 1 .. n : p[i] = cards[i]
           \/ \E m \in 1 .. n :
                 /\ SameCards(cards, p) /\ cards[m].kind = "skill"
                 /\ \A i \in 1 .. n : i # m => p[i] = cards[i]
    <2>1. PICK kind \in Kinds : kind = "skill"
      BY DEF Kinds
    <2> PICK q : q = PutCard(cards, kind, 0, states, state)
      OBVIOUS
    <2> HIDE DEF p, new
    <2>2. IsPut(cards, q, kind, 0, states, state)
      BY PutCardFacts
    <2>3. q = p /\ Card(kind, 0, state) = new
      BY <2>1 DEF p, new
    <2> QED BY <2>1, <2>2, <2>3 DEF IsPut
  <1> HIDE DEF p, new
  <1>3. CASE Len(p) = n + 1 /\ p[n + 1] = new /\ \A i \in 1 .. n : p[i] = cards[i]
    <2>1. DOMAIN p = 1 .. n + 1
      BY <1>2, <1>3
    <2>2. \A i \in 1 .. n + 1 : i \in 1 .. n \/ i = n + 1
      BY <1>1
    <2>3. NoThought(p)
      BY <1>1, <1>3, <1>a, <2>1, <2>2 DEF NoThought
    <2>4. TidyCards(p)
      BY <1>1, <1>3, <1>a, <2>1, <2>2, <2>3 DEF TidyCards, NoThought
    <2>5. RunningTools(p) \subseteq RunningTools(cards)
      BY <1>1, <1>3, <1>a, <2>1, <2>2 DEF RunningTools
    <2> QED BY <1>2, <2>3, <2>4, <2>5 DEF p
  <1>4. CASE \E m \in 1 .. n :
                 /\ SameCards(cards, p) /\ cards[m].kind = "skill"
                 /\ \A i \in 1 .. n : i # m => p[i] = cards[i]
    <2>1. PICK m \in 1 .. n :
                 /\ SameCards(cards, p) /\ cards[m].kind = "skill"
                 /\ \A i \in 1 .. n : i # m => p[i] = cards[i]
      BY <1>4
    <2>2. /\ DOMAIN p = 1 .. n /\ Len(p) = n
          /\ \A i \in 1 .. n : p[i].kind = cards[i].kind /\ p[i].id = cards[i].id
      BY <1>2, <2>1 DEF SameCards
    <2>3. NoThought(p)
      BY <1>1, <2>1, <2>2 DEF NoThought
    <2>4. TidyCards(p)
      BY <1>1, <2>2, <2>3 DEF TidyCards, NoThought
    <2>5. RunningTools(p) \subseteq RunningTools(cards)
      BY <1>1, <2>1, <2>2 DEF RunningTools
    <2> QED BY <1>2, <2>3, <2>4, <2>5 DEF p
  <1> QED BY <1>2, <1>3, <1>4

LEMMA MappedCards ==
  ASSUME NEW n \in Nat, NEW f \in [1 .. n -> CardRec]
  PROVE  f \in Seq(CardRec) /\ Len(f) = n /\ DOMAIN f = 1 .. n
  BY SeqDef

LEMMA InterruptedFacts ==
  ASSUME NEW turn \in TurnRec, NEW outcome \in {"error", "cancelled"}
  PROVE  LET i == Interrupted(turn, outcome)
         IN  i \in TurnRec /\ i.id = turn.id /\ Finished(i)
  <1> DEFINE cards == turn.cards
             fin == FinishThinking(cards)
             n == Len(cards)
             next == [k \in DOMAIN cards |-> IF fin[k].state \in Running THEN [cards[k] EXCEPT !.state = outcome]
                                             ELSE fin[k]]
             text == IF turn.text = <<>> THEN AllDraftText(turn.drafts) ELSE turn.text
             new == Interrupted(turn, outcome)
  <1>1. cards \in Seq(CardRec) /\ turn.drafts \in Seq(DraftRec) /\ turn.text \in Seq(Nat)
    BY DEF TurnRec
  <1>2. n \in Nat /\ DOMAIN cards = 1 .. n /\ \A k \in 1 .. n : cards[k] \in CardRec
    BY <1>1
  <1>3. /\ fin \in Seq(CardRec) /\ Len(fin) = n
        /\ \A k \in 1 .. n :
              fin[k].state = IF k = n /\ cards[k].kind = "thinking" THEN "done" ELSE cards[k].state
        /\ \A k \in 1 .. n : fin[k].kind = cards[k].kind
    BY <1>1, FinishThinkingFacts DEF SameCards
  <1>4. \A k \in 1 .. n : fin[k] \in CardRec
    BY <1>2, <1>3
  <1> HIDE DEF fin
  <1>5. \A k \in 1 .. n : [cards[k] EXCEPT !.state = outcome] \in CardRec
    BY <1>2 DEF CardRec, AnyState
  <1>6. next \in [1 .. n -> CardRec]
    <2> HIDE DEF n, cards
    <2> QED BY <1>2, <1>4, <1>5
  <1>7. next \in Seq(CardRec) /\ Len(next) = n /\ DOMAIN next = 1 .. n
    <2> HIDE DEF next, n
    <2> QED BY <1>2, <1>6, MappedCards
  <1>8. \A k \in 1 .. n : next[k].state \notin Running
    <2> SUFFICES ASSUME NEW k \in 1 .. n PROVE next[k].state \notin Running
      OBVIOUS
    <2>1. CASE fin[k].state \in Running
      <3>1. next[k] = [cards[k] EXCEPT !.state = outcome]
        BY <2>1, <1>2
      <3>2. next[k].state = outcome
        BY <3>1, <1>2 DEF CardRec
      <3> QED BY <3>2 DEF Running
    <2>2. CASE fin[k].state \notin Running
      BY <2>2, <1>2
    <2> QED BY <2>1, <2>2
  <1>9. ASSUME n # 0, next[n].kind = "thinking" PROVE next[n].state = "done"
    <2>1. n \in 1 .. n
      BY <1>2, <1>9
    <2>2. cards[n].kind = "thinking"
      BY <2>1, <1>2, <1>3, <1>9 DEF CardRec
    <2>3. fin[n].state = "done"
      BY <2>1, <2>2, <1>3
    <2>4. next[n] = fin[n]
      BY <2>1, <2>3, <1>2 DEF Running
    <2> QED BY <2>3, <2>4
  <1>10. text \in Seq(Nat)
    BY <1>1, AllDraftTextFacts
  <1>11. new = [turn EXCEPT !.text = text, !.cards = next, !.drafts = <<>>, !.streaming = FALSE]
    BY DEF Interrupted, fin
  <1> HIDE DEF next, text, new, n
  <1>12. /\ new \in TurnRec /\ new.id = turn.id /\ new.cards = next /\ new.drafts = <<>>
         /\ new.streaming = FALSE
    <2> DEFINE a == [turn EXCEPT !.text = text]
               b == [a EXCEPT !.cards = next]
               c == [b EXCEPT !.drafts = <<>>]
               d == [c EXCEPT !.streaming = FALSE]
    <2>1. a \in TurnRec /\ a.id = turn.id
      BY <1>10 DEF TurnRec
    <2> HIDE DEF a
    <2>2. b \in TurnRec /\ b.id = turn.id /\ b.cards = next
      BY <2>1, <1>7 DEF TurnRec
    <2> HIDE DEF b
    <2>3. c \in TurnRec /\ c.id = turn.id /\ c.cards = next /\ c.drafts = <<>>
      <3>1. <<>> \in Seq(DraftRec)
        OBVIOUS
      <3> QED BY <3>1, <2>2 DEF TurnRec
    <2> HIDE DEF c
    <2>4. d \in TurnRec /\ d.id = turn.id /\ d.cards = next /\ d.drafts = <<>> /\ d.streaming = FALSE
      BY <2>3 DEF TurnRec
    <2>5. new = d
      BY <1>11 DEF d, c, b, a
    <2> QED BY <2>4, <2>5
  <1>13. next # <<>> => n # 0
    BY <1>7
  <1> QED BY <1>7, <1>8, <1>9, <1>12, <1>13 DEF Finished, Last, new

LEMMA FinishedStays ==
  ASSUME NEW turn \in TurnRec, Finished(turn), NEW outcome
  PROVE  ClosedTurn(turn) = turn /\ Interrupted(turn, outcome) = turn
  <1> DEFINE cards == turn.cards
             n == Len(cards)
             next == [k \in DOMAIN cards |-> IF cards[k].state \in Running THEN [cards[k] EXCEPT !.state = outcome]
                                             ELSE cards[k]]
  <1>1. cards \in Seq(CardRec) /\ turn.drafts = <<>> /\ turn.streaming = FALSE
    BY DEF TurnRec, Finished
  <1>2. FinishThinking(cards) = cards
    <2>1. CASE cards # <<>> /\ Last(cards).kind = "thinking"
      <3>1. cards[n].state = "done" /\ n \in DOMAIN cards /\ cards[n] \in CardRec
        BY <2>1, <1>1 DEF Finished, Last
      <3>2. [cards[n] EXCEPT !.state = "done"] = cards[n]
        BY <3>1 DEF CardRec
      <3>3. [cards EXCEPT ![n] = cards[n]] = cards
        BY <3>1, <1>1
      <3> QED BY <2>1, <3>2, <3>3 DEF FinishThinking
    <2>2. CASE ~ (cards # <<>> /\ Last(cards).kind = "thinking")
      BY <2>2 DEF FinishThinking
    <2> QED BY <2>1, <2>2
  <1>3. next = cards
    <2>1. \A k \in DOMAIN cards : cards[k].state \notin Running
      BY DEF Finished
    <2>2. next = [k \in DOMAIN cards |-> cards[k]]
      BY <2>1
    <2>3. cards \in [1 .. n -> CardRec] /\ DOMAIN cards = 1 .. n
      BY <1>1, LenProperties
    <2> HIDE DEF next, cards, n
    <2> QED BY <2>2, <2>3
  <1>4. (IF turn.text = <<>> THEN AllDraftText(turn.drafts) ELSE turn.text) = turn.text
    BY <1>1, AllDraftTextFacts, EmptySeq
  <1>5. ClosedTurn(turn) = [turn EXCEPT !.cards = cards, !.drafts = <<>>, !.streaming = FALSE]
    BY <1>2 DEF ClosedTurn
  <1>6. Interrupted(turn, outcome) = [turn EXCEPT !.text = turn.text, !.cards = cards, !.drafts = <<>>, !.streaming = FALSE]
    <2>1. Interrupted(turn, outcome) =
            [turn EXCEPT !.text = IF turn.text = <<>> THEN AllDraftText(turn.drafts) ELSE turn.text,
                         !.cards = next, !.drafts = <<>>, !.streaming = FALSE]
      BY <1>2 DEF Interrupted
    <2> QED BY <2>1, <1>3, <1>4
  <1>7. /\ [turn EXCEPT !.cards = cards, !.drafts = <<>>, !.streaming = FALSE] = turn
        /\ [turn EXCEPT !.text = turn.text, !.cards = cards, !.drafts = <<>>, !.streaming = FALSE] = turn
    BY <1>1 DEF TurnRec
  <1> QED BY <1>5, <1>6, <1>7

LEMMA OpenOfGrows ==
  ASSUME NEW turn, NEW next, NEW e,
         \A x \in DraftIds(next.drafts) :
            \/ x \in DraftIds(turn.drafts) /\ <<"draft", x>> \notin Closes(e)
            \/ <<"draft", x>> \in Opens(e),
         \A x \in RunningTools(next.cards) :
            \/ x \in RunningTools(turn.cards) /\ <<"tool", x>> \notin Closes(e)
            \/ <<"tool", x>> \in Opens(e)
  PROVE  OpenOf(next) \subseteq (OpenOf(turn) \ Closes(e)) \cup Opens(e)
  <1> SUFFICES ASSUME NEW p \in OpenOf(next) PROVE p \in (OpenOf(turn) \ Closes(e)) \cup Opens(e)
    OBVIOUS
  <1>1. CASE p \in {"draft"} \X DraftIds(next.drafts)
    <2>1. PICK x \in DraftIds(next.drafts) : p = <<"draft", x>>
      BY <1>1
    <2> QED BY <2>1 DEF OpenOf
  <1>2. CASE p \in {"tool"} \X RunningTools(next.cards)
    <2>1. PICK x \in RunningTools(next.cards) : p = <<"tool", x>>
      BY <1>2
    <2> QED BY <2>1 DEF OpenOf
  <1> QED BY <1>1, <1>2 DEF OpenOf

LEMMA OnTurnUnderWay ==
  ASSUME NEW turn \in TurnRec, turn.streaming, Tidy(turn), NEW e \in Event,
         e.type \notin {"done", "await"}
  PROVE  LET next == OnTurn(turn, e)
         IN  /\ next \in TurnRec /\ next.id = turn.id /\ next.streaming /\ Tidy(next)
             /\ OpenOf(next) \subseteq (OpenOf(turn) \ Closes(e)) \cup Opens(e)
  <1> DEFINE next == OnTurn(turn, e)
             cards == FinishThinking(turn.cards)
  <1>1. /\ turn.cards \in Seq(CardRec) /\ turn.drafts \in Seq(DraftRec) /\ turn.text \in Seq(Nat)
        /\ TidyCards(turn.cards) /\ UniqueIds(turn.drafts)
    BY DEF TurnRec, Tidy
  <1>2. /\ cards \in Seq(CardRec) /\ TidyCards(cards) /\ NoThought(cards)
        /\ RunningTools(cards) = RunningTools(turn.cards)
    BY <1>1, FinishThinkingFacts, FinishedCards
  <1> HIDE DEF cards
  <1> USE EventFields
  <1>a. ASSUME NEW text \in Seq(Nat), NEW drafts \in Seq(DraftRec), NEW put \in Seq(CardRec),
               UniqueIds(drafts), TidyCards(put),
               next = [turn EXCEPT !.text = text, !.drafts = drafts, !.cards = put]
        PROVE  /\ next \in TurnRec /\ next.id = turn.id /\ next.streaming /\ Tidy(next)
               /\ next.drafts = drafts /\ next.cards = put
    <2> HIDE DEF next
    <2>1. next \in TurnRec /\ next.id = turn.id /\ next.streaming = turn.streaming
          /\ next.drafts = drafts /\ next.cards = put
      BY <1>a DEF TurnRec
    <2> QED BY <2>1, <1>a DEF Tidy
  <1>3. CASE e.type = "message"
    <2>1. next = [turn EXCEPT !.cards = cards, !.text = turn.text \o e.text]
      BY <1>3 DEF OnTurn, cards
    <2>2. turn.text \o e.text \in Seq(Nat)
      BY <1>1, <1>3, ConcatProperties
    <2> DEFINE text == turn.text \o e.text
    <2> HIDE DEF next, text
    <2>a. next = [turn EXCEPT !.text = text, !.drafts = turn.drafts, !.cards = cards]
      BY <2>1, <1>1 DEF TurnRec, text
    <2>3. next \in TurnRec /\ next.id = turn.id /\ next.streaming /\ Tidy(next)
          /\ next.drafts = turn.drafts /\ next.cards = cards
      BY <2>2, <2>a, <1>1, <1>2, <1>a DEF text
    <2>4. Opens(e) = {} /\ Closes(e) = {}
      BY <1>3 DEF Opens, Closes
    <2>5. OpenOf(next) = OpenOf(turn)
      BY <2>3, <1>2 DEF OpenOf
    <2> QED BY <2>3, <2>4, <2>5 DEF next
  <1>4. CASE e.type = "draft"
    <2> DEFINE drafts == AppendDraft(turn.drafts, e.id, e.text)
    <2>1. next = [turn EXCEPT !.cards = cards, !.drafts = drafts]
      BY <1>4 DEF OnTurn, cards
    <2>2. /\ drafts \in Seq(DraftRec) /\ UniqueIds(drafts)
          /\ DraftIds(drafts) = DraftIds(turn.drafts) \cup {e.id}
      BY <1>1, <1>4, AppendDraftFacts
    <2> HIDE DEF drafts
    <2> HIDE DEF next
    <2>a. next = [turn EXCEPT !.text = turn.text, !.drafts = drafts, !.cards = cards]
      BY <2>1, <1>1 DEF TurnRec
    <2>3. next \in TurnRec /\ next.id = turn.id /\ next.streaming /\ Tidy(next)
          /\ next.drafts = drafts /\ next.cards = cards
      BY <2>2, <2>a, <1>1, <1>2, <1>a
    <2>4. Opens(e) = {<<"draft", e.id>>} /\ Closes(e) = {}
      BY <1>4 DEF Opens, Closes
    <2>5. OpenOf(next) \subseteq (OpenOf(turn) \ Closes(e)) \cup Opens(e)
      <3>1. \A x \in DraftIds(next.drafts) :
               \/ x \in DraftIds(turn.drafts) /\ <<"draft", x>> \notin Closes(e)
               \/ <<"draft", x>> \in Opens(e)
        BY <2>2, <2>3, <2>4, <1>2
      <3>2. \A x \in RunningTools(next.cards) :
               \/ x \in RunningTools(turn.cards) /\ <<"tool", x>> \notin Closes(e)
               \/ <<"tool", x>> \in Opens(e)
        BY <2>2, <2>3, <2>4, <1>2
      <3> QED BY <3>1, <3>2, OpenOfGrows
    <2> QED BY <2>3, <2>5 DEF next
  <1>5. CASE e.type \in {"commit", "retract"}
    <2> DEFINE drafts == WithoutDraft(turn.drafts, e.id)
    <2>1. PICK text \in Seq(Nat) :
             next = [turn EXCEPT !.text = text, !.drafts = drafts]
      <3>1. CASE e.type = "commit"
        <4> DEFINE text == turn.text \o DraftText(turn.drafts, e.id)
        <4>1. next = [turn EXCEPT !.text = text, !.drafts = drafts]
          BY <3>1 DEF OnTurn
        <4>2. text \in Seq(Nat)
          <5>1. DraftText(turn.drafts, e.id) \in Seq(Nat)
            BY <1>1, WithoutDraftFacts
          <5> QED BY <5>1, <1>1, ConcatProperties
        <4> QED BY <4>1, <4>2
      <3>2. CASE e.type = "retract"
        <4>1. next = [turn EXCEPT !.drafts = drafts]
          BY <3>2 DEF OnTurn
        <4>2. [turn EXCEPT !.drafts = drafts] = [turn EXCEPT !.text = turn.text, !.drafts = drafts]
          <5> HIDE DEF drafts
          <5> QED BY DEF TurnRec
        <4> QED BY <4>1, <4>2, <1>1
      <3> QED BY <1>5, <3>1, <3>2
    <2>2. /\ drafts \in Seq(DraftRec) /\ UniqueIds(drafts)
          /\ DraftIds(drafts) \subseteq DraftIds(turn.drafts) \ {e.id}
      BY <1>1, WithoutDraftFacts
    <2> HIDE DEF drafts
    <2> HIDE DEF next
    <2>a. next = [turn EXCEPT !.text = text, !.drafts = drafts, !.cards = turn.cards]
      BY <2>1, <1>1 DEF TurnRec
    <2>3. next \in TurnRec /\ next.id = turn.id /\ next.streaming /\ Tidy(next)
          /\ next.drafts = drafts /\ next.cards = turn.cards
      BY <2>2, <2>a, <1>1, <1>a
    <2>4. Opens(e) = {} /\ Closes(e) = {<<"draft", e.id>>}
      BY <1>5 DEF Opens, Closes
    <2>5. OpenOf(next) \subseteq (OpenOf(turn) \ Closes(e)) \cup Opens(e)
      <3>1. \A x \in DraftIds(next.drafts) :
               \/ x \in DraftIds(turn.drafts) /\ <<"draft", x>> \notin Closes(e)
               \/ <<"draft", x>> \in Opens(e)
        BY <2>2, <2>3, <2>4
      <3>2. \A x \in RunningTools(next.cards) :
               \/ x \in RunningTools(turn.cards) /\ <<"tool", x>> \notin Closes(e)
               \/ <<"tool", x>> \in Opens(e)
        BY <2>2, <2>3, <2>4
      <3> QED BY <3>1, <3>2, OpenOfGrows
    <2> QED BY <2>3, <2>5 DEF next
  <1>6. CASE e.type \in {"tool", "ask", "result"}
    <2> DEFINE state == CASE e.type = "tool" -> "running" [] e.type = "ask" -> "preflight" [] OTHER -> "done"
               put == PutCard(cards, "tool", e.id, AnyState, state)
    <2>1. next = [turn EXCEPT !.cards = put]
      BY <1>6 DEF OnTurn, cards
    <2>2. state \in AnyState /\ (state \in Running <=> e.type = "tool")
      BY <1>6 DEF AnyState, Running
    <2> HIDE DEF state
    <2>3. /\ put \in Seq(CardRec) /\ TidyCards(put)
          /\ RunningTools(put) \subseteq (RunningTools(cards) \ {e.id}) \cup (IF state \in Running THEN {e.id} ELSE {})
      BY <1>2, <1>6, <2>2, PutTool
    <2> HIDE DEF put
    <2> HIDE DEF next
    <2>a. next = [turn EXCEPT !.text = turn.text, !.drafts = turn.drafts, !.cards = put]
      BY <2>1, <1>1 DEF TurnRec
    <2>4. next \in TurnRec /\ next.id = turn.id /\ next.streaming /\ Tidy(next)
          /\ next.drafts = turn.drafts /\ next.cards = put
      BY <2>a, <2>3, <1>1, <1>a
    <2>5. /\ Opens(e) = CASE e.type = "tool" -> {<<"tool", e.id>>} [] e.type = "ask" -> {<<"notice", e.id>>} [] OTHER -> {}
          /\ Closes(e) = IF e.type = "result" THEN {<<"tool", e.id>>, <<"notice", e.id>>} ELSE {}
      BY <1>6 DEF Opens, Closes
    <2>6. OpenOf(next) \subseteq (OpenOf(turn) \ Closes(e)) \cup Opens(e)
      <3>1. \A x \in DraftIds(next.drafts) :
               \/ x \in DraftIds(turn.drafts) /\ <<"draft", x>> \notin Closes(e)
               \/ <<"draft", x>> \in Opens(e)
        BY <2>2, <2>3, <2>4, <2>5, <1>2
      <3>2. \A x \in RunningTools(next.cards) :
               \/ x \in RunningTools(turn.cards) /\ <<"tool", x>> \notin Closes(e)
               \/ <<"tool", x>> \in Opens(e)
        BY <2>2, <2>3, <2>4, <2>5, <1>2
      <3> QED BY <3>1, <3>2, OpenOfGrows
    <2> QED BY <2>4, <2>6 DEF next
  <1>7. CASE e.type \in {"thinking", "skill", "usage", "started"}
    <2>1. PICK put \in Seq(CardRec) :
             next = [turn EXCEPT !.cards = put] /\ TidyCards(put) /\ RunningTools(put) \subseteq RunningTools(turn.cards)
      <3>1. CASE e.type = "thinking" /\ turn.cards # <<>> /\ Last(turn.cards) = Card("thinking", 0, "running")
        <4>1. next = [turn EXCEPT !.cards = turn.cards]
          BY <3>1 DEF OnTurn
        <4> QED BY <4>1, <1>1
      <3>2. CASE e.type = "thinking" /\ ~ (turn.cards # <<>> /\ Last(turn.cards) = Card("thinking", 0, "running"))
        <4>1. next = [turn EXCEPT !.cards = Append(turn.cards, Card("thinking", 0, "running"))]
          BY <3>2 DEF OnTurn
        <4> DEFINE thought == Card("thinking", 0, "running")
                   put == Append(turn.cards, thought)
                   n == Len(turn.cards)
        <4>2. thought \in CardRec /\ thought.kind = "thinking"
          BY DEF Card, CardRec, AnyState
        <4>3. n \in Nat /\ DOMAIN turn.cards = 1 .. n
          BY <1>1
        <4> HIDE DEF thought
        <4>4. /\ put \in Seq(CardRec) /\ Len(put) = n + 1 /\ put[n + 1] = thought /\ DOMAIN put = 1 .. n + 1
              /\ \A i \in 1 .. n : put[i] = turn.cards[i]
          BY <4>2, <1>1, AppendProperties
        <4> HIDE DEF put
        <4>5. NoThought(turn.cards)
          <5>1. ASSUME NEW i \in 1 .. n, turn.cards[i].kind = "thinking", turn.cards[i].state \in Running
                PROVE  FALSE
            <6>1. i = n /\ turn.cards[i] = thought
              BY <5>1, <4>3, <1>1 DEF TidyCards, thought
            <6>2. turn.cards # <<>>
              BY <6>1, <4>3
            <6> QED BY <6>1, <6>2, <3>2 DEF Last, thought
          <5> QED BY <5>1, <4>3 DEF NoThought
        <4>6. \A i \in 1 .. n + 1 : i \in 1 .. n \/ i = n + 1
          BY <4>3
        <4>7. TidyCards(put)
          <5>1. ASSUME NEW i \in 1 .. n + 1, put[i].kind = "thinking", put[i].state \in Running
                PROVE  i = Len(put) /\ put[i] = thought
            BY <5>1, <4>3, <4>4, <4>5, <4>6 DEF NoThought
          <5>2. ASSUME NEW i \in 1 .. n + 1, NEW j \in 1 .. n + 1, put[i].kind = "tool", put[j].kind = "tool",
                       put[i].id = put[j].id
                PROVE  i = j
            <6>1. i \in 1 .. n /\ j \in 1 .. n
              BY <5>2, <4>2, <4>4, <4>6
            <6>2. put[i] = turn.cards[i] /\ put[j] = turn.cards[j]
              BY <6>1, <4>4
            <6> QED BY <6>1, <6>2, <5>2, <4>3, <1>1 DEF TidyCards
          <5> QED BY <5>1, <5>2, <4>4 DEF TidyCards, thought
        <4>8. RunningTools(put) \subseteq RunningTools(turn.cards)
          <5> SUFFICES ASSUME NEW x \in RunningTools(put) PROVE x \in RunningTools(turn.cards)
            OBVIOUS
          <5>1. PICK i \in 1 .. n + 1 : put[i].kind = "tool" /\ put[i].state \in Running /\ put[i].id = x
            BY <4>4 DEF RunningTools
          <5>2. i \in 1 .. n
            BY <5>1, <4>2, <4>4, <4>6
          <5> QED BY <5>1, <5>2, <4>3, <4>4 DEF RunningTools
        <4> QED BY <4>1, <4>4, <4>7, <4>8 DEF put, thought
      <3>3. CASE e.type = "skill"
        <4> DEFINE states == {"running", "retry", "waiting"}
                   put == PutCard(cards, "skill", 0, states, e.status)
        <4>1. next = [turn EXCEPT !.cards = put]
          BY <3>3 DEF OnTurn, cards
        <4>2. states \in SUBSET AnyState /\ e.status \in AnyState
          BY <3>3 DEF AnyState
        <4> HIDE DEF states
        <4>3. put \in Seq(CardRec) /\ TidyCards(put) /\ RunningTools(put) \subseteq RunningTools(cards)
          BY <4>2, <1>2, PutSkill
        <4> QED BY <4>1, <4>3, <1>2
      <3>4. CASE e.type \in {"usage", "started"}
        <4>1. next = turn
          BY <3>4 DEF OnTurn
        <4> QED BY <4>1, <1>1 DEF TurnRec
      <3> QED BY <1>7, <3>1, <3>2, <3>3, <3>4
    <2> HIDE DEF next
    <2>a. next = [turn EXCEPT !.text = turn.text, !.drafts = turn.drafts, !.cards = put]
      BY <2>1, <1>1 DEF TurnRec
    <2>3. next \in TurnRec /\ next.id = turn.id /\ next.streaming /\ Tidy(next)
          /\ next.drafts = turn.drafts /\ next.cards = put
      <3>1. put \in Seq(CardRec) /\ TidyCards(put)
        BY <2>1
      <3> QED BY <2>a, <3>1, <1>1, <1>a
    <2>4. Opens(e) = {} /\ Closes(e) = {}
      BY <1>7 DEF Opens, Closes
    <2>5. OpenOf(next) \subseteq OpenOf(turn)
      BY <2>1, <2>3 DEF OpenOf
    <2> QED BY <2>3, <2>4, <2>5 DEF next
  <1> QED BY <1>3, <1>4, <1>5, <1>6, <1>7

LEMMA DoneFinishes ==
  ASSUME NEW turn \in TurnRec, NEW e \in Event, e.type = "done"
  PROVE  OnTurn(turn, e) \in TurnRec /\ OnTurn(turn, e).id = turn.id /\ Finished(OnTurn(turn, e))
  <1>1. e.status \in {"completed", "failed"}
    BY EventFields
  <1>2. OnTurn(turn, e) = EndTurn(turn, e.status)
    BY DEF OnTurn
  <1>3. PICK outcome \in {"error", "cancelled"} : EndTurn(turn, e.status) = Interrupted(turn, outcome)
    BY <1>1 DEF EndTurn
  <1> QED BY <1>2, <1>3, InterruptedFacts

LEMMA AwaitFinishes ==
  ASSUME NEW turn \in TurnRec, Tidy(turn), OpenOf(turn) = {}, NEW e \in Event, e.type = "await"
  PROVE  OnTurn(turn, e) \in TurnRec /\ OnTurn(turn, e).id = turn.id /\ Finished(OnTurn(turn, e))
  <1> DEFINE fin == FinishThinking(turn.cards)
             put == PutCard(fin, "skill", 0, {"running", "retry", "waiting"}, "waiting")
             last == FinishThinking(put)
             n == Len(put)
             Card1(c) == IF c.kind = "skill" /\ c.state \in Running THEN [c EXCEPT !.state = "waiting"] ELSE c
             next == [i \in DOMAIN put |-> Card1(last[i])]
             new == OnTurn(turn, e)
  <1>1. turn.cards \in Seq(CardRec) /\ turn.drafts \in Seq(DraftRec) /\ TidyCards(turn.cards)
    BY DEF TurnRec, Tidy
  <1>2. DraftIds(turn.drafts) = {} /\ RunningTools(turn.cards) = {}
    <2>1. ASSUME NEW x \in DraftIds(turn.drafts) PROVE FALSE
      <3>1. <<"draft", x>> \in OpenOf(turn)
        BY DEF OpenOf
      <3> QED BY <3>1
    <2>2. ASSUME NEW x \in RunningTools(turn.cards) PROVE FALSE
      <3>1. <<"tool", x>> \in OpenOf(turn)
        BY DEF OpenOf
      <3> QED BY <3>1
    <2> QED BY <2>1, <2>2
  <1>3. turn.drafts = <<>>
    <2> SUFFICES ASSUME turn.drafts # <<>> PROVE FALSE
      OBVIOUS
    <2>1. 1 \in DOMAIN turn.drafts
      BY <1>1
    <2>2. turn.drafts[1].id \in DraftIds(turn.drafts)
      BY <2>1 DEF DraftIds
    <2> QED BY <2>2, <1>2
  <1>4. fin \in Seq(CardRec) /\ TidyCards(fin) /\ NoThought(fin) /\ RunningTools(fin) = {}
    BY <1>1, <1>2, FinishThinkingFacts, FinishedCards
  <1>5. put \in Seq(CardRec) /\ TidyCards(put) /\ NoThought(put) /\ RunningTools(put) = {}
    <2> DEFINE states == {"running", "retry", "waiting"}
    <2>1. states \in SUBSET AnyState /\ "waiting" \in AnyState
      BY DEF AnyState
    <2> HIDE DEF fin, states
    <2> DEFINE put1 == PutCard(fin, "skill", 0, states, "waiting")
    <2>2. put1 \in Seq(CardRec) /\ TidyCards(put1) /\ NoThought(put1) /\ RunningTools(put1) \subseteq RunningTools(fin)
      BY <2>1, <1>4, PutSkill
    <2> QED BY <2>2, <1>4 DEF states
  <1> HIDE DEF put
  <1>6. /\ last \in Seq(CardRec) /\ Len(last) = n /\ TidyCards(last) /\ NoThought(last) /\ RunningTools(last) = {}
        /\ n \in Nat /\ DOMAIN put = 1 .. n /\ DOMAIN last = 1 .. n
        /\ \A i \in 1 .. n : last[i] \in CardRec
        /\ n # 0 /\ last[n].kind = "thinking" => last[n].state = "done"
    <2>1. /\ last \in Seq(CardRec) /\ SameCards(put, last) /\ TidyCards(last) /\ NoThought(last) /\ RunningTools(last) = {}
          /\ \A i \in 1 .. n :
                last[i].state = IF i = n /\ put[i].kind = "thinking" THEN "done" ELSE put[i].state
      BY <1>5, FinishThinkingFacts, FinishedCards
    <2> HIDE DEF last
    <2>2. Len(last) = n /\ \A i \in 1 .. n : last[i].kind = put[i].kind
      BY <2>1 DEF SameCards
    <2>3. n \in Nat /\ DOMAIN put = 1 .. n
      BY <1>5
    <2>4. n # 0 => n \in 1 .. n
      BY <2>3
    <2> QED BY <2>1, <2>2, <2>3, <2>4
  <1> HIDE DEF last
  <1>7. \A c \in CardRec : /\ Card1(c) \in CardRec /\ Card1(c).kind = c.kind
                           /\ c.state \in Running /\ c.kind = "skill" => Card1(c).state = "waiting"
                           /\ c.state \notin Running => Card1(c) = c
    BY DEF CardRec, AnyState, Running
  <1>8. \A i \in 1 .. n : last[i].state \in Running => last[i].kind = "skill"
    <2> SUFFICES ASSUME NEW i \in 1 .. n, last[i].state \in Running, last[i].kind # "skill" PROVE FALSE
      OBVIOUS
    <2>1. last[i].kind \in {"thinking", "tool"}
      BY <1>6 DEF CardRec
    <2>2. CASE last[i].kind = "thinking"
      BY <2>2, <1>6 DEF NoThought
    <2>3. CASE last[i].kind = "tool"
      <3>1. last[i].id \in RunningTools(last)
        BY <2>3, <1>6 DEF RunningTools
      <3> QED BY <3>1, <1>6
    <2> QED BY <2>1, <2>2, <2>3
  <1> HIDE DEF Card1, n
  <1>9. next \in Seq(CardRec) /\ Len(next) = n /\ DOMAIN next = 1 .. n /\ \A i \in 1 .. n : next[i] = Card1(last[i])
    <2>1. next \in [1 .. n -> CardRec] /\ \A i \in 1 .. n : next[i] = Card1(last[i])
      BY <1>6, <1>7
    <2> HIDE DEF next
    <2> QED BY <2>1, <1>6, MappedCards
  <1>10. \A i \in 1 .. n : next[i].state \notin Running
    <2> SUFFICES ASSUME NEW i \in 1 .. n PROVE next[i].state \notin Running
      OBVIOUS
    <2>1. next[i] = Card1(last[i]) /\ last[i] \in CardRec
      BY <1>6, <1>9
    <2>2. CASE last[i].state \in Running
      BY <2>1, <2>2, <1>7, <1>8 DEF Running
    <2>3. CASE last[i].state \notin Running
      BY <2>1, <2>3, <1>7
    <2> QED BY <2>2, <2>3
  <1>11. next # <<>> /\ next[n].kind = "thinking" => next[n].state = "done"
    <2> SUFFICES ASSUME next # <<>>, next[n].kind = "thinking" PROVE next[n].state = "done"
      OBVIOUS
    <2>1. n # 0 /\ n \in 1 .. n
      BY <1>6, <1>9
    <2>2. next[n] = Card1(last[n]) /\ last[n] \in CardRec
      BY <2>1, <1>6, <1>9
    <2>3. last[n].kind = "thinking"
      BY <2>2, <1>7
    <2>4. last[n].state = "done"
      BY <2>1, <2>3, <1>6
    <2> QED BY <2>2, <2>4, <1>7 DEF Running
  <1>12. new = [turn EXCEPT !.cards = next, !.streaming = FALSE]
    <2> DEFINE mid == [turn EXCEPT !.cards = put]
    <2>1. new = EndTurn(mid, "await")
      BY DEF OnTurn, put
    <2>2. EndTurn(mid, "await") = Waiting(mid)
      BY DEF EndTurn
    <2>3. mid.cards = put
      BY DEF TurnRec
    <2>4. Waiting(mid) = [mid EXCEPT !.cards = next, !.streaming = FALSE]
      <3> HIDE DEF mid
      <3> QED BY <2>3 DEF Waiting, Card1, last
    <2>5. [mid EXCEPT !.cards = next, !.streaming = FALSE] = [turn EXCEPT !.cards = next, !.streaming = FALSE]
      <3> HIDE DEF next
      <3> QED BY DEF TurnRec
    <2> QED BY <2>1, <2>2, <2>4, <2>5
  <1> HIDE DEF next, new
  <1>13. /\ new \in TurnRec /\ new.id = turn.id /\ new.cards = next /\ new.drafts = <<>>
         /\ new.streaming = FALSE
    BY <1>3, <1>9, <1>12 DEF TurnRec
  <1> QED BY <1>9, <1>10, <1>11, <1>13 DEF Finished, Last, new

-----------------------------------------------------------------------------
(* Text that two events bring, or one *)

Said(text) == [type |-> "message", text |-> text]
Drafted(id, text) == [type |-> "draft", id |-> id, text |-> text]

LEMMA SaidTwice ==
  ASSUME NEW turn \in TurnRec, NEW a \in Seq(Nat), NEW b \in Seq(Nat)
  PROVE  OnTurn(OnTurn(turn, Said(a)), Said(b)) = OnTurn(turn, Said(a \o b))
  <1> DEFINE cards == FinishThinking(turn.cards)
             first == turn.text \o a
             both == turn.text \o (a \o b)
  <1>1. turn.cards \in Seq(CardRec) /\ turn.text \in Seq(Nat)
    BY DEF TurnRec
  <1>2. cards \in Seq(CardRec) /\ FinishThinking(cards) = cards
    BY <1>1, FinishThinkingFacts
  <1>3. first \o b = both
    BY <1>1, TextIsAssociative
  <1>4. \A t, x : OnTurn(t, Said(x)) = [t EXCEPT !.cards = FinishThinking(t.cards), !.text = t.text \o x]
    BY DEF OnTurn, Said
  <1>5. OnTurn(turn, Said(a)) = [turn EXCEPT !.cards = cards, !.text = first]
    BY <1>4
  <1>6. OnTurn(turn, Said(a \o b)) = [turn EXCEPT !.cards = cards, !.text = both]
    BY <1>4
  <1> DEFINE mid == [turn EXCEPT !.cards = cards, !.text = first]
  <1> HIDE DEF cards, first, both
  <1>7. mid.cards = cards /\ mid.text = first
    BY DEF TurnRec
  <1>8. [mid EXCEPT !.cards = cards, !.text = both] = [turn EXCEPT !.cards = cards, !.text = both]
    BY DEF TurnRec
  <1> HIDE DEF mid
  <1>9. OnTurn(mid, Said(b)) = [mid EXCEPT !.cards = cards, !.text = both]
    BY <1>2, <1>3, <1>4, <1>7
  <1> QED BY <1>5, <1>6, <1>8, <1>9 DEF mid

LEMMA DraftedTwice ==
  ASSUME NEW turn \in TurnRec, NEW id \in Nat, NEW a \in Seq(Nat), NEW b \in Seq(Nat)
  PROVE  OnTurn(OnTurn(turn, Drafted(id, a)), Drafted(id, b)) = OnTurn(turn, Drafted(id, a \o b))
  <1> DEFINE cards == FinishThinking(turn.cards)
             first == AppendDraft(turn.drafts, id, a)
             both == AppendDraft(turn.drafts, id, a \o b)
  <1>1. turn.cards \in Seq(CardRec) /\ turn.drafts \in Seq(DraftRec)
    BY DEF TurnRec
  <1>2. cards \in Seq(CardRec) /\ FinishThinking(cards) = cards
    BY <1>1, FinishThinkingFacts
  <1>3. AppendDraft(first, id, b) = both
    BY <1>1, AppendDraftFacts
  <1>4. \A t, x : OnTurn(t, Drafted(id, x)) = [t EXCEPT !.cards = FinishThinking(t.cards),
                                                       !.drafts = AppendDraft(t.drafts, id, x)]
    BY DEF OnTurn, Drafted
  <1>5. OnTurn(turn, Drafted(id, a)) = [turn EXCEPT !.cards = cards, !.drafts = first]
    BY <1>4
  <1>6. OnTurn(turn, Drafted(id, a \o b)) = [turn EXCEPT !.cards = cards, !.drafts = both]
    BY <1>4
  <1> DEFINE mid == [turn EXCEPT !.cards = cards, !.drafts = first]
  <1> HIDE DEF cards, first, both
  <1>7. mid.cards = cards /\ mid.drafts = first
    BY DEF TurnRec
  <1>8. [mid EXCEPT !.cards = cards, !.drafts = both] = [turn EXCEPT !.cards = cards, !.drafts = both]
    BY DEF TurnRec
  <1> HIDE DEF mid
  <1>9. OnTurn(mid, Drafted(id, b)) = [mid EXCEPT !.cards = cards, !.drafts = both]
    BY <1>2, <1>3, <1>4, <1>7
  <1> QED BY <1>5, <1>6, <1>8, <1>9 DEF mid

-----------------------------------------------------------------------------
(* Transcripts                                                             *)

IsTurn(x) == x.kind = "turn"

LEMMA EntryFacts ==
  /\ \A x \in TurnRec : x.kind = "turn"
  /\ \A x \in LineRec : x.kind = "system" /\ x.kind # "turn"
  /\ \A x \in TurnRec \cup LineRec : (x.kind = "turn" <=> x \in TurnRec) /\ (x.kind = "system" <=> x \in LineRec)
                                     /\ (x.kind = "turn" <=> x.kind # "system")
  BY DEF TurnRec, LineRec

LEMMA LastTurnFacts ==
  ASSUME NEW tr \in Entries
  PROVE  /\ LastTurnIndex(tr) \in 0 .. Len(tr)
         /\ \A i \in 1 .. Len(tr) : tr[i].kind = "turn" => i <= LastTurnIndex(tr)
         /\ LastTurnIndex(tr) > 0 => /\ LastTurnIndex(tr) \in 1 .. Len(tr)
                                     /\ LastTurn(tr).kind = "turn" /\ LastTurn(tr) \in TurnRec
  <1> DEFINE turns == {i \in DOMAIN tr : tr[i].kind = "turn"}
             n == Len(tr)
  <1>1. n \in Nat /\ DOMAIN tr = 1 .. n /\ \A i \in 1 .. n : tr[i] \in TurnRec \cup LineRec
    BY DEF Entries
  <1>2. CASE turns = {}
    <2>1. LastTurnIndex(tr) = 0
      BY <1>2 DEF LastTurnIndex
    <2> QED BY <2>1, <1>1, <1>2
  <1>3. CASE turns # {}
    <2>1. LastTurnIndex(tr) = Max(turns)
      BY <1>3 DEF LastTurnIndex
    <2>2. turns \in SUBSET (0 .. n)
      BY <1>1
    <2>3. Max(turns) \in turns /\ \A y \in turns : y <= Max(turns)
      <3> HIDE DEF turns
      <3> QED BY <1>1, <1>3, <2>2, MaxOfSome
    <2>4. LastTurnIndex(tr) \in 1 .. n /\ tr[LastTurnIndex(tr)].kind = "turn"
      BY <1>1, <2>1, <2>3
    <2>5. \A i \in 1 .. n : tr[i].kind = "turn" => i <= LastTurnIndex(tr)
      BY <1>1, <2>1, <2>3
    <2> QED BY <1>1, <2>4, <2>5, EntryFacts DEF LastTurn
  <1> QED BY <1>2, <1>3

LEMMA IsLastTurn ==
  ASSUME NEW tr \in Entries, NEW k \in 0 .. Len(tr),
         k > 0 => tr[k].kind = "turn",
         \A i \in 1 .. Len(tr) : tr[i].kind = "turn" => i <= k
  PROVE  LastTurnIndex(tr) = k
  <1>1. Len(tr) \in Nat
    BY DEF Entries
  <1>2. /\ LastTurnIndex(tr) \in 0 .. Len(tr)
        /\ \A i \in 1 .. Len(tr) : tr[i].kind = "turn" => i <= LastTurnIndex(tr)
        /\ LastTurnIndex(tr) > 0 => LastTurnIndex(tr) \in 1 .. Len(tr) /\ tr[LastTurnIndex(tr)].kind = "turn"
    BY LastTurnFacts DEF LastTurn
  <1>3. LastTurnIndex(tr) <= k
    BY <1>1, <1>2
  <1>4. k <= LastTurnIndex(tr)
    BY <1>1, <1>2
  <1> QED BY <1>1, <1>2, <1>3, <1>4

LEMMA UpdateFacts ==
  ASSUME NEW tr \in Entries, LastTurnIndex(tr) > 0, NEW turn \in TurnRec
  PROVE  LET u == UpdateLastTurn(tr, turn)
         IN  /\ u \in Entries /\ Len(u) = Len(tr) /\ LastTurnIndex(u) = LastTurnIndex(tr)
             /\ LastTurn(u) = turn
             /\ \A i \in 1 .. Len(tr) : u[i] = IF i = LastTurnIndex(tr) THEN turn ELSE tr[i]
  <1> DEFINE u == UpdateLastTurn(tr, turn)
             n == Len(tr)
             k == LastTurnIndex(tr)
  <1>1. n \in Nat /\ k \in 1 .. n /\ tr[k].kind = "turn"
        /\ \A i \in 1 .. n : tr[i].kind = "turn" => i <= k
    BY LastTurnFacts DEF Entries, LastTurn
  <1>2. u = [tr EXCEPT ![k] = turn] /\ turn \in TurnRec \cup LineRec
    BY DEF UpdateLastTurn
  <1> HIDE DEF u, k
  <1>3. u \in Entries /\ Len(u) = n /\ \A i \in 1 .. n : u[i] = IF i = k THEN turn ELSE tr[i]
    <2>1. tr \in Seq(TurnRec \cup LineRec)
      BY DEF Entries
    <2> QED BY <1>1, <1>2, <2>1, ExceptSeq DEF Entries
  <1>4. LastTurnIndex(u) = k
    <2>1. u[k].kind = "turn"
      BY <1>1, <1>3, EntryFacts
    <2>2. \A i \in 1 .. Len(u) : u[i].kind = "turn" => i <= k
      BY <1>1, <1>3
    <2>3. k \in 0 .. Len(u)
      BY <1>1, <1>3
    <2> QED BY <1>3, <2>1, <2>2, <2>3, IsLastTurn
  <1> QED BY <1>1, <1>3, <1>4 DEF u, k, LastTurn

LEMMA AppendLineFacts ==
  ASSUME NEW tr \in Entries, NEW line \in LineRec
  PROVE  LET a == Append(tr, line)
         IN  /\ a \in Entries /\ Len(a) = Len(tr) + 1 /\ a[Len(tr) + 1] = line
             /\ LastTurnIndex(a) = LastTurnIndex(tr)
             /\ \A i \in 1 .. Len(tr) : a[i] = tr[i]
  <1> DEFINE a == Append(tr, line)
             n == Len(tr)
             k == LastTurnIndex(tr)
  <1>1. n \in Nat /\ k \in 0 .. n /\ (k > 0 => tr[k].kind = "turn" /\ k \in 1 .. n)
        /\ \A i \in 1 .. n : tr[i].kind = "turn" => i <= k
    BY LastTurnFacts DEF Entries, LastTurn
  <1>2. a \in Entries /\ Len(a) = n + 1 /\ a[n + 1] = line /\ \A i \in 1 .. n : a[i] = tr[i]
    <2>1. tr \in Seq(TurnRec \cup LineRec) /\ line \in TurnRec \cup LineRec
      BY DEF Entries
    <2> QED BY <2>1, AppendProperties DEF Entries
  <1> HIDE DEF a, k
  <1>3. LastTurnIndex(a) = k
    <2>1. k > 0 => a[k].kind = "turn"
      BY <1>1, <1>2
    <2>2. ASSUME NEW i \in 1 .. Len(a), a[i].kind = "turn" PROVE i <= k
      <3>1. i # n + 1
        BY <2>2, <1>2, EntryFacts
      <3>2. i \in 1 .. n
        BY <3>1, <1>1, <1>2
      <3> QED BY <3>2, <2>2, <1>1, <1>2
    <2>3. k \in 0 .. Len(a)
      BY <1>1, <1>2
    <2> QED BY <1>2, <2>1, <2>2, <2>3, IsLastTurn
  <1> QED BY <1>2, <1>3 DEF a, k

LEMMA AppendTurnFacts ==
  ASSUME NEW tr \in Entries, NEW turn \in TurnRec
  PROVE  LET a == Append(tr, turn)
         IN  /\ a \in Entries /\ Len(a) = Len(tr) + 1 /\ a[Len(tr) + 1] = turn
             /\ LastTurnIndex(a) = Len(tr) + 1
             /\ \A i \in 1 .. Len(tr) : a[i] = tr[i]
  <1> DEFINE a == Append(tr, turn)
             n == Len(tr)
  <1>1. n \in Nat
    BY DEF Entries
  <1>2. a \in Entries /\ Len(a) = n + 1 /\ a[n + 1] = turn /\ \A i \in 1 .. n : a[i] = tr[i]
    <2>1. tr \in Seq(TurnRec \cup LineRec) /\ turn \in TurnRec \cup LineRec
      BY DEF Entries
    <2> QED BY <2>1, AppendProperties DEF Entries
  <1> HIDE DEF a
  <1>3. LastTurnIndex(a) = n + 1
    <2>1. a[n + 1].kind = "turn"
      BY <1>2, EntryFacts
    <2>3. n + 1 \in 0 .. Len(a) /\ \A i \in 1 .. Len(a) : i <= n + 1
      BY <1>1, <1>2
    <2> QED BY <1>2, <2>1, <2>3, IsLastTurn
  <1> QED BY <1>2, <1>3 DEF a

\* The first cut entries go, and the last turn is not one of them.
LEMMA CutFacts ==
  ASSUME NEW tr \in Entries, NEW cut \in Nat, cut <= Len(tr),
         LastTurnIndex(tr) > 0 => LastTurnIndex(tr) > cut
  PROVE  LET c == SubSeq(tr, cut + 1, Len(tr))
         IN  /\ c \in Entries /\ Len(c) = Len(tr) - cut
             /\ LastTurnIndex(c) = IF LastTurnIndex(tr) = 0 THEN 0 ELSE LastTurnIndex(tr) - cut
             /\ \A i \in 1 .. Len(tr) - cut : c[i] = tr[cut + i]
  <1> DEFINE c == SubSeq(tr, cut + 1, Len(tr))
             n == Len(tr)
             k == LastTurnIndex(tr)
  <1>1. n \in Nat /\ k \in 0 .. n /\ (k > 0 => tr[k].kind = "turn" /\ k \in 1 .. n)
        /\ \A i \in 1 .. n : tr[i].kind = "turn" => i <= k
    BY LastTurnFacts DEF Entries, LastTurn
  <1>2. c \in Entries /\ Len(c) = n - cut /\ \A i \in 1 .. n - cut : c[i] = tr[cut + i]
    <2>1. cut + 1 \in Int /\ n \in Int /\ \A i \in cut + 1 .. n : tr[i] \in TurnRec \cup LineRec
      BY <1>1 DEF Entries
    <2>2. /\ c \in Seq(TurnRec \cup LineRec) /\ Len(c) = IF cut + 1 <= n THEN n - (cut + 1) + 1 ELSE 0
          /\ \A i \in 1 .. n - (cut + 1) + 1 : c[i] = tr[(cut + 1) + i - 1]
      BY <2>1, SubSeqProperties
    <2>3. n - (cut + 1) + 1 = n - cut /\ (~ cut + 1 <= n => n - cut = 0)
      BY <1>1
    <2>4. \A i \in 1 .. n - cut : (cut + 1) + i - 1 = cut + i
      BY <1>1
    <2> HIDE DEF c
    <2> QED BY <2>2, <2>3, <2>4 DEF Entries
  <1> HIDE DEF c, k
  <1>3. ASSUME NEW i \in 1 .. Len(c), c[i].kind = "turn" PROVE k > 0 /\ cut + i <= k
    <2>1. cut + i \in 1 .. n /\ c[i] = tr[cut + i]
      BY <1>1, <1>2
    <2> QED BY <2>1, <1>1, <1>3
  <1>4. LastTurnIndex(c) = IF k = 0 THEN 0 ELSE k - cut
    <2>1. CASE k = 0
      <3>1. \A i \in 1 .. Len(c) : ~ c[i].kind = "turn"
        BY <2>1, <1>3
      <3>2. 0 \in 0 .. Len(c)
        BY <1>1, <1>2
      <3>3. LastTurnIndex(c) = 0
        <4> DEFINE z == 0
        <4> HIDE DEF z
        <4>1. z \in 0 .. Len(c) /\ (z > 0 => c[z].kind = "turn") /\ \A i \in 1 .. Len(c) : c[i].kind = "turn" => i <= z
          BY <3>1, <3>2 DEF z
        <4> QED BY <4>1, <1>2, IsLastTurn DEF z
      <3> QED BY <2>1, <3>3
    <2>2. CASE k > 0
      <3> DEFINE l == k - cut
      <3>1. l \in 1 .. n - cut /\ cut + l = k
        BY <2>2, <1>1 DEF k
      <3> HIDE DEF l
      <3>2. c[l].kind = "turn" /\ l \in 0 .. Len(c)
        <4>1. c[l] = tr[k]
          BY <3>1, <1>2
        <4>2. l \in 0 .. Len(c)
          BY <3>1, <1>1, <1>2
        <4> QED BY <4>1, <4>2, <2>2, <1>1
      <3>3. \A i \in 1 .. Len(c) : c[i].kind = "turn" => i <= l
        BY <3>1, <1>1, <1>2, <1>3
      <3>4. LastTurnIndex(c) = l
        BY <3>2, <3>3, <1>2, IsLastTurn
      <3> QED BY <3>4, <2>2 DEF l
    <2> QED BY <2>1, <2>2, <1>1
  <1> QED BY <1>2, <1>4 DEF c, k

LEMMA RemoveLineFacts ==
  ASSUME NEW tr \in Entries, NEW j \in 1 .. Len(tr), j > LastTurnIndex(tr)
  PROVE  LET r == RemoveAt(tr, j)
         IN  /\ r \in Entries /\ Len(r) = Len(tr) - 1 /\ LastTurnIndex(r) = LastTurnIndex(tr)
             /\ \A i \in 1 .. Len(tr) - 1 : r[i] = IF i < j THEN tr[i] ELSE tr[i + 1]
  <1> DEFINE r == RemoveAt(tr, j)
             n == Len(tr)
             k == LastTurnIndex(tr)
  <1>1. n \in Nat /\ k \in 0 .. n /\ (k > 0 => tr[k].kind = "turn" /\ k \in 1 .. n)
        /\ \A i \in 1 .. n : tr[i].kind = "turn" => i <= k
    BY LastTurnFacts DEF Entries, LastTurn
  <1>2. r \in Entries /\ Len(r) = n - 1 /\ \A i \in 1 .. n - 1 : r[i] = IF i < j THEN tr[i] ELSE tr[i + 1]
    <2>1. tr \in Seq(TurnRec \cup LineRec) /\ j \in DOMAIN tr
      BY DEF Entries
    <2> QED BY <2>1, RemoveAtFacts DEF Entries
  <1> HIDE DEF r, k
  <1>3. LastTurnIndex(r) = k
    <2>1. k > 0 => r[k].kind = "turn"
      <3> SUFFICES ASSUME k > 0 PROVE r[k].kind = "turn"
        OBVIOUS
      <3>1. k \in 1 .. n - 1 /\ k < j
        BY <1>1 DEF k
      <3> QED BY <3>1, <1>1, <1>2
    <2>2. ASSUME NEW i \in 1 .. Len(r), r[i].kind = "turn" PROVE i <= k
      <3>1. i \in 1 .. n - 1 /\ i \in 1 .. n /\ i + 1 \in 1 .. n
        BY <1>1, <1>2
      <3>2. CASE i < j
        BY <3>1, <3>2, <2>2, <1>1, <1>2
      <3>3. CASE ~ i < j
        <4>1. r[i] = tr[i + 1]
          BY <3>1, <3>3, <1>2
        <4> QED BY <4>1, <3>1, <2>2, <1>1
      <3> QED BY <3>2, <3>3
    <2>3. k \in 0 .. Len(r)
      BY <1>1, <1>2 DEF k
    <2> QED BY <1>2, <2>1, <2>2, <2>3, IsLastTurn
  <1> QED BY <1>2, <1>3 DEF r, k

-----------------------------------------------------------------------------
(* The store's transcript, and what each of its operations keeps           *)

\* Whether the last turn is under way.
Modes == {"live", "over"}

Trailing(s, b) ==
    LastTurnIndex(s.transcript) > 0 =>
        Len(s.transcript) - LastTurnIndex(s.transcript) <= b + (IF s.approval # 0 THEN 1 ELSE 0)

\* The turns that are over are finished, and the last one, of a live stream, is
\* under way; the notice asked for stands once, behind it.
TurnsOK(s, mode) ==
    LET tr == s.transcript
        k == LastTurnIndex(tr)
    IN  /\ \A i \in 1 .. Len(tr) : tr[i].kind = "turn" /\ (i < k \/ mode # "live") => Finished(tr[i])
        /\ mode = "live" => k > 0 /\ LastTurn(tr).streaming /\ Tidy(LastTurn(tr))
NoticesOK(s) ==
    LET tr == s.transcript
        k == LastTurnIndex(tr)
    IN  /\ \A i \in 1 .. Len(tr) :
              tr[i].kind = "system" /\ tr[i].approval # 0 => i > k /\ tr[i].approval = s.approval
        /\ s.approval # 0 => k > 0
        /\ s.approval # 0 =>
              \E j \in 1 .. Len(tr) :
                 /\ tr[j].kind = "system" /\ tr[j].approval = s.approval
                 /\ \A i \in 1 .. Len(tr) : tr[i].kind = "system" /\ tr[i].approval = s.approval => i = j
Shape(s, mode, b) ==
    /\ s \in ScreenRec /\ Len(s.transcript) <= TranscriptLimit
    /\ TurnsOK(s, mode) /\ NoticesOK(s) /\ Trailing(s, b)

\* Nothing before the last turn changes, or the epoch does.
StaysBefore(s, next) ==
    \/ next.epoch > s.epoch
    \/ /\ next.epoch = s.epoch
       /\ LastTurnIndex(next.transcript) = LastTurnIndex(s.transcript)
       /\ \A i \in 1 .. LastTurnIndex(s.transcript) - 1 : next.transcript[i] = s.transcript[i]

\* Nothing changes of what there is, or the epoch does.
StaysWhole(s, next) ==
    \/ next.epoch > s.epoch
    \/ /\ next.epoch = s.epoch /\ Len(next.transcript) >= Len(s.transcript)
       /\ \A i \in 1 .. Len(s.transcript) : next.transcript[i] = s.transcript[i]

LEMMA ScreenFields ==
  ASSUME NEW s \in ScreenRec
  PROVE  s.transcript \in Entries /\ s.epoch \in Nat /\ s.usage \in Nat /\ s.approval \in Nat
  BY DEF ScreenRec

LEMMA LimitFacts ==
  TranscriptLimit \in Nat /\ TrimTarget \in Nat /\ TrimTarget < TranscriptLimit
  BY TranscriptAssumption

LEMMA TurnReplaced ==
  ASSUME NEW s, NEW mode \in Modes, NEW b \in Nat, Shape(s, mode, b), LastTurnIndex(s.transcript) > 0,
         NEW next \in ScreenRec, NEW turn \in TurnRec, NEW then \in Modes,
         then = "live" => turn.streaming /\ Tidy(turn), then # "live" => Finished(turn),
         next.transcript = UpdateLastTurn(s.transcript, turn), next.approval = s.approval
  PROVE  /\ Shape(next, then, b) /\ LastTurn(next.transcript) = turn
         /\ LastTurnIndex(next.transcript) = LastTurnIndex(s.transcript)
         /\ Len(next.transcript) = Len(s.transcript)
         /\ \A i \in 1 .. LastTurnIndex(s.transcript) - 1 : next.transcript[i] = s.transcript[i]
  <1> DEFINE tr == s.transcript
             k == LastTurnIndex(tr)
             n == Len(tr)
             u == next.transcript
  <1>1. /\ s \in ScreenRec /\ n <= TranscriptLimit /\ TurnsOK(s, mode) /\ NoticesOK(s) /\ Trailing(s, b)
        /\ tr \in Entries /\ n \in Nat
    BY ScreenFields DEF Shape, Entries
  <1>2. /\ u \in Entries /\ Len(u) = n /\ LastTurnIndex(u) = k /\ LastTurn(u) = turn
        /\ \A i \in 1 .. n : u[i] = IF i = k THEN turn ELSE tr[i]
    BY <1>1, UpdateFacts
  <1>3. k \in 1 .. n
    BY <1>1, LastTurnFacts
  <1>4. turn.kind = "turn"
    BY EntryFacts
  <1> HIDE DEF k
  <1>5. TurnsOK(next, then)
    <2>1. ASSUME NEW i \in 1 .. n, u[i].kind = "turn", i < k \/ then # "live" PROVE Finished(u[i])
      <3>1. CASE i = k
        BY <3>1, <2>1, <1>2, <1>3
      <3>2. CASE i < k
        BY <3>2, <2>1, <1>1, <1>2, <1>3 DEF TurnsOK, k
      <3>3. CASE i > k
        <4>1. u[i] = tr[i]
          BY <3>3, <1>2, <1>3
        <4>2. i <= k
          BY <4>1, <2>1, <1>1, LastTurnFacts DEF k
        <4> QED BY <4>2, <3>3, <1>3, <1>1
      <3> QED BY <3>1, <3>2, <3>3, <1>1, <1>3
    <2> QED BY <2>1, <1>1, <1>2, <1>3 DEF TurnsOK
  <1>6. NoticesOK(next)
    <2>1. ASSUME NEW i \in 1 .. n, u[i].kind = "system" PROVE u[i] = tr[i]
      BY <2>1, <1>2, <1>4
    <2>2. ASSUME NEW i \in 1 .. n, tr[i].kind = "system" PROVE u[i] = tr[i]
      <3>1. tr[k].kind = "turn"
        BY <1>1, <1>3, LastTurnFacts DEF LastTurn, k
      <3> QED BY <3>1, <2>2, <1>2
    <2>3. \A i \in 1 .. n : u[i].kind = "system" /\ u[i].approval # 0 => i > k /\ u[i].approval = next.approval
      BY <2>1, <1>1 DEF NoticesOK, k
    <2>4. ASSUME next.approval # 0
          PROVE  \E j \in 1 .. n : /\ u[j].kind = "system" /\ u[j].approval = next.approval
                                   /\ \A i \in 1 .. n : u[i].kind = "system" /\ u[i].approval = next.approval => i = j
      <3>1. PICK j \in 1 .. n : /\ tr[j].kind = "system" /\ tr[j].approval = s.approval
                                /\ \A i \in 1 .. n : tr[i].kind = "system" /\ tr[i].approval = s.approval => i = j
        BY <2>4, <1>1 DEF NoticesOK
      <3>2. u[j].kind = "system" /\ u[j].approval = next.approval
        BY <3>1, <2>2
      <3>3. \A i \in 1 .. n : u[i].kind = "system" /\ u[i].approval = next.approval => i = j
        BY <3>1, <2>1
      <3> QED BY <3>2, <3>3
    <2> HIDE DEF u
    <2>5. LastTurnIndex(u) > 0
      BY <1>1, <1>2, <1>3
    <2> QED BY <2>3, <2>4, <2>5, <1>2 DEF NoticesOK, u
  <1>7. Trailing(next, b)
    BY <1>1, <1>2 DEF Trailing, k
  <1>8. \A i \in 1 .. k - 1 : u[i] = tr[i]
    <2>1. \A i \in 1 .. k - 1 : i \in 1 .. n /\ i # k
      BY <1>1, <1>3
    <2> QED BY <2>1, <1>2
  <1> QED BY <1>1, <1>2, <1>5, <1>6, <1>7, <1>8 DEF Shape, k

\* What boundedTranscript makes of entries no more than one over the limit.
LEMMA BoundedFacts ==
  ASSUME NEW s \in ScreenRec, NEW entries \in Entries, Len(entries) <= TranscriptLimit + 1,
         LastTurnIndex(entries) > 0 => Len(entries) - LastTurnIndex(entries) < TrimTarget
  PROVE  LET next == Bounded(s, entries)
         IN  /\ next \in ScreenRec /\ next.usage = s.usage /\ next.approval = s.approval
             /\ Len(next.transcript) <= TranscriptLimit
             /\ \E cut \in 0 .. Len(entries) :
                  /\ next.epoch = IF cut = 0 THEN s.epoch ELSE s.epoch + 1
                  /\ cut = 0 => next.transcript = entries
                  /\ Len(next.transcript) = Len(entries) - cut
                  /\ LastTurnIndex(entries) > 0 => LastTurnIndex(entries) > cut
                  /\ LastTurnIndex(next.transcript) = IF LastTurnIndex(entries) = 0 THEN 0
                                                      ELSE LastTurnIndex(entries) - cut
                  /\ \A i \in 1 .. Len(entries) - cut : next.transcript[i] = entries[cut + i]
  <1> DEFINE n == Len(entries)
             k == LastTurnIndex(entries)
             next == Bounded(s, entries)
  <1>1. n \in Nat /\ k \in 0 .. n
    BY LastTurnFacts DEF Entries
  <1>2. CASE n <= TranscriptLimit
    <2>1. next = [s EXCEPT !.transcript = entries]
      BY <1>2 DEF Bounded
    <2>2. next \in ScreenRec /\ next.usage = s.usage /\ next.approval = s.approval /\ next.epoch = s.epoch
          /\ next.transcript = entries
      BY <2>1 DEF ScreenRec
    <2> HIDE DEF next
    <2>3. /\ 0 \in 0 .. n /\ n - 0 = n /\ (k = 0 \/ k - 0 = k) /\ (k > 0 <=> ~ k = 0)
          /\ \A i \in 1 .. n : 0 + i = i
      BY <1>1
    <2>4. LastTurnIndex(next.transcript) = IF k = 0 THEN 0 ELSE k - 0
      BY <2>2, <2>3
    <2>5. \A i \in 1 .. n - 0 : next.transcript[i] = entries[0 + i]
      BY <2>2, <2>3
    <2> QED BY <2>2, <2>3, <2>4, <2>5, <1>2 DEF next
  <1>3. CASE ~ n <= TranscriptLimit
    <2> DEFINE cut == n - TrimTarget
               c == SubSeq(entries, cut + 1, n)
    <2>1. next = [s EXCEPT !.transcript = c, !.epoch = s.epoch + 1]
      BY <1>3 DEF Bounded
    <2>2. cut \in Nat /\ cut <= n /\ cut # 0 /\ cut \in 0 .. n /\ (k > 0 => k > cut) /\ n - cut <= TranscriptLimit
      BY <1>1, <1>3, LimitFacts
    <2> HIDE DEF cut
    <2>3. /\ c \in Entries /\ Len(c) = n - cut
          /\ LastTurnIndex(c) = IF k = 0 THEN 0 ELSE k - cut
          /\ \A i \in 1 .. n - cut : c[i] = entries[cut + i]
      BY <2>2, CutFacts
    <2> HIDE DEF c
    <2>4. next \in ScreenRec /\ next.usage = s.usage /\ next.approval = s.approval /\ next.epoch = s.epoch + 1
          /\ next.transcript = c
      <3> DEFINE up == s.epoch + 1
      <3>1. up \in Nat
        BY ScreenFields
      <3>2. next = [s EXCEPT !.transcript = c, !.epoch = up]
        BY <2>1
      <3> HIDE DEF up, next
      <3>3. next \in ScreenRec /\ next.usage = s.usage /\ next.approval = s.approval /\ next.epoch = up
            /\ next.transcript = c
        BY <3>1, <3>2, <2>3 DEF ScreenRec
      <3> QED BY <3>3 DEF up
    <2> HIDE DEF next
    <2> QED BY <2>2, <2>3, <2>4 DEF next
  <1> QED BY <1>2, <1>3

Pushed(s, line, asked) == [Bounded(s, Append(s.transcript, line)) EXCEPT !.approval = asked]

LEMMA CutArithmetic ==
  ASSUME NEW n \in Nat, NEW k \in 1 .. n, NEW cut \in 0 .. n + 1, k > cut
  PROVE  /\ k - cut \in 1 .. n - cut /\ cut + (k - cut) = k /\ k - cut \in 1 .. n /\ k # n + 1
         /\ k - cut \in 1 .. (n + 1) - cut
         /\ (n + 1) - cut \in 1 .. (n + 1) - cut /\ cut + ((n + 1) - cut) = n + 1
  OBVIOUS

\* A line is pushed: one of no approval, or the notice of one.
LEMMA LineAdded ==
  ASSUME NEW s, NEW mode \in Modes, NEW b \in Nat, Shape(s, mode, b),
         NEW line \in LineRec, NEW asked \in Nat, NEW c \in Nat,
         \/ line.approval = 0 /\ asked = s.approval
         \/ /\ line.approval # 0 /\ s.approval = 0 /\ asked = line.approval
            /\ LastTurnIndex(s.transcript) > 0,
         b + (IF s.approval # 0 THEN 1 ELSE 0) + 1 <= c + (IF asked # 0 THEN 1 ELSE 0),
         b + (IF s.approval # 0 THEN 1 ELSE 0) + 1 < TrimTarget,
         NEW next, next = Pushed(s, line, asked)
  PROVE  /\ Shape(next, mode, c) /\ next.usage = s.usage /\ next.approval = asked
         /\ LastTurnIndex(next.transcript) > 0 <=> LastTurnIndex(s.transcript) > 0
         /\ LastTurnIndex(s.transcript) > 0 => LastTurn(next.transcript) = LastTurn(s.transcript)
         /\ StaysBefore(s, next) /\ StaysWhole(s, next)
  <1> DEFINE tr == s.transcript
             k == LastTurnIndex(tr)
             n == Len(tr)
             a == Append(tr, line)
             mid == Bounded(s, a)
             u == next.transcript
             l == LastTurnIndex(u)
  <1>1. /\ s \in ScreenRec /\ n <= TranscriptLimit /\ TurnsOK(s, mode) /\ NoticesOK(s) /\ Trailing(s, b)
        /\ tr \in Entries /\ n \in Nat
    BY ScreenFields DEF Shape, Entries
  <1>2. /\ a \in Entries /\ Len(a) = n + 1 /\ a[n + 1] = line
        /\ LastTurnIndex(a) = k
        /\ \A i \in 1 .. n : a[i] = tr[i]
    BY <1>1, AppendLineFacts
  <1>3. k \in 0 .. n /\ (k > 0 => k \in 1 .. n /\ tr[k].kind = "turn" /\ LastTurn(tr) = tr[k])
    BY <1>1, LastTurnFacts DEF LastTurn
  <1>4. line.kind = "system" /\ line.approval \in Nat
    BY EntryFacts DEF LineRec
  <1>5. k > 0 => (n + 1) - k <= b + (IF s.approval # 0 THEN 1 ELSE 0) + 1
    BY <1>1, <1>3 DEF Trailing
  <1> HIDE DEF a, k
  <1>6. Len(a) <= TranscriptLimit + 1 /\ (LastTurnIndex(a) > 0 => Len(a) - LastTurnIndex(a) < TrimTarget)
    <2>1. Len(a) <= TranscriptLimit + 1
      BY <1>1, <1>2, LimitFacts
    <2>2. ASSUME k > 0 PROVE (n + 1) - k < TrimTarget
      <3>1. (n + 1) - k \in Int
        BY <1>1, <1>3
      <3> QED BY <3>1, <2>2, <1>5, LimitFacts
    <2> QED BY <2>1, <2>2, <1>2
  <1>7. /\ mid \in ScreenRec /\ mid.usage = s.usage /\ mid.approval = s.approval
        /\ Len(mid.transcript) <= TranscriptLimit
        /\ \E cut \in 0 .. n + 1 :
             /\ mid.epoch = IF cut = 0 THEN s.epoch ELSE s.epoch + 1
             /\ Len(mid.transcript) = (n + 1) - cut
             /\ k > 0 => k > cut
             /\ LastTurnIndex(mid.transcript) = IF k = 0 THEN 0 ELSE k - cut
             /\ \A i \in 1 .. (n + 1) - cut : mid.transcript[i] = a[cut + i]
    <2>1. /\ mid \in ScreenRec /\ mid.usage = s.usage /\ mid.approval = s.approval
          /\ Len(mid.transcript) <= TranscriptLimit
          /\ \E cut \in 0 .. Len(a) :
               /\ mid.epoch = IF cut = 0 THEN s.epoch ELSE s.epoch + 1
               /\ cut = 0 => mid.transcript = a
               /\ Len(mid.transcript) = Len(a) - cut
               /\ LastTurnIndex(a) > 0 => LastTurnIndex(a) > cut
               /\ LastTurnIndex(mid.transcript) = IF LastTurnIndex(a) = 0 THEN 0 ELSE LastTurnIndex(a) - cut
               /\ \A i \in 1 .. Len(a) - cut : mid.transcript[i] = a[cut + i]
      BY <1>1, <1>2, <1>6, BoundedFacts
    <2> HIDE DEF mid
    <2>2. Len(a) = n + 1 /\ LastTurnIndex(a) = k
      BY <1>2
    <2> QED BY <2>1, <2>2
  <1>8. /\ next \in ScreenRec /\ next.usage = s.usage /\ next.approval = asked
        /\ next.transcript = mid.transcript /\ next.epoch = mid.epoch
    <2>1. next = [mid EXCEPT !.approval = asked]
      BY DEF a, Pushed
    <2> HIDE DEF mid
    <2> QED BY <2>1, <1>7 DEF ScreenRec
  <1>9. PICK cut \in 0 .. n + 1 :
             /\ next.epoch = IF cut = 0 THEN s.epoch ELSE s.epoch + 1
             /\ Len(u) = (n + 1) - cut
             /\ k > 0 => k > cut
             /\ l = IF k = 0 THEN 0 ELSE k - cut
             /\ \A i \in 1 .. (n + 1) - cut : u[i] = a[cut + i]
    BY <1>7, <1>8
  <1>10. Len(u) <= TranscriptLimit /\ u \in Entries
    BY <1>7, <1>8, ScreenFields
  <1> HIDE DEF u, l, mid
  <1>11. \A i \in 1 .. (n + 1) - cut : \/ cut + i \in 1 .. n /\ u[i] = tr[cut + i]
                                       \/ cut + i = n + 1 /\ u[i] = line
    <2> TAKE i \in 1 .. (n + 1) - cut
    <2>1. cut + i \in 1 .. n \/ cut + i = n + 1
      BY <1>1
    <2> QED BY <2>1, <1>2, <1>9
  <1>12. l > 0 <=> k > 0
    BY <1>3, <1>9
  <1>13. k > 0 => LastTurn(u) = LastTurn(tr) /\ l = k - cut /\ l \in 1 .. n
    <2> SUFFICES ASSUME k > 0 PROVE LastTurn(u) = LastTurn(tr) /\ l = k - cut /\ l \in 1 .. n
      OBVIOUS
    <2>0. k \in 1 .. n /\ k # 0 /\ k > cut /\ n \in Nat
      BY <1>1, <1>3, <1>9
    <2>1. l = k - cut
      BY <2>0, <1>9
    <2>2. /\ l \in 1 .. n - cut /\ cut + l = k /\ l \in 1 .. n
          /\ l \in 1 .. (n + 1) - cut /\ cut + l # n + 1
      BY <2>0, <2>1, CutArithmetic
    <2>3. u[l] = tr[k]
      BY <2>1, <2>2, <1>11
    <2> QED BY <2>0, <2>1, <2>2, <2>3, <1>3 DEF LastTurn, l
  <1>14. TurnsOK(next, mode)
    <2>1. ASSUME NEW i \in 1 .. Len(u), u[i].kind = "turn", i < l \/ mode # "live" PROVE Finished(u[i])
      <3>1. cut + i \in 1 .. n /\ u[i] = tr[cut + i]
        BY <2>1, <1>4, <1>9, <1>11
      <3>2. i < l => k > 0 /\ cut + i < k
        BY <1>1, <1>3, <1>9
      <3> QED BY <3>1, <3>2, <2>1, <1>1 DEF TurnsOK, k
    <2>2. mode = "live" => l > 0 /\ LastTurn(u).streaming /\ Tidy(LastTurn(u))
      BY <1>1, <1>12, <1>13 DEF TurnsOK, k
    <2> QED BY <2>1, <2>2 DEF TurnsOK, u, l
  <1>15. NoticesOK(next)
    <2>1. ASSUME NEW i \in 1 .. Len(u), u[i].kind = "system", u[i].approval # 0
          PROVE  i > l /\ u[i].approval = next.approval
      <3>1. CASE cut + i \in 1 .. n /\ u[i] = tr[cut + i]
        <4>1. cut + i > k /\ tr[cut + i].approval = s.approval
          BY <3>1, <2>1, <1>1 DEF NoticesOK, k
        <4>2. next.approval = s.approval
          BY <4>1, <3>1, <2>1, <1>8
        <4>3. i > l
          <5>1. CASE k = 0
            BY <5>1, <1>9
          <5>2. CASE k # 0
            BY <5>2, <4>1, <1>1, <1>3, <1>9
          <5> QED BY <5>1, <5>2
        <4> QED BY <4>1, <4>2, <4>3, <3>1
      <3>2. CASE cut + i = n + 1 /\ u[i] = line
        <4>1. i > l
          BY <3>2, <1>1, <1>3, <1>9
        <4> QED BY <4>1, <3>2, <2>1, <1>8
      <3> QED BY <3>1, <3>2, <1>9, <1>11
    <2>2. ASSUME next.approval # 0
          PROVE  \E j \in 1 .. Len(u) :
                    /\ u[j].kind = "system" /\ u[j].approval = next.approval
                    /\ \A i \in 1 .. Len(u) : u[i].kind = "system" /\ u[i].approval = next.approval => i = j
      <3>1. CASE line.approval = 0 /\ asked = s.approval
        <4>1. PICK j \in 1 .. n : /\ tr[j].kind = "system" /\ tr[j].approval = s.approval
                                  /\ \A i \in 1 .. n : tr[i].kind = "system" /\ tr[i].approval = s.approval => i = j
          BY <3>1, <2>2, <1>1, <1>8 DEF NoticesOK
        <4>2. j > k
          BY <4>1, <3>1, <2>2, <1>1, <1>8 DEF NoticesOK, k
        <4>3. j > cut
          <5>1. k > 0
            BY <3>1, <2>2, <1>1, <1>8 DEF NoticesOK, k
          <5> QED BY <5>1, <4>2, <1>3, <1>9
        <4> DEFINE m == j - cut
        <4>4. m \in 1 .. Len(u) /\ cut + m = j /\ m \in 1 .. (n + 1) - cut
          <5>1. cut \in Nat /\ j \in 1 .. n /\ n \in Nat
            BY <1>1
          <5>2. m \in 1 .. (n + 1) - cut /\ cut + m = j
            BY <5>1, <4>3
          <5> HIDE DEF m
          <5> QED BY <5>2, <1>9
        <4> HIDE DEF m
        <4>5. u[m] = tr[j]
          <5>1. cut + m # n + 1
            BY <4>4, <1>1
          <5> QED BY <5>1, <4>4, <1>11
        <4>6. ASSUME NEW i \in 1 .. Len(u), u[i].kind = "system", u[i].approval = next.approval PROVE i = m
          <5>1. u[i].approval # line.approval
            BY <4>6, <3>1, <2>2
          <5>2. cut + i \in 1 .. n /\ u[i] = tr[cut + i]
            BY <5>1, <1>9, <1>11
          <5>3. cut + i = j
            BY <5>2, <4>1, <4>6, <3>1, <1>8
          <5> QED BY <5>3, <4>4, <1>9
        <4>7. u[m].kind = "system" /\ u[m].approval = next.approval
          BY <4>5, <4>1, <3>1, <1>8
        <4> QED BY <4>4, <4>6, <4>7
      <3>2. CASE line.approval # 0 /\ s.approval = 0 /\ asked = line.approval
        <4> DEFINE m == (n + 1) - cut
        <4>0. k > 0
          BY <3>2 DEF k
        <4>1. m \in 1 .. Len(u) /\ cut + m = n + 1
          <5>1. k \in 1 .. n /\ k > cut /\ n \in Nat
            BY <4>0, <1>1, <1>3, <1>9
          <5>2. m \in 1 .. (n + 1) - cut /\ cut + m = n + 1
            BY <5>1, CutArithmetic
          <5> QED BY <5>2, <1>9
        <4> HIDE DEF m
        <4>2. u[m] = line
          <5>1. ~ cut + m \in 1 .. n /\ m \in 1 .. (n + 1) - cut
            BY <4>1, <1>1, <1>9
          <5> QED BY <5>1, <4>1, <1>11
        <4>3. ASSUME NEW i \in 1 .. Len(u), u[i].kind = "system", u[i].approval = next.approval PROVE i = m
          <5>1. ~ (cut + i \in 1 .. n /\ u[i] = tr[cut + i])
            <6> SUFFICES ASSUME cut + i \in 1 .. n, u[i] = tr[cut + i] PROVE FALSE
              OBVIOUS
            <6>1. tr[cut + i].kind = "system" /\ tr[cut + i].approval # 0
              BY <4>3, <2>2
            <6>2. tr[cut + i].approval = 0
              BY <6>1, <3>2, <1>1 DEF NoticesOK
            <6> QED BY <6>1, <6>2
          <5>2. cut + i = n + 1
            BY <5>1, <1>9, <1>11
          <5> QED BY <5>2, <4>1, <1>9
        <4> QED BY <4>1, <4>2, <4>3, <3>2, <1>4, <1>8
      <3> QED BY <3>1, <3>2
    <2>3. next.approval # 0 => l > 0
      <3>1. asked # 0 => k > 0
        BY <1>1 DEF NoticesOK, k
      <3> QED BY <3>1, <1>8, <1>12
    <2> QED BY <2>1, <2>2, <2>3 DEF NoticesOK, u, l
  <1>16. Trailing(next, c)
    <2> SUFFICES ASSUME l > 0 PROVE Len(u) - l <= c + (IF asked # 0 THEN 1 ELSE 0)
      BY <1>8 DEF Trailing, u, l
    <2>2. k > 0
      BY <1>12
    <2>1. Len(u) - l = (n + 1) - k
      <3>1. l = k - cut /\ Len(u) = (n + 1) - cut /\ cut \in Nat /\ k \in Nat
        BY <2>2, <1>3, <1>9, <1>13
      <3> QED BY <3>1, <1>1
    <2>3. (n + 1) - k \in Int
      BY <1>1, <1>3
    <2> QED BY <2>1, <2>2, <2>3, <1>5
  <1>17. StaysBefore(s, next)
    <2>1. CASE cut = 0
      <3>1. next.epoch = s.epoch /\ l = k /\ \A i \in 1 .. n : u[i] = tr[i]
        <4>1. \A i \in 1 .. n : i \in 1 .. (n + 1) - cut /\ cut + i = i /\ i # n + 1
          BY <2>1, <1>1
        <4>2. l = k
          BY <2>1, <1>3, <1>9
        <4> QED BY <4>1, <4>2, <2>1, <1>9, <1>11
      <3>2. \A i \in 1 .. k - 1 : i \in 1 .. n
        BY <1>1, <1>3
      <3> QED BY <3>1, <3>2 DEF StaysBefore, u, l, k
    <2>2. CASE cut # 0
      <3>1. next.epoch > s.epoch
        BY <2>2, <1>9, <1>1, ScreenFields
      <3> QED BY <3>1 DEF StaysBefore
    <2> QED BY <2>1, <2>2
  <1>18. StaysWhole(s, next)
    <2>1. CASE cut = 0
      <3>1. next.epoch = s.epoch /\ Len(u) >= n /\ \A i \in 1 .. n : u[i] = tr[i]
        <4>1. \A i \in 1 .. n : i \in 1 .. (n + 1) - cut /\ cut + i = i /\ i # n + 1
          BY <2>1, <1>1
        <4>2. Len(u) >= n
          BY <2>1, <1>1, <1>9
        <4> QED BY <4>1, <4>2, <2>1, <1>9, <1>11
      <3> QED BY <3>1 DEF StaysWhole, u
    <2>2. CASE cut # 0
      <3>1. next.epoch > s.epoch
        BY <2>2, <1>9, <1>1, ScreenFields
      <3> QED BY <3>1 DEF StaysWhole
    <2> QED BY <2>1, <2>2
  <1> QED BY <1>8, <1>10, <1>12, <1>13, <1>14, <1>15, <1>16, <1>17, <1>18 DEF Shape, u, l, k

\* How many entries are printed for good.
Printed(s, mode) == IF mode = "live" THEN LastTurnIndex(s.transcript) - 1 ELSE Len(s.transcript)

Keeps(s, mode, next, then) ==
    \/ next.epoch # s.epoch
    \/ /\ Printed(s, mode) <= Printed(next, then)
       /\ \A i \in 1 .. Printed(s, mode) : next.transcript[i] = s.transcript[i]

LEMMA ModeFacts == "live" \in Modes /\ "over" \in Modes
  BY DEF Modes

LEMMA ShapeFacts ==
  ASSUME NEW s, NEW mode \in Modes, NEW b, Shape(s, mode, b)
  PROVE  /\ s \in ScreenRec /\ s.transcript \in Entries /\ s.epoch \in Nat /\ s.usage \in Nat /\ s.approval \in Nat
         /\ Len(s.transcript) \in Nat /\ LastTurnIndex(s.transcript) \in 0 .. Len(s.transcript)
         /\ mode = "live" => LastTurnIndex(s.transcript) \in 1 .. Len(s.transcript)
  <1>1. s \in ScreenRec /\ s.transcript \in Entries /\ s.epoch \in Nat /\ s.usage \in Nat /\ s.approval \in Nat
    BY ScreenFields DEF Shape
  <1>2. Len(s.transcript) \in Nat
    BY <1>1 DEF Entries
  <1>3. mode = "live" => LastTurnIndex(s.transcript) > 0
    BY DEF Shape, TurnsOK
  <1> QED BY <1>1, <1>2, <1>3, LastTurnFacts

LEMMA LiveKeeps ==
  ASSUME NEW s, NEW b, NEW c, Shape(s, "live", b), NEW next, NEW then \in Modes, Shape(next, then, c),
         StaysBefore(s, next)
  PROVE  Keeps(s, "live", next, then)
  <1>1. /\ s.epoch \in Nat /\ next.epoch \in Nat /\ Len(next.transcript) \in Nat
        /\ LastTurnIndex(next.transcript) \in 0 .. Len(next.transcript)
        /\ LastTurnIndex(s.transcript) \in Nat
    <2>1. /\ s.epoch \in Nat /\ next.epoch \in Nat /\ Len(next.transcript) \in Nat
          /\ LastTurnIndex(next.transcript) \in 0 .. Len(next.transcript)
          /\ LastTurnIndex(s.transcript) \in 0 .. Len(s.transcript) /\ Len(s.transcript) \in Nat
      BY ShapeFacts, ModeFacts
    <2> QED BY <2>1
  <1>2. CASE next.epoch > s.epoch
    BY <1>1, <1>2 DEF Keeps, Printed
  <1>3. CASE ~ next.epoch > s.epoch
    BY <1>1, <1>3 DEF Keeps, Printed, StaysBefore
  <1> QED BY <1>2, <1>3

LEMMA WholeKeeps ==
  ASSUME NEW s, NEW b, NEW c, Shape(s, "over", b), NEW next, Shape(next, "over", c),
         StaysWhole(s, next)
  PROVE  Keeps(s, "over", next, "over")
  <1>1. s.epoch \in Nat /\ next.epoch \in Nat /\ Len(next.transcript) \in Nat /\ Len(s.transcript) \in Nat
    BY ShapeFacts, ModeFacts
  <1> QED BY <1>1 DEF Keeps, Printed, StaysWhole

LEMMA StaticFacts ==
  ASSUME NEW s, NEW mode \in Modes, NEW b, Shape(s, mode, b)
  PROVE  /\ Static(s.transcript) \in Entries /\ Len(Static(s.transcript)) = Printed(s, mode)
         /\ \A i \in 1 .. Printed(s, mode) : Static(s.transcript)[i] = s.transcript[i]
  <1> DEFINE tr == s.transcript
             n == Len(tr)
             k == LastTurnIndex(tr)
             streamed == {i \in DOMAIN tr : tr[i].kind = "turn" /\ tr[i].streaming}
  <1>1. tr \in Entries /\ n \in Nat /\ DOMAIN tr = 1 .. n /\ k \in 0 .. n /\ (mode = "live" => k \in 1 .. n) /\ TurnsOK(s, mode)
    BY ShapeFacts DEF Shape, Entries
  <1>2. \A i \in 1 .. n : tr[i].kind = "turn" => i <= k
    BY <1>1, LastTurnFacts
  <1>3. \A i \in streamed : mode = "live" /\ i = k
    BY <1>1, <1>2 DEF TurnsOK, Finished
  <1>4. CASE mode = "live"
    <2>1. k \in streamed
      BY <1>1, <1>4, LastTurnFacts DEF TurnsOK, LastTurn
    <2>2. streamed = {k} /\ k \in Nat
      BY <2>1, <1>1, <1>3
    <2>3. Min(streamed) = k
      <3>1. streamed \in SUBSET Nat /\ streamed # {}
        BY <2>2
      <3> HIDE DEF streamed
      <3> QED BY <2>2, <3>1, MinOfSome
    <2>4. Static(tr) = SubSeq(tr, 1, k - 1)
      BY <2>1, <2>3 DEF Static
    <2>5. 1 \in Int /\ k - 1 \in Int /\ \A i \in 1 .. k - 1 : tr[i] \in TurnRec \cup LineRec
      BY <1>1, <1>4 DEF Entries
    <2> HIDE DEF k, tr
    <2>6. /\ Static(tr) \in Seq(TurnRec \cup LineRec)
          /\ Len(Static(tr)) = IF 1 <= k - 1 THEN (k - 1) - 1 + 1 ELSE 0
          /\ \A i \in 1 .. (k - 1) - 1 + 1 : Static(tr)[i] = tr[1 + i - 1]
      BY <2>4, <2>5, SubSeqProperties
    <2>7. /\ (k - 1) - 1 + 1 = k - 1 /\ (~ 1 <= k - 1 => k - 1 = 0) /\ \A i \in 1 .. k - 1 : 1 + i - 1 = i
      BY <1>1, <1>4
    <2> QED BY <2>6, <2>7, <1>4 DEF Printed, Entries, tr, k
  <1>5. CASE mode # "live"
    <2>1. streamed = {}
      BY <1>3, <1>5
    <2>2. Static(tr) = tr
      BY <2>1 DEF Static
    <2> QED BY <2>2, <1>1, <1>5 DEF Printed
  <1> QED BY <1>4, <1>5

LEMMA KeepsStatic ==
  ASSUME NEW s, NEW mode \in Modes, NEW b, Shape(s, mode, b),
         NEW next, NEW then \in Modes, NEW c, Shape(next, then, c), Keeps(s, mode, next, then)
  PROVE  next.epoch # s.epoch \/ IsPrefix(Static(s.transcript), Static(next.transcript))
  <1> DEFINE x == Static(s.transcript)
             y == Static(next.transcript)
             n == Printed(s, mode)
  <1>1. x \in Entries /\ Len(x) = n /\ \A i \in 1 .. n : x[i] = s.transcript[i]
    BY StaticFacts
  <1>2. y \in Entries /\ Len(y) = Printed(next, then)
        /\ \A i \in 1 .. Printed(next, then) : y[i] = next.transcript[i]
    BY StaticFacts
  <1>3. n \in Nat /\ Printed(next, then) \in Nat
    BY <1>1, <1>2 DEF Entries
  <1> SUFFICES ASSUME next.epoch = s.epoch PROVE IsPrefix(x, y)
    OBVIOUS
  <1>4. n <= Printed(next, then) /\ \A i \in 1 .. n : next.transcript[i] = s.transcript[i]
    BY DEF Keeps
  <1>5. Len(x) <= Len(y) /\ \A i \in 1 .. n : x[i] = y[i]
    <2>1. \A i \in 1 .. n : i \in 1 .. Printed(next, then)
      BY <1>3, <1>4
    <2> QED BY <2>1, <1>1, <1>2, <1>4
  <1> HIDE DEF x, y, n
  <1> QED BY <1>1, <1>2, <1>3, <1>5 DEF IsPrefix, Entries

LEMMA TurnPushed ==
  ASSUME NEW s, NEW b, Shape(s, "over", b), s.approval = 0, NEW id \in Nat, NEW c \in Nat,
         NEW next, next = [Bounded(s, Append(s.transcript, Turn(id))) EXCEPT !.usage = 0]
  PROVE  /\ Shape(next, "live", c) /\ next.usage = 0 /\ next.approval = 0
         /\ LastTurn(next.transcript) = Turn(id)
         /\ LastTurnIndex(next.transcript) > 0
         /\ Keeps(s, "over", next, "live")
  <1> DEFINE tr == s.transcript
             n == Len(tr)
             turn == Turn(id)
             a == Append(tr, turn)
             mid == Bounded(s, a)
             u == next.transcript
             l == LastTurnIndex(u)
  <1>1. /\ s \in ScreenRec /\ n <= TranscriptLimit /\ TurnsOK(s, "over") /\ NoticesOK(s)
        /\ tr \in Entries /\ n \in Nat /\ s.epoch \in Nat
    BY ShapeFacts, ModeFacts DEF Shape
  <1>2. turn \in TurnRec /\ turn.streaming /\ Tidy(turn)
    <2>1. <<>> \in Seq(Nat) /\ <<>> \in Seq(DraftRec) /\ <<>> \in Seq(CardRec)
      OBVIOUS
    <2>2. turn \in TurnRec /\ turn.streaming /\ turn.cards = <<>> /\ turn.drafts = <<>>
      BY <2>1 DEF Turn, TurnRec
    <2>3. DOMAIN turn.cards = {} /\ DOMAIN turn.drafts = {}
      BY <2>2
    <2> QED BY <2>2, <2>3 DEF Tidy, TidyCards, UniqueIds
  <1> HIDE DEF turn
  <1>3. /\ a \in Entries /\ Len(a) = n + 1 /\ a[n + 1] = turn
        /\ LastTurnIndex(a) = n + 1
        /\ \A i \in 1 .. n : a[i] = tr[i]
    BY <1>1, <1>2, AppendTurnFacts
  <1> HIDE DEF a
  <1>4. Len(a) <= TranscriptLimit + 1 /\ Len(a) - LastTurnIndex(a) < TrimTarget
    <2>1. TrimTarget > 0
      BY TranscriptAssumption
    <2> QED BY <2>1, <1>1, <1>3, LimitFacts
  <1>5. /\ mid \in ScreenRec /\ mid.usage = s.usage /\ mid.approval = s.approval
        /\ Len(mid.transcript) <= TranscriptLimit
        /\ \E cut \in 0 .. Len(a) :
             /\ mid.epoch = IF cut = 0 THEN s.epoch ELSE s.epoch + 1
             /\ cut = 0 => mid.transcript = a
             /\ Len(mid.transcript) = Len(a) - cut
             /\ LastTurnIndex(a) > 0 => LastTurnIndex(a) > cut
             /\ LastTurnIndex(mid.transcript) = IF LastTurnIndex(a) = 0 THEN 0 ELSE LastTurnIndex(a) - cut
             /\ \A i \in 1 .. Len(a) - cut : mid.transcript[i] = a[cut + i]
    BY <1>1, <1>3, <1>4, BoundedFacts
  <1>6. /\ next \in ScreenRec /\ next.usage = 0 /\ next.approval = 0
        /\ next.transcript = mid.transcript /\ next.epoch = mid.epoch
    <2>1. next = [mid EXCEPT !.usage = 0]
      BY DEF a, turn
    <2> HIDE DEF mid
    <2> QED BY <2>1, <1>5 DEF ScreenRec
  <1>7. PICK cut \in 0 .. n + 1 :
             /\ next.epoch = IF cut = 0 THEN s.epoch ELSE s.epoch + 1
             /\ Len(u) = (n + 1) - cut
             /\ n + 1 > cut
             /\ l = (n + 1) - cut
             /\ \A i \in 1 .. (n + 1) - cut : u[i] = a[cut + i]
    <2> HIDE DEF mid
    <2>1. n + 1 > 0 /\ n + 1 # 0
      BY <1>1
    <2>2. PICK cut \in 0 .. Len(a) :
             /\ mid.epoch = IF cut = 0 THEN s.epoch ELSE s.epoch + 1
             /\ Len(mid.transcript) = Len(a) - cut
             /\ LastTurnIndex(a) > 0 => LastTurnIndex(a) > cut
             /\ LastTurnIndex(mid.transcript) = IF LastTurnIndex(a) = 0 THEN 0 ELSE LastTurnIndex(a) - cut
             /\ \A i \in 1 .. Len(a) - cut : mid.transcript[i] = a[cut + i]
      BY <1>5
    <2>3. cut \in 0 .. n + 1 /\ Len(a) = n + 1 /\ LastTurnIndex(a) = n + 1
      BY <1>3, <2>2
    <2>4. /\ mid.epoch = IF cut = 0 THEN s.epoch ELSE s.epoch + 1
          /\ Len(mid.transcript) = (n + 1) - cut
          /\ n + 1 > cut
          /\ LastTurnIndex(mid.transcript) = (n + 1) - cut
          /\ \A i \in 1 .. (n + 1) - cut : mid.transcript[i] = a[cut + i]
      BY <2>1, <2>2, <2>3
    <2> QED BY <2>3, <2>4, <1>6
  <1>8. u \in Entries /\ Len(u) <= TranscriptLimit
    BY <1>5, <1>6, ScreenFields
  <1> HIDE DEF u, l, mid
  <1>9. l \in 1 .. Len(u) /\ Len(u) = l /\ cut + l = n + 1 /\ LastTurn(u) = turn
    <2>1. l \in 1 .. Len(u) /\ Len(u) = l /\ cut + l = n + 1
      BY <1>1, <1>7
    <2>2. u[l] = turn
      BY <2>1, <1>3, <1>7
    <2> QED BY <2>1, <2>2 DEF LastTurn, l
  <1>10. \A i \in 1 .. Len(u) : i < l => cut + i \in 1 .. n /\ u[i] = tr[cut + i]
    <2> TAKE i \in 1 .. Len(u)
    <2> HAVE i < l
    <2>1. cut + i \in 1 .. n
      BY <1>1, <1>9
    <2> QED BY <2>1, <1>3, <1>7
  <1>11. TurnsOK(next, "live")
    <2>1. ASSUME NEW i \in 1 .. Len(u), u[i].kind = "turn", i < l PROVE Finished(u[i])
      BY <2>1, <1>10, <1>1 DEF TurnsOK
    <2>2. l > 0
      BY <1>9
    <2> QED BY <2>1, <2>2, <1>2, <1>9 DEF TurnsOK, u, l
  <1>12. NoticesOK(next)
    <2>1. ASSUME NEW i \in 1 .. Len(u), u[i].kind = "system", u[i].approval # 0 PROVE FALSE
      <3>1. i # l
        <4>1. u[l].kind = "turn"
          BY <1>2, <1>9, EntryFacts DEF LastTurn, l
        <4> QED BY <4>1, <2>1
      <3>2. cut + i \in 1 .. n /\ u[i] = tr[cut + i]
        BY <3>1, <1>9, <1>10
      <3> QED BY <3>2, <2>1, <1>1 DEF NoticesOK
    <2> QED BY <2>1, <1>6 DEF NoticesOK, u
  <1>13. Trailing(next, c)
    BY <1>6, <1>9 DEF Trailing, u, l
  <1>14. Keeps(s, "over", next, "live")
    <2>1. CASE cut = 0
      <3>1. Printed(next, "live") = n /\ Printed(s, "over") = n
        BY <2>1, <1>1, <1>9 DEF Printed, u, l
      <3>2. \A i \in 1 .. n : u[i] = tr[i]
        <4>1. \A i \in 1 .. n : i \in 1 .. Len(u) /\ i < l /\ cut + i = i
          BY <2>1, <1>1, <1>9
        <4> QED BY <4>1, <1>10
      <3>3. n <= n
        BY <1>1
      <3> QED BY <3>1, <3>2, <3>3 DEF Keeps, Printed, u
    <2>2. CASE cut # 0
      <3>1. next.epoch # s.epoch
        BY <2>2, <1>1, <1>7
      <3> QED BY <3>1 DEF Keeps, Printed
    <2> QED BY <2>1, <2>2
  <1>15. l > 0
    BY <1>9
  <1> QED BY <1>6, <1>8, <1>9, <1>11, <1>12, <1>13, <1>14, <1>15 DEF Shape, u, l, turn

LEMMA SettledFacts ==
  ASSUME NEW s, NEW mode \in Modes, NEW b \in Nat, Shape(s, mode, b)
  PROVE  LET next == Settled(s)
         IN  /\ Shape(next, mode, b) /\ next.approval = 0 /\ next.usage = s.usage
             /\ LastTurnIndex(next.transcript) = LastTurnIndex(s.transcript)
             /\ LastTurnIndex(s.transcript) > 0 => LastTurn(next.transcript) = LastTurn(s.transcript)
             /\ StaysBefore(s, next)
             /\ s.approval = 0 => next = s
  <1> DEFINE tr == s.transcript
             n == Len(tr)
             k == LastTurnIndex(tr)
             id == s.approval
             next == Settled(s)
             u == next.transcript
  <1>1. /\ s \in ScreenRec /\ n <= TranscriptLimit /\ TurnsOK(s, mode) /\ NoticesOK(s) /\ Trailing(s, b)
        /\ tr \in Entries /\ n \in Nat /\ k \in 0 .. n /\ s.epoch \in Nat /\ DOMAIN tr = 1 .. n
    BY ShapeFacts DEF Shape, Entries
  <1>2. CASE id = 0
    <2>1. next = s
      BY <1>2 DEF Settled
    <2> QED BY <2>1, <1>2 DEF StaysBefore
  <1>3. CASE id # 0
    <2>1. PICK j \in 1 .. n : /\ tr[j].kind = "system" /\ tr[j].approval = id
                              /\ \A i \in 1 .. n : tr[i].kind = "system" /\ tr[i].approval = id => i = j
      BY <1>1, <1>3 DEF NoticesOK
    <2>2. k > 0 /\ k \in 1 .. n /\ j > k
      BY <2>1, <1>1, <1>3 DEF NoticesOK
    <2>3. Notices(tr, id) = {j}
      BY <2>1, <1>1 DEF Notices
    <2>4. Min(Notices(tr, id)) = j /\ Notices(tr, id) # {}
      <3>1. {j} \in SUBSET Nat /\ {j} # {}
        OBVIOUS
      <3> QED BY <3>1, <2>3, MinOfSome
    <2> DEFINE r == RemoveAt(tr, j)
    <2>5. next = [s EXCEPT !.transcript = r, !.approval = 0]
      BY <2>4, <1>3 DEF Settled
    <2>6. /\ r \in Entries /\ Len(r) = n - 1 /\ LastTurnIndex(r) = k
          /\ \A i \in 1 .. n - 1 : r[i] = IF i < j THEN tr[i] ELSE tr[i + 1]
      BY <2>2, <1>1, RemoveLineFacts
    <2> HIDE DEF r, next
    <2>7. next \in ScreenRec /\ next.usage = s.usage /\ next.approval = 0 /\ next.epoch = s.epoch
          /\ next.transcript = r
      BY <2>5, <2>6, <1>1 DEF ScreenRec
    <2> HIDE DEF k, id
    <2>8. \A i \in 1 .. n - 1 : (i < j /\ i \in 1 .. n /\ r[i] = tr[i])
                                \/ (i >= j /\ i + 1 \in 1 .. n /\ r[i] = tr[i + 1])
      BY <2>6, <1>1
    <2>9. TurnsOK(next, mode)
      <3>1. ASSUME NEW i \in 1 .. n - 1, r[i].kind = "turn", i < k \/ mode # "live" PROVE Finished(r[i])
        <4>1. CASE i < j /\ i \in 1 .. n /\ r[i] = tr[i]
          BY <4>1, <3>1, <1>1 DEF TurnsOK, k
        <4>2. CASE i >= j /\ i + 1 \in 1 .. n /\ r[i] = tr[i + 1]
          <5>1. i + 1 <= k
            BY <4>2, <3>1, <1>1, LastTurnFacts DEF k
          <5> QED BY <5>1, <4>2, <2>2, <1>1
        <4> QED BY <4>1, <4>2, <2>8
      <3>2. r[k] = tr[k]
        <4>1. k \in 1 .. n - 1 /\ k < j
          BY <2>2, <1>1
        <4> QED BY <4>1, <2>6
      <3>3. LastTurn(r) = LastTurn(tr)
        BY <3>2, <2>6 DEF LastTurn, k
      <3>4. mode = "live" => LastTurnIndex(r) > 0 /\ LastTurn(r).streaming /\ Tidy(LastTurn(r))
        BY <3>3, <2>2, <2>6, <1>1 DEF TurnsOK
      <3> QED BY <3>1, <3>4, <2>6, <2>7 DEF TurnsOK
    <2>10. NoticesOK(next)
      <3>1. ASSUME NEW i \in 1 .. n - 1, r[i].kind = "system", r[i].approval # 0 PROVE FALSE
        <4>1. CASE i < j /\ i \in 1 .. n /\ r[i] = tr[i]
          <5>1. r[i].approval = id
            BY <4>1, <3>1, <1>1 DEF NoticesOK, id
          <5>2. i = j
            BY <5>1, <4>1, <3>1, <2>1
          <5> QED BY <5>2, <4>1
        <4>2. CASE i >= j /\ i + 1 \in 1 .. n /\ r[i] = tr[i + 1]
          <5>1. r[i].approval = id
            BY <4>2, <3>1, <1>1 DEF NoticesOK, id
          <5>2. i + 1 = j
            BY <5>1, <4>2, <3>1, <2>1
          <5> QED BY <5>2, <4>2, <1>1
        <4> QED BY <4>1, <4>2, <2>8
      <3> QED BY <3>1, <2>6, <2>7 DEF NoticesOK
    <2>11. Trailing(next, b)
      <3>1. n - k <= b + 1
        BY <1>1, <1>3, <2>2 DEF Trailing, k, id
      <3>2. (n - 1) - k <= b
        <4>1. n \in Nat /\ k \in Nat /\ b \in Nat
          BY <1>1, <2>2
        <4> QED BY ONLY <3>1, <4>1
      <3>3. LastTurnIndex(next.transcript) = k /\ Len(next.transcript) = n - 1 /\ next.approval = 0
        BY <2>6, <2>7
      <3>4. (n - 1) - k <= b + (IF next.approval # 0 THEN 1 ELSE 0)
        <4>1. b + 0 = b
          OBVIOUS
        <4> QED BY <3>2, <3>3, <4>1
      <3> QED BY ONLY <3>3, <3>4 DEF Trailing
    <2>12. LastTurn(r) = LastTurn(tr)
      <3>1. k \in 1 .. n - 1 /\ k < j
        BY <2>2, <1>1
      <3> QED BY <3>1, <2>6 DEF LastTurn, k
    <2>13. StaysBefore(s, next)
      <3>1. \A i \in 1 .. k - 1 : i \in 1 .. n - 1 /\ i < j
        BY <2>2, <1>1
      <3>2. \A i \in 1 .. k - 1 : r[i] = tr[i]
        BY <3>1, <2>6
      <3> QED BY <3>2, <2>6, <2>7 DEF StaysBefore, k
    <2>14. Len(r) <= TranscriptLimit
      BY <2>6, <1>1, LimitFacts
    <2> QED BY <2>6, <2>7, <2>9, <2>10, <2>11, <2>12, <2>13, <2>14, <1>3 DEF Shape, next, k, id
  <1> QED BY <1>2, <1>3

-----------------------------------------------------------------------------
(* What the store makes of an event                                        *)

OpenIn(s) ==
    (IF LastTurnIndex(s.transcript) = 0 THEN {} ELSE OpenOf(LastTurn(s.transcript)))
    \cup (IF s.approval = 0 THEN {} ELSE {<<"notice", s.approval>>})

WithTurn(s, turn) == [s EXCEPT !.transcript = UpdateLastTurn(s.transcript, turn)]

LEMMA WithTurnFacts ==
  ASSUME NEW s \in ScreenRec, LastTurnIndex(s.transcript) > 0, NEW turn \in TurnRec
  PROVE  LET next == WithTurn(s, turn)
         IN  /\ next \in ScreenRec /\ next.transcript = UpdateLastTurn(s.transcript, turn)
             /\ next.epoch = s.epoch /\ next.usage = s.usage /\ next.approval = s.approval
  <1> DEFINE u == UpdateLastTurn(s.transcript, turn)
  <1>1. u \in Entries
    BY ScreenFields, UpdateFacts
  <1>2. WithTurn(s, turn) = [s EXCEPT !.transcript = u]
    BY DEF WithTurn
  <1> HIDE DEF u
  <1>3. /\ [s EXCEPT !.transcript = u] \in ScreenRec /\ [s EXCEPT !.transcript = u].transcript = u
        /\ [s EXCEPT !.transcript = u].epoch = s.epoch /\ [s EXCEPT !.transcript = u].usage = s.usage
        /\ [s EXCEPT !.transcript = u].approval = s.approval
    BY <1>1 DEF ScreenRec
  <1> QED BY <1>2, <1>3 DEF u

LEMMA ShapeOnly ==
  ASSUME NEW s, NEW mode \in Modes, NEW b, Shape(s, mode, b), NEW next \in ScreenRec,
         next.transcript = s.transcript, next.approval = s.approval
  PROVE  Shape(next, mode, b)
  BY DEF Shape, TurnsOK, NoticesOK, Trailing

LEMMA StaysBeforeIsTransitive ==
  ASSUME NEW s \in ScreenRec, NEW t \in ScreenRec, NEW u \in ScreenRec, StaysBefore(s, t), StaysBefore(t, u)
  PROVE  StaysBefore(s, u)
  <1>1. s.epoch \in Nat /\ t.epoch \in Nat /\ u.epoch \in Nat
    BY ScreenFields
  <1>2. CASE t.epoch > s.epoch \/ u.epoch > t.epoch
    <2>1. u.epoch > s.epoch
      BY <1>1, <1>2 DEF StaysBefore
    <2> QED BY <2>1 DEF StaysBefore
  <1>3. CASE ~ (t.epoch > s.epoch \/ u.epoch > t.epoch)
    <2>1. /\ t.epoch = s.epoch /\ u.epoch = t.epoch
          /\ LastTurnIndex(t.transcript) = LastTurnIndex(s.transcript)
          /\ LastTurnIndex(u.transcript) = LastTurnIndex(t.transcript)
          /\ \A i \in 1 .. LastTurnIndex(s.transcript) - 1 : t.transcript[i] = s.transcript[i]
          /\ \A i \in 1 .. LastTurnIndex(t.transcript) - 1 : u.transcript[i] = t.transcript[i]
      BY <1>3 DEF StaysBefore
    <2>2. \A i \in 1 .. LastTurnIndex(s.transcript) - 1 : u.transcript[i] = s.transcript[i]
      BY <2>1
    <2> QED BY <2>1, <2>2 DEF StaysBefore
  <1> QED BY <1>2, <1>3

LEMMA BoundedWithTurn ==
  ASSUME NEW s \in ScreenRec, Len(s.transcript) <= TranscriptLimit, LastTurnIndex(s.transcript) > 0,
         NEW turn \in TurnRec
  PROVE  /\ Bounded(s, UpdateLastTurn(s.transcript, turn)) = WithTurn(s, turn)
         /\ \A entries \in Entries : Bounded(WithTurn(s, turn), entries) = Bounded(s, entries)
  <1> DEFINE u == UpdateLastTurn(s.transcript, turn)
             w == WithTurn(s, turn)
  <1>1. u \in Entries /\ Len(u) = Len(s.transcript)
    BY ScreenFields, UpdateFacts
  <1>2. w = [s EXCEPT !.transcript = u]
    BY DEF WithTurn
  <1> HIDE DEF u, w
  <1>3. Bounded(s, u) = w
    BY <1>1, <1>2 DEF Bounded
  <1>4. ASSUME NEW entries \in Entries PROVE Bounded(w, entries) = Bounded(s, entries)
    <2>1. \A x : [w EXCEPT !.transcript = x] = [s EXCEPT !.transcript = x]
      BY <1>2 DEF ScreenRec
    <2>2. w.epoch = s.epoch
      BY <1>2 DEF ScreenRec
    <2>3. \A x, y : [w EXCEPT !.transcript = x, !.epoch = y] = [s EXCEPT !.transcript = x, !.epoch = y]
      BY <1>2 DEF ScreenRec
    <2> DEFINE cut == SubSeq(entries, Len(entries) - TrimTarget + 1, Len(entries))
    <2>4. Bounded(w, entries) = IF Len(entries) <= TranscriptLimit THEN [w EXCEPT !.transcript = entries]
                                ELSE [w EXCEPT !.transcript = cut, !.epoch = w.epoch + 1]
      BY DEF Bounded
    <2>5. Bounded(s, entries) = IF Len(entries) <= TranscriptLimit THEN [s EXCEPT !.transcript = entries]
                                ELSE [s EXCEPT !.transcript = cut, !.epoch = s.epoch + 1]
      BY DEF Bounded
    <2> HIDE DEF cut
    <2>6. [w EXCEPT !.transcript = entries] = [s EXCEPT !.transcript = entries]
      BY <1>2 DEF ScreenRec
    <2> DEFINE up == s.epoch + 1
    <2> HIDE DEF up
    <2>7. [w EXCEPT !.transcript = cut, !.epoch = up] = [s EXCEPT !.transcript = cut, !.epoch = up]
      BY <1>2 DEF ScreenRec
    <2> QED BY <2>2, <2>4, <2>5, <2>6, <2>7 DEF up
  <1> QED BY <1>3, <1>4 DEF u, w

\* An event of a stream under way.
Allowed(s, e) ==
    /\ e \in Event /\ e.type # "started"
    /\ e.type = "await" => OpenIn(s) = {}
    /\ e.type = "ask" => s.approval = 0

LEMMA CountUsage ==
  ASSUME NEW s, NEW mode \in Modes, NEW b, Shape(s, mode, b), NEW e, e.type = "usage"
  PROVE  LET next == Dispatch(s, e)
         IN  /\ Shape(next, mode, b) /\ next.usage = s.usage + 1 /\ next.approval = s.approval
             /\ next.transcript = s.transcript /\ next.epoch = s.epoch
             /\ OpenIn(next) = OpenIn(s) /\ StaysBefore(s, next) /\ StaysWhole(s, next)
  <1> DEFINE up == s.usage + 1
             next == Dispatch(s, e)
  <1>1. s \in ScreenRec /\ up \in Nat /\ Len(s.transcript) \in Nat
    BY ShapeFacts
  <1>2. next = [s EXCEPT !.usage = up]
    BY DEF Dispatch
  <1> HIDE DEF up, next
  <1>3. next \in ScreenRec /\ next.usage = up /\ next.approval = s.approval
        /\ next.transcript = s.transcript /\ next.epoch = s.epoch
    BY <1>1, <1>2 DEF ScreenRec
  <1>4. Shape(next, mode, b)
    BY <1>3, ShapeOnly
  <1>5. OpenIn(next) = OpenIn(s) /\ StaysBefore(s, next) /\ StaysWhole(s, next)
    BY <1>1, <1>3 DEF OpenIn, StaysBefore, StaysWhole
  <1> QED BY <1>3, <1>4, <1>5 DEF up, next

LEMMA OnTurnFacts ==
  ASSUME NEW turn \in TurnRec, turn.streaming, Tidy(turn), NEW e \in Event,
         e.type = "await" => OpenOf(turn) = {}
  PROVE  LET next == OnTurn(turn, e)
         IN  /\ next \in TurnRec
             /\ ~ EndsTurn(e) => /\ next.streaming /\ Tidy(next)
                                 /\ OpenOf(next) \subseteq (OpenOf(turn) \ Closes(e)) \cup Opens(e)
             /\ EndsTurn(e) => Finished(next)
  <1>1. CASE e.type = "done"
    BY <1>1, DoneFinishes DEF EndsTurn
  <1>2. CASE e.type = "await"
    BY <1>2, AwaitFinishes DEF EndsTurn
  <1>3. CASE e.type \notin {"done", "await"}
    BY <1>3, OnTurnUnderWay DEF EndsTurn
  <1> QED BY <1>1, <1>2, <1>3

LEMMA DispatchIsWithTurn ==
  ASSUME NEW s, NEW b, NEW mode \in Modes, mode = "live", Shape(s, mode, b), NEW e \in Event,
         e.type \notin {"usage", "ask", "result", "done", "await"}
  PROVE  Dispatch(s, e) = WithTurn(s, OnTurn(LastTurn(s.transcript), e))
  <1> DEFINE turn == LastTurn(s.transcript)
             told == OnTurn(turn, e)
  <1>1. s \in ScreenRec /\ Len(s.transcript) <= TranscriptLimit /\ LastTurnIndex(s.transcript) > 0
        /\ turn \in TurnRec /\ turn.streaming /\ Tidy(turn)
    BY ShapeFacts, LastTurnFacts DEF Shape, TurnsOK
  <1>2. told \in TurnRec
    BY <1>1, OnTurnFacts
  <1>3. Dispatch(s, e) = Bounded(s, UpdateLastTurn(s.transcript, told))
    BY DEF Dispatch
  <1> HIDE DEF told
  <1> QED BY <1>1, <1>2, <1>3, BoundedWithTurn DEF told

LEMMA DispatchFacts ==
  ASSUME NEW s, NEW b \in Nat, NEW mode \in Modes, mode = "live", Shape(s, mode, b), b + 1 < TrimTarget,
         NEW e, Allowed(s, e), NEW then \in Modes, then = "live" <=> ~ EndsTurn(e)
  PROVE  LET next == Dispatch(s, e)
         IN  /\ Shape(next, then, b)
             /\ next.usage = s.usage + (IF e.type = "usage" THEN 1 ELSE 0)
             /\ LastTurnIndex(next.transcript) > 0
             /\ StaysBefore(s, next)
             /\ then = "live" => OpenIn(next) \subseteq (OpenIn(s) \ Closes(e)) \cup Opens(e)
             /\ then # "live" => next.approval = 0
  <1> DEFINE turn == LastTurn(s.transcript)
             k == LastTurnIndex(s.transcript)
             told == OnTurn(turn, e)
             mid == WithTurn(s, told)
             next == Dispatch(s, e)
  <1>1. /\ s \in ScreenRec /\ Len(s.transcript) <= TranscriptLimit /\ k > 0
        /\ turn \in TurnRec /\ turn.streaming /\ Tidy(turn) /\ s.usage \in Nat
    BY ShapeFacts, LastTurnFacts DEF Shape, TurnsOK
  <1>2. e \in Event /\ e.type # "started" /\ (e.type = "await" => OpenOf(turn) = {})
    BY <1>1 DEF Allowed, OpenIn
  <1>3. /\ told \in TurnRec
        /\ then = "live" => told.streaming /\ Tidy(told) /\ OpenOf(told) \subseteq (OpenOf(turn) \ Closes(e)) \cup Opens(e)
        /\ then # "live" => Finished(told)
    BY <1>1, <1>2, OnTurnFacts
  <1> HIDE DEF told, k
  <1>4. /\ mid \in ScreenRec /\ mid.transcript = UpdateLastTurn(s.transcript, told)
        /\ mid.epoch = s.epoch /\ mid.usage = s.usage /\ mid.approval = s.approval
    BY <1>1, <1>3, WithTurnFacts DEF k
  <1> HIDE DEF mid
  <1>5. /\ Shape(mid, then, b) /\ LastTurn(mid.transcript) = told
        /\ LastTurnIndex(mid.transcript) = k
        /\ \A i \in 1 .. k - 1 : mid.transcript[i] = s.transcript[i]
    <2>1. (then = "live" => told.streaming /\ Tidy(told)) /\ (then # "live" => Finished(told)) /\ told \in TurnRec
      BY <1>3
    <2>2. LastTurnIndex(s.transcript) > 0
      BY <1>1 DEF k
    <2>3. /\ Shape(mid, then, b) /\ LastTurn(mid.transcript) = told
          /\ LastTurnIndex(mid.transcript) = LastTurnIndex(s.transcript)
          /\ \A i \in 1 .. LastTurnIndex(s.transcript) - 1 : mid.transcript[i] = s.transcript[i]
      BY <2>1, <2>2, <1>4, TurnReplaced
    <2> QED BY <2>3 DEF k
  <1>6. StaysBefore(s, mid)
    BY <1>4, <1>5 DEF StaysBefore, k
  <1>7. mid.transcript \in Entries
    BY <1>4, ScreenFields
  <1>8. /\ Bounded(s, UpdateLastTurn(s.transcript, told)) = mid
        /\ \A entries \in Entries : Bounded(mid, entries) = Bounded(s, entries)
    BY <1>1, <1>3, BoundedWithTurn DEF mid, k
  <1>9. OpenIn(mid) = OpenOf(told) \cup (IF s.approval = 0 THEN {} ELSE {<<"notice", s.approval>>})
    <2>1. LastTurnIndex(mid.transcript) # 0
      BY <1>1, <1>5
    <2> QED BY <2>1, <1>4, <1>5 DEF OpenIn
  <1>10. OpenIn(s) = OpenOf(turn) \cup (IF s.approval = 0 THEN {} ELSE {<<"notice", s.approval>>})
    <2>1. LastTurnIndex(s.transcript) # 0
      BY <1>1 DEF k
    <2> QED BY <2>1 DEF OpenIn
  <1> USE EventFields
  <1>11. CASE e.type = "usage"
    <2>1. then = "live"
      BY <1>11 DEF EndsTurn
    <2>2. Opens(e) = {} /\ Closes(e) = {}
      BY <1>11 DEF Opens, Closes
    <2>3. /\ Shape(next, mode, b) /\ next.usage = s.usage + 1
          /\ next.transcript = s.transcript /\ OpenIn(next) = OpenIn(s) /\ StaysBefore(s, next)
      BY <1>11, CountUsage
    <2>4. mode = then
      BY <2>1
    <2> HIDE DEF next
    <2> QED BY <2>1, <2>2, <2>3, <2>4, <1>1, <1>11 DEF next, k
  <1>12. CASE e.type = "ask"
    <2> DEFINE line == SystemEntry(e.made, e.id)
    <2>1. then = "live" /\ s.approval = 0 /\ e.id \in Nat /\ e.id # 0 /\ e.made \in Nat
      BY <1>12, <1>2 DEF EndsTurn, Allowed
    <2>2. line \in LineRec /\ line.approval = e.id
      BY <2>1 DEF SystemEntry, LineRec
    <2>3. next = [Bounded(mid, Append(mid.transcript, line)) EXCEPT !.approval = e.id]
      <3>1. next = [Bounded(s, Append(UpdateLastTurn(s.transcript, told), line)) EXCEPT !.approval = e.id]
        BY <1>12 DEF Dispatch, told
      <3> HIDE DEF line, next
      <3>2. Append(mid.transcript, line) \in Entries
        BY <1>7, <2>2, AppendLineFacts
      <3> QED BY <3>1, <3>2, <1>4, <1>8
    <2> HIDE DEF line, next
    <2> DEFINE id == e.id
    <2>4. /\ id \in Nat /\ line.approval # 0 /\ mid.approval = 0 /\ id = line.approval
          /\ LastTurnIndex(mid.transcript) > 0
          /\ b + (IF mid.approval # 0 THEN 1 ELSE 0) + 1 <= b + (IF id # 0 THEN 1 ELSE 0)
          /\ b + (IF mid.approval # 0 THEN 1 ELSE 0) + 1 < TrimTarget
      BY <2>1, <2>2, <1>1, <1>4, <1>5
    <2>5. next = Pushed(mid, line, id)
      BY <2>3 DEF Pushed
    <2> HIDE DEF id
    <2>6. /\ Shape(next, then, b) /\ next.usage = mid.usage /\ next.approval = id
          /\ LastTurnIndex(next.transcript) > 0 <=> LastTurnIndex(mid.transcript) > 0
          /\ LastTurnIndex(mid.transcript) > 0 => LastTurn(next.transcript) = LastTurn(mid.transcript)
          /\ StaysBefore(mid, next)
      <3>1. \/ line.approval = 0 /\ id = mid.approval
            \/ /\ line.approval # 0 /\ mid.approval = 0 /\ id = line.approval
               /\ LastTurnIndex(mid.transcript) > 0
        BY <2>4
      <3>2. Shape(mid, then, b) /\ line \in LineRec
        BY <2>2, <1>5
      <3> QED BY <3>1, <3>2, <2>4, <2>5, LineAdded
    <2>7. next \in ScreenRec
      BY <2>6 DEF Shape
    <2>8. StaysBefore(s, next)
      BY <2>6, <2>7, <1>1, <1>4, <1>6, StaysBeforeIsTransitive
    <2>9. Opens(e) = {<<"notice", e.id>>} /\ Closes(e) = {}
      BY <1>12 DEF Opens, Closes
    <2>10. OpenIn(next) = OpenOf(told) \cup {<<"notice", e.id>>}
      <3>1. LastTurnIndex(next.transcript) # 0 /\ LastTurn(next.transcript) = told /\ next.approval = e.id
        BY <2>4, <2>6, <1>5 DEF id
      <3> QED BY <3>1, <2>1 DEF OpenIn
    <2>11. then = "live" => OpenIn(next) \subseteq (OpenIn(s) \ Closes(e)) \cup Opens(e)
      <3>1. OpenOf(turn) \subseteq OpenIn(s) /\ Closes(e) = {}
        BY <1>10, <2>9
      <3> QED BY <3>1, <2>9, <2>10, <1>3
    <2>12. next.usage = s.usage + (IF e.type = "usage" THEN 1 ELSE 0)
      BY <2>6, <1>1, <1>4, <1>12
    <2>13. LastTurnIndex(next.transcript) > 0
      BY <2>4, <2>6
    <2> HIDE DEF next
    <2> QED BY <2>1, <2>6, <2>8, <2>11, <2>12, <2>13 DEF next
  <1>13. CASE e.type \in {"result", "done", "await"}
    <2>1. next = Settled(mid)
      BY <1>8, <1>13 DEF Dispatch, told
    <2>2. /\ Shape(next, then, b) /\ next.approval = 0 /\ next.usage = mid.usage
          /\ LastTurnIndex(next.transcript) = LastTurnIndex(mid.transcript)
          /\ LastTurnIndex(mid.transcript) > 0 => LastTurn(next.transcript) = LastTurn(mid.transcript)
          /\ StaysBefore(mid, next)
      <3>1. Shape(mid, then, b)
        BY <1>5
      <3> HIDE DEF next
      <3> QED BY <2>1, <3>1, SettledFacts
    <2> HIDE DEF next
    <2>3. next \in ScreenRec
      BY <2>2 DEF Shape
    <2>4. StaysBefore(s, next)
      BY <2>2, <2>3, <1>1, <1>4, <1>6, StaysBeforeIsTransitive
    <2>5. OpenIn(next) = OpenOf(told)
      <3>1. LastTurnIndex(next.transcript) # 0 /\ LastTurn(next.transcript) = told
        BY <2>2, <1>1, <1>5
      <3> QED BY <3>1, <2>2 DEF OpenIn
    <2> QED BY <2>2, <2>4, <2>5, <1>1, <1>3, <1>4, <1>5, <1>10, <1>13 DEF next
  <1>14. CASE e.type \notin {"usage", "ask", "result", "done", "await"}
    <2>1. next = mid
      BY <1>8, <1>14 DEF Dispatch, told
    <2> HIDE DEF next
    <2>2. then = "live"
      BY <1>14 DEF EndsTurn
    <2>3. \A x : <<"notice", x>> \notin Closes(e)
      BY <1>14 DEF Closes
    <2>4. OpenIn(next) \subseteq (OpenIn(s) \ Closes(e)) \cup Opens(e)
      BY <2>1, <2>2, <2>3, <1>3, <1>9, <1>10
    <2> QED BY <2>1, <2>2, <2>4, <1>1, <1>4, <1>5, <1>6, <1>14 DEF next
  <1> QED BY <1>11, <1>12, <1>13, <1>14

LEMMA RestartedFacts ==
  ASSUME NEW s, NEW b \in Nat, NEW mode \in Modes, Shape(s, mode, b), s.approval = 0,
         LastTurnIndex(s.transcript) > 0, NEW then \in Modes, then = "live"
  PROVE  LET next == Restarted(s)
         IN  /\ Shape(next, then, b) /\ next.usage = 0 /\ OpenIn(next) = {}
             /\ LastTurnIndex(next.transcript) > 0
             /\ next.epoch > s.epoch
  <1> DEFINE turn == Turn(LastTurn(s.transcript).id)
             u == UpdateLastTurn(s.transcript, turn)
             up == s.epoch + 1
             next == Restarted(s)
  <1>1. s \in ScreenRec /\ s.epoch \in Nat /\ s.transcript \in Entries /\ LastTurn(s.transcript) \in TurnRec
    BY ShapeFacts, LastTurnFacts
  <1>2. turn \in TurnRec /\ turn.streaming /\ Tidy(turn) /\ OpenOf(turn) = {}
    <2>1. <<>> \in Seq(Nat) /\ <<>> \in Seq(DraftRec) /\ <<>> \in Seq(CardRec) /\ LastTurn(s.transcript).id \in Nat
      BY <1>1 DEF TurnRec
    <2>2. turn \in TurnRec /\ turn.streaming /\ turn.cards = <<>> /\ turn.drafts = <<>>
      BY <2>1 DEF Turn, TurnRec
    <2>3. DOMAIN turn.cards = {} /\ DOMAIN turn.drafts = {}
      BY <2>2
    <2> HIDE DEF turn
    <2>4. DraftIds(turn.drafts) = {} /\ RunningTools(turn.cards) = {}
      BY <2>3 DEF DraftIds, RunningTools
    <2>5. OpenOf(turn) = {}
      BY <2>4 DEF OpenOf
    <2> QED BY <2>2, <2>3, <2>5 DEF Tidy, TidyCards, UniqueIds
  <1> HIDE DEF turn
  <1>3. u \in Entries /\ up \in Nat /\ up > s.epoch
    BY <1>1, <1>2, UpdateFacts
  <1>4. next = [s EXCEPT !.transcript = u, !.epoch = up, !.usage = 0]
    BY DEF Restarted, turn
  <1> HIDE DEF u, up, next
  <1>5. next \in ScreenRec /\ next.transcript = u /\ next.epoch = up /\ next.usage = 0 /\ next.approval = 0
    BY <1>1, <1>3, <1>4 DEF ScreenRec
  <1>6. /\ Shape(next, then, b) /\ LastTurn(next.transcript) = turn
        /\ LastTurnIndex(next.transcript) = LastTurnIndex(s.transcript)
    <2>1. /\ next \in ScreenRec /\ next.transcript = UpdateLastTurn(s.transcript, turn)
          /\ next.approval = s.approval
      BY <1>5 DEF u
    <2>2. /\ Shape(next, then, b) /\ LastTurn(next.transcript) = turn
          /\ LastTurnIndex(next.transcript) = LastTurnIndex(s.transcript)
      BY <2>1, <1>2, TurnReplaced
    <2> QED BY <2>2
  <1>7. OpenIn(next) = {}
    BY <1>2, <1>5, <1>6 DEF OpenIn
  <1> QED BY <1>3, <1>5, <1>6, <1>7 DEF next

-----------------------------------------------------------------------------
(* Another turn in the place of the last, before or after something else   *)

LEMMA UpdateIsDetermined ==
  ASSUME NEW tr \in Entries, LastTurnIndex(tr) > 0, NEW turn \in TurnRec, NEW u \in Entries,
         Len(u) = Len(tr),
         \A i \in 1 .. Len(tr) : u[i] = IF i = LastTurnIndex(tr) THEN turn ELSE tr[i]
  PROVE  u = UpdateLastTurn(tr, turn)
  <1> DEFINE v == UpdateLastTurn(tr, turn)
  <1>1. v \in Entries /\ Len(v) = Len(tr)
        /\ \A i \in 1 .. Len(tr) : v[i] = IF i = LastTurnIndex(tr) THEN turn ELSE tr[i]
    BY UpdateFacts
  <1> HIDE DEF v
  <1>2. u \in Seq(TurnRec \cup LineRec) /\ v \in Seq(TurnRec \cup LineRec) /\ Len(u) = Len(v)
        /\ \A i \in 1 .. Len(u) : u[i] = v[i]
    BY <1>1 DEF Entries
  <1> QED BY <1>2, SeqEqual DEF v

LEMMA UpdateTwice ==
  ASSUME NEW tr \in Entries, LastTurnIndex(tr) > 0, NEW turn \in TurnRec, NEW then \in TurnRec
  PROVE  UpdateLastTurn(UpdateLastTurn(tr, turn), then) = UpdateLastTurn(tr, then)
  <1> DEFINE u == UpdateLastTurn(tr, turn)
             v == UpdateLastTurn(u, then)
  <1>1. /\ u \in Entries /\ Len(u) = Len(tr) /\ LastTurnIndex(u) = LastTurnIndex(tr)
        /\ \A i \in 1 .. Len(tr) : u[i] = IF i = LastTurnIndex(tr) THEN turn ELSE tr[i]
    BY UpdateFacts
  <1> HIDE DEF u
  <1>2. /\ v \in Entries /\ Len(v) = Len(u)
        /\ \A i \in 1 .. Len(u) : v[i] = IF i = LastTurnIndex(u) THEN then ELSE u[i]
    BY <1>1, UpdateFacts
  <1> HIDE DEF v
  <1>3. /\ Len(v) = Len(tr)
        /\ \A i \in 1 .. Len(tr) : v[i] = IF i = LastTurnIndex(tr) THEN then ELSE tr[i]
    BY <1>1, <1>2
  <1>4. v = UpdateLastTurn(tr, then)
    BY <1>2, <1>3, UpdateIsDetermined
  <1> QED BY <1>4 DEF u, v

LEMMA UpdateNothing ==
  ASSUME NEW tr \in Entries, LastTurnIndex(tr) > 0
  PROVE  UpdateLastTurn(tr, LastTurn(tr)) = tr
  <1>1. LastTurn(tr) \in TurnRec
    BY LastTurnFacts
  <1>2. \A i \in 1 .. Len(tr) : tr[i] = IF i = LastTurnIndex(tr) THEN LastTurn(tr) ELSE tr[i]
    BY DEF LastTurn
  <1> QED BY <1>1, <1>2, UpdateIsDetermined

LEMMA AppendUpdated ==
  ASSUME NEW tr \in Entries, LastTurnIndex(tr) > 0, NEW turn \in TurnRec, NEW line \in LineRec
  PROVE  Append(UpdateLastTurn(tr, turn), line) = UpdateLastTurn(Append(tr, line), turn)
  <1> DEFINE u == UpdateLastTurn(tr, turn)
             a == Append(tr, line)
             v == Append(u, line)
             n == Len(tr)
             k == LastTurnIndex(tr)
  <1>1. /\ u \in Entries /\ Len(u) = n
        /\ \A i \in 1 .. n : u[i] = IF i = k THEN turn ELSE tr[i]
    BY UpdateFacts
  <1>2. /\ a \in Entries /\ Len(a) = n + 1 /\ a[n + 1] = line /\ LastTurnIndex(a) = k
        /\ \A i \in 1 .. n : a[i] = tr[i]
    BY AppendLineFacts
  <1> HIDE DEF u, a
  <1>3. /\ v \in Entries /\ Len(v) = Len(u) + 1 /\ v[Len(u) + 1] = line
        /\ \A i \in 1 .. Len(u) : v[i] = u[i]
    BY <1>1, AppendLineFacts
  <1>4. n \in Nat /\ k \in 1 .. n /\ k # n + 1
    BY LastTurnFacts DEF Entries
  <1> HIDE DEF v, k, n
  <1>5. ASSUME NEW i \in 1 .. n + 1 PROVE v[i] = IF i = k THEN turn ELSE a[i]
    <2>1. CASE i = n + 1
      BY <2>1, <1>1, <1>2, <1>3, <1>4
    <2>2. CASE i \in 1 .. n
      <3>1. v[i] = u[i] /\ a[i] = tr[i] /\ u[i] = IF i = k THEN turn ELSE tr[i]
        BY <2>2, <1>1, <1>2, <1>3
      <3> QED BY <3>1
    <2> QED BY <2>1, <2>2, <1>4
  <1>6. Len(v) = Len(a) /\ LastTurnIndex(a) = k /\ LastTurnIndex(a) > 0 /\ Len(a) = n + 1
    BY <1>1, <1>2, <1>3, <1>4
  <1>7. \A i \in 1 .. Len(a) : v[i] = IF i = LastTurnIndex(a) THEN turn ELSE a[i]
    BY <1>5, <1>6
  <1>8. v = UpdateLastTurn(a, turn)
    BY <1>2, <1>3, <1>6, <1>7, UpdateIsDetermined
  <1> QED BY <1>8 DEF v, u, a

LEMMA CutUpdated ==
  ASSUME NEW tr \in Entries, LastTurnIndex(tr) > 0, NEW turn \in TurnRec,
         NEW cut \in Nat, cut <= Len(tr), LastTurnIndex(tr) > cut
  PROVE  SubSeq(UpdateLastTurn(tr, turn), cut + 1, Len(tr)) = UpdateLastTurn(SubSeq(tr, cut + 1, Len(tr)), turn)
  <1> DEFINE u == UpdateLastTurn(tr, turn)
             n == Len(tr)
             k == LastTurnIndex(tr)
             c == SubSeq(tr, cut + 1, n)
             v == SubSeq(u, cut + 1, n)
  <1>1. /\ u \in Entries /\ Len(u) = n /\ LastTurnIndex(u) = k
        /\ \A i \in 1 .. n : u[i] = IF i = k THEN turn ELSE tr[i]
    BY UpdateFacts
  <1>2. /\ c \in Entries /\ Len(c) = n - cut
        /\ LastTurnIndex(c) = IF k = 0 THEN 0 ELSE k - cut
        /\ \A i \in 1 .. n - cut : c[i] = tr[cut + i]
    BY CutFacts
  <1> HIDE DEF u, c
  <1>3. /\ v \in Entries /\ Len(v) = n - cut
        /\ \A i \in 1 .. n - cut : v[i] = u[cut + i]
    <2> DEFINE w == SubSeq(u, cut + 1, Len(u))
    <2>1. /\ w \in Entries /\ Len(w) = Len(u) - cut
          /\ \A i \in 1 .. Len(u) - cut : w[i] = u[cut + i]
      BY <1>1, CutFacts
    <2>2. w = v
      BY <1>1
    <2> HIDE DEF v, w, n
    <2> QED BY <2>1, <2>2, <1>1
  <1>4. n \in Nat /\ k \in 1 .. n
    BY LastTurnFacts DEF Entries
  <1> HIDE DEF v
  <1>5. LastTurnIndex(c) = k - cut /\ LastTurnIndex(c) > 0
    BY <1>2, <1>4
  <1> HIDE DEF k, n
  <1>6. ASSUME NEW i \in 1 .. n - cut PROVE v[i] = IF i = k - cut THEN turn ELSE c[i]
    <2>1. cut + i \in 1 .. n /\ (cut + i = k <=> i = k - cut)
      BY <1>4
    <2>2. v[i] = u[cut + i] /\ c[i] = tr[cut + i]
      BY <1>2, <1>3
    <2>3. u[cut + i] = IF cut + i = k THEN turn ELSE tr[cut + i]
      BY <2>1, <1>1
    <2> QED BY <2>1, <2>2, <2>3
  <1>7. Len(v) = Len(c) /\ \A i \in 1 .. Len(c) : v[i] = IF i = LastTurnIndex(c) THEN turn ELSE c[i]
    BY <1>2, <1>3, <1>5, <1>6
  <1>8. v = UpdateLastTurn(c, turn)
    BY <1>2, <1>3, <1>5, <1>7, UpdateIsDetermined
  <1> QED BY <1>8 DEF v, u, c, n

LEMMA RemoveUpdated ==
  ASSUME NEW tr \in Entries, LastTurnIndex(tr) > 0, NEW turn \in TurnRec,
         NEW j \in 1 .. Len(tr), j > LastTurnIndex(tr)
  PROVE  RemoveAt(UpdateLastTurn(tr, turn), j) = UpdateLastTurn(RemoveAt(tr, j), turn)
  <1> DEFINE u == UpdateLastTurn(tr, turn)
             n == Len(tr)
             k == LastTurnIndex(tr)
             c == RemoveAt(tr, j)
             v == RemoveAt(u, j)
  <1>1. /\ u \in Entries /\ Len(u) = n /\ LastTurnIndex(u) = k
        /\ \A i \in 1 .. n : u[i] = IF i = k THEN turn ELSE tr[i]
    BY UpdateFacts
  <1>2. /\ c \in Entries /\ Len(c) = n - 1 /\ LastTurnIndex(c) = k
        /\ \A i \in 1 .. n - 1 : c[i] = IF i < j THEN tr[i] ELSE tr[i + 1]
    BY RemoveLineFacts
  <1> HIDE DEF u, c
  <1>3. /\ v \in Entries /\ Len(v) = Len(u) - 1
        /\ \A i \in 1 .. Len(u) - 1 : v[i] = IF i < j THEN u[i] ELSE u[i + 1]
    <2>1. j \in 1 .. Len(u) /\ j > LastTurnIndex(u)
      BY <1>1
    <2> QED BY <2>1, <1>1, RemoveLineFacts
  <1>4. n \in Nat /\ k \in 1 .. n /\ j \in 1 .. n /\ j > k
    BY LastTurnFacts DEF Entries
  <1> HIDE DEF v, k, n
  <1>6. ASSUME NEW i \in 1 .. n - 1 PROVE v[i] = IF i = k THEN turn ELSE c[i]
    <2>1. i \in 1 .. n /\ i + 1 \in 1 .. n
      BY <1>4
    <2>2. CASE i < j
      <3>1. v[i] = u[i] /\ c[i] = tr[i]
        BY <2>2, <1>1, <1>2, <1>3
      <3>2. u[i] = IF i = k THEN turn ELSE tr[i]
        BY <2>1, <1>1
      <3> QED BY <3>1, <3>2
    <2>3. CASE ~ i < j
      <3>1. v[i] = u[i + 1] /\ c[i] = tr[i + 1] /\ i # k /\ i + 1 # k
        BY <2>3, <1>1, <1>2, <1>3, <1>4
      <3>2. u[i + 1] = tr[i + 1]
        BY <2>1, <3>1, <1>1
      <3> QED BY <3>1, <3>2
    <2> QED BY <2>2, <2>3
  <1>7. /\ Len(v) = Len(c) /\ LastTurnIndex(c) > 0
        /\ \A i \in 1 .. Len(c) : v[i] = IF i = LastTurnIndex(c) THEN turn ELSE c[i]
    BY <1>1, <1>2, <1>3, <1>4, <1>6
  <1>8. v = UpdateLastTurn(c, turn)
    BY <1>2, <1>3, <1>7, UpdateIsDetermined
  <1> QED BY <1>8 DEF v, u, c

LEMMA SameScreen ==
  ASSUME NEW s \in ScreenRec, NEW t \in ScreenRec, s.transcript = t.transcript, s.epoch = t.epoch,
         s.usage = t.usage, s.approval = t.approval
  PROVE  s = t
  BY DEF ScreenRec

LEMMA WithTurnTwice ==
  ASSUME NEW s \in ScreenRec, LastTurnIndex(s.transcript) > 0, NEW turn \in TurnRec, NEW then \in TurnRec
  PROVE  WithTurn(WithTurn(s, turn), then) = WithTurn(s, then)
  <1> DEFINE a == WithTurn(s, turn)
             b == WithTurn(a, then)
             c == WithTurn(s, then)
  <1>0. s.transcript \in Entries
    BY ScreenFields
  <1>1. /\ a \in ScreenRec /\ a.transcript = UpdateLastTurn(s.transcript, turn)
        /\ a.epoch = s.epoch /\ a.usage = s.usage /\ a.approval = s.approval
    BY WithTurnFacts
  <1>2. LastTurnIndex(a.transcript) > 0
    BY <1>0, <1>1, UpdateFacts
  <1>3. /\ c \in ScreenRec /\ c.transcript = UpdateLastTurn(s.transcript, then)
        /\ c.epoch = s.epoch /\ c.usage = s.usage /\ c.approval = s.approval
    BY WithTurnFacts
  <1> HIDE DEF a, c
  <1>4. /\ b \in ScreenRec /\ b.transcript = UpdateLastTurn(a.transcript, then)
        /\ b.epoch = a.epoch /\ b.usage = a.usage /\ b.approval = a.approval
    BY <1>1, <1>2, WithTurnFacts
  <1> HIDE DEF b
  <1>5. b.transcript = c.transcript
    BY <1>0, <1>1, <1>3, <1>4, UpdateTwice
  <1>6. b = c
    BY <1>1, <1>3, <1>4, <1>5, SameScreen
  <1> QED BY <1>6 DEF a, b, c

LEMMA SettledWithTurn ==
  ASSUME NEW s, NEW b \in Nat, NEW mode \in Modes, Shape(s, mode, b), LastTurnIndex(s.transcript) > 0,
         NEW turn \in TurnRec
  PROVE  Settled(WithTurn(s, turn)) = WithTurn(Settled(s), turn)
  <1> DEFINE tr == s.transcript
             id == s.approval
             a == WithTurn(s, turn)
             l == Settled(a)
             r == WithTurn(Settled(s), turn)
  <1>1. s \in ScreenRec /\ tr \in Entries /\ NoticesOK(s) /\ Len(tr) \in Nat /\ DOMAIN tr = 1 .. Len(tr)
    BY ShapeFacts DEF Shape, Entries
  <1>2. /\ a \in ScreenRec /\ a.transcript = UpdateLastTurn(tr, turn)
        /\ a.epoch = s.epoch /\ a.usage = s.usage /\ a.approval = id
    BY <1>1, WithTurnFacts
  <1> HIDE DEF a
  <1>3. CASE id = 0
    <2>1. l = a /\ Settled(s) = s
      BY <1>2, <1>3 DEF Settled
    <2> QED BY <2>1 DEF a
  <1>4. CASE id # 0
    <2>1. PICK j \in 1 .. Len(tr) :
             /\ tr[j].kind = "system" /\ tr[j].approval = id
             /\ \A i \in 1 .. Len(tr) : tr[i].kind = "system" /\ tr[i].approval = id => i = j
      BY <1>1, <1>4 DEF NoticesOK
    <2>2. j > LastTurnIndex(tr)
      BY <2>1, <1>1, <1>4 DEF NoticesOK
    <2>3. Notices(tr, id) = {j} /\ Notices(a.transcript, id) = {j}
      <3>1. Notices(tr, id) = {j}
        BY <2>1, <1>1 DEF Notices
      <3> DEFINE u == UpdateLastTurn(tr, turn)
                 k == LastTurnIndex(tr)
      <3>2. /\ u \in Entries /\ Len(u) = Len(tr)
            /\ \A i \in 1 .. Len(tr) : u[i] = IF i = k THEN turn ELSE tr[i]
        BY <1>1, UpdateFacts
      <3>3. turn.kind # "system" /\ tr[k].kind # "system" /\ k \in 1 .. Len(tr)
        BY <1>1, LastTurnFacts, EntryFacts DEF LastTurn
      <3> HIDE DEF u, k
      <3>4. DOMAIN u = 1 .. Len(tr)
        BY <3>2, <1>1 DEF Entries
      <3>5. \A i \in 1 .. Len(tr) : u[i].kind = "system" /\ u[i].approval = id
                                    <=> tr[i].kind = "system" /\ tr[i].approval = id
        BY <3>2, <3>3
      <3>6. Notices(u, id) = Notices(tr, id)
        BY <3>4, <3>5, <1>1 DEF Notices
      <3> QED BY <3>1, <3>6, <1>2 DEF u
    <2>4. Min({j}) = j
      <3>1. {j} \in SUBSET Nat /\ {j} # {}
        OBVIOUS
      <3> QED BY <3>1, MinOfSome
    <2> DEFINE x == RemoveAt(tr, j)
               y == RemoveAt(a.transcript, j)
    <2>5. Settled(s) = [s EXCEPT !.transcript = x, !.approval = 0]
      <3>1. Notices(tr, id) # {} /\ Min(Notices(tr, id)) = j
        BY <2>3, <2>4
      <3> QED BY <3>1, <1>4 DEF Settled
    <2>6. l = [a EXCEPT !.transcript = y, !.approval = 0]
      <3>1. Notices(a.transcript, id) # {} /\ Min(Notices(a.transcript, id)) = j
        BY <2>3, <2>4
      <3> QED BY <3>1, <1>2, <1>4 DEF Settled
    <2>7. /\ x \in Entries /\ y = UpdateLastTurn(x, turn) /\ LastTurnIndex(x) > 0
      BY <2>2, <1>1, <1>2, RemoveLineFacts, RemoveUpdated
    <2>8. y \in Entries
      BY <2>7, UpdateFacts
    <2> HIDE DEF x, y, l
    <2> DEFINE z == Settled(s)
    <2> HIDE DEF z
    <2>9. /\ z \in ScreenRec /\ z.transcript = x /\ z.epoch = s.epoch
          /\ z.usage = s.usage /\ z.approval = 0
      <3>1. z = [s EXCEPT !.transcript = x, !.approval = 0]
        BY <2>5 DEF z
      <3> QED BY <3>1, <2>7, <1>1 DEF ScreenRec
    <2>10. /\ l \in ScreenRec /\ l.transcript = y /\ l.epoch = s.epoch
           /\ l.usage = s.usage /\ l.approval = 0
      BY <2>6, <2>8, <1>2 DEF ScreenRec
    <2>11. /\ r \in ScreenRec /\ r.transcript = y /\ r.epoch = s.epoch
           /\ r.usage = s.usage /\ r.approval = 0
      <3>1. r = WithTurn(z, turn)
        BY DEF z
      <3> QED BY <3>1, <2>7, <2>9, WithTurnFacts
    <2> HIDE DEF r
    <2>12. l = r
      BY <2>10, <2>11, SameScreen
    <2> QED BY <2>12 DEF l, r, a
  <1> QED BY <1>3, <1>4

LEMMA PushedWithTurn ==
  ASSUME NEW s \in ScreenRec, Len(s.transcript) <= TranscriptLimit, LastTurnIndex(s.transcript) > 0,
         (Len(s.transcript) + 1) - LastTurnIndex(s.transcript) < TrimTarget,
         NEW turn \in TurnRec, NEW line \in LineRec
  PROVE  Bounded(WithTurn(s, turn), Append(WithTurn(s, turn).transcript, line))
            = WithTurn(Bounded(s, Append(s.transcript, line)), turn)
  <1> DEFINE tr == s.transcript
             n == Len(tr)
             k == LastTurnIndex(tr)
             w == WithTurn(s, turn)
             a == Append(tr, line)
             v == Append(w.transcript, line)
             l == Bounded(w, v)
             m == Bounded(s, a)
             r == WithTurn(m, turn)
  <1>1. tr \in Entries /\ n \in Nat /\ k \in 1 .. n /\ s.epoch \in Nat
    BY ScreenFields, LastTurnFacts DEF Entries
  <1>2. /\ w \in ScreenRec /\ w.transcript = UpdateLastTurn(tr, turn)
        /\ w.epoch = s.epoch /\ w.usage = s.usage /\ w.approval = s.approval
    BY <1>1, WithTurnFacts
  <1>3. a \in Entries /\ Len(a) = n + 1 /\ LastTurnIndex(a) = k
    BY <1>1, AppendLineFacts
  <1>4. v = UpdateLastTurn(a, turn) /\ v \in Entries /\ Len(v) = n + 1
    <2>1. v = UpdateLastTurn(a, turn)
      BY <1>1, <1>2, AppendUpdated
    <2>2. LastTurnIndex(a) > 0
      BY <1>1, <1>3
    <2> HIDE DEF a, v
    <2> QED BY <2>1, <2>2, <1>3, UpdateFacts
  <1>b. LastTurnIndex(a) > 0
    BY <1>1, <1>3
  <1> HIDE DEF a, v, w
  <1>5. CASE n + 1 <= TranscriptLimit
    <2>1. l = [w EXCEPT !.transcript = v] /\ m = [s EXCEPT !.transcript = a]
      BY <1>3, <1>4, <1>5 DEF Bounded
    <2> HIDE DEF l, m
    <2>2. /\ l \in ScreenRec /\ l.transcript = v /\ l.epoch = s.epoch /\ l.usage = s.usage
          /\ l.approval = s.approval
      BY <2>1, <1>2, <1>4 DEF ScreenRec
    <2>3. /\ m \in ScreenRec /\ m.transcript = a /\ m.epoch = s.epoch /\ m.usage = s.usage
          /\ m.approval = s.approval
      BY <2>1, <1>3 DEF ScreenRec
    <2>4. /\ r \in ScreenRec /\ r.transcript = v /\ r.epoch = s.epoch /\ r.usage = s.usage
          /\ r.approval = s.approval
      BY <2>3, <1>4, <1>b, WithTurnFacts
    <2> HIDE DEF r
    <2>5. l = r
      BY <2>2, <2>4, SameScreen
    <2> QED BY <2>5 DEF l, r, m, a, v, w
  <1>6. CASE ~ n + 1 <= TranscriptLimit
    <2> DEFINE cut == (n + 1) - TrimTarget
               up == s.epoch + 1
               x == SubSeq(a, cut + 1, n + 1)
               y == SubSeq(v, cut + 1, n + 1)
    <2>1. l = [w EXCEPT !.transcript = y, !.epoch = up] /\ m = [s EXCEPT !.transcript = x, !.epoch = up]
      BY <1>2, <1>3, <1>4, <1>6 DEF Bounded
    <2>2. cut \in Nat /\ cut <= n + 1 /\ k > cut /\ up \in Nat
      BY <1>1, <1>6, LimitFacts
    <2> HIDE DEF cut, up
    <2>3. x \in Entries /\ LastTurnIndex(x) > 0
      <3>1. /\ SubSeq(a, cut + 1, Len(a)) \in Entries
            /\ LastTurnIndex(SubSeq(a, cut + 1, Len(a))) = IF LastTurnIndex(a) = 0 THEN 0 ELSE LastTurnIndex(a) - cut
        BY <2>2, <1>3, CutFacts
      <3> QED BY <3>1, <2>2, <1>1, <1>3
    <2>4. y = UpdateLastTurn(x, turn)
      <3>1. SubSeq(UpdateLastTurn(a, turn), cut + 1, Len(a)) = UpdateLastTurn(SubSeq(a, cut + 1, Len(a)), turn)
        BY <2>2, <1>3, <1>b, CutUpdated
      <3> QED BY <3>1, <1>3, <1>4
    <2> HIDE DEF x, y
    <2>5. y \in Entries
      BY <2>3, <2>4, UpdateFacts
    <2> HIDE DEF l, m
    <2>6. /\ l \in ScreenRec /\ l.transcript = y /\ l.epoch = up /\ l.usage = s.usage
          /\ l.approval = s.approval
      BY <2>1, <2>2, <2>5, <1>2 DEF ScreenRec
    <2>7. /\ m \in ScreenRec /\ m.transcript = x /\ m.epoch = up /\ m.usage = s.usage
          /\ m.approval = s.approval
      BY <2>1, <2>2, <2>3 DEF ScreenRec
    <2>8. /\ r \in ScreenRec /\ r.transcript = y /\ r.epoch = up /\ r.usage = s.usage
          /\ r.approval = s.approval
      BY <2>3, <2>4, <2>7, WithTurnFacts
    <2> HIDE DEF r
    <2>9. l = r
      BY <2>6, <2>8, SameScreen
    <2> QED BY <2>9 DEF l, r, m, a, v, w
  <1> QED BY <1>5, <1>6

-----------------------------------------------------------------------------
(* What the batchers hold                                                  *)

HeldRec == [text : Seq(Nat), drafts : Seq(DraftRec)]

HeldOK(h) == h \in HeldRec /\ (h.text = <<>> \/ h.drafts = <<>>) /\ Len(h.drafts) <= 1

Shown(s, h) == Flush([screen |-> s, held |-> h]).screen

\* The event that a flush applies, and what it makes of the last turn.
HeldEvent(h) == IF h.text # <<>> THEN Said(h.text) ELSE Drafted(h.drafts[1].id, h.drafts[1].text)

LEMMA HeldEventFacts ==
  ASSUME NEW h, HeldOK(h), h # NothingHeld
  PROVE  HeldEvent(h) \in Event /\ HeldEvent(h).type \in {"message", "draft"}
  <1>1. h \in HeldRec /\ h.text \in Seq(Nat) /\ h.drafts \in Seq(DraftRec)
    BY DEF HeldOK, HeldRec
  <1>2. CASE h.text # <<>>
    BY <1>1, <1>2 DEF HeldEvent, Said, Event, Text
  <1>3. CASE h.text = <<>>
    <2>1. h.drafts # <<>>
      BY <1>1, <1>3 DEF HeldRec, NothingHeld
    <2>2. 1 \in 1 .. Len(h.drafts)
      BY <2>1, <1>1
    <2>3. h.drafts[1] \in DraftRec
      BY <2>2, <1>1
    <2>4. h.drafts[1].id \in Nat /\ h.drafts[1].text \in Seq(Nat)
      BY <2>3 DEF DraftRec
    <2>5. HeldEvent(h) = Drafted(h.drafts[1].id, h.drafts[1].text)
      BY <1>3 DEF HeldEvent
    <2> QED BY <2>4, <2>5 DEF Drafted, Event
  <1> QED BY <1>2, <1>3

LEMMA FlushFacts ==
  ASSUME NEW s, NEW h, HeldOK(h), NEW x, x = [screen |-> s, held |-> h]
  PROVE  /\ h.text = <<>> => FlushText(x) = x
         /\ h.drafts = <<>> => FlushDrafts(x) = x
         /\ h.text # <<>> => FlushText(x) = [screen |-> Dispatch(s, HeldEvent(h)), held |-> NothingHeld]
         /\ h.drafts # <<>> => FlushDrafts(x) = [screen |-> Dispatch(s, HeldEvent(h)), held |-> NothingHeld]
         /\ Flush(x).held = NothingHeld
         /\ h = NothingHeld => Flush(x) = x /\ Shown(s, h) = s
         /\ h # NothingHeld => Shown(s, h) = Dispatch(s, HeldEvent(h))
         /\ Flush(x).screen = Shown(s, h)
  <1>1. /\ h \in HeldRec /\ h = [text |-> h.text, drafts |-> h.drafts] /\ x.screen = s /\ x.held = h
        /\ h.drafts \in Seq(DraftRec)
    BY DEF HeldOK, HeldRec
  <1>2. h.text = <<>> => FlushText(x) = x
    BY <1>1 DEF FlushText
  <1>3. h.drafts = <<>> => FlushDrafts(x) = x
    BY <1>1 DEF FlushDrafts
  <1>4. ASSUME h.text # <<>>
        PROVE  FlushText(x) = [screen |-> Dispatch(s, HeldEvent(h)), held |-> NothingHeld] /\ h.drafts = <<>>
    <2>1. h.drafts = <<>> /\ HeldEvent(h) = Said(h.text)
      BY <1>4 DEF HeldOK, HeldEvent
    <2>2. [h EXCEPT !.text = <<>>] = NothingHeld
      BY <2>1, <1>1 DEF NothingHeld, HeldRec
    <2>3. FlushText(x) = [screen |-> Dispatch(s, Said(h.text)), held |-> [h EXCEPT !.text = <<>>]]
      BY <1>1, <1>4 DEF FlushText, Said
    <2> QED BY <2>1, <2>2, <2>3
  <1>5. ASSUME h.drafts # <<>>
        PROVE  FlushDrafts(x) = [screen |-> Dispatch(s, HeldEvent(h)), held |-> NothingHeld] /\ h.text = <<>>
    <2>1. h.text = <<>> /\ HeldEvent(h) = Drafted(h.drafts[1].id, h.drafts[1].text)
      BY <1>5 DEF HeldOK, HeldEvent
    <2>2. [h EXCEPT !.drafts = <<>>] = NothingHeld
      BY <2>1, <1>1 DEF NothingHeld, HeldRec
    <2>3. FlushDrafts(x) = [screen |-> Dispatch(s, Drafted(h.drafts[1].id, h.drafts[1].text)),
                            held |-> [h EXCEPT !.drafts = <<>>]]
      BY <1>1, <1>5 DEF FlushDrafts, Drafted
    <2> QED BY <2>1, <2>2, <2>3
  <1>6. CASE h.text # <<>>
    <2>1. FlushText(x) = [screen |-> Dispatch(s, HeldEvent(h)), held |-> NothingHeld] /\ h # NothingHeld
      BY <1>4, <1>6 DEF NothingHeld
    <2>2. FlushDrafts(FlushText(x)) = FlushText(x)
      BY <2>1 DEF FlushDrafts, NothingHeld
    <2> QED BY <2>1, <2>2, <1>1, <1>3, <1>4, <1>6 DEF Flush, Shown
  <1>7. CASE h.drafts # <<>>
    <2>1. FlushDrafts(x) = [screen |-> Dispatch(s, HeldEvent(h)), held |-> NothingHeld] /\ h # NothingHeld
          /\ h.text = <<>> /\ FlushText(x) = x
      BY <1>2, <1>5, <1>7 DEF NothingHeld
    <2> QED BY <2>1, <1>1, <1>7 DEF Flush, Shown
  <1>8. CASE h.text = <<>> /\ h.drafts = <<>>
    <2>1. h = NothingHeld
      BY <1>1, <1>8 DEF NothingHeld
    <2>2. Flush(x) = x
      BY <1>2, <1>3, <1>8 DEF Flush
    <2> QED BY <2>1, <2>2, <1>1, <1>2, <1>3, <1>8 DEF Shown
  <1> QED BY <1>6, <1>7, <1>8

\* The last turn, with what the batchers hold.
HeldTurn(s, h) ==
    IF h = NothingHeld THEN LastTurn(s.transcript) ELSE OnTurn(LastTurn(s.transcript), HeldEvent(h))

LEMMA HeldTurnFacts ==
  ASSUME NEW s, NEW b \in Nat, Shape(s, "live", b), NEW h, HeldOK(h)
  PROVE  /\ HeldTurn(s, h) \in TurnRec /\ HeldTurn(s, h).streaming /\ Tidy(HeldTurn(s, h))
         /\ Shown(s, h) = WithTurn(s, HeldTurn(s, h))
  <1> DEFINE turn == LastTurn(s.transcript)
             e == HeldEvent(h)
  <1>1. /\ s \in ScreenRec /\ LastTurnIndex(s.transcript) > 0 /\ s.transcript \in Entries
        /\ turn \in TurnRec /\ turn.streaming /\ Tidy(turn)
    BY ShapeFacts, ModeFacts, LastTurnFacts DEF Shape, TurnsOK
  <1>2. CASE h = NothingHeld
    <2>1. HeldTurn(s, h) = turn
      BY <1>2 DEF HeldTurn
    <2>2. Shown(s, h) = s
      <3>1. \A x : x = [screen |-> s, held |-> h] => Shown(s, h) = s
        BY <1>2, FlushFacts
      <3> QED BY <3>1
    <2>3. UpdateLastTurn(s.transcript, turn) = s.transcript
      BY <1>1, UpdateNothing
    <2> DEFINE w == WithTurn(s, turn)
    <2>4. w \in ScreenRec /\ w.transcript = UpdateLastTurn(s.transcript, turn)
          /\ w.epoch = s.epoch /\ w.usage = s.usage /\ w.approval = s.approval
      BY <1>1, WithTurnFacts
    <2> HIDE DEF w, turn
    <2>5. w = s
      BY <2>3, <2>4, <1>1, SameScreen
    <2> QED BY <2>1, <2>2, <2>5, <1>1 DEF w, turn
  <1>3. CASE h # NothingHeld
    <2>1. e \in Event /\ e.type \in {"message", "draft"}
      BY <1>3, HeldEventFacts
    <2>2. HeldTurn(s, h) = OnTurn(turn, e)
      BY <1>3 DEF HeldTurn
    <2>3. Shown(s, h) = Dispatch(s, e)
      <3>1. \A x : x = [screen |-> s, held |-> h] => Shown(s, h) = Dispatch(s, HeldEvent(h))
        BY <1>3, FlushFacts
      <3> QED BY <3>1
    <2> HIDE DEF e
    <2>4. Dispatch(s, e) = WithTurn(s, OnTurn(turn, e))
      <3>1. e.type \notin {"usage", "ask", "result", "done", "await"}
        BY <2>1
      <3> QED BY <3>1, <2>1, ModeFacts, DispatchIsWithTurn
    <2>5. OnTurn(turn, e) \in TurnRec /\ OnTurn(turn, e).streaming /\ Tidy(OnTurn(turn, e))
      <3>1. e.type \notin {"done", "await"}
        BY <2>1
      <3> HIDE DEF turn
      <3> QED BY <3>1, <2>1, <1>1, OnTurnUnderWay
    <2> QED BY <2>2, <2>3, <2>4, <2>5
  <1> QED BY <1>2, <1>3

LEMMA ShownFacts ==
  ASSUME NEW s, NEW b \in Nat, Shape(s, "live", b), NEW h, HeldOK(h)
  PROVE  LET d == Shown(s, h)
         IN  /\ Shape(d, "live", b) /\ d.usage = s.usage /\ d.approval = s.approval
             /\ LastTurnIndex(d.transcript) > 0 /\ LastTurn(d.transcript) = HeldTurn(s, h)
             /\ StaysBefore(s, d)
  <1> DEFINE turn == HeldTurn(s, h)
             d == Shown(s, h)
  <1>1. s \in ScreenRec /\ LastTurnIndex(s.transcript) > 0
    BY ShapeFacts, ModeFacts DEF Shape, TurnsOK
  <1>2. turn \in TurnRec /\ turn.streaming /\ Tidy(turn) /\ d = WithTurn(s, turn)
    BY HeldTurnFacts
  <1> HIDE DEF turn, d
  <1>3. /\ d \in ScreenRec /\ d.transcript = UpdateLastTurn(s.transcript, turn)
        /\ d.epoch = s.epoch /\ d.usage = s.usage /\ d.approval = s.approval
    BY <1>1, <1>2, WithTurnFacts
  <1>4. /\ Shape(d, "live", b) /\ LastTurn(d.transcript) = turn
        /\ LastTurnIndex(d.transcript) = LastTurnIndex(s.transcript)
        /\ \A i \in 1 .. LastTurnIndex(s.transcript) - 1 : d.transcript[i] = s.transcript[i]
    BY <1>1, <1>2, <1>3, ModeFacts, TurnReplaced
  <1>5. StaysBefore(s, d)
    BY <1>3, <1>4 DEF StaysBefore
  <1> QED BY <1>1, <1>3, <1>4, <1>5 DEF turn, d

LEMMA HeldDraftIsOpen ==
  ASSUME NEW s, NEW b \in Nat, Shape(s, "live", b), NEW h, HeldOK(h), h.drafts # <<>>
  PROVE  /\ h.drafts[1] \in DraftRec /\ h.drafts = <<h.drafts[1]>>
         /\ <<"draft", h.drafts[1].id>> \in OpenIn(Shown(s, h))
  <1> DEFINE turn == LastTurn(s.transcript)
             id == h.drafts[1].id
             text == h.drafts[1].text
             d == Shown(s, h)
  <1>1. turn \in TurnRec /\ turn.drafts \in Seq(DraftRec)
    <2>1. turn \in TurnRec
      BY ShapeFacts, ModeFacts, LastTurnFacts
    <2> QED BY <2>1 DEF TurnRec
  <1>2. h.drafts[1] \in DraftRec /\ h.drafts = <<h.drafts[1]>>
    <2>1. h.drafts \in Seq(DraftRec) /\ Len(h.drafts) <= 1
      BY DEF HeldOK, HeldRec
    <2>2. Len(h.drafts) = 1
      <3> DEFINE n == Len(h.drafts)
      <3>1. n \in Nat /\ n # 0 /\ n <= 1
        BY <2>1, EmptySeq
      <3> HIDE DEF n
      <3>2. n = 1
        BY <3>1
      <3> QED BY <3>2 DEF n
    <2> QED BY <2>1, <2>2
  <1>3. id \in Nat /\ text \in Seq(Nat)
    BY <1>2 DEF DraftRec
  <1>4. h # NothingHeld /\ h.text = <<>>
    BY DEF NothingHeld, HeldOK
  <1>5. HeldTurn(s, h) = OnTurn(turn, Drafted(id, text))
    BY <1>4 DEF HeldTurn, HeldEvent
  <1> HIDE DEF turn, id, text
  <1>6. OnTurn(turn, Drafted(id, text)).drafts = AppendDraft(turn.drafts, id, text)
    BY <1>1 DEF OnTurn, Drafted, TurnRec
  <1>7. id \in DraftIds(AppendDraft(turn.drafts, id, text))
    BY <1>1, <1>3, AppendDraftFacts
  <1>8. <<"draft", id>> \in OpenOf(HeldTurn(s, h))
    BY <1>5, <1>6, <1>7 DEF OpenOf
  <1>9. LastTurnIndex(d.transcript) > 0 /\ LastTurn(d.transcript) = HeldTurn(s, h) /\ LastTurnIndex(d.transcript) # 0
    <2>1. LastTurnIndex(d.transcript) > 0 /\ LastTurn(d.transcript) = HeldTurn(s, h)
      BY ShownFacts
    <2> QED BY <2>1
  <1>10. <<"draft", id>> \in OpenIn(d)
    BY <1>8, <1>9 DEF OpenIn
  <1> QED BY <1>2, <1>10 DEF id

LEMMA ShownAfterLine ==
  ASSUME NEW s, NEW b \in Nat, Shape(s, "live", b), NEW h, HeldOK(h), NEW line \in LineRec, line.approval = 0,
         b + (IF s.approval # 0 THEN 1 ELSE 0) + 1 < TrimTarget
  PROVE  Shown(Bounded(s, Append(s.transcript, line)), h)
            = Bounded(Shown(s, h), Append(Shown(s, h).transcript, line))
  <1> DEFINE next == Bounded(s, Append(s.transcript, line))
             turn == HeldTurn(s, h)
             c == b + 1
  <1>1. /\ s \in ScreenRec /\ LastTurnIndex(s.transcript) > 0 /\ Len(s.transcript) <= TranscriptLimit
        /\ s.approval \in Nat
    BY ShapeFacts, ModeFacts DEF Shape, TurnsOK
  <1>2. turn \in TurnRec /\ Shown(s, h) = WithTurn(s, turn)
    BY HeldTurnFacts
  <1>3. next = Pushed(s, line, s.approval)
    <2>1. [next EXCEPT !.approval = s.approval] = next
      <3>1. next \in ScreenRec /\ next.approval = s.approval
        <4>1. Append(s.transcript, line) \in Entries /\ Len(Append(s.transcript, line)) = Len(s.transcript) + 1
              /\ LastTurnIndex(Append(s.transcript, line)) = LastTurnIndex(s.transcript)
          BY <1>1, ScreenFields, AppendLineFacts
        <4>2. (Len(s.transcript) + 1) - LastTurnIndex(s.transcript) < TrimTarget
          <5>1. Len(s.transcript) - LastTurnIndex(s.transcript) <= b + (IF s.approval # 0 THEN 1 ELSE 0)
            BY <1>1 DEF Shape, Trailing
          <5>2. Len(s.transcript) \in Nat /\ LastTurnIndex(s.transcript) \in Nat
            <6>1. Len(s.transcript) \in Nat /\ LastTurnIndex(s.transcript) \in 0 .. Len(s.transcript)
              BY ShapeFacts, ModeFacts
            <6> QED BY <6>1
          <5> QED BY <5>1, <5>2, <1>1, LimitFacts
        <4>3. Len(s.transcript) + 1 <= TranscriptLimit + 1
          <5>1. Len(s.transcript) \in Nat
            BY ShapeFacts, ModeFacts
          <5> QED BY <5>1, <1>1, LimitFacts
        <4> HIDE DEF next
        <4>4. /\ Bounded(s, Append(s.transcript, line)) \in ScreenRec
              /\ Bounded(s, Append(s.transcript, line)).approval = s.approval
          BY <4>1, <4>2, <4>3, <1>1, BoundedFacts
        <4> QED BY <4>4 DEF next
      <3> HIDE DEF next
      <3> QED BY <3>1 DEF ScreenRec
    <2> QED BY <2>1 DEF Pushed
  <1> HIDE DEF next
  <1>4. /\ Shape(next, "live", c)
        /\ LastTurn(next.transcript) = LastTurn(s.transcript)
    <2> DEFINE asked == s.approval
    <2>1. /\ c \in Nat /\ asked \in Nat /\ line.approval = 0 /\ asked = s.approval
          /\ b + (IF s.approval # 0 THEN 1 ELSE 0) + 1 <= c + (IF asked # 0 THEN 1 ELSE 0)
          /\ next = Pushed(s, line, asked)
      BY <1>1, <1>3
    <2> HIDE DEF asked, c
    <2>2. /\ Shape(next, "live", c)
          /\ LastTurnIndex(s.transcript) > 0 => LastTurn(next.transcript) = LastTurn(s.transcript)
      BY <2>1, ModeFacts, LineAdded
    <2> QED BY <2>2, <1>1
  <1>5. HeldTurn(next, h) = turn
    BY <1>4 DEF HeldTurn
  <1>6. Shown(next, h) = WithTurn(next, turn)
    <2>1. Shown(next, h) = WithTurn(next, HeldTurn(next, h))
      <3>1. c \in Nat
        OBVIOUS
      <3> HIDE DEF c
      <3> QED BY <3>1, <1>4, HeldTurnFacts
    <2> QED BY <2>1, <1>5
  <1>7. (Len(s.transcript) + 1) - LastTurnIndex(s.transcript) < TrimTarget
    <2>1. Len(s.transcript) - LastTurnIndex(s.transcript) <= b + (IF s.approval # 0 THEN 1 ELSE 0)
      BY <1>1 DEF Shape, Trailing
    <2>2. Len(s.transcript) \in Nat /\ LastTurnIndex(s.transcript) \in Nat
      <3>1. Len(s.transcript) \in Nat /\ LastTurnIndex(s.transcript) \in 0 .. Len(s.transcript)
        BY ShapeFacts, ModeFacts
      <3> QED BY <3>1
    <2> QED BY <2>1, <2>2, <1>1, LimitFacts
  <1> HIDE DEF turn
  <1>8. Bounded(WithTurn(s, turn), Append(WithTurn(s, turn).transcript, line)) = WithTurn(next, turn)
    BY <1>1, <1>2, <1>7, PushedWithTurn DEF next
  <1> QED BY <1>2, <1>6, <1>8 DEF next

LEMMA ShownAfterSettled ==
  ASSUME NEW s, NEW b \in Nat, Shape(s, "live", b), NEW h, HeldOK(h)
  PROVE  Shown(Settled(s), h) = Settled(Shown(s, h))
  <1> DEFINE turn == HeldTurn(s, h)
             next == Settled(s)
  <1>1. LastTurnIndex(s.transcript) > 0
    BY DEF Shape, TurnsOK
  <1>2. turn \in TurnRec /\ Shown(s, h) = WithTurn(s, turn)
    BY HeldTurnFacts
  <1>3. Shape(next, "live", b) /\ LastTurn(next.transcript) = LastTurn(s.transcript)
    BY <1>1, ModeFacts, SettledFacts
  <1>4. HeldTurn(next, h) = turn
    BY <1>3 DEF HeldTurn
  <1>5. Shown(next, h) = WithTurn(next, turn)
    <2> HIDE DEF next, turn
    <2>1. Shown(next, h) = WithTurn(next, HeldTurn(next, h))
      BY <1>3, HeldTurnFacts
    <2> QED BY <2>1, <1>4
  <1> HIDE DEF turn
  <1>6. Settled(WithTurn(s, turn)) = WithTurn(Settled(s), turn)
    BY <1>1, <1>2, ModeFacts, SettledWithTurn
  <1> QED BY <1>2, <1>5, <1>6

\* Two events that each change the last turn only, applied one after the other.
LEMMA AppliedTwice ==
  ASSUME NEW s, NEW b \in Nat, Shape(s, "live", b), NEW e \in Event, NEW f \in Event, NEW g \in Event,
         e.type \in {"message", "draft"}, f.type \in {"message", "draft"}, g.type \in {"message", "draft"},
         \A turn \in TurnRec : OnTurn(OnTurn(turn, e), f) = OnTurn(turn, g)
  PROVE  Dispatch(Dispatch(s, e), f) = Dispatch(s, g)
  <1> DEFINE turn == LastTurn(s.transcript)
             told == OnTurn(turn, e)
             mid == WithTurn(s, told)
  <1>1. /\ s \in ScreenRec /\ LastTurnIndex(s.transcript) > 0
        /\ turn \in TurnRec /\ turn.streaming /\ Tidy(turn)
    BY ShapeFacts, ModeFacts, LastTurnFacts DEF Shape, TurnsOK
  <1>2. e.type \notin {"usage", "ask", "result", "done", "await"}
        /\ f.type \notin {"usage", "ask", "result", "done", "await"}
        /\ g.type \notin {"usage", "ask", "result", "done", "await"}
    OBVIOUS
  <1>3. Dispatch(s, e) = mid
    BY <1>2, ModeFacts, DispatchIsWithTurn
  <1>4. Dispatch(s, g) = WithTurn(s, OnTurn(turn, g))
    BY <1>2, ModeFacts, DispatchIsWithTurn
  <1> HIDE DEF turn
  <1>5. told \in TurnRec /\ told.streaming /\ Tidy(told)
    BY <1>1, <1>2, OnTurnUnderWay
  <1> HIDE DEF told, mid
  <1>6. /\ mid \in ScreenRec /\ mid.transcript = UpdateLastTurn(s.transcript, told) /\ mid.approval = s.approval
    BY <1>1, <1>5, WithTurnFacts DEF mid
  <1>7. Shape(mid, "live", b) /\ LastTurn(mid.transcript) = told
    BY <1>1, <1>5, <1>6, ModeFacts, TurnReplaced
  <1>8. Dispatch(mid, f) = WithTurn(mid, OnTurn(told, f))
    BY <1>2, <1>7, ModeFacts, DispatchIsWithTurn
  <1>9. OnTurn(told, f) = OnTurn(turn, g) /\ OnTurn(told, f) \in TurnRec
    <2>1. OnTurn(told, f) \in TurnRec
      BY <1>2, <1>5, OnTurnUnderWay
    <2> QED BY <2>1, <1>1 DEF told
  <1>10. WithTurn(mid, OnTurn(told, f)) = WithTurn(s, OnTurn(told, f))
    BY <1>1, <1>5, <1>9, WithTurnTwice DEF mid
  <1> QED BY <1>3, <1>4, <1>8, <1>9, <1>10 DEF turn

LEMMA ShownIs ==
  ASSUME NEW s, NEW h, HeldOK(h)
  PROVE  /\ h = NothingHeld => Shown(s, h) = s
         /\ h # NothingHeld => Shown(s, h) = Dispatch(s, HeldEvent(h))
  <1>1. \A x : x = [screen |-> s, held |-> h] =>
            /\ h = NothingHeld => Shown(s, h) = s
            /\ h # NothingHeld => Shown(s, h) = Dispatch(s, HeldEvent(h))
    BY FlushFacts
  <1> QED BY <1>1

LEMMA HeldText ==
  ASSUME NEW text \in Text, NEW h, h = [NothingHeld EXCEPT !.text = text]
  PROVE  HeldOK(h) /\ h # NothingHeld /\ HeldEvent(h) = Said(text) /\ h.drafts = <<>>
  <1>1. h.text = text /\ h.drafts = <<>> /\ text # <<>> /\ h \in HeldRec
    <2>1. text \in Seq(Nat) /\ text # <<>> /\ <<>> \in Seq(DraftRec)
      BY DEF Text
    <2> QED BY <2>1 DEF NothingHeld, HeldRec
  <1>2. Len(h.drafts) <= 1 /\ h # NothingHeld
    BY <1>1 DEF NothingHeld
  <1> QED BY <1>1, <1>2 DEF HeldOK, HeldEvent

LEMMA HeldRecHas ==
  ASSUME NEW p \in Seq(Nat), NEW q \in Seq(DraftRec)
  PROVE  [text |-> p, drafts |-> q] \in HeldRec
  BY DEF HeldRec

LEMMA HeldDrafts ==
  ASSUME NEW id \in Nat, NEW text \in Seq(Nat), NEW h,
         h = [NothingHeld EXCEPT !.drafts = <<[id |-> id, text |-> text]>>]
  PROVE  HeldOK(h) /\ h # NothingHeld /\ HeldEvent(h) = Drafted(id, text) /\ h.text = <<>>
  <1> DEFINE d == [id |-> id, text |-> text]
  <1>0. d \in DraftRec /\ d.id = id /\ d.text = text
    BY DEF DraftRec
  <1>1. h.text = <<>> /\ h.drafts = <<d>>
    BY DEF NothingHeld
  <1> HIDE DEF d
  <1>2. <<d>> \in Seq(DraftRec) /\ <<d>> # <<>> /\ Len(<<d>>) <= 1 /\ <<d>>[1] = d
    BY <1>0
  <1>3. h \in HeldRec
    <2>1. <<>> \in Seq(Nat)
      OBVIOUS
    <2> DEFINE p == <<>>
               q == <<d>>
    <2>2. h = [text |-> p, drafts |-> q] /\ p \in Seq(Nat) /\ q \in Seq(DraftRec)
      BY <2>1, <1>2 DEF NothingHeld, d
    <2> HIDE DEF p, q
    <2>3. [text |-> p, drafts |-> q] \in HeldRec
      BY <2>2, HeldRecHas
    <2> QED BY <2>2, <2>3
  <1>4. h # NothingHeld
    BY <1>1, <1>2 DEF NothingHeld
  <1> QED BY <1>0, <1>1, <1>2, <1>3, <1>4 DEF HeldOK, HeldEvent

\* The one draft that is held takes the text of the next event of its own.
LEMMA AppendToOne ==
  ASSUME NEW d \in DraftRec, NEW text \in Seq(Nat)
  PROVE  /\ AppendDraft(<<>>, d.id, text) = <<[id |-> d.id, text |-> text]>>
         /\ AppendDraft(<<d>>, d.id, text) = <<[id |-> d.id, text |-> d.text \o text]>>
  <1> DEFINE id == d.id
             before == d.text
             all == before \o text
  <1>0. id \in Nat /\ before \in Seq(Nat) /\ d = [id |-> id, text |-> before] /\ all \in Seq(Nat)
    BY DEF DraftRec
  <1> HIDE DEF id, before
  <1>1. \A x : AppendDraft(<<>>, id, x) = <<[id |-> id, text |-> x]>>
    <2>1. DraftAt(<<>>, id) = {}
      BY DEF DraftAt
    <2> TAKE x
    <2>2. AppendDraft(<<>>, id, x) = Append(<<>>, [id |-> id, text |-> x])
      BY <2>1 DEF AppendDraft
    <2> DEFINE new == [id |-> id, text |-> x]
    <2> HIDE DEF new
    <2>3. Append(<<>>, new) = <<new>>
      OBVIOUS
    <2> QED BY <2>2, <2>3 DEF new
  <1>2. <<>> \in Seq(DraftRec)
    OBVIOUS
  <1>3. AppendDraft(AppendDraft(<<>>, id, before), id, text) = AppendDraft(<<>>, id, all)
    BY <1>0, <1>2, AppendDraftFacts
  <1> HIDE DEF all
  <1> QED BY <1>0, <1>1, <1>3 DEF all, id, before

LEMMA TextIsBatched ==
  ASSUME NEW s, NEW b \in Nat, Shape(s, "live", b), NEW h, HeldOK(h), NEW e \in Event, e.type = "message",
         NEW x, x = [screen |-> s, held |-> h]
  PROVE  LET after == OnEvent(x, e)
         IN  /\ HeldOK(after.held) /\ after.screen \in {s, Shown(s, h)}
             /\ Shown(after.screen, after.held) = Dispatch(Shown(s, h), e)
  <1> DEFINE after == OnEvent(x, e)
             y == FlushDrafts(x)
             text == e.text
             all == h.text \o text
  <1>1. text \in Text /\ e = Said(text) /\ text \in Seq(Nat) /\ text # <<>>
    BY DEF Said, Event, Text
  <1>2. after = [y EXCEPT !.held.text = y.held.text \o text]
    BY DEF OnEvent
  <1>3. h \in HeldRec /\ h.text \in Seq(Nat) /\ h.drafts \in Seq(DraftRec) /\ h = [text |-> h.text, drafts |-> h.drafts]
    BY DEF HeldOK, HeldRec
  <1> HIDE DEF after, text
  <1>4. CASE h.drafts # <<>>
    <2>1. y = [screen |-> Shown(s, h), held |-> NothingHeld]
      <3>1. h # NothingHeld
        BY <1>4 DEF NothingHeld
      <3>2. y = [screen |-> Dispatch(s, HeldEvent(h)), held |-> NothingHeld]
        BY <1>4, FlushFacts
      <3> QED BY <3>1, <3>2, ShownIs
    <2> HIDE DEF y
    <2>2. <<>> \o text = text
      BY <1>1
    <2> DEFINE now == [NothingHeld EXCEPT !.text = text]
    <2>3. after.screen = Shown(s, h) /\ after.held = now
      BY <1>2, <2>1, <2>2 DEF NothingHeld
    <2>4. HeldOK(now) /\ now # NothingHeld /\ HeldEvent(now) = Said(text)
      BY <1>1, HeldText
    <2> HIDE DEF now
    <2>5. Shown(Shown(s, h), now) = Dispatch(Shown(s, h), Said(text))
      BY <2>4, ShownIs
    <2> QED BY <2>3, <2>4, <2>5, <1>1 DEF after
  <1>5. CASE h.drafts = <<>>
    <2>1. y = x
      BY <1>5, FlushFacts
    <2> HIDE DEF y
    <2>2. all \in Text
      <3>1. all \in Seq(Nat) /\ Len(all) = Len(h.text) + Len(text) /\ Len(h.text) \in Nat
            /\ Len(text) \in Nat /\ Len(text) # 0
        BY <1>1, <1>3, ConcatProperties, EmptySeq
      <3> DEFINE n == Len(all)
                 m == Len(h.text)
                 l == Len(text)
      <3>2. n = m + l /\ m \in Nat /\ l \in Nat /\ l # 0
        BY <3>1
      <3> HIDE DEF n, m, l
      <3>3. n # 0
        BY <3>2
      <3> HIDE DEF all
      <3> QED BY <3>1, <3>3 DEF Text, n
    <2> DEFINE now == [NothingHeld EXCEPT !.text = all]
    <2>3. after.screen = s /\ after.held = now
      <3>1. after = [x EXCEPT !.held.text = all]
        BY <1>2, <2>1
      <3> HIDE DEF all
      <3>2. after.screen = s /\ after.held = [h EXCEPT !.text = all]
        BY <3>1
      <3>3. [h EXCEPT !.text = all] = now
        BY <1>3, <1>5 DEF NothingHeld
      <3> QED BY <3>2, <3>3
    <2> HIDE DEF all
    <2>4. HeldOK(now) /\ now # NothingHeld /\ HeldEvent(now) = Said(all)
      BY <2>2, HeldText
    <2> HIDE DEF now
    <2>5. Shown(s, now) = Dispatch(s, Said(all))
      BY <2>4, ShownIs
    <2>6. CASE h = NothingHeld
      <3>1. all = text
        BY <2>6, <1>1 DEF NothingHeld, all
      <3>2. Shown(s, h) = s
        BY <2>6, ShownIs
      <3> QED BY <3>1, <3>2, <2>3, <2>4, <2>5, <1>1 DEF after
    <2>7. CASE h # NothingHeld
      <3>1. h.text # <<>>
        BY <2>7, <1>3, <1>5 DEF NothingHeld
      <3>2. Shown(s, h) = Dispatch(s, Said(h.text))
        <4>1. HeldEvent(h) = Said(h.text)
          BY <3>1 DEF HeldEvent
        <4> QED BY <4>1, <2>7, ShownIs
      <3> DEFINE before == h.text
                 a == Said(before)
                 c == Said(all)
      <3>3. /\ a \in Event /\ c \in Event /\ a.type = "message" /\ c.type = "message"
        BY <3>1, <2>2, <1>3 DEF Said, Event, Text
      <3>4. \A turn \in TurnRec : OnTurn(OnTurn(turn, a), e) = OnTurn(turn, c)
        BY <1>1, <1>3, SaidTwice DEF all
      <3> HIDE DEF a, c
      <3>5. Dispatch(Dispatch(s, a), e) = Dispatch(s, c)
        BY <3>3, <3>4, AppliedTwice
      <3> QED BY <3>2, <3>5, <2>3, <2>4, <2>5 DEF a, c, after
    <2> QED BY <2>6, <2>7
  <1> QED BY <1>4, <1>5

LEMMA DraftIsBatched ==
  ASSUME NEW s, NEW b \in Nat, Shape(s, "live", b), NEW h, HeldOK(h), NEW e \in Event, e.type = "draft",
         h.drafts # <<>> => h.drafts[1].id = e.id,
         NEW x, x = [screen |-> s, held |-> h]
  PROVE  LET after == OnEvent(x, e)
         IN  /\ HeldOK(after.held) /\ after.screen \in {s, Shown(s, h)}
             /\ Shown(after.screen, after.held) = Dispatch(Shown(s, h), e)
  <1> DEFINE after == OnEvent(x, e)
             y == FlushText(x)
             text == e.text
             id == e.id
  <1>1. text \in Seq(Nat) /\ id \in Nat /\ e = Drafted(id, text)
    BY DEF Drafted, Event
  <1>2. after = [y EXCEPT !.held.drafts = AppendDraft(y.held.drafts, id, text)]
    BY DEF OnEvent
  <1>3. h \in HeldRec /\ h.text \in Seq(Nat) /\ h.drafts \in Seq(DraftRec) /\ h = [text |-> h.text, drafts |-> h.drafts]
    BY DEF HeldOK, HeldRec
  <1>e. AppendDraft(<<>>, id, text) = <<[id |-> id, text |-> text]>>
    <2> DEFINE d == [id |-> id, text |-> text]
    <2>1. d \in DraftRec /\ d.id = id
      BY <1>1 DEF DraftRec
    <2> HIDE DEF d
    <2> QED BY <2>1, <1>1, AppendToOne
  <1> HIDE DEF after, text, id
  <1>4. CASE h.drafts = <<>>
    <2>1. y = [screen |-> Shown(s, h), held |-> NothingHeld]
      <3>1. CASE h.text = <<>>
        <4>1. h = NothingHeld
          BY <3>1, <1>3, <1>4 DEF NothingHeld
        <4>2. y = x /\ Shown(s, h) = s
          BY <3>1, <4>1, FlushFacts
        <4> QED BY <4>1, <4>2
      <3>2. CASE h.text # <<>>
        <4>1. h # NothingHeld
          BY <3>2 DEF NothingHeld
        <4>2. y = [screen |-> Dispatch(s, HeldEvent(h)), held |-> NothingHeld]
          BY <3>2, FlushFacts
        <4> QED BY <4>1, <4>2, ShownIs
      <3> QED BY <3>1, <3>2
    <2> HIDE DEF y
    <2> DEFINE now == [NothingHeld EXCEPT !.drafts = <<[id |-> id, text |-> text]>>]
    <2>3. after.screen = Shown(s, h) /\ after.held = now
      BY <1>2, <2>1, <1>e DEF NothingHeld
    <2>4. HeldOK(now) /\ now # NothingHeld /\ HeldEvent(now) = Drafted(id, text)
      BY <1>1, HeldDrafts
    <2> HIDE DEF now
    <2>5. Shown(Shown(s, h), now) = Dispatch(Shown(s, h), Drafted(id, text))
      BY <2>4, ShownIs
    <2> QED BY <2>3, <2>4, <2>5, <1>1 DEF after
  <1>5. CASE h.drafts # <<>>
    <2> DEFINE d == h.drafts[1]
               before == d.text
               all == before \o text
    <2>1. y = x /\ h # NothingHeld /\ h.text = <<>>
      <3>1. h.text = <<>>
        BY <1>5 DEF HeldOK
      <3> QED BY <3>1, <1>5, FlushFacts DEF NothingHeld
    <2>2. d \in DraftRec /\ h.drafts = <<d>> /\ d.id = id
      BY <1>5, HeldDraftIsOpen DEF id
    <2> HIDE DEF d
    <2>3. before \in Seq(Nat) /\ all \in Seq(Nat)
      BY <2>2, <1>1 DEF DraftRec
    <2>4. AppendDraft(h.drafts, id, text) = <<[id |-> id, text |-> all]>>
      BY <2>2, <1>1, AppendToOne
    <2> HIDE DEF y
    <2> DEFINE now == [NothingHeld EXCEPT !.drafts = <<[id |-> id, text |-> all]>>]
    <2>5. after.screen = s /\ after.held = now
      <3>1. after = [x EXCEPT !.held.drafts = <<[id |-> id, text |-> all]>>]
        BY <1>2, <2>1, <2>4
      <3> HIDE DEF all
      <3>2. after.screen = s /\ after.held = [h EXCEPT !.drafts = <<[id |-> id, text |-> all]>>]
        BY <3>1
      <3>3. [h EXCEPT !.drafts = <<[id |-> id, text |-> all]>>] = now
        BY <1>3, <2>1 DEF NothingHeld
      <3> QED BY <3>2, <3>3
    <2> HIDE DEF all
    <2>6. HeldOK(now) /\ now # NothingHeld /\ HeldEvent(now) = Drafted(id, all)
      BY <2>3, <1>1, HeldDrafts
    <2> HIDE DEF now
    <2>7. Shown(s, now) = Dispatch(s, Drafted(id, all))
      BY <2>6, ShownIs
    <2> DEFINE a == Drafted(id, before)
               c == Drafted(id, all)
    <2>8. Shown(s, h) = Dispatch(s, a)
      <3>1. HeldEvent(h) = a
        BY <2>1, <2>2 DEF HeldEvent, d
      <3> QED BY <3>1, <2>1, ShownIs
    <2> HIDE DEF before
    <2>9. a \in Event /\ c \in Event /\ a.type = "draft" /\ c.type = "draft"
      BY <2>3, <1>1 DEF Drafted, Event
    <2>10. \A turn \in TurnRec : OnTurn(OnTurn(turn, a), e) = OnTurn(turn, c)
      BY <1>1, <2>3, DraftedTwice DEF all
    <2> HIDE DEF a, c
    <2>11. Dispatch(Dispatch(s, a), e) = Dispatch(s, c)
      BY <2>9, <2>10, AppliedTwice
    <2> QED BY <2>5, <2>6, <2>7, <2>8, <2>11 DEF c, after
  <1> QED BY <1>4, <1>5

\* Any other event of a turn: what is held is applied, and then the event.
LEMMA OthersAreFlushedFor ==
  ASSUME NEW s, NEW h, HeldOK(h), NEW e \in Event, e.type \notin {"message", "draft", "started"},
         NEW x, x = [screen |-> s, held |-> h]
  PROVE  /\ OnEvent(x, e).held = NothingHeld
         /\ OnEvent(x, e).screen = Dispatch(Shown(s, h), e)
  <1> DEFINE y == Flush(x)
  <1>1. y.held = NothingHeld /\ y.screen = Shown(s, h)
    BY FlushFacts
  <1>2. OnEvent(x, e) = [y EXCEPT !.screen = Dispatch(y.screen, e)]
    BY DEF OnEvent, FlushBefore
  <1>3. y = [screen |-> Shown(s, h), held |-> NothingHeld]
    <2>1. h = NothingHeld \/ h # NothingHeld
      OBVIOUS
    <2>2. CASE h = NothingHeld
      <3>1. y = x /\ Shown(s, h) = s
        BY <2>2, FlushFacts
      <3> QED BY <3>1, <2>2
    <2>3. CASE h # NothingHeld
      <3>1. Shown(s, h) = Dispatch(s, HeldEvent(h))
        BY <2>3, FlushFacts
      <3>2. h.text # <<>> \/ h.drafts # <<>>
        BY <2>3 DEF HeldOK, HeldRec, NothingHeld
      <3> DEFINE z == [screen |-> Shown(s, h), held |-> NothingHeld]
      <3>3. FlushText(z) = z /\ FlushDrafts(z) = z
        BY DEF FlushText, FlushDrafts, NothingHeld
      <3>4. CASE h.text # <<>>
        <4>1. FlushText(x) = z
          BY <3>1, <3>4, FlushFacts
        <4> HIDE DEF z
        <4> QED BY <4>1, <3>3 DEF Flush, z
      <3>5. CASE h.text = <<>>
        <4>1. FlushText(x) = x /\ FlushDrafts(x) = z
          BY <3>1, <3>2, <3>5, FlushFacts
        <4> HIDE DEF z
        <4> QED BY <4>1 DEF Flush, z
      <3> QED BY <3>4, <3>5
    <2> QED BY <2>1, <2>2, <2>3
  <1> HIDE DEF y
  <1> QED BY <1>2, <1>3

-----------------------------------------------------------------------------
(* What is open when a frame is applied                                    *)

\* x is open when the k-th frame of q is reached, if open is what is open now.
IsOpen(open, q, k, x) ==
    \/ x \in open /\ \A m \in 1 .. k - 1 : x \notin Closes(q[m])
    \/ \E j \in 1 .. k - 1 : x \in Opens(q[j]) /\ \A m \in j + 1 .. k - 1 : x \notin Closes(q[m])

Orderly(open, q) ==
    \A i \in 1 .. Len(q) :
        /\ q[i].type = "await" => \A x : ~ IsOpen(open, q, i, x)
        /\ q[i].type = "ask" => \A n : ~ IsOpen(open, q, i, <<"notice", n>>)
        /\ q[i].type = "draft" => \A n : IsOpen(open, q, i, <<"draft", n>>) => n = q[i].id

ServerRec == [draft : Nat, tool : Nat, asked : BOOLEAN, over : BOOLEAN, closed : BOOLEAN]

\* What the server has opened and not closed.
ServerOpen(known) ==
    (IF known.draft = 0 THEN {} ELSE {<<"draft", known.draft>>})
    \cup (IF known.tool = 0 THEN {} ELSE {<<"tool", known.tool>>})
    \cup (IF known.tool # 0 /\ known.asked THEN {<<"notice", known.tool>>} ELSE {})

Covered(open, q, known) == \A x : IsOpen(open, q, Len(q) + 1, x) => x \in ServerOpen(known)

LEMMA OpenAtOnce ==
  ASSUME NEW open, NEW q, NEW x
  PROVE  IsOpen(open, q, 1, x) <=> x \in open
  BY DEF IsOpen

LEMMA OpenAfterFirst ==
  ASSUME NEW q \in Seq(Event), q # <<>>, NEW open, NEW then, then \subseteq (open \ Closes(q[1])) \cup Opens(q[1]),
         NEW k \in 1 .. Len(q), NEW x, IsOpen(then, Tail(q), k, x)
  PROVE  IsOpen(open, q, k + 1, x)
  <1> DEFINE n == Len(q)
             t == Tail(q)
  <1>1. n \in Nat /\ \A m \in 1 .. n - 1 : t[m] = q[m + 1]
    BY HeadTailProperties
  <1>2. k \in Nat /\ k <= n
    BY <1>1
  <1> HIDE DEF n, t
  <1>3. ASSUME x \in then, \A m \in 1 .. k - 1 : x \notin Closes(t[m])
        PROVE  IsOpen(open, q, k + 1, x)
    <2>1. \A m \in 2 .. k : x \notin Closes(q[m])
      <3> TAKE m \in 2 .. k
      <3>1. m - 1 \in 1 .. k - 1 /\ m - 1 \in 1 .. n - 1 /\ (m - 1) + 1 = m
        BY <1>1, <1>2
      <3> QED BY <3>1, <1>1, <1>3
    <2>2. CASE x \in open \ Closes(q[1])
      <3>1. \A m \in 1 .. (k + 1) - 1 : m = 1 \/ m \in 2 .. k
        BY <1>2
      <3> QED BY <3>1, <2>1, <2>2 DEF IsOpen
    <2>3. CASE x \in Opens(q[1])
      <3>1. 1 \in 1 .. (k + 1) - 1 /\ \A m \in 1 + 1 .. (k + 1) - 1 : m \in 2 .. k
        BY <1>2
      <3> QED BY <3>1, <2>1, <2>3 DEF IsOpen
    <2> QED BY <2>2, <2>3, <1>3
  <1>4. ASSUME NEW j \in 1 .. k - 1, x \in Opens(t[j]), \A m \in j + 1 .. k - 1 : x \notin Closes(t[m])
        PROVE  IsOpen(open, q, k + 1, x)
    <2>1. j + 1 \in 1 .. (k + 1) - 1 /\ j \in 1 .. n - 1
      BY <1>1, <1>2
    <2>2. x \in Opens(q[j + 1])
      BY <2>1, <1>1, <1>4
    <2>3. \A m \in (j + 1) + 1 .. (k + 1) - 1 : x \notin Closes(q[m])
      <3> TAKE m \in (j + 1) + 1 .. (k + 1) - 1
      <3>1. m - 1 \in j + 1 .. k - 1 /\ m - 1 \in 1 .. n - 1 /\ (m - 1) + 1 = m
        BY <1>1, <1>2
      <3> QED BY <3>1, <1>1, <1>4
    <2> QED BY <2>1, <2>2, <2>3 DEF IsOpen
  <1>5. \/ x \in then /\ \A m \in 1 .. k - 1 : x \notin Closes(t[m])
        \/ \E j \in 1 .. k - 1 : x \in Opens(t[j]) /\ \A m \in j + 1 .. k - 1 : x \notin Closes(t[m])
    BY DEF IsOpen, t
  <1> QED BY <1>3, <1>4, <1>5

\* The first frame is applied.
LEMMA FirstApplied ==
  ASSUME NEW q \in Seq(Event), q # <<>>, NEW open, NEW then, then \subseteq (open \ Closes(q[1])) \cup Opens(q[1]),
         Orderly(open, q)
  PROVE  /\ Orderly(then, Tail(q))
         /\ \A known : Covered(open, q, known) => Covered(then, Tail(q), known)
  <1> DEFINE n == Len(q)
             t == Tail(q)
  <1>1. n \in Nat /\ n # 0 /\ Len(t) = n - 1 /\ \A m \in 1 .. n - 1 : t[m] = q[m + 1]
    BY HeadTailProperties, EmptySeq
  <1>2. ASSUME NEW k \in 1 .. n, NEW x, IsOpen(then, t, k, x) PROVE IsOpen(open, q, k + 1, x)
    BY <1>2, OpenAfterFirst
  <1> HIDE DEF n, t
  <1>3. ASSUME NEW i \in 1 .. Len(t)
        PROVE  /\ t[i].type = "await" => \A x : ~ IsOpen(then, t, i, x)
               /\ t[i].type = "ask" => \A m : ~ IsOpen(then, t, i, <<"notice", m>>)
               /\ t[i].type = "draft" => \A m : IsOpen(then, t, i, <<"draft", m>>) => m = t[i].id
    <2>1. i \in 1 .. n /\ i + 1 \in 1 .. n /\ t[i] = q[i + 1]
      BY <1>1, <1>3
    <2> DEFINE j == i + 1
    <2>2. \A x : IsOpen(then, t, i, x) => IsOpen(open, q, j, x)
      BY <2>1, <1>2
    <2>3. j \in 1 .. Len(q) /\ t[i] = q[j]
      BY <2>1 DEF n
    <2> HIDE DEF j
    <2>4. /\ q[j].type = "await" => \A x : ~ IsOpen(open, q, j, x)
          /\ q[j].type = "ask" => \A m : ~ IsOpen(open, q, j, <<"notice", m>>)
          /\ q[j].type = "draft" => \A m : IsOpen(open, q, j, <<"draft", m>>) => m = q[j].id
      BY <2>3 DEF Orderly
    <2> QED BY <2>2, <2>3, <2>4
  <1>4. Orderly(then, t)
    BY <1>3 DEF Orderly
  <1>5. ASSUME NEW known, Covered(open, q, known) PROVE Covered(then, t, known)
    <2>1. Len(t) + 1 = n /\ n \in 1 .. n
      BY <1>1
    <2>2. \A x : IsOpen(then, t, Len(t) + 1, x) => IsOpen(open, q, n + 1, x)
      BY <2>1, <1>2
    <2> QED BY <2>2, <1>5 DEF Covered, n
  <1> QED BY <1>4, <1>5 DEF t

\* Less is open than was.
LEMMA LessOpen ==
  ASSUME NEW open, NEW then, then \subseteq open, NEW q, Orderly(open, q)
  PROVE  Orderly(then, q) /\ \A known : Covered(open, q, known) => Covered(then, q, known)
  <1>1. \A k, x : IsOpen(then, q, k, x) => IsOpen(open, q, k, x)
    BY DEF IsOpen
  <1> QED BY <1>1 DEF Orderly, Covered

LEMMA OpenAfterMore ==
  ASSUME NEW q \in Seq(Event), NEW e, NEW open, NEW x
  PROVE  LET more == Append(q, e)
         IN  /\ \A k \in 1 .. Len(q) + 1 : IsOpen(open, more, k, x) <=> IsOpen(open, q, k, x)
             /\ IsOpen(open, more, Len(q) + 2, x) =>
                   (IsOpen(open, q, Len(q) + 1, x) /\ x \notin Closes(e)) \/ x \in Opens(e)
  <1> DEFINE n == Len(q)
             more == Append(q, e)
  <1>1. n \in Nat /\ more[n + 1] = e /\ \A m \in 1 .. n : more[m] = q[m]
    OBVIOUS
  <1> HIDE DEF n, more
  <1>2. ASSUME NEW k \in 1 .. n + 1 PROVE IsOpen(open, more, k, x) <=> IsOpen(open, q, k, x)
    <2>1. \A m \in 1 .. k - 1 : more[m] = q[m]
      BY <1>1
    <2>2. \A j \in 1 .. k - 1 : \A m \in j + 1 .. k - 1 : more[m] = q[m]
      BY <2>1
    <2> QED BY <2>1, <2>2 DEF IsOpen
  <1>3. ASSUME IsOpen(open, more, n + 2, x), x \notin Opens(e)
        PROVE  IsOpen(open, q, n + 1, x) /\ x \notin Closes(e)
    <2>0. (n + 2) - 1 = n + 1 /\ (n + 1) - 1 = n /\ n + 1 \in 1 .. n + 1
      BY <1>1
    <2>1. CASE x \in open /\ \A m \in 1 .. n + 1 : x \notin Closes(more[m])
      <3>1. \A m \in 1 .. n : m \in 1 .. n + 1
        BY <1>1
      <3> QED BY <3>1, <2>0, <2>1, <1>1 DEF IsOpen
    <2>2. ASSUME NEW j \in 1 .. n + 1, x \in Opens(more[j]), \A m \in j + 1 .. n + 1 : x \notin Closes(more[m])
          PROVE  IsOpen(open, q, n + 1, x) /\ x \notin Closes(e)
      <3>1. j # n + 1
        BY <2>2, <1>1, <1>3
      <3>2. j \in 1 .. n /\ n + 1 \in j + 1 .. n + 1 /\ \A m \in j + 1 .. n : m \in j + 1 .. n + 1 /\ m \in 1 .. n
        BY <3>1, <1>1
      <3> QED BY <3>2, <2>0, <2>2, <1>1 DEF IsOpen
    <2>3. \/ x \in open /\ \A m \in 1 .. n + 1 : x \notin Closes(more[m])
          \/ \E j \in 1 .. n + 1 : x \in Opens(more[j]) /\ \A m \in j + 1 .. n + 1 : x \notin Closes(more[m])
      BY <2>0, <1>3 DEF IsOpen
    <2> QED BY <2>1, <2>2, <2>3
  <1> QED BY <1>2, <1>3 DEF n, more

\* One more frame is known.
LEMMA OneMore ==
  ASSUME NEW q \in Seq(Event), NEW e \in Event, NEW open, Orderly(open, q),
         e.type = "await" => \A x : ~ IsOpen(open, q, Len(q) + 1, x),
         e.type = "ask" => \A n : ~ IsOpen(open, q, Len(q) + 1, <<"notice", n>>),
         e.type = "draft" => \A n : IsOpen(open, q, Len(q) + 1, <<"draft", n>>) => n = e.id
  PROVE  /\ Orderly(open, Append(q, e))
         /\ \A known, next : Covered(open, q, known) /\ (ServerOpen(known) \ Closes(e)) \cup Opens(e) \subseteq ServerOpen(next)
                => Covered(open, Append(q, e), next)
  <1> DEFINE n == Len(q)
             more == Append(q, e)
  <1>1. n \in Nat /\ Len(more) = n + 1 /\ more[n + 1] = e /\ \A m \in 1 .. n : more[m] = q[m]
    OBVIOUS
  <1>2. \A x : \A k \in 1 .. n + 1 : IsOpen(open, more, k, x) <=> IsOpen(open, q, k, x)
    BY OpenAfterMore
  <1>3. \A x : IsOpen(open, more, n + 2, x) =>
                   (IsOpen(open, q, n + 1, x) /\ x \notin Closes(e)) \/ x \in Opens(e)
    BY OpenAfterMore
  <1>h. /\ e.type = "await" => \A x : ~ IsOpen(open, q, n + 1, x)
        /\ e.type = "ask" => \A m : ~ IsOpen(open, q, n + 1, <<"notice", m>>)
        /\ e.type = "draft" => \A m : IsOpen(open, q, n + 1, <<"draft", m>>) => m = e.id
    OBVIOUS
  <1> HIDE DEF n, more
  <1>4. ASSUME NEW i \in 1 .. Len(more)
        PROVE  /\ more[i].type = "await" => \A x : ~ IsOpen(open, more, i, x)
               /\ more[i].type = "ask" => \A m : ~ IsOpen(open, more, i, <<"notice", m>>)
               /\ more[i].type = "draft" => \A m : IsOpen(open, more, i, <<"draft", m>>) => m = more[i].id
    <2>1. i \in 1 .. n + 1
      BY <1>1
    <2>2. \A x : IsOpen(open, more, i, x) <=> IsOpen(open, q, i, x)
      BY <2>1, <1>2
    <2>3. CASE i = n + 1
      BY <2>2, <2>3, <1>1, <1>h
    <2>4. CASE i # n + 1
      <3>1. i \in 1 .. n /\ more[i] = q[i]
        BY <2>1, <2>4, <1>1
      <3>2. /\ q[i].type = "await" => \A x : ~ IsOpen(open, q, i, x)
            /\ q[i].type = "ask" => \A m : ~ IsOpen(open, q, i, <<"notice", m>>)
            /\ q[i].type = "draft" => \A m : IsOpen(open, q, i, <<"draft", m>>) => m = q[i].id
        BY <3>1 DEF Orderly, n
      <3> QED BY <3>1, <3>2, <2>2
    <2> QED BY <2>3, <2>4
  <1>5. Orderly(open, more)
    BY <1>4 DEF Orderly
  <1>6. ASSUME NEW known, NEW next, Covered(open, q, known), (ServerOpen(known) \ Closes(e)) \cup Opens(e) \subseteq ServerOpen(next)
        PROVE  Covered(open, more, next)
    <2>1. Len(more) + 1 = n + 2
      BY <1>1
    <2>2. \A x : IsOpen(open, q, n + 1, x) => x \in ServerOpen(known)
      BY <1>6 DEF Covered, n
    <2> QED BY <2>1, <2>2, <1>3, <1>6 DEF Covered
  <1> QED BY <1>5, <1>6 DEF more

-----------------------------------------------------------------------------
(* The store, and the store had nothing been held back                     *)

Pair(s, d, h, mode, b) ==
    /\ Shape(s, mode, b) /\ HeldOK(h) /\ d = Shown(s, h)
    /\ s.approval # 0 => mode = "live"
    /\ mode # "live" => h = NothingHeld

LEMMA NothingIsHeld ==
  HeldOK(NothingHeld) /\ \A s : Shown(s, NothingHeld) = s
  <1>1. NothingHeld \in HeldRec /\ NothingHeld.text = <<>> /\ NothingHeld.drafts = <<>>
    <2>1. <<>> \in Seq(Nat) /\ <<>> \in Seq(DraftRec)
      OBVIOUS
    <2> QED BY <2>1, HeldRecHas DEF NothingHeld
  <1>2. HeldOK(NothingHeld)
    <2>1. Len(<<>>) <= 1
      OBVIOUS
    <2> QED BY <2>1, <1>1 DEF HeldOK
  <1> QED BY <1>2, ShownIs

LEMMA PairOfOne ==
  ASSUME NEW s, NEW mode, NEW b, Shape(s, mode, b), s.approval # 0 => mode = "live"
  PROVE  Pair(s, s, NothingHeld, mode, b)
  BY NothingIsHeld DEF Pair

LEMMA PairFacts ==
  ASSUME NEW s, NEW d, NEW h, NEW mode \in Modes, NEW b \in Nat, Pair(s, d, h, mode, b)
  PROVE  /\ Shape(s, mode, b) /\ Shape(d, mode, b) /\ HeldOK(h)
         /\ d.usage = s.usage /\ d.approval = s.approval
         /\ LastTurnIndex(s.transcript) > 0 => LastTurnIndex(d.transcript) > 0
         /\ mode # "live" => d = s /\ h = NothingHeld /\ s.approval = 0
         /\ s.approval # 0 => mode = "live"
  <1>1. CASE mode = "live"
    <2>1. Shape(s, "live", b) /\ HeldOK(h) /\ d = Shown(s, h)
      BY <1>1 DEF Pair
    <2> QED BY <2>1, <1>1, ShownFacts
  <1>2. CASE mode # "live"
    <2>1. d = s
      BY <1>2, NothingIsHeld DEF Pair
    <2> QED BY <2>1, <1>2 DEF Pair
  <1> QED BY <1>1, <1>2

LEMMA Weaker ==
  ASSUME NEW s, NEW mode \in Modes, NEW b \in Nat, NEW c \in Nat, b <= c, Shape(s, mode, b)
  PROVE  Shape(s, mode, c)
  <1> DEFINE gap == Len(s.transcript) - LastTurnIndex(s.transcript)
             one == IF s.approval # 0 THEN 1 ELSE 0
  <1>1. gap \in Int /\ one \in Nat
    <2>1. Len(s.transcript) \in Nat /\ LastTurnIndex(s.transcript) \in 0 .. Len(s.transcript)
      BY ShapeFacts
    <2> QED BY <2>1
  <1>2. LastTurnIndex(s.transcript) > 0 => gap <= b + one
    BY DEF Shape, Trailing
  <1> HIDE DEF gap, one
  <1>3. LastTurnIndex(s.transcript) > 0 => gap <= c + one
    BY <1>1, <1>2
  <1> QED BY <1>3 DEF Shape, Trailing, gap, one

LEMMA StaysKeeps ==
  ASSUME NEW s, NEW mode \in Modes, NEW b, Shape(s, mode, b), NEW next, NEW c, Shape(next, mode, c),
         mode = "live" => StaysBefore(s, next), mode # "live" => StaysWhole(s, next)
  PROVE  Keeps(s, mode, next, mode)
  <1>1. CASE mode = "live"
    BY <1>1, ModeFacts, LiveKeeps
  <1>2. CASE mode # "live"
    <2>1. mode = "over"
      BY <1>2 DEF Modes
    <2> QED BY <2>1, WholeKeeps
  <1> QED BY <1>1, <1>2

LEMMA SameStays ==
  ASSUME NEW s, NEW mode \in Modes, NEW b, Shape(s, mode, b)
  PROVE  StaysBefore(s, s) /\ StaysWhole(s, s) /\ Keeps(s, mode, s, mode)
  <1>1. StaysBefore(s, s) /\ StaysWhole(s, s)
    <2>1. Len(s.transcript) \in Nat
      BY ShapeFacts
    <2> QED BY <2>1 DEF StaysBefore, StaysWhole
  <1> QED BY <1>1, StaysKeeps

LEMMA NothingOpenOver ==
  ASSUME NEW s, NEW b, Shape(s, "over", b), s.approval = 0
  PROVE  OpenIn(s) = {}
  <1>1. CASE LastTurnIndex(s.transcript) = 0
    BY <1>1 DEF OpenIn
  <1>2. CASE LastTurnIndex(s.transcript) # 0
    <2> DEFINE k == LastTurnIndex(s.transcript)
               turn == LastTurn(s.transcript)
    <2>1. Finished(turn)
      <3>1. s.transcript \in Entries /\ k \in 0 .. Len(s.transcript) /\ Len(s.transcript) \in Nat
        BY ShapeFacts, ModeFacts
      <3>2. k \in 1 .. Len(s.transcript) /\ k > 0
        BY <3>1, <1>2
      <3>3. s.transcript[k].kind = "turn"
        BY <3>1, <3>2, LastTurnFacts DEF LastTurn
      <3> QED BY <3>2, <3>3 DEF Shape, TurnsOK, LastTurn
    <2> HIDE DEF turn
    <2>2. DraftIds(turn.drafts) = {}
      BY <2>1 DEF Finished, DraftIds
    <2>3. RunningTools(turn.cards) = {}
      BY <2>1 DEF Finished, RunningTools
    <2>4. OpenOf(turn) = {}
      BY <2>2, <2>3 DEF OpenOf
    <2> QED BY <2>4, <1>2 DEF OpenIn, turn
  <1> QED BY <1>1, <1>2

Lined(s, line) == Bounded(s, Append(s.transcript, line))

\* A line of no approval is pushed.
LEMMA LineOnOne ==
  ASSUME NEW s, NEW mode \in Modes, NEW b \in Nat, Shape(s, mode, b), NEW c \in Nat, b + 1 <= c,
         b + (IF s.approval # 0 THEN 1 ELSE 0) + 1 < TrimTarget, NEW line \in LineRec, line.approval = 0
  PROVE  LET next == Lined(s, line)
         IN  /\ Shape(next, mode, c) /\ next.usage = s.usage /\ next.approval = s.approval
             /\ LastTurnIndex(next.transcript) > 0 <=> LastTurnIndex(s.transcript) > 0
             /\ LastTurnIndex(s.transcript) > 0 => LastTurn(next.transcript) = LastTurn(s.transcript)
             /\ OpenIn(next) = OpenIn(s)
             /\ StaysBefore(s, next) /\ StaysWhole(s, next) /\ Keeps(s, mode, next, mode)
  <1> DEFINE next == Lined(s, line)
             asked == s.approval
             one == IF s.approval # 0 THEN 1 ELSE 0
  <1>1. /\ s \in ScreenRec /\ Len(s.transcript) <= TranscriptLimit /\ asked \in Nat /\ s.transcript \in Entries
        /\ Len(s.transcript) \in Nat /\ LastTurnIndex(s.transcript) \in 0 .. Len(s.transcript) /\ one \in Nat
    BY ShapeFacts DEF Shape
  <1>2. /\ Append(s.transcript, line) \in Entries /\ Len(Append(s.transcript, line)) = Len(s.transcript) + 1
        /\ LastTurnIndex(Append(s.transcript, line)) = LastTurnIndex(s.transcript)
    BY <1>1, AppendLineFacts
  <1>3. LastTurnIndex(s.transcript) > 0 => (Len(s.transcript) + 1) - LastTurnIndex(s.transcript) < TrimTarget
    <2>1. LastTurnIndex(s.transcript) > 0 => Len(s.transcript) - LastTurnIndex(s.transcript) <= b + one
      BY DEF Shape, Trailing
    <2>2. b + one + 1 < TrimTarget
      OBVIOUS
    <2>3. Len(s.transcript) \in Nat /\ LastTurnIndex(s.transcript) \in Nat
      BY <1>1
    <2> HIDE DEF one
    <2> QED BY <2>1, <2>2, <2>3, <1>1, LimitFacts
  <1>4. Len(s.transcript) + 1 <= TranscriptLimit + 1
    BY <1>1, LimitFacts
  <1>5. next = Pushed(s, line, asked)
    <2>1. next \in ScreenRec /\ next.approval = asked
      <3>1. /\ Bounded(s, Append(s.transcript, line)) \in ScreenRec
            /\ Bounded(s, Append(s.transcript, line)).approval = s.approval
        BY <1>1, <1>2, <1>3, <1>4, BoundedFacts
      <3> QED BY <3>1 DEF Lined
    <2> HIDE DEF next, asked
    <2>2. [next EXCEPT !.approval = asked] = next
      BY <2>1 DEF ScreenRec
    <2> QED BY <2>2 DEF Pushed, Lined, next
  <1> HIDE DEF next
  <1>6. /\ Shape(next, mode, c) /\ next.usage = s.usage /\ next.approval = asked
        /\ LastTurnIndex(next.transcript) > 0 <=> LastTurnIndex(s.transcript) > 0
        /\ LastTurnIndex(s.transcript) > 0 => LastTurn(next.transcript) = LastTurn(s.transcript)
        /\ StaysBefore(s, next) /\ StaysWhole(s, next)
    <2>1. /\ b + (IF s.approval # 0 THEN 1 ELSE 0) + 1 <= c + (IF asked # 0 THEN 1 ELSE 0)
      <3>1. b + one + 1 <= c + one
        <4> HIDE DEF one
        <4> QED BY <1>1
      <3> QED BY <3>1
    <2>2. asked = s.approval /\ asked \in Nat
      BY <1>1
    <2> HIDE DEF asked
    <2> QED BY <2>1, <2>2, <1>5, LineAdded
  <1>7. LastTurnIndex(next.transcript) = 0 <=> LastTurnIndex(s.transcript) = 0
    <2>1. /\ Len(next.transcript) \in Nat /\ LastTurnIndex(next.transcript) \in 0 .. Len(next.transcript)
      BY <1>6, ShapeFacts
    <2>2. LastTurnIndex(next.transcript) \in Nat /\ LastTurnIndex(s.transcript) \in Nat
      BY <2>1, <1>1
    <2> QED BY <2>2, <1>6
  <1>8. OpenIn(next) = OpenIn(s)
    <2>1. CASE LastTurnIndex(s.transcript) = 0
      BY <2>1, <1>6, <1>7 DEF OpenIn
    <2>2. CASE LastTurnIndex(s.transcript) # 0
      <3>1. LastTurn(next.transcript) = LastTurn(s.transcript)
        BY <2>2, <1>1, <1>6
      <3> QED BY <3>1, <2>2, <1>6, <1>7 DEF OpenIn
    <2> QED BY <2>1, <2>2
  <1>9. Keeps(s, mode, next, mode)
    BY <1>6, StaysKeeps
  <1> QED BY <1>6, <1>8, <1>9 DEF next

LEMMA PairLined ==
  ASSUME NEW s, NEW d, NEW h, NEW mode \in Modes, NEW b \in Nat, Pair(s, d, h, mode, b), NEW c \in Nat, b + 1 <= c,
         b + (IF s.approval # 0 THEN 1 ELSE 0) + 1 < TrimTarget, NEW line \in LineRec, line.approval = 0
  PROVE  /\ Pair(Lined(s, line), Lined(d, line), h, mode, c)
         /\ Lined(s, line).usage = s.usage
         /\ OpenIn(Lined(d, line)) = OpenIn(d)
         /\ LastTurnIndex(s.transcript) > 0 => LastTurnIndex(Lined(s, line).transcript) > 0
         /\ Keeps(s, mode, Lined(s, line), mode)
  <1> DEFINE sn == Lined(s, line)
             dn == Lined(d, line)
  <1>1. /\ Shape(s, mode, b) /\ Shape(d, mode, b) /\ HeldOK(h) /\ d.approval = s.approval
        /\ (mode # "live" => d = s /\ h = NothingHeld) /\ (s.approval # 0 => mode = "live")
    BY PairFacts
  <1>2. /\ Shape(sn, mode, c) /\ sn.usage = s.usage /\ sn.approval = s.approval
        /\ LastTurnIndex(s.transcript) > 0 => LastTurnIndex(sn.transcript) > 0
        /\ Keeps(s, mode, sn, mode)
    BY <1>1, LineOnOne
  <1>3. OpenIn(dn) = OpenIn(d)
    <2>1. b + (IF d.approval # 0 THEN 1 ELSE 0) + 1 < TrimTarget
      BY <1>1
    <2> QED BY <2>1, <1>1, LineOnOne
  <1>4. dn = Shown(sn, h)
    <2>1. CASE mode = "live"
      <3>1. Shape(s, "live", b) /\ d = Shown(s, h)
        BY <2>1 DEF Pair
      <3>2. Shown(Bounded(s, Append(s.transcript, line)), h)
               = Bounded(Shown(s, h), Append(Shown(s, h).transcript, line))
        BY <3>1, <1>1, ShownAfterLine
      <3> QED BY <3>1, <3>2 DEF Lined
    <2>2. CASE mode # "live"
      <3> HIDE DEF sn, dn
      <3>1. d = s /\ h = NothingHeld
        BY <2>2, <1>1
      <3>2. sn = dn
        BY <3>1 DEF sn, dn
      <3> QED BY <3>1, <3>2, NothingIsHeld
    <2> QED BY <2>1, <2>2
  <1> HIDE DEF sn, dn
  <1>5. Pair(sn, dn, h, mode, c)
    BY <1>1, <1>2, <1>4 DEF Pair
  <1> QED BY <1>2, <1>3, <1>5 DEF sn, dn

\* The approval asked for is resolved.
LEMMA PairSettled ==
  ASSUME NEW s, NEW d, NEW h, NEW mode \in Modes, NEW b \in Nat, Pair(s, d, h, mode, b), s.approval # 0
  PROVE  /\ Pair(Settled(s), Settled(d), h, mode, b)
         /\ Settled(s).usage = s.usage
         /\ OpenIn(Settled(d)) \subseteq OpenIn(d)
         /\ LastTurnIndex(s.transcript) > 0 => LastTurnIndex(Settled(s).transcript) > 0
         /\ Keeps(s, mode, Settled(s), mode)
  <1> DEFINE sn == Settled(s)
             dn == Settled(d)
  <1>1. /\ Shape(s, mode, b) /\ Shape(d, mode, b) /\ HeldOK(h) /\ mode = "live" /\ d = Shown(s, h)
    BY PairFacts DEF Pair
  <1>2. /\ Shape(sn, mode, b) /\ sn.usage = s.usage /\ sn.approval = 0
        /\ LastTurnIndex(sn.transcript) = LastTurnIndex(s.transcript) /\ StaysBefore(s, sn)
    BY <1>1, SettledFacts
  <1>3. /\ Shape(dn, mode, b) /\ dn.approval = 0
        /\ LastTurnIndex(dn.transcript) = LastTurnIndex(d.transcript)
        /\ LastTurnIndex(d.transcript) > 0 => LastTurn(dn.transcript) = LastTurn(d.transcript)
    BY <1>1, SettledFacts
  <1>4. dn = Shown(sn, h)
    BY <1>1, ShownAfterSettled
  <1>5. OpenIn(dn) \subseteq OpenIn(d)
    <2>1. LastTurnIndex(d.transcript) > 0
      BY <1>1 DEF Shape, TurnsOK
    <2>2. LastTurnIndex(d.transcript) # 0
      BY <2>1
    <2> HIDE DEF dn
    <2> QED BY <2>1, <2>2, <1>3 DEF OpenIn
  <1>6. Keeps(s, mode, sn, mode)
    BY <1>1, <1>2, StaysKeeps
  <1>7. Pair(sn, dn, h, mode, b)
    <2> HIDE DEF sn, dn
    <2> QED BY <1>1, <1>2, <1>4 DEF Pair
  <1> QED BY <1>2, <1>5, <1>6, <1>7

\* What is held is applied.
LEMMA PairFlushed ==
  ASSUME NEW s, NEW d, NEW h, NEW mode \in Modes, NEW b \in Nat, Pair(s, d, h, mode, b)
  PROVE  /\ Pair(d, d, NothingHeld, mode, b) /\ d.usage = s.usage
         /\ LastTurnIndex(s.transcript) > 0 => LastTurnIndex(d.transcript) > 0
         /\ Keeps(s, mode, d, mode)
  <1>1. /\ Shape(s, mode, b) /\ Shape(d, mode, b) /\ HeldOK(h) /\ d.usage = s.usage /\ d.approval = s.approval
        /\ (LastTurnIndex(s.transcript) > 0 => LastTurnIndex(d.transcript) > 0)
        /\ (mode # "live" => d = s) /\ (s.approval # 0 => mode = "live")
    BY PairFacts
  <1>2. Pair(d, d, NothingHeld, mode, b)
    BY <1>1, PairOfOne
  <1>3. Keeps(s, mode, d, mode)
    <2>1. CASE mode = "live"
      <3>1. Shape(s, "live", b) /\ d = Shown(s, h)
        BY <2>1 DEF Pair
      <3>2. StaysBefore(s, d)
        BY <3>1, <1>1, ShownFacts
      <3> QED BY <3>2, <2>1, <1>1, StaysKeeps
    <2>2. CASE mode # "live"
      BY <2>2, <1>1, SameStays
    <2> QED BY <2>1, <2>2
  <1> QED BY <1>1, <1>2, <1>3

\* An event reaches the batchers, or the store.
LEMMA PairDelivered ==
  ASSUME NEW s, NEW d, NEW h, NEW b \in Nat, Pair(s, d, h, "live", b), b + 1 < TrimTarget,
         NEW e, Allowed(d, e), e.type = "draft" => \A n : <<"draft", n>> \in OpenIn(d) => n = e.id,
         NEW then \in Modes, then = "live" <=> ~ EndsTurn(e),
         NEW x, x = [screen |-> s, held |-> h]
  PROVE  LET after == OnEvent(x, e)
             next == Dispatch(d, e)
         IN  /\ Pair(after.screen, next, after.held, then, b)
             /\ after.screen.usage = s.usage + (IF e.type = "usage" THEN 1 ELSE 0)
             /\ then = "live" => OpenIn(next) \subseteq (OpenIn(d) \ Closes(e)) \cup Opens(e)
             /\ LastTurnIndex(after.screen.transcript) > 0
             /\ Keeps(s, "live", after.screen, then)
  <1> DEFINE after == OnEvent(x, e)
             next == Dispatch(d, e)
  <1>1. /\ Shape(s, "live", b) /\ Shape(d, "live", b) /\ HeldOK(h) /\ d = Shown(s, h)
        /\ d.usage = s.usage /\ d.approval = s.approval /\ s.usage \in Nat
        /\ LastTurnIndex(s.transcript) > 0 /\ LastTurnIndex(d.transcript) > 0
        /\ StaysBefore(s, d) /\ StaysBefore(s, s)
    <2>1. /\ Shape(s, "live", b) /\ Shape(d, "live", b) /\ HeldOK(h) /\ d = Shown(s, h)
          /\ d.usage = s.usage /\ d.approval = s.approval
      BY PairFacts, ModeFacts DEF Pair
    <2>2. LastTurnIndex(s.transcript) > 0 /\ LastTurnIndex(d.transcript) > 0
      BY <2>1 DEF Shape, TurnsOK
    <2>3. StaysBefore(s, d)
      BY <2>1, ShownFacts
    <2>4. StaysBefore(s, s) /\ s.usage \in Nat
      BY <2>1, SameStays, ShapeFacts, ModeFacts
    <2> QED BY <2>1, <2>2, <2>3, <2>4
  <1>2. e \in Event /\ e.type # "started"
    BY DEF Allowed
  <1>3. /\ Shape(next, then, b)
        /\ next.usage = d.usage + (IF e.type = "usage" THEN 1 ELSE 0)
        /\ LastTurnIndex(next.transcript) > 0
        /\ StaysBefore(d, next)
        /\ then = "live" => OpenIn(next) \subseteq (OpenIn(d) \ Closes(e)) \cup Opens(e)
        /\ then # "live" => next.approval = 0
    BY <1>1, ModeFacts, DispatchFacts
  <1> HIDE DEF next
  <1>4. CASE e.type \in {"message", "draft"}
    <2>1. /\ HeldOK(after.held) /\ after.screen \in {s, d} /\ Shown(after.screen, after.held) = next
      <3>1. CASE e.type = "message"
        BY <3>1, <1>1, <1>2, TextIsBatched DEF next
      <3>2. CASE e.type = "draft"
        <4>1. h.drafts # <<>> => h.drafts[1].id = e.id
          BY <3>2, <1>1, HeldDraftIsOpen
        <4> QED BY <4>1, <3>2, <1>1, <1>2, DraftIsBatched DEF next
      <3> QED BY <3>1, <3>2, <1>4
    <2> HIDE DEF after
    <2>2. then = "live"
      BY <1>4 DEF EndsTurn
    <2>3. /\ Shape(after.screen, "live", b) /\ after.screen.usage = s.usage
          /\ LastTurnIndex(after.screen.transcript) > 0 /\ StaysBefore(s, after.screen)
      BY <2>1, <1>1
    <2>4. Keeps(s, "live", after.screen, then)
      BY <2>2, <2>3, <1>1, ModeFacts, StaysKeeps
    <2>5. Pair(after.screen, next, after.held, then, b)
      BY <2>1, <2>2, <2>3 DEF Pair
    <2>6. after.screen.usage = s.usage + (IF e.type = "usage" THEN 1 ELSE 0)
      BY <2>3, <1>1, <1>4
    <2> QED BY <2>3, <2>4, <2>5, <2>6, <1>3 DEF after, next
  <1>5. CASE e.type \notin {"message", "draft"}
    <2>1. after.held = NothingHeld /\ after.screen = next
      BY <1>1, <1>2, <1>5, OthersAreFlushedFor DEF next
    <2> HIDE DEF after
    <2>2. StaysBefore(s, next)
      <3>1. s \in ScreenRec /\ d \in ScreenRec /\ next \in ScreenRec
        BY <1>1, <1>3 DEF Shape
      <3> QED BY <3>1, <1>1, <1>3, StaysBeforeIsTransitive
    <2>3. Keeps(s, "live", next, then)
      BY <2>2, <1>1, <1>3, LiveKeeps
    <2>4. Pair(next, next, NothingHeld, then, b)
      BY <1>3, PairOfOne
    <2> QED BY <2>1, <2>3, <2>4, <1>1, <1>3 DEF after, next
  <1> QED BY <1>4, <1>5

LEMMA OverPair ==
  ASSUME NEW s, NEW d, NEW h, NEW b, Pair(s, d, h, "over", b)
  PROVE  Shape(s, "over", b) /\ d = s /\ h = NothingHeld /\ s.approval = 0
  <1>1. "over" # "live"
    OBVIOUS
  <1>2. /\ Shape(s, "over", b) /\ HeldOK(h) /\ d = Shown(s, h) /\ (s.approval # 0 => "over" = "live")
        /\ ("over" # "live" => h = NothingHeld)
    BY DEF Pair
  <1>3. h = NothingHeld /\ s.approval = 0
    BY <1>1, <1>2
  <1> QED BY <1>2, <1>3, NothingIsHeld

\* The stream says that a resumed run has started.
LEMMA PairRestarted ==
  ASSUME NEW s, NEW d, NEW h, NEW b \in Nat, Pair(s, d, h, "over", b), LastTurnIndex(s.transcript) > 0,
         NEW e, e.type = "started", NEW x, x = [screen |-> s, held |-> h]
  PROVE  LET after == OnEvent(x, e)
         IN  /\ after.held = NothingHeld
             /\ Pair(after.screen, Restarted(d), NothingHeld, "live", b)
             /\ after.screen.usage = 0 /\ OpenIn(Restarted(d)) = {}
             /\ LastTurnIndex(after.screen.transcript) > 0
             /\ Keeps(s, "over", after.screen, "live")
  <1> DEFINE next == Restarted(s)
             after == OnEvent(x, e)
  <1>1. Shape(s, "over", b) /\ d = s /\ h = NothingHeld /\ s.approval = 0
    BY OverPair
  <1>2. after.screen = next /\ after.held = NothingHeld
    <2>1. after = [x EXCEPT !.screen = next]
      BY DEF OnEvent
    <2> HIDE DEF next
    <2> QED BY <2>1, <1>1
  <1>3. /\ Shape(next, "live", b) /\ next.usage = 0 /\ OpenIn(next) = {}
        /\ LastTurnIndex(next.transcript) > 0 /\ next.epoch > s.epoch
    BY <1>1, ModeFacts, RestartedFacts
  <1> HIDE DEF after
  <1>4. Pair(next, next, NothingHeld, "live", b)
    <2> HIDE DEF next
    <2> QED BY <1>3, PairOfOne
  <1>5. Keeps(s, "over", next, "live")
    <2>1. next.epoch # s.epoch
      <3>1. s.epoch \in Nat /\ next.epoch \in Nat
        <4> HIDE DEF next
        <4> QED BY <1>1, <1>3, ShapeFacts, ModeFacts
      <3> QED BY <3>1, <1>3
    <2> QED BY <2>1 DEF Keeps
  <1> QED BY <1>1, <1>2, <1>3, <1>4, <1>5 DEF after

\* A counter that comes after the end of the turn.
LEMMA PairCounted ==
  ASSUME NEW s, NEW d, NEW h, NEW b \in Nat, Pair(s, d, h, "over", b), NEW e \in Event, e.type = "usage",
         NEW x, x = [screen |-> s, held |-> h]
  PROVE  LET after == OnEvent(x, e)
         IN  /\ after.held = NothingHeld
             /\ Pair(after.screen, Dispatch(d, e), NothingHeld, "over", b)
             /\ after.screen.usage = s.usage + 1
             /\ LastTurnIndex(after.screen.transcript) = LastTurnIndex(s.transcript)
             /\ Keeps(s, "over", after.screen, "over")
  <1> DEFINE next == Dispatch(s, e)
             after == OnEvent(x, e)
  <1>1. Shape(s, "over", b) /\ d = s /\ h = NothingHeld /\ s.approval = 0
    BY OverPair
  <1>2. after.screen = next /\ after.held = NothingHeld
    <2>1. e.type \notin {"message", "draft", "started"} /\ HeldOK(h)
      BY <1>1, NothingIsHeld
    <2>2. after.held = NothingHeld /\ after.screen = Dispatch(Shown(s, h), e)
      BY <2>1, OthersAreFlushedFor
    <2>3. Shown(s, h) = s
      BY <1>1, NothingIsHeld
    <2> QED BY <2>2, <2>3
  <1>3. /\ Shape(next, "over", b) /\ next.usage = s.usage + 1 /\ next.approval = 0
        /\ next.transcript = s.transcript /\ StaysWhole(s, next)
    BY <1>1, ModeFacts, CountUsage
  <1> HIDE DEF after, next
  <1>4. Pair(next, next, NothingHeld, "over", b)
    BY <1>3, PairOfOne
  <1>5. Keeps(s, "over", next, "over")
    BY <1>1, <1>3, WholeKeeps
  <1> QED BY <1>1, <1>2, <1>3, <1>4, <1>5 DEF after, next

\* A finished turn in the place of the last, which is the same one if it was over.
LEMMA TurnFinished ==
  ASSUME NEW s, NEW mode \in Modes, NEW b \in Nat, Shape(s, mode, b), NEW turn \in TurnRec,
         LastTurnIndex(s.transcript) > 0,
         Finished(turn), mode # "live" => turn = LastTurn(s.transcript),
         NEW next, next = [s EXCEPT !.transcript = UpdateLastTurn(s.transcript, turn)]
  PROVE  /\ Shape(next, "over", b) /\ next.usage = s.usage /\ next.approval = s.approval
         /\ LastTurnIndex(next.transcript) > 0
         /\ mode # "live" => next = s
         /\ mode = "live" => StaysBefore(s, next)
  <1>1. s \in ScreenRec /\ s.transcript \in Entries
    BY ShapeFacts
  <1>2. next = WithTurn(s, turn)
    BY DEF WithTurn
  <1>3. /\ next \in ScreenRec /\ next.transcript = UpdateLastTurn(s.transcript, turn)
        /\ next.epoch = s.epoch /\ next.usage = s.usage /\ next.approval = s.approval
    BY <1>1, <1>2, WithTurnFacts
  <1>4. /\ Shape(next, "over", b)
        /\ LastTurnIndex(next.transcript) = LastTurnIndex(s.transcript)
        /\ \A i \in 1 .. LastTurnIndex(s.transcript) - 1 : next.transcript[i] = s.transcript[i]
    <2>1. "over" # "live"
      OBVIOUS
    <2>2. "over" \in Modes
      BY ModeFacts
    <2>3. next \in ScreenRec /\ next.transcript = UpdateLastTurn(s.transcript, turn) /\ next.approval = s.approval
      BY <1>3
    <2> QED BY <2>1, <2>2, <2>3, TurnReplaced
  <1>5. ASSUME mode # "live" PROVE next = s
    <2>1. UpdateLastTurn(s.transcript, LastTurn(s.transcript)) = s.transcript
      BY <1>1, UpdateNothing
    <2> QED BY <2>1, <1>1, <1>3, <1>5, SameScreen
  <1>6. StaysBefore(s, next)
    BY <1>3, <1>4 DEF StaysBefore
  <1> QED BY <1>3, <1>4, <1>5, <1>6

Outcomes == {"cancelled", "error"}
Stopped(s, outcome) == Settled([s EXCEPT !.transcript = UpdateLastTurn(@, Interrupted(LastTurn(@), outcome))])

LEMMA OverIsFinished ==
  ASSUME NEW s, NEW mode \in Modes, NEW b \in Nat, Shape(s, mode, b), mode # "live", LastTurnIndex(s.transcript) > 0
  PROVE  LastTurn(s.transcript) \in TurnRec /\ Finished(LastTurn(s.transcript))
  <1> DEFINE k == LastTurnIndex(s.transcript)
             turn == LastTurn(s.transcript)
  <1>1. s.transcript \in Entries /\ k \in 0 .. Len(s.transcript) /\ Len(s.transcript) \in Nat
    BY ShapeFacts, ModeFacts
  <1>2. k \in 1 .. Len(s.transcript) /\ turn \in TurnRec
    BY <1>1, LastTurnFacts
  <1>3. s.transcript[k].kind = "turn"
    BY <1>1, <1>2, LastTurnFacts DEF LastTurn
  <1> QED BY <1>2, <1>3 DEF Shape, TurnsOK, LastTurn

LEMMA StoppedFacts ==
  ASSUME NEW s, NEW mode \in Modes, NEW b \in Nat, Shape(s, mode, b), LastTurnIndex(s.transcript) > 0,
         s.approval # 0 => mode = "live", NEW outcome \in Outcomes
  PROVE  LET next == Stopped(s, outcome)
         IN  /\ Shape(next, "over", b) /\ next.usage = s.usage /\ next.approval = 0
             /\ LastTurnIndex(next.transcript) > 0
             /\ Keeps(s, mode, next, "over")
             /\ mode = "live" => StaysBefore(s, next)
             /\ mode # "live" => next = s
  <1> DEFINE turn == LastTurn(s.transcript)
             told == Interrupted(turn, outcome)
             mid == [s EXCEPT !.transcript = UpdateLastTurn(s.transcript, told)]
             next == Settled(mid)
  <1>0. turn \in TurnRec
    BY ShapeFacts, LastTurnFacts
  <1>1. told \in TurnRec /\ Finished(told)
    <2> HIDE DEF turn
    <2> QED BY <1>0, InterruptedFacts DEF Outcomes
  <1>2. mode # "live" => told = turn
    <2>1. mode # "live" => Finished(turn)
      BY OverIsFinished
    <2> HIDE DEF turn
    <2> QED BY <2>1, <1>0, FinishedStays DEF Outcomes
  <1>3. Stopped(s, outcome) = next
    BY DEF Stopped
  <1> HIDE DEF told
  <1>4. /\ Shape(mid, "over", b) /\ mid.usage = s.usage /\ mid.approval = s.approval
        /\ LastTurnIndex(mid.transcript) > 0
        /\ mode # "live" => mid = s
        /\ mode = "live" => StaysBefore(s, mid)
    <2>1. mid = [s EXCEPT !.transcript = UpdateLastTurn(s.transcript, told)]
      OBVIOUS
    <2>2. mode # "live" => told = LastTurn(s.transcript)
      BY <1>2
    <2>3. PICK fin \in TurnRec : fin = told
      BY <1>1
    <2>4. PICK m : m = [s EXCEPT !.transcript = UpdateLastTurn(s.transcript, fin)]
      OBVIOUS
    <2> HIDE DEF mid, turn, next
    <2>5. Finished(fin) /\ (mode # "live" => fin = LastTurn(s.transcript)) /\ m = mid
      BY <1>1, <2>1, <2>2, <2>3, <2>4
    <2>6. /\ Shape(m, "over", b) /\ m.usage = s.usage /\ m.approval = s.approval
          /\ LastTurnIndex(m.transcript) > 0
          /\ mode # "live" => m = s
          /\ mode = "live" => StaysBefore(s, m)
      BY <2>4, <2>5, TurnFinished
    <2> QED BY <2>5, <2>6
  <1> HIDE DEF mid
  <1>5. /\ Shape(next, "over", b) /\ next.approval = 0 /\ next.usage = mid.usage
        /\ LastTurnIndex(next.transcript) = LastTurnIndex(mid.transcript)
        /\ StaysBefore(mid, next)
        /\ mid.approval = 0 => next = mid
    BY <1>4, ModeFacts, SettledFacts
  <1> HIDE DEF next
  <1>6. mode = "live" => StaysBefore(s, next)
    <2>1. s \in ScreenRec /\ mid \in ScreenRec /\ next \in ScreenRec
      BY <1>4, <1>5 DEF Shape
    <2> QED BY <2>1, <1>4, <1>5, StaysBeforeIsTransitive
  <1>7. mode # "live" => next = s
    BY <1>4, <1>5
  <1>8. Keeps(s, mode, next, "over")
    <2>1. CASE mode = "live"
      BY <2>1, <1>5, <1>6, ModeFacts, LiveKeeps
    <2>2. CASE mode # "live"
      <3>1. next = s /\ mode = "over"
        BY <2>2, <1>7 DEF Modes
      <3> QED BY <3>1, SameStays
    <2> QED BY <2>1, <2>2
  <1> QED BY <1>3, <1>4, <1>5, <1>6, <1>7, <1>8

\* closeLatestTurn finds the turn closed.
LEMMA ClosedAlready ==
  ASSUME NEW s, NEW b \in Nat, Shape(s, "over", b)
  PROVE  [s EXCEPT !.transcript = UpdateLastTurn(@, ClosedTurn(LastTurn(@)))] = s
  <1> DEFINE turn == LastTurn(s.transcript)
             u == UpdateLastTurn(s.transcript, ClosedTurn(turn))
  <1>1. s \in ScreenRec /\ s.transcript \in Entries /\ LastTurnIndex(s.transcript) \in 0 .. Len(s.transcript)
        /\ Len(s.transcript) \in Nat
    BY ShapeFacts, ModeFacts
  <1>2. u = s.transcript
    <2>1. CASE LastTurnIndex(s.transcript) = 0
      BY <2>1 DEF UpdateLastTurn
    <2>2. CASE LastTurnIndex(s.transcript) # 0
      <3>1. LastTurnIndex(s.transcript) > 0
        BY <2>2, <1>1
      <3>2. turn \in TurnRec /\ Finished(turn)
        BY <3>1, ModeFacts, OverIsFinished
      <3>3. ClosedTurn(turn) = turn
        <4> HIDE DEF turn
        <4> QED BY <3>2, FinishedStays
      <3> QED BY <3>1, <3>3, <1>1, UpdateNothing
    <2> QED BY <2>1, <2>2
  <1> HIDE DEF u
  <1>3. [s EXCEPT !.transcript = u] = s
    BY <1>1, <1>2 DEF ScreenRec
  <1> QED BY <1>3 DEF u

-----------------------------------------------------------------------------
(* The frames of a read                                                    *)

LEMMA NoUsage == UsageIn(<<>>) = 0 /\ Resets(<<>>) = FALSE
  <1>1. {i \in DOMAIN <<>> : <<>>[i].type = "usage"} = {}
    OBVIOUS
  <1>2. UsageIn(<<>>) = 0
    BY <1>1, FS_EmptySet DEF UsageIn
  <1>3. Resets(<<>>) = FALSE
    BY DEF Resets
  <1> QED BY <1>2, <1>3

LEMMA UsageOfTail ==
  ASSUME NEW q \in Seq(Event), q # <<>>
  PROVE  /\ UsageIn(q) \in Nat /\ UsageIn(Tail(q)) \in Nat
         /\ UsageIn(q) = UsageIn(Tail(q)) + (IF q[1].type = "usage" THEN 1 ELSE 0)
  <1> DEFINE n == Len(q)
             t == Tail(q)
             S == {i \in DOMAIN q : q[i].type = "usage"}
             T == {i \in DOMAIN t : t[i].type = "usage"}
             R == {i \in 2 .. n : q[i].type = "usage"}
             f == [i \in T |-> i + 1]
  <1>1. /\ n \in Nat /\ n # 0 /\ DOMAIN q = 1 .. n /\ DOMAIN t = 1 .. n - 1
        /\ \A i \in 1 .. n - 1 : t[i] = q[i + 1]
    BY HeadTailProperties, EmptySeq
  <1> HIDE DEF n, t
  <1>2. IsFiniteSet(T) /\ IsFiniteSet(R)
    <2>1. IsFiniteSet(1 .. n - 1) /\ IsFiniteSet(2 .. n)
      BY <1>1, FS_Interval
    <2>2. T \subseteq 1 .. n - 1 /\ R \subseteq 2 .. n
      BY <1>1
    <2> QED BY <2>1, <2>2, FS_Subset
  <1>3. Cardinality(R) = Cardinality(T)
    <2>1. f \in Bijection(T, R)
      <3>1. \A i \in T : i \in 1 .. n - 1 /\ i + 1 \in 2 .. n /\ i + 1 \in R
        BY <1>1
      <3>2. f \in [T -> R]
        BY <3>1
      <3>3. \A i, j \in T : f[i] = f[j] => i = j
        BY <3>1
      <3>4. \A j \in R : \E i \in T : f[i] = j
        <4> TAKE j \in R
        <4>1. j - 1 \in 1 .. n - 1 /\ (j - 1) + 1 = j
          BY <1>1
        <4>2. j - 1 \in T
          BY <4>1, <1>1
        <4> QED BY <4>1, <4>2
      <3> QED BY <3>2, <3>3, <3>4 DEF Bijection, Injection, Surjection, IsInjective
    <2>2. ExistsBijection(T, R)
      BY <2>1 DEF ExistsBijection
    <2> HIDE DEF T, R
    <2> QED BY <2>2, <1>2, FS_Bijection
  <1>4. S = IF q[1].type = "usage" THEN R \cup {1} ELSE R
    <2>1. \A i : i \in 1 .. n <=> i = 1 \/ i \in 2 .. n
      BY <1>1
    <2> QED BY <2>1, <1>1
  <1>5. 1 \notin R
    BY <1>1
  <1>6. Cardinality(R) \in Nat
    BY <1>2, FS_CardinalityType
  <1>7. UsageIn(q) = Cardinality(S) /\ UsageIn(t) = Cardinality(T)
    BY DEF UsageIn
  <1> HIDE DEF R, S, T
  <1>8. Cardinality(R \cup {1}) = Cardinality(R) + 1
    BY <1>2, <1>5, FS_AddElement
  <1> QED BY <1>3, <1>4, <1>6, <1>7, <1>8 DEF t

LEMMA ResetsOfTail ==
  ASSUME NEW q \in Seq(Event), q # <<>>, \A i \in 1 .. Len(q) : q[i].type = "started" => i = 1
  PROVE  Resets(Tail(q)) = FALSE /\ (Resets(q) <=> q[1].type = "started")
  <1>1. /\ Len(q) \in Nat /\ Len(q) # 0 /\ DOMAIN q = 1 .. Len(q) /\ DOMAIN Tail(q) = 1 .. Len(q) - 1
        /\ \A i \in 1 .. Len(q) - 1 : Tail(q)[i] = q[i + 1]
    BY HeadTailProperties, EmptySeq
  <1>2. \A i \in 1 .. Len(q) - 1 : i + 1 \in 1 .. Len(q) /\ i + 1 # 1
    BY <1>1
  <1>3. Resets(Tail(q)) = FALSE
    BY <1>1, <1>2 DEF Resets
  <1>4. 1 \in DOMAIN q
    BY <1>1
  <1>5. Resets(q) <=> q[1].type = "started"
    BY <1>1, <1>4 DEF Resets
  <1> QED BY <1>3, <1>5

LEMMA FirstOfBoth ==
  ASSUME NEW p \in Seq(Event), p # <<>>, NEW w \in Seq(Event)
  PROVE  /\ p \o w # <<>> /\ (p \o w)[1] = Head(p) /\ Tail(p) \o w = Tail(p \o w)
         /\ Head(p) \in Event /\ Head(p) = p[1] /\ Tail(p) \in Seq(Event)
  <1>1. /\ p \o w \in Seq(Event) /\ Len(p \o w) = Len(p) + Len(w) /\ Len(p) \in Nat /\ Len(w) \in Nat
        /\ \A i \in 1 .. Len(p) + Len(w) : (p \o w)[i] = IF i <= Len(p) THEN p[i] ELSE w[i - Len(p)]
    BY ConcatProperties
  <1>2. Len(p) # 0 /\ 1 \in 1 .. Len(p) + Len(w) /\ 1 <= Len(p)
    <2>1. Len(p) # 0
      BY EmptySeq
    <2> QED BY <2>1, <1>1
  <1>3. Head(p) \in Event /\ Head(p) = p[1] /\ Tail(p) \in Seq(Event) /\ Len(Tail(p)) = Len(p) - 1
        /\ \A i \in 1 .. Len(p) - 1 : Tail(p)[i] = p[i + 1]
    BY HeadTailProperties
  <1>4. p \o w # <<>>
    BY <1>1, <1>2, EmptySeq
  <1>5. (p \o w)[1] = Head(p)
    BY <1>1, <1>2, <1>3
  <1>6. Tail(p) \o w = Tail(p \o w)
    <2> DEFINE a == Tail(p) \o w
               c == Tail(p \o w)
    <2>1. /\ a \in Seq(Event) /\ Len(a) = (Len(p) - 1) + Len(w)
          /\ \A i \in 1 .. (Len(p) - 1) + Len(w) : a[i] = IF i <= Len(p) - 1 THEN Tail(p)[i] ELSE w[i - (Len(p) - 1)]
      <3>1. /\ a \in Seq(Event) /\ Len(a) = Len(Tail(p)) + Len(w)
            /\ \A i \in 1 .. Len(Tail(p)) + Len(w) : a[i] = IF i <= Len(Tail(p)) THEN Tail(p)[i] ELSE w[i - Len(Tail(p))]
        BY <1>3, ConcatProperties
      <3> HIDE DEF a
      <3> QED BY <3>1, <1>3
    <2>2. /\ c \in Seq(Event) /\ Len(c) = Len(p) + Len(w) - 1
          /\ \A i \in 1 .. Len(p) + Len(w) - 1 : c[i] = (p \o w)[i + 1]
      BY <1>1, <1>4, HeadTailProperties
    <2> HIDE DEF a, c
    <2>3. ASSUME NEW i \in 1 .. (Len(p) - 1) + Len(w) PROVE a[i] = c[i]
      <3>1. /\ i \in 1 .. Len(p) + Len(w) - 1 /\ i + 1 \in 1 .. Len(p) + Len(w)
            /\ (i <= Len(p) - 1 <=> i + 1 <= Len(p)) /\ (i <= Len(p) - 1 => i \in 1 .. Len(p) - 1)
            /\ i - (Len(p) - 1) = (i + 1) - Len(p)
        BY <1>1
      <3>2. c[i] = (p \o w)[i + 1]
        BY <3>1, <2>2
      <3>3. (p \o w)[i + 1] = IF i + 1 <= Len(p) THEN p[i + 1] ELSE w[(i + 1) - Len(p)]
        BY <3>1, <1>1
      <3>4. a[i] = IF i <= Len(p) - 1 THEN Tail(p)[i] ELSE w[i - (Len(p) - 1)]
        BY <2>1
      <3>5. i <= Len(p) - 1 => Tail(p)[i] = p[i + 1]
        BY <3>1, <1>3
      <3> QED BY <3>1, <3>2, <3>3, <3>4, <3>5
    <2>4. Len(a) = Len(c) /\ \A i \in 1 .. Len(a) : a[i] = c[i]
      <3>1. Len(p) + Len(w) - 1 = (Len(p) - 1) + Len(w)
        BY <1>1
      <3> QED BY <3>1, <2>1, <2>2, <2>3
    <2>5. a = c
      BY <2>1, <2>2, <2>4, SeqEqual
    <2> QED BY <2>5 DEF a, c
  <1> QED BY <1>3, <1>4, <1>5, <1>6

LEMMA LastOfBoth ==
  ASSUME NEW p \in Seq(Event), NEW w \in Seq(Event), NEW e \in Event
  PROVE  p \o Append(w, e) = Append(p \o w, e)
  <1>1. <<e>> \in Seq(Event) /\ p \o w \in Seq(Event)
    BY ConcatProperties
  <1>2. Append(w, e) = w \o <<e>> /\ Append(p \o w, e) = (p \o w) \o <<e>>
    BY <1>1, AppendIsConcat
  <1> QED BY <1>1, <1>2, ConcatAssociative

-----------------------------------------------------------------------------
(* The invariant                                                           *)

\* The frames on their way, read or not, and the one that rewinds the turn.
Pending == events \o wire
Rewinds == Pending # <<>> /\ Pending[1].type = "started"

Mode == IF reader = "main" /\ ~ Rewinds THEN "live" ELSE "over"

\* Bound: the lines behind the last turn, but for the notice.
Behind == systemLines + resumes + (IF reader = "none" THEN 1 ELSE 0)

TranscriptTypes ==
    /\ events \in Seq(Event) /\ wire \in Seq(Event) /\ half \in {0, 1}
    /\ server \in ServerRec /\ reader \in {"none", "main", "drain"}
    /\ frames \in Nat /\ made \in Nat
    /\ systemLines \in 0 .. MaxSystemLines /\ resumes \in 0 .. MaxResumes

TurnInSight == reader # "none" => LastTurnIndex(screen.transcript) > 0

StreamOK ==
    /\ \A i \in 1 .. Len(Pending) : Pending[i].type = "started" => i = 1 /\ reader = "main"
    /\ reader = "main" => Orderly(OpenIn(direct), Pending)
    /\ reader = "main" /\ ~ server.over => Covered(OpenIn(direct), Pending, server)
    /\ reader = "none" => Pending = <<>> /\ events = <<>> /\ wire = <<>> /\ server.closed

UsageOK == usageRead = UsageIn(events) + (IF Resets(events) THEN 0 ELSE screen.usage)

TranscriptInv ==
    /\ TranscriptTypes /\ TurnInSight /\ StreamOK /\ UsageOK
    /\ Pair(screen, direct, held, Mode, Behind)

Kept == Keeps(screen, Mode, screen', Mode')

LEMMA ModeTypes == Mode \in Modes /\ Mode' \in Modes /\ (Mode = "live" <=> reader = "main" /\ ~ Rewinds)
  <1>1. "live" \in Modes /\ "over" \in Modes /\ "over" # "live"
    BY ModeFacts
  <1> QED BY <1>1 DEF Mode

LEMMA BehindFacts ==
  ASSUME TranscriptTypes
  PROVE  /\ Behind \in Nat
         /\ reader # "none" => Behind = systemLines + resumes
         /\ reader = "none" => Behind = systemLines + resumes + 1
         /\ reader # "none" => Behind + 1 < TrimTarget
         /\ systemLines < MaxSystemLines =>
                Behind + (IF reader = "none" THEN 0 ELSE 1) + 1 < TrimTarget
  <1>1. /\ systemLines \in Nat /\ resumes \in Nat /\ MaxSystemLines \in Nat /\ MaxResumes \in Nat /\ TrimTarget \in Nat
        /\ systemLines <= MaxSystemLines /\ resumes <= MaxResumes
        /\ MaxSystemLines + MaxResumes + 2 <= TrimTarget
    <2>1. MaxSystemLines \in Nat /\ MaxResumes \in Nat /\ TrimTarget \in Nat /\ MaxSystemLines + MaxResumes + 2 <= TrimTarget
      BY TranscriptAssumption
    <2> QED BY <2>1 DEF TranscriptTypes
  <1>2. Behind = systemLines + resumes + (IF reader = "none" THEN 1 ELSE 0)
    BY DEF Behind
  <1> QED BY <1>1, <1>2

LEMMA PendingFacts ==
  ASSUME TranscriptTypes
  PROVE  Pending \in Seq(Event) /\ (events = <<>> => Pending = wire) /\ (wire = <<>> => Pending = events)
  BY ConcatProperties, ConcatEmptySeq DEF TranscriptTypes, Pending

LEMMA TranscriptStarts == TranscriptInit => TranscriptInv
  <1> SUFFICES ASSUME TranscriptInit PROVE TranscriptInv
    OBVIOUS
  <1> DEFINE tr == [i \in 1 .. Restored |-> SystemEntry(i, 0)]
  <1>0. /\ Restored \in Nat /\ Restored <= TranscriptLimit /\ MaxSystemLines \in Nat /\ MaxResumes \in Nat
    BY TranscriptAssumption
  <1>1. tr \in Entries /\ Len(tr) = Restored /\ \A i \in 1 .. Restored : tr[i].kind = "system" /\ tr[i].approval = 0
    <2>1. \A i \in 1 .. Restored : SystemEntry(i, 0) \in TurnRec \cup LineRec
      BY DEF SystemEntry, LineRec
    <2>2. tr \in [1 .. Restored -> TurnRec \cup LineRec]
      BY <2>1
    <2>3. tr \in Seq(TurnRec \cup LineRec)
      BY <2>2, <1>0, SeqDef
    <2>4. Len(tr) = Restored
      BY <2>3, <1>0
    <2>5. \A i \in 1 .. Restored : tr[i] = SystemEntry(i, 0)
      OBVIOUS
    <2>6. \A i \in 1 .. Restored : SystemEntry(i, 0).kind = "system" /\ SystemEntry(i, 0).approval = 0
      BY DEF SystemEntry
    <2> HIDE DEF tr
    <2> QED BY <2>3, <2>4, <2>5, <2>6 DEF Entries
  <1> HIDE DEF tr
  <1>2. LastTurnIndex(tr) = 0
    <2>1. {i \in DOMAIN tr : tr[i].kind = "turn"} = {}
      <3>1. DOMAIN tr = 1 .. Restored
        BY <1>1 DEF Entries
      <3> QED BY <3>1, <1>1
    <2> QED BY <2>1 DEF LastTurnIndex
  <1>3. screen \in ScreenRec /\ screen.transcript = tr /\ screen.approval = 0 /\ screen.usage = 0
    <2>1. screen = [transcript |-> tr, epoch |-> 0, usage |-> 0, approval |-> 0]
      BY DEF TranscriptInit, tr
    <2> QED BY <2>1, <1>1 DEF ScreenRec
  <1>4. Shape(screen, "over", 1)
    <2>1. TurnsOK(screen, "over")
      <3>1. "over" # "live"
        OBVIOUS
      <3> QED BY <3>1, <1>1, <1>3 DEF TurnsOK
    <2>2. NoticesOK(screen)
      BY <1>1, <1>3 DEF NoticesOK
    <2>3. Trailing(screen, 1)
      <3>1. ~ (0 > 0)
        OBVIOUS
      <3> QED BY <3>1, <1>2, <1>3 DEF Trailing
    <2> QED BY <2>1, <2>2, <2>3, <1>0, <1>1, <1>3 DEF Shape
  <1>5. /\ events = <<>> /\ wire = <<>> /\ half = 0 /\ server = Silent /\ reader = "none" /\ held = NothingHeld
        /\ direct = screen /\ usageRead = 0 /\ frames = 0 /\ made = Restored + 1 /\ resumes = 0 /\ systemLines = 0
    BY DEF TranscriptInit
  <1>6. TranscriptTypes
    <2>1. <<>> \in Seq(Event) /\ Restored + 1 \in Nat
      BY <1>0
    <2>2. Silent \in ServerRec
      BY DEF Silent, ServerRec
    <2> QED BY <2>1, <2>2, <1>0, <1>5 DEF TranscriptTypes
  <1>7. Mode = "over" /\ Behind = 1
    BY <1>5 DEF Mode, Behind
  <1>8. Pair(screen, direct, held, Mode, Behind)
    BY <1>3, <1>4, <1>5, <1>7, PairOfOne
  <1>9. TurnInSight /\ UsageOK
    BY <1>3, <1>5, NoUsage DEF TurnInSight, UsageOK
  <1>10. StreamOK
    <2>1. Pending = <<>>
      BY <1>5, <1>6, PendingFacts
    <2>2. server.closed
      BY <1>5 DEF Silent
    <2>3. reader # "main" /\ Len(Pending) = 0
      BY <2>1, <1>5
    <2> QED BY <2>1, <2>2, <2>3, <1>5 DEF StreamOK
  <1> QED BY <1>6, <1>8, <1>9, <1>10 DEF TranscriptInv

\* What every action starts from.
LEMMA Now ==
  ASSUME TranscriptInv
  PROVE  /\ Shape(screen, Mode, Behind) /\ Shape(direct, Mode, Behind) /\ HeldOK(held)
         /\ direct.usage = screen.usage /\ direct.approval = screen.approval
         /\ Mode # "live" => direct = screen /\ held = NothingHeld /\ screen.approval = 0
         /\ screen.approval # 0 => Mode = "live"
         /\ screen.usage \in Nat /\ screen.approval \in Nat
         /\ Keeps(screen, Mode, screen, Mode)
  <1>1. Mode \in Modes /\ Behind \in Nat /\ Pair(screen, direct, held, Mode, Behind)
    BY ModeTypes, BehindFacts DEF TranscriptInv
  <1>2. Shape(screen, Mode, Behind)
    BY <1>1 DEF Pair
  <1>3. screen.usage \in Nat /\ screen.approval \in Nat /\ Keeps(screen, Mode, screen, Mode)
    BY <1>1, <1>2, SameStays, ShapeFacts
  <1> QED BY <1>1, <1>3, PairFacts

-----------------------------------------------------------------------------
(* The server                                                              *)

\* A frame is known: what it is about is open, and what it opens is announced.
LEMMA FrameSent ==
  ASSUME TranscriptInv, NEW e \in Event, NEW next \in ServerRec, Sends(e, next), e.type # "started",
         e.type \in {"done", "await"} => next.over,
         ~ server.over \/ e.type = "usage",
         e.type = "await" => ServerOpen(server) = {},
         e.type = "ask" => \A n : <<"notice", n>> \notin ServerOpen(server),
         e.type = "draft" => \A n : <<"draft", n>> \in ServerOpen(server) => n = e.id,
         ~ next.over => ~ server.over /\ (ServerOpen(server) \ Closes(e)) \cup Opens(e) \subseteq ServerOpen(next)
  PROVE  TranscriptInv' /\ Kept
  <1> DEFINE q == Pending
  <1>1. /\ events' = events /\ wire' = Append(wire, e) /\ server' = next /\ frames' = frames + 1
        /\ made' = (IF e.type = "ask" THEN made + 1 ELSE made)
        /\ half' = half /\ reader' = reader /\ screen' = screen /\ held' = held /\ direct' = direct
        /\ usageRead' = usageRead /\ resumes' = resumes /\ systemLines' = systemLines /\ ~ server.closed
    BY DEF Sends
  <1>2. /\ TranscriptTypes /\ TurnInSight /\ StreamOK /\ UsageOK
        /\ Pair(screen, direct, held, Mode, Behind)
    BY DEF TranscriptInv
  <1>3. reader # "none"
    BY <1>1, <1>2 DEF StreamOK
  <1>4. q \in Seq(Event) /\ Len(q) \in Nat /\ q' = Append(q, e) /\ q' \in Seq(Event)
    <2>1. q \in Seq(Event) /\ events \in Seq(Event) /\ wire \in Seq(Event)
      BY <1>2, PendingFacts DEF TranscriptTypes
    <2>2. events \o Append(wire, e) = Append(events \o wire, e)
      BY <2>1, LastOfBoth
    <2>3. q' = Append(q, e)
      BY <2>2, <1>1 DEF Pending
    <2> QED BY <2>1, <2>3
  <1>5. TranscriptTypes'
    <2>1. wire' \in Seq(Event) /\ frames' \in Nat /\ made' \in Nat
      BY <1>1, <1>2 DEF TranscriptTypes
    <2> QED BY <2>1, <1>1, <1>2 DEF TranscriptTypes
  <1>6. (Rewinds <=> Rewinds') /\ Len(q') = Len(q) + 1 /\ q'[Len(q) + 1] = e /\ \A i \in 1 .. Len(q) : q'[i] = q[i]
    <2>1. Len(q') = Len(q) + 1 /\ q'[Len(q) + 1] = e /\ \A i \in 1 .. Len(q) : q'[i] = q[i]
      BY <1>4
    <2>2. CASE q = <<>>
      <3>1. Len(q) = 0
        BY <2>2
      <3>2. q'[1] = e
        BY <3>1, <2>1
      <3> QED BY <3>2, <2>1, <2>2 DEF Rewinds
    <2>3. CASE q # <<>>
      <3>1. 1 \in 1 .. Len(q) /\ q' # <<>>
        <4>1. Len(q) # 0
          BY <2>3, <1>4, EmptySeq
        <4>2. Len(q') # 0
          BY <2>1, <1>4
        <4> QED BY <4>1, <4>2, <1>4, EmptySeq
      <3>2. q'[1] = q[1]
        BY <3>1, <2>1
      <3> QED BY <3>1, <3>2, <2>1, <2>3 DEF Rewinds
    <2> QED BY <2>1, <2>2, <2>3
  <1>7. Mode' = Mode /\ Behind' = Behind
    BY <1>1, <1>6 DEF Mode, Behind
  <1>8. TurnInSight' /\ UsageOK'
    BY <1>1, <1>2 DEF TurnInSight, UsageOK
  <1>9. StreamOK'
    <2>1. \A i \in 1 .. Len(q') : q'[i].type = "started" => i = 1 /\ reader' = "main"
      <3> TAKE i \in 1 .. Len(q')
      <3>1. CASE i = Len(q) + 1
        BY <3>1, <1>6
      <3>2. CASE i # Len(q) + 1
        <4>1. i \in 1 .. Len(q)
          BY <3>2, <1>4, <1>6
        <4> QED BY <4>1, <1>1, <1>2, <1>6 DEF StreamOK
      <3> QED BY <3>1, <3>2
    <2>2. ASSUME reader = "main"
          PROVE  Orderly(OpenIn(direct), q') /\ (~ next.over => Covered(OpenIn(direct), q', next))
      <3> DEFINE open == OpenIn(direct)
      <3>1. Orderly(open, q) /\ (~ server.over => Covered(open, q, server))
        BY <2>2, <1>2 DEF StreamOK
      <3> HIDE DEF open
      <3>2. ~ server.over => \A x : IsOpen(open, q, Len(q) + 1, x) => x \in ServerOpen(server)
        BY <3>1 DEF Covered
      <3>3. /\ e.type = "await" => \A x : ~ IsOpen(open, q, Len(q) + 1, x)
            /\ e.type = "ask" => \A n : ~ IsOpen(open, q, Len(q) + 1, <<"notice", n>>)
            /\ e.type = "draft" => \A n : IsOpen(open, q, Len(q) + 1, <<"draft", n>>) => n = e.id
        BY <3>2
      <3> HIDE DEF q
      <3>4. /\ Orderly(open, Append(q, e))
            /\ \A known, then : Covered(open, q, known) /\ (ServerOpen(known) \ Closes(e)) \cup Opens(e) \subseteq ServerOpen(then)
                   => Covered(open, Append(q, e), then)
        BY <3>1, <3>3, <1>4, OneMore
      <3>5. ~ next.over => Covered(open, Append(q, e), next)
        BY <3>1, <3>4
      <3> QED BY <3>4, <3>5, <1>4 DEF open
    <2> QED BY <2>1, <2>2, <1>1, <1>3 DEF StreamOK
  <1>10. Pair(screen, direct, held, Mode, Behind)'
    BY <1>1, <1>2, <1>7
  <1>11. Kept
    BY <1>1, <1>7, Now DEF Kept
  <1> QED BY <1>5, <1>8, <1>9, <1>10, <1>11 DEF TranscriptInv

LEMMA ServerFacts ==
  ASSUME NEW known \in ServerRec
  PROVE  /\ known.draft \in Nat /\ known.tool \in Nat /\ known.asked \in BOOLEAN
         /\ known.over \in BOOLEAN /\ known.closed \in BOOLEAN
         /\ \A d \in Nat : [known EXCEPT !.draft = d] \in ServerRec
         /\ \A t \in Nat, a \in BOOLEAN : [known EXCEPT !.tool = t, !.asked = a] \in ServerRec
         /\ \A n : <<"draft", n>> \in ServerOpen(known) => n = known.draft /\ known.draft # 0
         /\ \A n : <<"notice", n>> \in ServerOpen(known) => n = known.tool /\ known.tool # 0 /\ known.asked
  BY DEF ServerRec, ServerOpen

LEMMA StepText ==
  ASSUME TranscriptInv, SendText
  PROVE  TranscriptInv' /\ Kept
  <1>1. server \in ServerRec /\ frames \in Nat /\ ~ server.over
    BY DEF TranscriptInv, TranscriptTypes, SendText
  <1>f. frames + 1 \in Nat /\ frames + 1 # 0 /\ <<frames>> \in Text
    BY <1>1 DEF Text
  <1>s. server.draft \in Nat /\ server.tool \in Nat
    BY <1>1, ServerFacts
  <1>2. CASE Sends([type |-> "message", text |-> <<frames>>], server)
    <2> DEFINE e == [type |-> "message", text |-> <<frames>>]
    <2>1. e \in Event /\ e.type = "message"
      BY <1>f DEF Event
    <2> HIDE DEF e
    <2>2. Opens(e) = {} /\ Closes(e) = {}
      BY <2>1 DEF Opens, Closes
    <2>3. Sends(e, server)
      BY <1>2 DEF e
    <2> QED BY <2>1, <2>2, <2>3, <1>1, FrameSent
  <1>3. ASSUME NEW d, d = (IF server.draft = 0 THEN frames + 1 ELSE server.draft),
               Sends([type |-> "draft", id |-> d, text |-> <<frames>>], [server EXCEPT !.draft = d])
        PROVE  TranscriptInv' /\ Kept
    <2> DEFINE e == [type |-> "draft", id |-> d, text |-> <<frames>>]
               next == [server EXCEPT !.draft = d]
    <2>1. d \in Nat /\ d # 0
      BY <1>3, <1>f, <1>s
    <2>2. e \in Event /\ e.type = "draft" /\ e.id = d
      BY <2>1, <1>f DEF Event, Text
    <2>3. next \in ServerRec /\ next.over = server.over /\ next.draft = d /\ next.tool = server.tool /\ next.asked = server.asked
      BY <2>1, <1>1 DEF ServerRec
    <2>4. Sends(e, next)
      BY <1>3
    <2> HIDE DEF e, next
    <2>5. Opens(e) = {<<"draft", d>>} /\ Closes(e) = {}
      BY <2>2 DEF Opens, Closes
    <2>6. \A n : <<"draft", n>> \in ServerOpen(server) => n = d
      BY <1>1, <1>3, ServerFacts
    <2>7. (ServerOpen(server) \ Closes(e)) \cup Opens(e) \subseteq ServerOpen(next)
      BY <2>1, <2>3, <2>5, <1>3 DEF ServerOpen
    <2> QED BY <2>2, <2>3, <2>4, <2>6, <2>7, <1>1, FrameSent
  <1>4. ASSUME NEW type \in {"commit", "retract"}, server.draft # 0,
               Sends([type |-> type, id |-> server.draft], [server EXCEPT !.draft = 0])
        PROVE  TranscriptInv' /\ Kept
    <2> DEFINE e == [type |-> type, id |-> server.draft]
               next == [server EXCEPT !.draft = 0]
    <2>2. e \in Event /\ e.type = type /\ e.id = server.draft
      BY <1>s DEF Event
    <2>3. next \in ServerRec /\ next.over = server.over /\ next.draft = 0 /\ next.tool = server.tool /\ next.asked = server.asked
      BY <1>1 DEF ServerRec
    <2>4. Sends(e, next)
      BY <1>4
    <2> HIDE DEF e, next
    <2>5. Opens(e) = {} /\ Closes(e) = {<<"draft", server.draft>>}
      BY <2>2 DEF Opens, Closes
    <2>7. (ServerOpen(server) \ Closes(e)) \cup Opens(e) \subseteq ServerOpen(next)
      BY <2>3, <2>5 DEF ServerOpen
    <2> QED BY <2>2, <2>3, <2>4, <2>7, <1>1, FrameSent
  <1> QED BY <1>2, <1>3, <1>4 DEF SendText

LEMMA StepActivity ==
  ASSUME TranscriptInv, SendActivity
  PROVE  TranscriptInv' /\ Kept
  <1>1. server \in ServerRec /\ frames \in Nat /\ made \in Nat /\ ~ server.over
    BY DEF TranscriptInv, TranscriptTypes, SendActivity
  <1>f. frames + 1 \in Nat /\ frames + 1 # 0
    BY <1>1
  <1>s. server.draft \in Nat /\ server.tool \in Nat
    BY <1>1, ServerFacts
  <1>2. CASE Sends([type |-> "thinking"], server)
    <2> DEFINE e == [type |-> "thinking"]
    <2>1. e \in Event /\ e.type = "thinking"
      BY DEF Event
    <2> HIDE DEF e
    <2>2. Opens(e) = {} /\ Closes(e) = {}
      BY <2>1 DEF Opens, Closes
    <2>3. Sends(e, server)
      BY <1>2 DEF e
    <2> QED BY <2>1, <2>2, <2>3, <1>1, FrameSent
  <1>3. ASSUME NEW state \in {"running", "retry", "done"}, Sends([type |-> "skill", status |-> state], server)
        PROVE  TranscriptInv' /\ Kept
    <2> DEFINE e == [type |-> "skill", status |-> state]
    <2>1. e \in Event /\ e.type = "skill"
      BY DEF Event
    <2> HIDE DEF e
    <2>2. Opens(e) = {} /\ Closes(e) = {}
      BY <2>1 DEF Opens, Closes
    <2>3. Sends(e, server)
      BY <1>3 DEF e
    <2> QED BY <2>1, <2>2, <2>3, <1>1, FrameSent
  <1>4. ASSUME server.tool = 0,
               Sends([type |-> "tool", id |-> frames + 1], [server EXCEPT !.tool = frames + 1, !.asked = FALSE])
        PROVE  TranscriptInv' /\ Kept
    <2> DEFINE id == frames + 1
               e == [type |-> "tool", id |-> id]
               next == [server EXCEPT !.tool = id, !.asked = FALSE]
    <2>1. id \in Nat /\ id # 0 /\ Sends(e, next)
      BY <1>4, <1>f
    <2> HIDE DEF id
    <2>2. e \in Event /\ e.type = "tool" /\ e.id = id
      BY <2>1 DEF Event
    <2>3. next \in ServerRec /\ next.over = server.over /\ next.draft = server.draft /\ next.tool = id
      BY <2>1, <1>1 DEF ServerRec
    <2> HIDE DEF e, next
    <2>5. Opens(e) = {<<"tool", id>>} /\ Closes(e) = {}
      BY <2>2 DEF Opens, Closes
    <2>7. (ServerOpen(server) \ Closes(e)) \cup Opens(e) \subseteq ServerOpen(next)
      BY <2>1, <2>3, <2>5, <1>4 DEF ServerOpen
    <2> QED BY <2>1, <2>2, <2>3, <2>7, <1>1, FrameSent
  <1>5. ASSUME server.tool # 0, ~ server.asked,
               Sends([type |-> "ask", id |-> server.tool, made |-> made], [server EXCEPT !.asked = TRUE])
        PROVE  TranscriptInv' /\ Kept
    <2> DEFINE e == [type |-> "ask", id |-> server.tool, made |-> made]
               next == [server EXCEPT !.asked = TRUE]
    <2>2. e \in Event /\ e.type = "ask" /\ e.id = server.tool
      BY <1>1, <1>5, <1>s DEF Event
    <2>3. next \in ServerRec /\ next.over = server.over /\ next.draft = server.draft /\ next.tool = server.tool /\ next.asked
      BY <1>1 DEF ServerRec
    <2>4. Sends(e, next)
      BY <1>5
    <2> HIDE DEF e, next
    <2>5. Opens(e) = {<<"notice", server.tool>>} /\ Closes(e) = {}
      BY <2>2 DEF Opens, Closes
    <2>6. \A n : <<"notice", n>> \notin ServerOpen(server)
      BY <1>1, <1>5, ServerFacts
    <2>7. (ServerOpen(server) \ Closes(e)) \cup Opens(e) \subseteq ServerOpen(next)
      BY <2>3, <2>5, <1>5 DEF ServerOpen
    <2> QED BY <2>2, <2>3, <2>4, <2>6, <2>7, <1>1, FrameSent
  <1>6. ASSUME server.tool # 0, Sends([type |-> "result", id |-> server.tool], [server EXCEPT !.tool = 0])
        PROVE  TranscriptInv' /\ Kept
    <2> DEFINE e == [type |-> "result", id |-> server.tool]
               next == [server EXCEPT !.tool = 0]
    <2>2. e \in Event /\ e.type = "result" /\ e.id = server.tool
      BY <1>s DEF Event
    <2>3. next \in ServerRec /\ next.over = server.over /\ next.draft = server.draft /\ next.tool = 0
      BY <1>1 DEF ServerRec
    <2>4. Sends(e, next)
      BY <1>6
    <2> HIDE DEF e, next
    <2>5. Opens(e) = {} /\ Closes(e) = {<<"tool", server.tool>>, <<"notice", server.tool>>}
      BY <2>2 DEF Opens, Closes
    <2>7. (ServerOpen(server) \ Closes(e)) \cup Opens(e) \subseteq ServerOpen(next)
      BY <2>3, <2>5 DEF ServerOpen
    <2> QED BY <2>2, <2>3, <2>4, <2>7, <1>1, FrameSent
  <1> QED BY <1>2, <1>3, <1>4, <1>5, <1>6 DEF SendActivity

LEMMA StepUsage ==
  ASSUME TranscriptInv, SendUsage
  PROVE  TranscriptInv' /\ Kept
  <1> DEFINE e == [type |-> "usage"]
  <1>1. server \in ServerRec
    BY DEF TranscriptInv, TranscriptTypes
  <1>2. e \in Event /\ e.type = "usage" /\ Sends(e, server)
    BY DEF Event, SendUsage
  <1> HIDE DEF e
  <1>3. Opens(e) = {} /\ Closes(e) = {}
    BY <1>2 DEF Opens, Closes
  <1> QED BY <1>1, <1>2, <1>3, FrameSent

LEMMA StepDone ==
  ASSUME TranscriptInv, SendDone
  PROVE  TranscriptInv' /\ Kept
  <1> DEFINE next == [server EXCEPT !.over = TRUE]
  <1>1. server \in ServerRec /\ ~ server.over
    BY DEF TranscriptInv, TranscriptTypes, SendDone
  <1>2. next \in ServerRec /\ next.over
    BY <1>1 DEF ServerRec
  <1> HIDE DEF next
  <1>3. ASSUME NEW status \in {"completed", "failed"}, Sends([type |-> "done", status |-> status], next)
        PROVE  TranscriptInv' /\ Kept
    <2> DEFINE e == [type |-> "done", status |-> status]
    <2>1. e \in Event /\ e.type = "done" /\ Sends(e, next)
      BY <1>3 DEF Event
    <2> HIDE DEF e
    <2> QED BY <2>1, <1>1, <1>2, FrameSent
  <1>4. ASSUME server.draft = 0, server.tool = 0, Sends([type |-> "await"], next)
        PROVE  TranscriptInv' /\ Kept
    <2> DEFINE e == [type |-> "await"]
    <2>1. e \in Event /\ e.type = "await" /\ Sends(e, next)
      BY <1>4 DEF Event
    <2> HIDE DEF e
    <2>2. ServerOpen(server) = {}
      BY <1>4 DEF ServerOpen
    <2> QED BY <2>1, <2>2, <1>1, <1>2, FrameSent
  <1> QED BY <1>3, <1>4 DEF SendDone, next

LEMMA StepCloses ==
  ASSUME TranscriptInv, ServerCloses
  PROVE  TranscriptInv' /\ Kept
  <1>1. /\ server' = [server EXCEPT !.closed = TRUE, !.over = TRUE]
        /\ events' = events /\ wire' = wire /\ frames' = frames /\ made' = made
        /\ half' = half /\ reader' = reader /\ screen' = screen /\ held' = held /\ direct' = direct
        /\ usageRead' = usageRead /\ resumes' = resumes /\ systemLines' = systemLines
    BY DEF ServerCloses
  <1>2. /\ TranscriptTypes /\ TurnInSight /\ StreamOK /\ UsageOK
        /\ Pair(screen, direct, held, Mode, Behind)
    BY DEF TranscriptInv
  <1>3. server' \in ServerRec /\ server'.closed /\ server'.over
    BY <1>1, <1>2 DEF TranscriptTypes, ServerRec
  <1>4. TranscriptTypes'
    BY <1>1, <1>2, <1>3 DEF TranscriptTypes
  <1>5. Pending' = Pending /\ Mode' = Mode /\ Behind' = Behind
    BY <1>1 DEF Pending, Mode, Rewinds, Behind
  <1>6. StreamOK'
    BY <1>1, <1>2, <1>3, <1>5 DEF StreamOK
  <1>7. TurnInSight' /\ UsageOK' /\ Pair(screen, direct, held, Mode, Behind)'
    BY <1>1, <1>2, <1>5 DEF TurnInSight, UsageOK
  <1>8. Kept
    BY <1>1, <1>5, Now DEF Kept
  <1> QED BY <1>4, <1>6, <1>7, <1>8 DEF TranscriptInv

-----------------------------------------------------------------------------
(* The reader                                                              *)

LEMMA StepParse ==
  ASSUME TranscriptInv, NEW n \in Nat, Parse(n)
  PROVE  TranscriptInv' /\ Kept
  <1> DEFINE whole == (half + n) \div 2
             read == SubSeq(wire, 1, whole)
             rest == SubSeq(wire, whole + 1, Len(wire))
  <1>1. /\ events = <<>> /\ half + n <= 2 * Len(wire) /\ events' = read /\ wire' = rest /\ half' = (half + n) % 2
        /\ usageRead' = (IF Resets(read) THEN UsageIn(read) ELSE usageRead + UsageIn(read))
        /\ server' = server /\ reader' = reader /\ screen' = screen /\ held' = held /\ direct' = direct
        /\ frames' = frames /\ made' = made /\ resumes' = resumes /\ systemLines' = systemLines
    BY DEF Parse
  <1>2. /\ TranscriptTypes /\ TurnInSight /\ StreamOK /\ UsageOK
        /\ Pair(screen, direct, held, Mode, Behind)
    BY DEF TranscriptInv
  <1>3. wire \in Seq(Event) /\ Len(wire) \in Nat /\ half \in Nat
    BY <1>2 DEF TranscriptTypes
  <1>4. whole \in Nat /\ whole <= Len(wire) /\ half' \in {0, 1}
    <2> DEFINE total == half + n
    <2>1. total \in Nat /\ total <= 2 * Len(wire) /\ half' = total % 2
      BY <1>1, <1>3
    <2> HIDE DEF total
    <2>2. total \div 2 \in Nat /\ 2 * (total \div 2) <= total /\ total % 2 \in 0 .. 1
      BY <2>1
    <2>3. total \div 2 <= Len(wire)
      BY <2>1, <2>2, <1>3
    <2>4. total % 2 \in {0, 1}
      BY <2>2
    <2> QED BY <2>1, <2>2, <2>3, <2>4 DEF total
  <1> HIDE DEF whole
  <1>5. read \in Seq(Event) /\ rest \in Seq(Event) /\ read \o rest = wire
    <2>1. \A i \in 1 .. Len(wire) : wire[i] \in Event
      BY <1>3
    <2>2. 1 \in Int /\ whole \in Int /\ \A i \in 1 .. whole : wire[i] \in Event
      BY <2>1, <1>3, <1>4
    <2>3. read \in Seq(Event)
      BY <2>2, SubSeqProperties
    <2>4. whole + 1 \in Int /\ Len(wire) \in Int /\ \A i \in whole + 1 .. Len(wire) : wire[i] \in Event
      BY <2>1, <1>3, <1>4
    <2>5. rest \in Seq(Event)
      BY <2>4, SubSeqProperties
    <2>6. read \o rest = SubSeq(wire, 1, Len(wire))
      <3>1. 1 \in 1 .. Len(wire) + 1 /\ whole \in 1 - 1 .. Len(wire) /\ Len(wire) \in whole .. Len(wire)
        BY <1>3, <1>4
      <3> QED BY <3>1, <1>3, ConcatAdjacentSubSeq
    <2>7. SubSeq(wire, 1, Len(wire)) = wire
      BY <1>3, SubSeqFull
    <2> QED BY <2>3, <2>5, <2>6, <2>7
  <1> HIDE DEF read, rest
  <1>6. Pending' = Pending
    <2>1. Pending = wire
      BY <1>1, <1>2, PendingFacts
    <2>2. Pending' = read \o rest
      BY <1>1 DEF Pending
    <2> QED BY <2>1, <2>2, <1>5
  <1>7. Mode' = Mode /\ Behind' = Behind
    BY <1>1, <1>6 DEF Mode, Rewinds, Behind
  <1>8. TranscriptTypes'
    BY <1>1, <1>2, <1>4, <1>5 DEF TranscriptTypes
  <1>9. UsageOK'
    <2>1. usageRead = screen.usage /\ screen.usage \in Nat
      <3>1. usageRead = 0 + screen.usage /\ screen.usage \in Nat
        BY <1>1, <1>2, NoUsage, Now DEF UsageOK
      <3> QED BY <3>1
    <2>2. UsageIn(read) \in Nat
      <3>1. CASE read = <<>>
        BY <3>1, NoUsage
      <3>2. CASE read # <<>>
        BY <3>2, <1>5, UsageOfTail
      <3> QED BY <3>1, <3>2
    <2>3. usageRead' = UsageIn(read) + (IF Resets(read) THEN 0 ELSE screen.usage)
      BY <2>1, <2>2, <1>1
    <2> QED BY <2>3, <1>1 DEF UsageOK
  <1>10. StreamOK'
    <2>1. reader # "none" \/ (events' = <<>> /\ wire' = <<>>)
      <3> SUFFICES ASSUME reader = "none" PROVE events' = <<>> /\ wire' = <<>>
        OBVIOUS
      <3>1. wire = <<>>
        BY <1>2 DEF StreamOK
      <3> QED BY <3>1, <1>1, <1>5, ConcatEqualIffEmpty, ConcatSimplifications
    <2> QED BY <2>1, <1>1, <1>2, <1>6 DEF StreamOK
  <1>11. TurnInSight' /\ Pair(screen, direct, held, Mode, Behind)'
    BY <1>1, <1>2, <1>7 DEF TurnInSight
  <1>12. Kept
    BY <1>1, <1>7, Now DEF Kept
  <1> QED BY <1>8, <1>9, <1>10, <1>11, <1>12 DEF TranscriptInv

LEMMA StepRead ==
  ASSUME TranscriptInv, ReadStep
  PROVE  TranscriptInv' /\ Kept
  <1>1. PICK n \in 1 .. 2 * Len(wire) : Read(n) \/ DrainRead(n)
    BY DEF ReadStep
  <1>2. Len(wire) \in Nat
    BY DEF TranscriptInv, TranscriptTypes
  <1>3. n \in Nat
    BY <1>2
  <1>4. Parse(n)
    BY <1>1 DEF Read, DrainRead
  <1> QED BY <1>3, <1>4, StepParse

LEMMA CountMoves ==
  ASSUME NEW a \in Nat, NEW b \in Nat
  PROVE  (a + 1) + b = a + (b + 1) /\ a + 0 = a
  OBVIOUS

LEMMA StepDeliver ==
  ASSUME TranscriptInv, Deliver
  PROVE  TranscriptInv' /\ Kept
  <1> DEFINE e == Head(events)
             x == [screen |-> screen, held |-> held]
             after == OnEvent(x, e)
             q == Pending
  <1>1. /\ events # <<>> /\ events' = Tail(events) /\ wire' = wire
        /\ half' = half /\ server' = server /\ usageRead' = usageRead /\ frames' = frames /\ made' = made
        /\ resumes' = resumes /\ systemLines' = systemLines
        /\ reader' = (IF EndsTurn(e) THEN "drain" ELSE reader)
        /\ Consumed(e) => screen' = after.screen /\ held' = after.held /\ direct' = OnEventDirectly(direct, e)
        /\ ~ Consumed(e) => screen' = screen /\ held' = held /\ direct' = direct
    BY DEF Deliver
  <1>2. /\ TranscriptTypes /\ TurnInSight /\ StreamOK /\ UsageOK
        /\ Pair(screen, direct, held, Mode, Behind)
    BY DEF TranscriptInv
  <1>3. /\ q # <<>> /\ q[1] = e /\ q' = Tail(q) /\ e \in Event /\ Tail(events) \in Seq(Event) /\ q \in Seq(Event)
        /\ events[1] = e
    <2>1. events \in Seq(Event) /\ wire \in Seq(Event)
      BY <1>2 DEF TranscriptTypes
    <2>2. q' = Tail(events) \o wire
      BY <1>1 DEF Pending
    <2> QED BY <2>1, <2>2, <1>1, <1>2, FirstOfBoth, PendingFacts DEF Pending
  <1>4. /\ Len(q) \in Nat /\ Len(q) # 0 /\ 1 \in 1 .. Len(q) /\ Len(q') = Len(q) - 1
        /\ \A i \in 1 .. Len(q) - 1 : q'[i] = q[i + 1]
    <2>1. /\ Len(q) \in Nat /\ Len(q) # 0 /\ Len(Tail(q)) = Len(q) - 1
          /\ \A i \in 1 .. Len(q) - 1 : Tail(q)[i] = q[i + 1]
      BY <1>3, HeadTailProperties, EmptySeq
    <2> QED BY <2>1, <1>3
  <1>5. /\ reader \in {"main", "drain"} /\ (e.type = "started" => reader = "main")
        /\ (e.type = "started" <=> Rewinds)
    BY <1>1, <1>2, <1>3, <1>4 DEF StreamOK, TranscriptTypes, Rewinds
  <1> HIDE DEF e, after, q
  <1>6. \A i \in 1 .. Len(q') : q'[i].type # "started"
    <2>1. \A i \in 1 .. Len(q) - 1 : i + 1 \in 1 .. Len(q) /\ i + 1 # 1
      BY <1>4
    <2>2. \A i \in 1 .. Len(q) : q[i].type = "started" => i = 1
      BY <1>2 DEF StreamOK, q
    <2> QED BY <2>1, <2>2, <1>4
  <1>7. ~ Rewinds'
    <2> SUFFICES ASSUME q' # <<>> PROVE q'[1].type # "started"
      BY DEF Rewinds, q
    <2>1. Len(q') # 0 /\ Len(q') \in Nat
      <3>1. Tail(q) \in Seq(Event)
        BY <1>3, HeadTailProperties
      <3>2. q' \in Seq(Event)
        BY <3>1, <1>3
      <3> QED BY <3>2, EmptySeq
    <2>2. 1 \in 1 .. Len(q')
      BY <2>1
    <2> QED BY <2>2, <1>6
  <1>8. Behind' = Behind /\ Behind \in Nat /\ Behind + 1 < TrimTarget
    <2>1. (reader = "none" <=> reader' = "none") /\ reader # "none"
      BY <1>1, <1>5
    <2>2. Behind' = Behind
      BY <2>1, <1>1 DEF Behind
    <2> QED BY <2>1, <2>2, <1>2, BehindFacts
  <1>9. LastTurnIndex(screen.transcript) > 0
    BY <1>2, <1>5 DEF TurnInSight
  <1>10. /\ UsageIn(events) = UsageIn(Tail(events)) + (IF e.type = "usage" THEN 1 ELSE 0)
         /\ UsageIn(Tail(events)) \in Nat
         /\ Resets(Tail(events)) = FALSE /\ (Resets(events) <=> e.type = "started")
    <2>1. events \in Seq(Event) /\ Len(events) \in Nat /\ Len(wire) \in Nat /\ wire \in Seq(Event)
      BY <1>2 DEF TranscriptTypes
    <2>2. \A i \in 1 .. Len(events) : events[i].type = "started" => i = 1
      <3>1. /\ Len(q) = Len(events) + Len(wire)
            /\ \A i \in 1 .. Len(events) + Len(wire) : q[i] = IF i <= Len(events) THEN events[i] ELSE wire[i - Len(events)]
        BY <2>1, ConcatProperties DEF q, Pending
      <3>2. \A i \in 1 .. Len(events) : i \in 1 .. Len(q) /\ q[i] = events[i]
        BY <3>1, <2>1
      <3> QED BY <3>2, <1>2 DEF StreamOK, q
    <2> QED BY <2>1, <2>2, <1>1, <1>3, UsageOfTail, ResetsOfTail
  <1>11. screen.usage \in Nat
    BY Now
  <1>12. TranscriptTypes'
    BY <1>1, <1>2, <1>3 DEF TranscriptTypes
  <1>13. CASE reader = "main" /\ ~ Rewinds
    <2> DEFINE then == IF EndsTurn(e) THEN "over" ELSE "live"
    <2>1. Mode = "live" /\ Mode' = then /\ then \in Modes /\ (then = "live" <=> ~ EndsTurn(e))
      <3>1. "over" # "live" /\ "drain" # "main"
        OBVIOUS
      <3> QED BY <3>1, <1>1, <1>7, <1>13, ModeFacts DEF Mode
    <2>2. Consumed(e) /\ e.type # "started" /\ OnEventDirectly(direct, e) = Dispatch(direct, e)
      BY <1>5, <1>13 DEF Consumed, OnEventDirectly
    <2>3. Orderly(OpenIn(direct), q) /\ (~ server.over => Covered(OpenIn(direct), q, server))
      BY <1>2, <1>13 DEF StreamOK, q
    <2> DEFINE open == OpenIn(direct)
    <2> HIDE DEF open, then
    <2>4. /\ e.type = "await" => \A y : y \notin open
          /\ e.type = "ask" => \A n : <<"notice", n>> \notin open
          /\ e.type = "draft" => \A n : <<"draft", n>> \in open => n = e.id
      <3>1. \A y : IsOpen(open, q, 1, y) <=> y \in open
        BY OpenAtOnce
      <3>2. /\ q[1].type = "await" => \A y : ~ IsOpen(open, q, 1, y)
            /\ q[1].type = "ask" => \A n : ~ IsOpen(open, q, 1, <<"notice", n>>)
            /\ q[1].type = "draft" => \A n : IsOpen(open, q, 1, <<"draft", n>>) => n = q[1].id
        BY <2>3, <1>4 DEF Orderly, open
      <3> QED BY <3>1, <3>2, <1>3
    <2>5. Allowed(direct, e)
      <3>1. direct.approval # 0 => <<"notice", direct.approval>> \in open
        BY DEF OpenIn, open
      <3> QED BY <3>1, <2>2, <2>4, <1>3 DEF Allowed, open
    <2>6. /\ Pair(after.screen, Dispatch(direct, e), after.held, then, Behind)
          /\ after.screen.usage = screen.usage + (IF e.type = "usage" THEN 1 ELSE 0)
          /\ then = "live" => OpenIn(Dispatch(direct, e)) \subseteq (OpenIn(direct) \ Closes(e)) \cup Opens(e)
          /\ LastTurnIndex(after.screen.transcript) > 0
          /\ Keeps(screen, "live", after.screen, then)
      <3>1. Pair(screen, direct, held, "live", Behind)
        BY <2>1, <1>2
      <3>2. e.type = "draft" => \A n : <<"draft", n>> \in OpenIn(direct) => n = e.id
        BY <2>4 DEF open
      <3>3. \A y : y = x => /\ Pair(OnEvent(y, e).screen, Dispatch(direct, e), OnEvent(y, e).held, then, Behind)
                            /\ OnEvent(y, e).screen.usage = screen.usage + (IF e.type = "usage" THEN 1 ELSE 0)
                            /\ then = "live" => OpenIn(Dispatch(direct, e)) \subseteq (OpenIn(direct) \ Closes(e)) \cup Opens(e)
                            /\ LastTurnIndex(OnEvent(y, e).screen.transcript) > 0
                            /\ Keeps(screen, "live", OnEvent(y, e).screen, then)
        BY <3>1, <3>2, <2>1, <2>5, <1>8, PairDelivered
      <3> QED BY <3>3 DEF after
    <2>7. screen' = after.screen /\ held' = after.held /\ direct' = Dispatch(direct, e)
      BY <2>2, <1>1
    <2>8. Pair(screen, direct, held, Mode, Behind)' /\ Kept
      BY <2>1, <2>6, <2>7, <1>8 DEF Kept
    <2>9. TurnInSight'
      BY <2>6, <2>7 DEF TurnInSight
    <2>10. UsageOK'
      <3>1. usageRead' = UsageIn(Tail(events)) + screen'.usage
        <4>1. usageRead = UsageIn(events) + screen.usage
          BY <2>2, <1>2, <1>10 DEF UsageOK
        <4>2. screen'.usage = screen.usage + (IF e.type = "usage" THEN 1 ELSE 0)
          BY <2>6, <2>7
        <4>3. CASE e.type = "usage"
          <5>1. (UsageIn(Tail(events)) + 1) + screen.usage = UsageIn(Tail(events)) + (screen.usage + 1)
            BY <1>10, <1>11, CountMoves
          <5> QED BY <5>1, <4>1, <4>2, <4>3, <1>1, <1>10
        <4>4. CASE e.type # "usage"
          <5>1. UsageIn(events) = UsageIn(Tail(events)) /\ screen'.usage = screen.usage
            BY <4>2, <4>4, <1>10, <1>11, CountMoves
          <5> QED BY <5>1, <4>1, <1>1
        <4> QED BY <4>3, <4>4
      <3> QED BY <3>1, <1>1, <1>10 DEF UsageOK
    <2>11. StreamOK'
      <3>1. ASSUME reader' = "main"
            PROVE  Orderly(OpenIn(direct'), q') /\ (~ server.over => Covered(OpenIn(direct'), q', server))
        <4>1. ~ EndsTurn(e)
          BY <3>1, <1>1
        <4>2. OpenIn(direct') \subseteq (open \ Closes(q[1])) \cup Opens(q[1])
          BY <4>1, <2>1, <2>6, <2>7, <1>3 DEF open
        <4>3. Orderly(OpenIn(direct'), Tail(q)) /\ \A known : Covered(open, q, known) => Covered(OpenIn(direct'), Tail(q), known)
          BY <4>2, <2>3, <1>3, FirstApplied DEF open
        <4> QED BY <4>3, <2>3, <1>3 DEF open
      <3>2. reader' # "none"
        BY <1>1, <1>5
      <3> QED BY <3>1, <3>2, <1>1, <1>6 DEF StreamOK, q
    <2> QED BY <2>8, <2>9, <2>10, <2>11, <1>12 DEF TranscriptInv
  <1>14. CASE reader = "main" /\ Rewinds
    <2>1. e.type = "started" /\ Consumed(e) /\ ~ EndsTurn(e) /\ OnEventDirectly(direct, e) = Restarted(direct)
      BY <1>5, <1>14 DEF Consumed, EndsTurn, OnEventDirectly
    <2>2. Mode = "over" /\ Mode' = "live" /\ reader' = "main"
      BY <2>1, <1>1, <1>7, <1>14 DEF Mode
    <2>3. screen' = after.screen /\ held' = after.held /\ direct' = Restarted(direct)
      BY <2>1, <1>1
    <2>4. /\ after.held = NothingHeld
          /\ Pair(after.screen, Restarted(direct), NothingHeld, "live", Behind)
          /\ after.screen.usage = 0 /\ OpenIn(Restarted(direct)) = {}
          /\ LastTurnIndex(after.screen.transcript) > 0
          /\ Keeps(screen, "over", after.screen, "live")
      <3>1. Pair(screen, direct, held, "over", Behind)
        BY <2>2, <1>2
      <3>2. \A y : y = x => /\ OnEvent(y, e).held = NothingHeld
                            /\ Pair(OnEvent(y, e).screen, Restarted(direct), NothingHeld, "live", Behind)
                            /\ OnEvent(y, e).screen.usage = 0 /\ OpenIn(Restarted(direct)) = {}
                            /\ LastTurnIndex(OnEvent(y, e).screen.transcript) > 0
                            /\ Keeps(screen, "over", OnEvent(y, e).screen, "live")
        BY <3>1, <2>1, <1>8, <1>9, PairRestarted
      <3> QED BY <3>2 DEF after
    <2>5. Pair(screen, direct, held, Mode, Behind)' /\ Kept /\ TurnInSight'
      BY <2>2, <2>3, <2>4, <1>8 DEF Kept, TurnInSight
    <2>6. UsageOK'
      <3>1. usageRead' = UsageIn(Tail(events)) + screen'.usage
        <4>1. usageRead = UsageIn(events) + 0
          BY <2>1, <1>2, <1>10 DEF UsageOK
        <4>2. screen'.usage = 0 /\ e.type # "usage"
          BY <2>1, <2>3, <2>4
        <4> QED BY <4>1, <4>2, <1>1, <1>10
      <3> QED BY <3>1, <1>1, <1>10 DEF UsageOK
    <2>7. StreamOK'
      <3> DEFINE open == OpenIn(direct)
      <3>1. Orderly(open, q) /\ (~ server.over => Covered(open, q, server))
        BY <1>2, <1>14 DEF StreamOK, q
      <3>2. {} \subseteq (open \ Closes(q[1])) \cup Opens(q[1])
        OBVIOUS
      <3> HIDE DEF open
      <3>3. Orderly({}, Tail(q)) /\ \A known : Covered(open, q, known) => Covered({}, Tail(q), known)
        BY <3>1, <3>2, <1>3, FirstApplied
      <3>4. OpenIn(direct') = {}
        BY <2>3, <2>4
      <3> QED BY <3>1, <3>3, <3>4, <2>2, <1>1, <1>3, <1>6 DEF StreamOK, q
    <2> QED BY <2>5, <2>6, <2>7, <1>12 DEF TranscriptInv
  <1>15. CASE reader = "drain"
    <2>1. Mode = "over" /\ Mode' = "over" /\ reader' = "drain" /\ e.type # "started"
      BY <1>1, <1>5, <1>15 DEF Mode
    <2>2. StreamOK'
      BY <2>1, <1>1, <1>6 DEF StreamOK, q
    <2>3. usageRead = UsageIn(events) + screen.usage
      BY <2>1, <1>2, <1>10 DEF UsageOK
    <2>4. CASE e.type = "usage"
      <3>1. screen' = after.screen /\ held' = after.held /\ direct' = Dispatch(direct, e)
        BY <2>4, <1>1 DEF Consumed, OnEventDirectly
      <3>2. /\ after.held = NothingHeld
            /\ Pair(after.screen, Dispatch(direct, e), NothingHeld, "over", Behind)
            /\ after.screen.usage = screen.usage + 1
            /\ LastTurnIndex(after.screen.transcript) = LastTurnIndex(screen.transcript)
            /\ Keeps(screen, "over", after.screen, "over")
        <4>1. Pair(screen, direct, held, "over", Behind)
          BY <2>1, <1>2
        <4>2. \A y : y = x => /\ OnEvent(y, e).held = NothingHeld
                              /\ Pair(OnEvent(y, e).screen, Dispatch(direct, e), NothingHeld, "over", Behind)
                              /\ OnEvent(y, e).screen.usage = screen.usage + 1
                              /\ LastTurnIndex(OnEvent(y, e).screen.transcript) = LastTurnIndex(screen.transcript)
                              /\ Keeps(screen, "over", OnEvent(y, e).screen, "over")
          BY <4>1, <2>4, <1>3, <1>8, PairCounted
        <4> QED BY <4>2 DEF after
      <3>3. Pair(screen, direct, held, Mode, Behind)' /\ Kept /\ TurnInSight'
        BY <2>1, <3>1, <3>2, <1>8, <1>9 DEF Kept, TurnInSight
      <3>4. UsageOK'
        <4>1. usageRead' = UsageIn(Tail(events)) + screen'.usage
          <5>1. screen'.usage = screen.usage + 1
            BY <3>1, <3>2
          <5>2. UsageIn(events) = UsageIn(Tail(events)) + 1
            BY <2>4, <1>10
          <5>3. (UsageIn(Tail(events)) + 1) + screen.usage = UsageIn(Tail(events)) + (screen.usage + 1)
            BY <1>10, <1>11, CountMoves
          <5> QED BY <5>1, <5>2, <5>3, <2>3, <1>1
        <4> QED BY <4>1, <1>1, <1>10 DEF UsageOK
      <3> QED BY <3>3, <3>4, <2>2, <1>12 DEF TranscriptInv
    <2>5. CASE e.type # "usage"
      <3>1. screen' = screen /\ held' = held /\ direct' = direct
        BY <2>5, <1>1, <1>15 DEF Consumed
      <3>2. Pair(screen, direct, held, Mode, Behind)' /\ TurnInSight'
        BY <3>1, <2>1, <1>2, <1>8, <1>9 DEF TurnInSight
      <3>3. Kept
        BY <3>1, <2>1, Now DEF Kept
      <3>4. UsageOK'
        <4>1. usageRead' = UsageIn(Tail(events)) + screen'.usage
          <5>1. UsageIn(events) = UsageIn(Tail(events))
            BY <2>5, <1>10, CountMoves
          <5> QED BY <5>1, <3>1, <2>3, <1>1
        <4> QED BY <4>1, <1>1, <1>10 DEF UsageOK
      <3> QED BY <3>2, <3>3, <3>4, <2>2, <1>12 DEF TranscriptInv
    <2> QED BY <2>4, <2>5
  <1> QED BY <1>5, <1>13, <1>14, <1>15

-----------------------------------------------------------------------------
(* The end of a stream                                                     *)

\* The stream is over, in a state that nothing is held in.
LEMMA StreamEnded ==
  ASSUME TranscriptInv, StreamIsOver, reader # "none", events = <<>>,
         frames' = frames, made' \in Nat, usageRead' = usageRead, resumes' = resumes, systemLines' = systemLines,
         held' = NothingHeld, direct' = screen', screen'.usage = screen.usage, screen'.approval = 0,
         Shape(screen', "over", Behind + 1), Keeps(screen, Mode, screen', "over")
  PROVE  TranscriptInv' /\ Kept
  <1>1. wire' = <<>> /\ half' = 0 /\ server' = Silent /\ reader' = "none" /\ events' = <<>>
    BY DEF StreamIsOver
  <1>2. /\ TranscriptTypes /\ UsageOK /\ Behind \in Nat
    BY BehindFacts DEF TranscriptInv
  <1>3. TranscriptTypes'
    <2>1. Silent \in ServerRec
      BY DEF Silent, ServerRec
    <2>2. <<>> \in Seq(Event)
      OBVIOUS
    <2> QED BY <2>1, <2>2, <1>1, <1>2 DEF TranscriptTypes
  <1>4. Mode' = "over" /\ Behind' = Behind + 1
    <2>1. Behind = systemLines + resumes
      BY <1>2, BehindFacts
    <2> QED BY <2>1, <1>1 DEF Mode, Behind
  <1>5. Pair(screen, direct, held, Mode, Behind)'
    <2>1. Pair(screen', screen', NothingHeld, "over", Behind + 1)
      BY PairOfOne
    <2> QED BY <2>1, <1>4
  <1>6. StreamOK'
    <2>1. Pending' = <<>>
      <3>1. <<>> \o <<>> = <<>>
        OBVIOUS
      <3> QED BY <3>1, <1>1 DEF Pending
    <2>2. server'.closed
      BY <1>1 DEF Silent
    <2>3. reader' # "main" /\ Len(Pending') = 0
      BY <2>1, <1>1
    <2> QED BY <2>1, <2>2, <2>3, <1>1 DEF StreamOK
  <1>7. UsageOK'
    <2>1. usageRead = UsageIn(events) + screen.usage
      BY <1>2, NoUsage DEF UsageOK
    <2> QED BY <2>1, <1>1, NoUsage DEF UsageOK
  <1>8. TurnInSight' /\ Kept
    BY <1>1, <1>4 DEF TurnInSight, Kept
  <1> QED BY <1>3, <1>5, <1>6, <1>7, <1>8 DEF TranscriptInv

LEMMA AfterStream ==
  ASSUME TranscriptInv, reader # "none"
  PROVE  /\ Behind \in Nat /\ Behind + 1 \in Nat /\ Behind + 1 < TrimTarget
         /\ LastTurnIndex(screen.transcript) > 0 /\ LastTurnIndex(direct.transcript) > 0
         /\ Mode \in Modes /\ made \in Nat /\ SystemEntry(made, 0) \in LineRec /\ SystemEntry(made, 0).approval = 0
         /\ Flush([screen |-> screen, held |-> held]).screen = direct
         /\ Keeps(screen, Mode, direct, Mode)
  <1>1. TranscriptTypes /\ Pair(screen, direct, held, Mode, Behind) /\ Mode \in Modes
    BY ModeTypes DEF TranscriptInv
  <1>2. Behind \in Nat /\ Behind + 1 < TrimTarget
    BY <1>1, BehindFacts
  <1>3. LastTurnIndex(screen.transcript) > 0
    BY DEF TranscriptInv, TurnInSight
  <1>4. LastTurnIndex(direct.transcript) > 0 /\ Keeps(screen, Mode, direct, Mode)
    BY <1>1, <1>2, <1>3, PairFlushed
  <1>5. made \in Nat
    BY <1>1 DEF TranscriptTypes
  <1>6. SystemEntry(made, 0) \in LineRec /\ SystemEntry(made, 0).approval = 0
    BY <1>5 DEF SystemEntry, LineRec
  <1>7. Flush([screen |-> screen, held |-> held]).screen = direct
    BY <1>1 DEF Pair, Shown
  <1> QED BY <1>1, <1>2, <1>3, <1>4, <1>5, <1>6, <1>7

\* What stands behind the last turn may be one line more than before.
LEMMA StoppedIsOver ==
  ASSUME TranscriptInv, reader # "none", NEW s, Shape(s, Mode, Behind), LastTurnIndex(s.transcript) > 0,
         s.usage = screen.usage, s.approval # 0 => Mode = "live",
         NEW outcome \in Outcomes, NEW next, next = Stopped(s, outcome)
  PROVE  /\ Shape(next, "over", Behind) /\ Shape(next, "over", Behind + 1)
         /\ next.usage = screen.usage /\ next.approval = 0
         /\ LastTurnIndex(next.transcript) > 0
         /\ Keeps(s, Mode, next, "over")
         /\ Mode = "live" => StaysBefore(s, next)
         /\ Mode # "live" => next = s
  <1>1. Behind \in Nat /\ Behind + 1 \in Nat /\ Mode \in Modes
    BY AfterStream
  <1>2. /\ Shape(next, "over", Behind) /\ next.usage = screen.usage /\ next.approval = 0
        /\ LastTurnIndex(next.transcript) > 0
        /\ Keeps(s, Mode, next, "over")
        /\ Mode = "live" => StaysBefore(s, next)
        /\ Mode # "live" => next = s
    BY <1>1, StoppedFacts
  <1>3. Shape(next, "over", Behind + 1)
    <2>1. Behind <= Behind + 1
      BY <1>1
    <2> QED BY <2>1, <1>1, <1>2, ModeFacts, Weaker
  <1> QED BY <1>2, <1>3

LEMMA StepCancel ==
  ASSUME TranscriptInv, Cancel
  PROVE  TranscriptInv' /\ Kept
  <1>1. /\ reader # "none" /\ events = <<>>
        /\ screen' = Stopped(screen, "cancelled") /\ direct' = screen' /\ held' = NothingHeld
        /\ StreamIsOver
        /\ usageRead' = usageRead /\ frames' = frames /\ made' = made /\ resumes' = resumes
        /\ systemLines' = systemLines
    BY DEF Cancel, Stopped
  <1>2. /\ Shape(screen, Mode, Behind) /\ LastTurnIndex(screen.transcript) > 0
        /\ (screen.approval # 0 => Mode = "live") /\ made \in Nat
    BY <1>1, Now, AfterStream
  <1>3. /\ Shape(screen', "over", Behind + 1) /\ screen'.usage = screen.usage /\ screen'.approval = 0
        /\ Keeps(screen, Mode, screen', "over")
    <2>1. "cancelled" \in Outcomes
      BY DEF Outcomes
    <2> QED BY <2>1, <1>1, <1>2, StoppedIsOver
  <1> QED BY <1>1, <1>2, <1>3, StreamEnded

\* A finished turn, and the line that says why.
LEMMA OverIsLined ==
  ASSUME TranscriptInv, reader # "none", NEW s, Shape(s, "over", Behind), s.usage = screen.usage, s.approval = 0,
         NEW next, next = Lined(s, SystemEntry(made, 0))
  PROVE  /\ Shape(next, "over", Behind + 1) /\ next.usage = screen.usage /\ next.approval = 0
         /\ StaysBefore(s, next) /\ Keeps(s, "over", next, "over")
  <1> DEFINE line == SystemEntry(made, 0)
  <1>1. /\ Behind \in Nat /\ Behind + 1 \in Nat /\ Behind + 1 < TrimTarget
        /\ line \in LineRec /\ line.approval = 0
    BY AfterStream
  <1>2. Behind + (IF s.approval # 0 THEN 1 ELSE 0) + 1 < TrimTarget /\ Behind + 1 <= Behind + 1
    BY <1>1
  <1> HIDE DEF line
  <1>3. next = Lined(s, line)
    BY DEF line
  <1> QED BY <1>1, <1>2, <1>3, ModeFacts, LineOnOne

LEMMA StepFails ==
  ASSUME TranscriptInv, ReaderFails
  PROVE  TranscriptInv' /\ Kept
  <1> DEFINE stopped == Stopped(direct, "error")
             line == SystemEntry(made, 0)
  <1>1. reader # "none" /\ events = <<>> /\ held' = NothingHeld /\ made' = made + 1
        /\ StreamIsOver /\ usageRead' = usageRead /\ frames' = frames /\ resumes' = resumes
        /\ systemLines' = systemLines
    BY DEF ReaderFails
  <1>2. screen' = Lined(stopped, line) /\ direct' = Lined(stopped, line)
    <2> DEFINE fail(s) ==
                 LET open == [s EXCEPT !.transcript = UpdateLastTurn(@, Interrupted(LastTurn(@), "error"))]
                 IN  Bounded(Settled(open), Append(Settled(open).transcript, SystemEntry(made, 0)))
               flushed == Flush([screen |-> screen, held |-> held]).screen
    <2>1. screen' = fail(flushed) /\ direct' = fail(direct)
      BY DEF ReaderFails
    <2>2. flushed = direct
      BY <1>1, AfterStream
    <2> HIDE DEF flushed
    <2>3. fail(direct) = Lined(stopped, line)
      BY DEF Lined, Stopped
    <2> HIDE DEF fail
    <2> QED BY <2>1, <2>2, <2>3
  <1>3. /\ Shape(direct, Mode, Behind) /\ LastTurnIndex(direct.transcript) > 0 /\ direct.usage = screen.usage
        /\ (direct.approval # 0 => Mode = "live") /\ made \in Nat /\ (Mode # "live" => direct = screen)
    BY <1>1, Now, AfterStream
  <1>4. /\ Shape(stopped, "over", Behind) /\ stopped.usage = screen.usage /\ stopped.approval = 0
        /\ Mode = "live" => StaysBefore(direct, stopped)
        /\ Mode # "live" => stopped = direct
    <2>1. "error" \in Outcomes
      BY DEF Outcomes
    <2> QED BY <2>1, <1>1, <1>3, StoppedIsOver
  <1> HIDE DEF stopped
  <1>5. /\ Shape(screen', "over", Behind + 1) /\ screen'.usage = screen.usage /\ screen'.approval = 0
        /\ StaysBefore(stopped, screen') /\ Keeps(stopped, "over", screen', "over")
    BY <1>1, <1>2, <1>4, OverIsLined
  <1> HIDE DEF line
  <1>6. Keeps(screen, Mode, screen', "over")
    <2>1. CASE Mode = "live"
      <3>1. StaysBefore(screen, direct)
        <4>1. Shape(screen, "live", Behind) /\ HeldOK(held) /\ direct = Shown(screen, held) /\ Behind \in Nat
          BY <2>1, <1>1, AfterStream DEF TranscriptInv, Pair
        <4> QED BY <4>1, ShownFacts
      <3>2. screen \in ScreenRec /\ direct \in ScreenRec /\ stopped \in ScreenRec /\ screen' \in ScreenRec
        BY <1>3, <1>4, <1>5, Now DEF Shape
      <3>3. StaysBefore(screen, stopped)
        BY <3>1, <3>2, <2>1, <1>4, StaysBeforeIsTransitive
      <3>4. StaysBefore(screen, screen')
        BY <3>2, <3>3, <1>5, StaysBeforeIsTransitive
      <3>5. Shape(screen, "live", Behind)
        BY <2>1, Now
      <3>6. Keeps(screen, "live", screen', "over")
        BY <3>4, <3>5, <1>5, ModeFacts, LiveKeeps
      <3> QED BY <3>6, <2>1
    <2>2. CASE Mode # "live"
      <3>1. Mode = "over"
        BY <2>2, ModeTypes DEF Modes
      <3> QED BY <3>1, <2>2, <1>3, <1>4, <1>5
    <2> QED BY <2>1, <2>2
  <1>7. direct' = screen' /\ made' \in Nat
    BY <1>1, <1>2, <1>3
  <1> QED BY <1>1, <1>5, <1>6, <1>7, StreamEnded

LEMMA StepDrainEnds ==
  ASSUME TranscriptInv, DrainEnds
  PROVE  TranscriptInv' /\ Kept
  <1> DEFINE entry == SystemEntry(made, 0)
             Added(s, line) == IF line THEN Bounded(s, Append(s.transcript, entry)) ELSE s
             Shut(s) == [s EXCEPT !.transcript = UpdateLastTurn(@, ClosedTurn(LastTurn(@)))]
             close(s, line) == Shut(Added(s, line))
             flushed == Flush([screen |-> screen, held |-> held]).screen
  <1>1. PICK line \in BOOLEAN : /\ screen' = close(flushed, line) /\ direct' = close(direct, line)
                                /\ made' = IF line THEN made + 1 ELSE made
    BY DEF DrainEnds
  <1>2. reader = "drain" /\ reader # "none" /\ events = <<>> /\ held' = NothingHeld
        /\ StreamIsOver /\ usageRead' = usageRead /\ frames' = frames /\ resumes' = resumes
        /\ systemLines' = systemLines
    BY DEF DrainEnds
  <1>3. Mode = "over"
    BY <1>2 DEF Mode
  <1>4. flushed = direct
    BY <1>2, AfterStream
  <1>5. /\ direct = screen /\ Shape(screen, "over", Behind) /\ screen.approval = 0 /\ made \in Nat
        /\ Behind \in Nat /\ Behind + 1 \in Nat
    BY <1>2, <1>3, Now, AfterStream
  <1> HIDE DEF flushed
  <1>6. screen' = close(screen, line) /\ direct' = screen'
    BY <1>1, <1>4, <1>5
  <1>7. /\ Shape(Added(screen, line), "over", Behind + 1) /\ Added(screen, line).usage = screen.usage
        /\ Added(screen, line).approval = 0 /\ Keeps(screen, "over", Added(screen, line), "over")
    <2>1. CASE line
      <3> DEFINE next == Lined(screen, SystemEntry(made, 0))
      <3>1. Added(screen, line) = next
        BY <2>1 DEF Lined
      <3> HIDE DEF next
      <3>2. /\ Shape(next, "over", Behind + 1) /\ next.usage = screen.usage /\ next.approval = 0
            /\ StaysBefore(screen, next) /\ Keeps(screen, "over", next, "over")
        BY <1>2, <1>5, OverIsLined DEF next
      <3> QED BY <3>1, <3>2
    <2>2. CASE ~ line
      <3>1. Added(screen, line) = screen
        BY <2>2
      <3>2. Behind <= Behind + 1
        BY <1>5
      <3> QED BY <3>1, <3>2, <1>5, ModeFacts, Weaker, SameStays
    <2> QED BY <2>1, <2>2
  <1>8. screen' = Added(screen, line)
    <2> HIDE DEF Added
    <2> QED BY <1>5, <1>6, <1>7, ClosedAlready
  <1> HIDE DEF Added
  <1>9. made' \in Nat
    BY <1>1, <1>5
  <1> QED BY <1>2, <1>3, <1>6, <1>7, <1>8, <1>9, StreamEnded

-----------------------------------------------------------------------------
(* The timers, and the shell around the stream                             *)

\* What is on the screen changes, and the stream goes on.
LEMMA ScreenChanged ==
  ASSUME TranscriptInv, UNCHANGED <<streamVars, usageRead, frames, resumes>>, made' \in Nat,
         systemLines' \in 0 .. MaxSystemLines,
         Pair(screen', direct', held', Mode, Behind'), screen'.usage = screen.usage,
         OpenIn(direct') \subseteq OpenIn(direct),
         LastTurnIndex(screen.transcript) > 0 => LastTurnIndex(screen'.transcript) > 0,
         Keeps(screen, Mode, screen', Mode)
  PROVE  TranscriptInv' /\ Kept
  <1>1. /\ events' = events /\ wire' = wire /\ half' = half /\ server' = server /\ reader' = reader
        /\ usageRead' = usageRead /\ frames' = frames /\ resumes' = resumes
    BY DEF streamVars
  <1>2. TranscriptTypes /\ TurnInSight /\ StreamOK /\ UsageOK
    BY DEF TranscriptInv
  <1>3. TranscriptTypes'
    BY <1>1, <1>2 DEF TranscriptTypes
  <1>4. Pending' = Pending /\ Mode' = Mode
    BY <1>1 DEF Pending, Mode, Rewinds
  <1>5. Pair(screen, direct, held, Mode, Behind)' /\ Kept /\ TurnInSight' /\ UsageOK'
    BY <1>1, <1>2, <1>4 DEF Kept, TurnInSight, UsageOK
  <1>6. StreamOK'
    <2> DEFINE open == OpenIn(direct)
               then == OpenIn(direct')
               q == Pending
    <2>1. ASSUME reader = "main" PROVE Orderly(then, q) /\ (~ server.over => Covered(then, q, server))
      <3>1. Orderly(open, q) /\ (~ server.over => Covered(open, q, server))
        BY <2>1, <1>2 DEF StreamOK
      <3>2. then \subseteq open
        OBVIOUS
      <3> HIDE DEF open, then, q
      <3>3. Orderly(then, q) /\ \A known : Covered(open, q, known) => Covered(then, q, known)
        BY <3>1, <3>2, LessOpen
      <3> QED BY <3>1, <3>3
    <2> QED BY <2>1, <1>1, <1>2, <1>4 DEF StreamOK
  <1> QED BY <1>3, <1>5, <1>6 DEF TranscriptInv

\* One batcher is flushed: the other one holds nothing.
LEMMA StepTimers ==
  ASSUME TranscriptInv, TextTimer \/ DraftTimer
  PROVE  TranscriptInv' /\ Kept
  <1> DEFINE x == [screen |-> screen, held |-> held]
  <1>1. /\ \/ held.text # <<>> /\ screen' = FlushText(x).screen /\ held' = FlushText(x).held
           \/ held.drafts # <<>> /\ screen' = FlushDrafts(x).screen /\ held' = FlushDrafts(x).held
        /\ UNCHANGED <<streamVars, usageRead, frames, resumes>>
        /\ direct' = direct /\ made' = made /\ systemLines' = systemLines
    BY DEF TextTimer, DraftTimer
  <1>2. TranscriptTypes /\ Pair(screen, direct, held, Mode, Behind) /\ Mode \in Modes /\ Behind \in Nat
    BY ModeTypes, BehindFacts DEF TranscriptInv
  <1>3. HeldOK(held) /\ direct = Shown(screen, held)
    BY <1>2 DEF Pair
  <1>4. screen' = direct /\ held' = NothingHeld
    <2>1. held # NothingHeld
      BY <1>1 DEF NothingHeld
    <2>2. /\ held.text # <<>> => FlushText(x) = [screen |-> Dispatch(screen, HeldEvent(held)), held |-> NothingHeld]
          /\ held.drafts # <<>> => FlushDrafts(x) = [screen |-> Dispatch(screen, HeldEvent(held)), held |-> NothingHeld]
          /\ Shown(screen, held) = Dispatch(screen, HeldEvent(held))
      BY <1>3, <2>1, FlushFacts
    <2> HIDE DEF x
    <2> QED BY <1>1, <1>3, <2>2
  <1>5. /\ Pair(direct, direct, NothingHeld, Mode, Behind) /\ direct.usage = screen.usage
        /\ LastTurnIndex(screen.transcript) > 0 => LastTurnIndex(direct.transcript) > 0
        /\ Keeps(screen, Mode, direct, Mode)
    BY <1>2, PairFlushed
  <1>6. Behind' = Behind
    BY <1>1 DEF Behind, streamVars
  <1>7. made' \in Nat /\ systemLines' \in 0 .. MaxSystemLines
    BY <1>1, <1>2 DEF TranscriptTypes
  <1> QED BY <1>1, <1>4, <1>5, <1>6, <1>7, ScreenChanged

LEMMA StepSystemLine ==
  ASSUME TranscriptInv, PushSystemLine
  PROVE  TranscriptInv' /\ Kept
  <1> DEFINE line == SystemEntry(made, 0)
             asked == IF screen.approval # 0 THEN 1 ELSE 0
  <1>1. /\ systemLines < MaxSystemLines /\ systemLines' = systemLines + 1 /\ made' = made + 1
        /\ screen' = Lined(screen, line) /\ direct' = Lined(direct, line) /\ held' = held
        /\ UNCHANGED <<streamVars, usageRead, frames, resumes>>
    BY DEF PushSystemLine, Lined
  <1>2. TranscriptTypes /\ Pair(screen, direct, held, Mode, Behind) /\ Mode \in Modes /\ Behind \in Nat
    BY ModeTypes, BehindFacts DEF TranscriptInv
  <1>3. /\ systemLines \in Nat /\ resumes \in Nat /\ MaxSystemLines \in Nat /\ made \in Nat
        /\ systemLines + 1 \in 0 .. MaxSystemLines
    <2>1. MaxSystemLines \in Nat
      BY TranscriptAssumption
    <2> QED BY <2>1, <1>1, <1>2 DEF TranscriptTypes
  <1>4. line \in LineRec /\ line.approval = 0
    BY <1>3 DEF SystemEntry, LineRec
  <1>5. Behind' = Behind + 1
    <2>1. reader' = reader /\ resumes' = resumes
      BY <1>1 DEF streamVars
    <2> QED BY <2>1, <1>1, <1>3 DEF Behind
  <1>6. Behind + asked + 1 < TrimTarget
    <2>1. Behind + (IF reader = "none" THEN 0 ELSE 1) + 1 < TrimTarget
      BY <1>1, <1>2, BehindFacts
    <2>2. screen.approval # 0 => reader # "none"
      BY Now, ModeTypes
    <2>3. asked <= (IF reader = "none" THEN 0 ELSE 1)
      BY <2>2
    <2> HIDE DEF asked
    <2>4. asked \in Nat
      BY DEF asked
    <2> QED BY <2>1, <2>3, <2>4, <1>2, LimitFacts
  <1> HIDE DEF line
  <1>7. /\ Pair(Lined(screen, line), Lined(direct, line), held, Mode, Behind + 1)
        /\ Lined(screen, line).usage = screen.usage
        /\ OpenIn(Lined(direct, line)) = OpenIn(direct)
        /\ LastTurnIndex(screen.transcript) > 0 => LastTurnIndex(Lined(screen, line).transcript) > 0
        /\ Keeps(screen, Mode, Lined(screen, line), Mode)
    <2>1. Behind + 1 \in Nat /\ Behind + 1 <= Behind + 1
      BY <1>2
    <2> QED BY <2>1, <1>2, <1>4, <1>6, PairLined
  <1>8. made' \in Nat
    BY <1>1, <1>3
  <1> QED BY <1>1, <1>3, <1>5, <1>7, <1>8, ScreenChanged

LEMMA StepResolution ==
  ASSUME TranscriptInv, ShowResolution
  PROVE  TranscriptInv' /\ Kept
  <1>1. /\ screen.approval # 0 /\ screen' = Settled(screen) /\ direct' = Settled(direct) /\ held' = held
        /\ UNCHANGED <<streamVars, usageRead, frames, resumes>> /\ made' = made /\ systemLines' = systemLines
    BY DEF ShowResolution
  <1>2. TranscriptTypes /\ Pair(screen, direct, held, Mode, Behind) /\ Mode \in Modes /\ Behind \in Nat
    BY ModeTypes, BehindFacts DEF TranscriptInv
  <1>3. /\ Pair(Settled(screen), Settled(direct), held, Mode, Behind)
        /\ Settled(screen).usage = screen.usage
        /\ OpenIn(Settled(direct)) \subseteq OpenIn(direct)
        /\ LastTurnIndex(screen.transcript) > 0 => LastTurnIndex(Settled(screen).transcript) > 0
        /\ Keeps(screen, Mode, Settled(screen), Mode)
    BY <1>1, <1>2, PairSettled
  <1>4. Behind' = Behind
    BY <1>1 DEF Behind, streamVars
  <1>5. made' \in Nat /\ systemLines' \in 0 .. MaxSystemLines
    BY <1>1, <1>2 DEF TranscriptTypes
  <1> QED BY <1>1, <1>3, <1>4, <1>5, ScreenChanged

LEMMA ServerOpens ==
  /\ Opened \in ServerRec /\ ~ Opened.closed /\ ~ Opened.over
  /\ Covered({}, <<>>, Opened) /\ Orderly({}, <<>>)
  /\ LET q == <<[type |-> "started"]>> IN Covered({}, q, Opened) /\ Orderly({}, q)
  <1> DEFINE e == [type |-> "started"]
             q == <<e>>
  <1>1. Opened \in ServerRec /\ ~ Opened.closed /\ ~ Opened.over
    BY DEF Opened, Silent, ServerRec
  <1>2. \A x : ~ IsOpen({}, <<>>, 1, x)
    BY OpenAtOnce
  <1>3. Covered({}, <<>>, Opened) /\ Orderly({}, <<>>)
    <2>1. Len(<<>>) = 0 /\ 0 + 1 = 1 /\ 1 .. 0 = {}
      OBVIOUS
    <2> QED BY <2>1, <1>2 DEF Covered, Orderly
  <1>4. Opens(e) = {} /\ e.type = "started" /\ Len(q) = 1 /\ q[1] = e
    BY DEF Opens
  <1> HIDE DEF e
  <1>5. \A x : ~ IsOpen({}, q, 2, x)
    <2>1. \A j \in 1 .. 2 - 1 : q[j] = e
      BY <1>4
    <2> HIDE DEF q
    <2> QED BY <2>1, <1>4 DEF IsOpen
  <1>6. Covered({}, q, Opened)
    BY <1>4, <1>5 DEF Covered
  <1>7. Orderly({}, q)
    <2>1. \A i \in 1 .. Len(q) : q[i].type = "started"
      BY <1>4
    <2> HIDE DEF q
    <2> QED BY <2>1 DEF Orderly
  <1> QED BY <1>1, <1>3, <1>6, <1>7 DEF e

\* Between two streams.
LEMMA NoStream ==
  ASSUME TranscriptInv, reader = "none"
  PROVE  /\ Mode = "over" /\ events = <<>> /\ wire = <<>> /\ Behind = systemLines + resumes + 1
         /\ direct = screen /\ held = NothingHeld /\ Shape(screen, "over", Behind) /\ screen.approval = 0
         /\ TranscriptTypes /\ UsageOK /\ Behind \in Nat /\ systemLines + resumes \in Nat
  <1>1. Mode = "over"
    BY DEF Mode
  <1>2. events = <<>> /\ wire = <<>> /\ TranscriptTypes /\ UsageOK
    BY DEF TranscriptInv, StreamOK
  <1>3. direct = screen /\ held = NothingHeld /\ Shape(screen, "over", Behind) /\ screen.approval = 0
    BY <1>1, Now
  <1>4. systemLines + resumes \in Nat
    <2>1. MaxSystemLines \in Nat /\ MaxResumes \in Nat
      BY TranscriptAssumption
    <2> QED BY <2>1, <1>2 DEF TranscriptTypes
  <1> QED BY <1>1, <1>2, <1>3, <1>4, BehindFacts

LEMMA StepPushTurn ==
  ASSUME TranscriptInv, PushTurn
  PROVE  TranscriptInv' /\ Kept
  <1>1. /\ reader = "none" /\ screen' = [Bounded(screen, Append(screen.transcript, Turn(made))) EXCEPT !.usage = 0]
        /\ direct' = screen' /\ reader' = "main" /\ server' = Opened /\ usageRead' = 0 /\ made' = made + 1
        /\ wire' = wire /\ half' = half /\ events' = events /\ held' = held /\ frames' = frames
        /\ resumes' = resumes /\ systemLines' = systemLines
    BY DEF PushTurn
  <1>2. /\ Mode = "over" /\ events = <<>> /\ wire = <<>> /\ held = NothingHeld
        /\ Shape(screen, "over", Behind) /\ screen.approval = 0
        /\ TranscriptTypes /\ Behind \in Nat /\ systemLines + resumes \in Nat
    BY <1>1, NoStream
  <1>3. made \in Nat
    BY <1>2 DEF TranscriptTypes
  <1>4. Pending' = <<>> /\ Mode' = "live" /\ Behind' = systemLines + resumes
    <2>1. events' = <<>> /\ wire' = <<>> /\ <<>> \o <<>> = <<>>
      BY <1>1, <1>2
    <2>2. Pending' = <<>>
      BY <2>1 DEF Pending
    <2>3. ~ Rewinds'
      BY <2>2 DEF Rewinds
    <2>4. systemLines + resumes + 0 = systemLines + resumes
      BY <1>2
    <2> QED BY <2>2, <2>3, <2>4, <1>1 DEF Mode, Behind
  <1>5. /\ Shape(screen', "live", systemLines + resumes) /\ screen'.usage = 0 /\ screen'.approval = 0
        /\ LastTurn(screen'.transcript) = Turn(made)
        /\ LastTurnIndex(screen'.transcript) > 0
        /\ Keeps(screen, "over", screen', "live")
    BY <1>1, <1>2, <1>3, TurnPushed
  <1>6. TranscriptTypes'
    <2>1. made + 1 \in Nat
      BY <1>3
    <2> QED BY <2>1, <1>1, <1>2, ServerOpens DEF TranscriptTypes
  <1>7. Pair(screen, direct, held, Mode, Behind)' /\ Kept /\ TurnInSight'
    <2>1. Pair(screen', screen', NothingHeld, "live", systemLines + resumes)
      BY <1>5, PairOfOne
    <2> QED BY <2>1, <1>1, <1>2, <1>4, <1>5 DEF Kept, TurnInSight
  <1>8. UsageOK'
    <2>1. 0 = 0 + 0
      OBVIOUS
    <2> QED BY <2>1, <1>1, <1>2, <1>5, NoUsage DEF UsageOK
  <1>9. StreamOK'
    <2>1. OpenIn(direct') = {}
      <3>1. Turn(made).drafts = <<>> /\ Turn(made).cards = <<>>
        BY DEF Turn
      <3>2. OpenOf(Turn(made)) = {}
        <4>1. DraftIds(<<>>) = {} /\ RunningTools(<<>>) = {}
          BY DEF DraftIds, RunningTools
        <4> QED BY <3>1, <4>1 DEF OpenOf
      <3> QED BY <3>2, <1>1, <1>5 DEF OpenIn
    <2>2. Len(Pending') = 0 /\ 1 .. 0 = {}
      BY <1>4
    <2> QED BY <2>1, <2>2, <1>1, <1>4, ServerOpens DEF StreamOK
  <1> QED BY <1>6, <1>7, <1>8, <1>9 DEF TranscriptInv

LEMMA StepResume ==
  ASSUME TranscriptInv, ResumeStream
  PROVE  TranscriptInv' /\ Kept
  <1> DEFINE started == [type |-> "started"]
  <1>1. /\ reader = "none" /\ resumes < MaxResumes /\ \E i \in DOMAIN screen.transcript : screen.transcript[i].kind = "turn"
        /\ reader' = "main" /\ server' = Opened /\ wire' = <<started>> /\ resumes' = resumes + 1
        /\ half' = half /\ events' = events /\ screen' = screen /\ held' = held /\ direct' = direct
        /\ usageRead' = usageRead /\ frames' = frames /\ made' = made /\ systemLines' = systemLines
    BY DEF ResumeStream
  <1>2. /\ Mode = "over" /\ events = <<>> /\ wire = <<>> /\ held = NothingHeld /\ direct = screen
        /\ Shape(screen, "over", Behind) /\ screen.approval = 0 /\ Behind = systemLines + resumes + 1
        /\ TranscriptTypes /\ UsageOK /\ Behind \in Nat /\ systemLines + resumes \in Nat
    BY <1>1, NoStream
  <1>3. started \in Event /\ started.type = "started"
    BY DEF Event
  <1> HIDE DEF started
  <1>4. Pending' = <<started>> /\ Pending'[1] = started /\ Len(Pending') = 1
    <2>1. events' = <<>> /\ wire' = <<started>> /\ wire' \in Seq(Event)
      BY <1>1, <1>2, <1>3
    <2>2. <<>> \o wire' = wire'
      BY <2>1
    <2> QED BY <2>1, <2>2 DEF Pending
  <1>5. systemLines \in Nat /\ resumes \in Nat /\ MaxResumes \in Nat /\ resumes + 1 \in 0 .. MaxResumes
    <2>1. MaxSystemLines \in Nat /\ MaxResumes \in Nat
      BY TranscriptAssumption
    <2> QED BY <2>1, <1>1, <1>2 DEF TranscriptTypes
  <1>6. Mode' = "over" /\ Behind' = Behind
    <2>1. Rewinds'
      BY <1>3, <1>4 DEF Rewinds
    <2>2. Behind' = systemLines + (resumes + 1) + 0
      BY <1>1 DEF Behind
    <2>3. systemLines + (resumes + 1) + 0 = systemLines + resumes + 1
      BY <1>5
    <2> QED BY <2>1, <2>2, <2>3, <1>2 DEF Mode
  <1>7. TranscriptTypes'
    <2>1. <<started>> \in Seq(Event)
      BY <1>3
    <2> QED BY <2>1, <1>1, <1>2, <1>5, ServerOpens DEF TranscriptTypes
  <1>8. Pair(screen, direct, held, Mode, Behind)' /\ Kept
    <2>1. Pair(screen, direct, held, Mode, Behind)
      BY DEF TranscriptInv
    <2> QED BY <2>1, <1>1, <1>2, <1>6, Now DEF Kept
  <1>9. TurnInSight'
    <2>1. screen.transcript \in Entries
      BY <1>2, ModeFacts, ShapeFacts
    <2>2. PICK i \in 1 .. Len(screen.transcript) : screen.transcript[i].kind = "turn"
      BY <1>1, <2>1 DEF Entries
    <2>3. i <= LastTurnIndex(screen.transcript) /\ LastTurnIndex(screen.transcript) \in 0 .. Len(screen.transcript)
      BY <2>1, <2>2, LastTurnFacts
    <2>4. LastTurnIndex(screen.transcript) > 0
      BY <2>2, <2>3
    <2> QED BY <2>4, <1>1 DEF TurnInSight
  <1>10. UsageOK'
    BY <1>1, <1>2 DEF UsageOK
  <1>11. StreamOK'
    <2>1. OpenIn(direct') = {}
      BY <1>1, <1>2, NothingOpenOver
    <2>2. \A i \in 1 .. Len(Pending') : i = 1
      BY <1>4
    <2>3. Covered({}, <<started>>, Opened) /\ Orderly({}, <<started>>)
      BY ServerOpens DEF started
    <2> QED BY <2>1, <2>2, <2>3, <1>1, <1>4 DEF StreamOK
  <1> QED BY <1>7, <1>8, <1>9, <1>10, <1>11 DEF TranscriptInv

LEMMA TranscriptStutters ==
  ASSUME TranscriptInv, UNCHANGED transcriptVars
  PROVE  TranscriptInv' /\ Kept
  <1>1. /\ events' = events /\ wire' = wire /\ frames' = frames /\ made' = made
        /\ half' = half /\ reader' = reader /\ screen' = screen /\ held' = held /\ direct' = direct
        /\ server' = server /\ usageRead' = usageRead /\ resumes' = resumes /\ systemLines' = systemLines
    BY DEF transcriptVars, streamVars
  <1>2. Pending' = Pending /\ Mode' = Mode /\ Behind' = Behind
    BY <1>1 DEF Pending, Mode, Rewinds, Behind
  <1>3. TranscriptTypes' /\ TurnInSight' /\ StreamOK' /\ UsageOK' /\ Pair(screen, direct, held, Mode, Behind)'
    BY <1>1, <1>2 DEF TranscriptInv, TranscriptTypes, TurnInSight, StreamOK, UsageOK
  <1>4. Kept
    BY <1>1, <1>2, Now DEF Kept
  <1> QED BY <1>3, <1>4 DEF TranscriptInv

-----------------------------------------------------------------------------
(* The theorems                                                            *)

LEMMA TranscriptStep ==
  ASSUME TranscriptInv, [TranscriptNext]_transcriptVars
  PROVE  TranscriptInv' /\ Kept
  <1>1. CASE SendText
    BY <1>1, StepText
  <1>2. CASE SendActivity
    BY <1>2, StepActivity
  <1>3. CASE SendUsage
    BY <1>3, StepUsage
  <1>4. CASE SendDone
    BY <1>4, StepDone
  <1>5. CASE ServerCloses
    BY <1>5, StepCloses
  <1>6. CASE ReadStep
    BY <1>6, StepRead
  <1>7. CASE Deliver
    BY <1>7, StepDeliver
  <1>8. CASE DrainEnds
    BY <1>8, StepDrainEnds
  <1>9. CASE ReaderFails
    BY <1>9, StepFails
  <1>10. CASE Cancel
    BY <1>10, StepCancel
  <1>11. CASE TextTimer \/ DraftTimer
    BY <1>11, StepTimers
  <1>12. CASE PushTurn
    BY <1>12, StepPushTurn
  <1>13. CASE ResumeStream
    BY <1>13, StepResume
  <1>14. CASE PushSystemLine
    BY <1>14, StepSystemLine
  <1>15. CASE ShowResolution
    BY <1>15, StepResolution
  <1>16. CASE UNCHANGED transcriptVars
    BY <1>16, TranscriptStutters
  <1> QED BY <1>1, <1>2, <1>3, <1>4, <1>5, <1>6, <1>7, <1>8, <1>9, <1>10, <1>11, <1>12, <1>13, <1>14,
             <1>15, <1>16 DEF TranscriptNext

\* The store, the batchers and the reader agree in every state: the store shows
\* what every event applied at once would have made but for what is held back,
\* the frames on their way suit what is open on it, and usage frames are counted.
THEOREM TranscriptInvariant == TranscriptSpec => []TranscriptInv
  <1>1. TranscriptInit => TranscriptInv
    BY TranscriptStarts
  <1>2. TranscriptInv /\ [TranscriptNext]_transcriptVars => TranscriptInv'
    BY TranscriptStep
  <1> QED BY <1>1, <1>2, PTL DEF TranscriptSpec

LEMMA InvariantIsExact == TranscriptInv => TranscriptIsExact
  <1> SUFFICES ASSUME TranscriptInv PROVE TranscriptIsExact
    OBVIOUS
  <1>1. BatchingIsTransparent
    BY DEF BatchingIsTransparent, TranscriptInv, Pair, Shown
  <1>2. UsageIsExact
    <2> SUFFICES ASSUME reader # "none", events = <<>> PROVE screen.usage = usageRead
      BY DEF UsageIsExact
    <2>1. usageRead = 0 + screen.usage
      BY NoUsage DEF TranscriptInv, UsageOK
    <2> QED BY <2>1, Now
  <1>3. NoCardIsLeftRunning
    <2> DEFINE tr == screen.transcript
    <2> SUFFICES ASSUME NEW i \in DOMAIN tr, tr[i].kind = "turn", ~ tr[i].streaming,
                        NEW c \in DOMAIN tr[i].cards
                 PROVE  tr[i].cards[c].state \notin Running
      BY DEF NoCardIsLeftRunning
    <2>1. Shape(screen, Mode, Behind) /\ Mode \in Modes /\ tr \in Entries
      BY Now, ModeTypes, ShapeFacts
    <2>2. i \in 1 .. Len(tr) /\ i <= LastTurnIndex(tr) /\ LastTurnIndex(tr) \in 0 .. Len(tr)
      BY <2>1, LastTurnFacts DEF Entries
    <2>3. i = LastTurnIndex(tr) => tr[i] = LastTurn(tr)
      BY DEF LastTurn
    <2>4. i < LastTurnIndex(tr) \/ Mode # "live"
      BY <2>1, <2>2, <2>3 DEF Shape, TurnsOK
    <2>5. Finished(tr[i])
      BY <2>1, <2>2, <2>4 DEF Shape, TurnsOK
    <2> QED BY <2>5 DEF Finished
  <1> QED BY <1>1, <1>2, <1>3 DEF TranscriptIsExact

\* Text held back for 40 ms and flushed by a timer, a draft, a line or the end
\* of the stream shows what applying every event at once would have shown; each
\* usage frame is counted once; and no card of a turn that is over is left
\* running, for every length of the transcript, the trim and the stream.
THEOREM TranscriptStaysExact == TranscriptSpec => []TranscriptIsExact
  BY TranscriptInvariant, InvariantIsExact, PTL

\* What Ink has printed of the transcript never changes and is never shortened,
\* unless the epoch is bumped: boundedTranscript and the rewind of a resumed
\* turn are the only ones to touch it.
THEOREM StaticNeverShrinks == TranscriptSpec => StaticOnlyGrows
  <1> DEFINE Grows == screen'.epoch # screen.epoch \/ IsPrefix(Static(screen.transcript), Static(screen'.transcript))
  <1>1. TranscriptInv /\ [TranscriptNext]_transcriptVars => [Grows]_transcriptVars
    <2> SUFFICES ASSUME TranscriptInv, [TranscriptNext]_transcriptVars PROVE Grows
      OBVIOUS
    <2>1. TranscriptInv' /\ Kept
      BY TranscriptStep
    <2>2. Shape(screen, Mode, Behind)
      BY Now
    <2>3. Shape(screen', Mode', Behind')
      BY <2>1 DEF TranscriptInv, Pair
    <2>4. Keeps(screen, Mode, screen', Mode') /\ Mode \in Modes /\ Mode' \in Modes
      BY <2>1, ModeTypes DEF Kept
    <2> QED BY <2>2, <2>3, <2>4, KeepsStatic
  <1> QED BY <1>1, TranscriptInvariant, PTL DEF TranscriptSpec, StaticOnlyGrows

=============================================================================
