--------------------------- MODULE RevisionProofs ---------------------------
(***************************************************************************)
(* The revision loop for every number of rounds, every set of problems and  *)
(* every score: it returns a build, texts and a review that belong together, *)
(* its kept draft follows the rule loop.py states, a rejected round leaves no *)
(* trace, and the ledger keeps its fates and says what the gates say.       *)
(*                                                                         *)
(* A rejected round is rolled back to a snapshot, so each invariant speaks  *)
(* of the running state and of the snapshot at once.                        *)
(***************************************************************************)
EXTENDS RevisionLoop, FiniteSetTheorems, SequenceTheorems, WellFoundedInduction, TLAPS

\* Blocker counts are numbers.
LEMMA BlockersAreNat ==
  ASSUME NEW b
  PROVE  Blockers(b) \in Nat
<1>1. IsFiniteSet(b.gates \intersect GateBlockers)
  BY LoopConstants, FS_Subset
<1>2. QED
  BY <1>1, FS_CardinalityType DEF Blockers

\* Where the loop is determines what the candidate and its review are.
CandidateInv ==
  /\ pc \in { "build", "sync", "panel", "findings", "settle", "decide", "done" }
  /\ round \in Nat
  /\ pc \in { "sync", "panel", "findings", "settle" } => cand.text = draft
  /\ pc = "sync" => candScore = NoReview /\ (round = 0 \/ Admissible(cand))
  /\ pc = "panel" => candScore = NoReview /\ Compiled(cand) /\ (round = 0 \/ Admissible(cand))
  /\ pc = "findings" => candScore # NoReview /\ Compiled(cand) /\ (round = 0 \/ Admissible(cand))
  /\ pc = "settle" => \/ candScore # NoReview /\ Compiled(cand)
                      \/ candScore = NoReview /\ ~Compiled(cand)
                      \/ round > 0 /\ ~Admissible(cand)
  /\ candScore \in Scores \union { NoReview }

\* What is kept belongs together, and a running round can be rolled back to it.
KeptInv ==
  /\ review \in Scores \union { NoReview }
  /\ round > 0 \/ Settled => current.text = best /\ (Compiled(current) <=> review # NoReview)
  /\ Settled => draft = best
  /\ round > 0 /\ ~Settled => saved.draft = best

LoopInv == CandidateInv /\ KeptInv

\* Nothing is kept before the first build.
LEMMA LoopInvInit == Init => LoopInv
  BY DEF Init, LoopInv, CandidateInv, KeptInv, Settled, NoReview

\* Steps inside a round leave what is kept alone.
LEMMA InsideRound ==
  ASSUME LoopInv, \/ Build \/ CloseGates \/ Panel \/ EndReview
                  \/ \E p \in GateProblems : ReportGate(p)
                  \/ \E p \in Critiques, severity \in Severities : Raise(p, severity)
  PROVE  /\ LoopInv'
         /\ UNCHANGED << current, review, best, round >>
         /\ ~Settled /\ ~Settled'
<1> USE DEF LoopInv, CandidateInv, KeptInv, Settled
<1>1. CASE Build
  <2>1. PICK gates \in SUBSET GateProblems, text \in { draft, Repaired(round) } :
          cand' = [text |-> text, gates |-> gates, waived |-> {}] /\ draft' = text /\ pc' = AfterBuild(cand')
    BY <1>1 DEF Build
  <2>2. UNCHANGED << current, review, best, round, saved >> /\ candScore' = NoReview /\ pc = "build"
    BY <1>1 DEF Build
  <2>3. cand'.text = draft'
    BY <2>1
  <2>4. Admissible(cand)' <=> Admissible(cand')
    BY <2>2 DEF Admissible, Compiled, Blockers
  <2>5. \/ pc' = "sync" /\ (round = 0 \/ Admissible(cand'))
        \/ pc' = "settle" /\ round # 0 /\ ~Admissible(cand')
    BY <2>1 DEF AfterBuild
  <2>6. CandidateInv'
    BY <2>2, <2>3, <2>4, <2>5
  <2>7. KeptInv'
    BY <2>2, <2>5 DEF Compiled
  <2>8. QED
    BY <2>2, <2>5, <2>6, <2>7
<1>2. ASSUME NEW p, ReportGate(p)
      PROVE  LoopInv' /\ UNCHANGED << current, review, best, round >> /\ ~Settled /\ ~Settled'
  BY <1>2 DEF ReportGate, Admissible, Compiled, Blockers
<1>3. CASE CloseGates
  BY <1>3 DEF CloseGates, Admissible, Compiled, Blockers
<1>4. CASE Panel
  <2>1. candScore' \in Scores /\ candScore' # NoReview
    BY <1>4, LoopConstants DEF Panel, NoReview
  <2>2. cand'.text = cand.text /\ cand'.gates = cand.gates
    BY <1>4 DEF Panel
  <2>3. Admissible(cand)' <=> Admissible(cand)
    BY <1>4, <2>2 DEF Panel, Admissible, Compiled, Blockers
  <2>4. Compiled(cand)' <=> Compiled(cand)
    BY <2>2 DEF Compiled
  <2>5. QED
    BY <1>4, <2>1, <2>2, <2>3, <2>4 DEF Panel, Compiled
<1>5. ASSUME NEW p, NEW severity, Raise(p, severity)
      PROVE  LoopInv' /\ UNCHANGED << current, review, best, round >> /\ ~Settled /\ ~Settled'
  BY <1>5 DEF Raise, Admissible, Compiled, Blockers
<1>6. CASE EndReview
  BY <1>6 DEF EndReview, Admissible, Compiled, Blockers
<1>7. QED
  BY <1>1, <1>2, <1>3, <1>4, <1>5, <1>6

\* The steps that settle a round, stop the loop or start a round.
LEMMA BetweenRounds ==
  ASSUME LoopInv, KeepFirst \/ Accept \/ Reject \/ Stop \/ Revise
  PROVE  LoopInv'
<1> USE DEF LoopInv, CandidateInv, KeptInv, Settled
<1>1. CASE KeepFirst
  BY <1>1 DEF KeepFirst, KeepCandidate, BestIsKept, EndRound, Compiled, NoReview
<1>2. CASE Accept
  BY <1>2 DEF Accept, Acceptable, KeepCandidate, BestIsKept, EndRound, Compiled, NoReview
<1>3. CASE Reject
  BY <1>3 DEF Reject, EndRound, Compiled, NoReview
<1>4. CASE Stop
  BY <1>4 DEF Stop, Compiled
<1>5. CASE Revise
  <2>1. UNCHANGED << current, review, best, candScore >> /\ saved'.draft = draft
        /\ pc = "decide" /\ pc' = "build" /\ round' = round + 1
    BY <1>5 DEF Revise
  <2>2. QED
    BY <2>1 DEF Compiled
<1>6. QED
  BY <1>1, <1>2, <1>3, <1>4, <1>5

\* Where the loop is, and what it keeps, hold throughout.
THEOREM LoopInvHolds == Spec => []LoopInv
<1>1. LoopInv /\ [Next]_vars => LoopInv'
  <2>1. ASSUME LoopInv, UNCHANGED vars PROVE LoopInv'
    BY <2>1 DEF vars, LoopInv, CandidateInv, KeptInv, Settled, Admissible, Compiled, Blockers
  <2>2. QED
    BY <2>1, InsideRound, BetweenRounds DEF Next, Step, Finished
<1>2. QED
  BY <1>1, LoopInvInit, PTL DEF Spec

\* The returned build was made from the returned texts and has a review exactly
\* when it compiled (RevisionLoop.run returns current, review and best_sections,
\* three variables updated in different places).
THEOREM KeptBelongsTogether == Spec => []KeptTogether
<1>1. LoopInv => KeptTogether
  BY DEF LoopInv, CandidateInv, KeptInv, KeptTogether, Settled
<1>2. QED
  BY <1>1, LoopInvHolds, PTL

-----------------------------------------------------------------------------
(* The refinement.                                                           *)

\* What is kept is a draft of the rule.
LEMMA KeptIsDraft ==
  ASSUME LoopInv
  PROVE  Kept \in Acceptance!Drafts
<1>1. review \in Nat
  BY LoopConstants DEF LoopInv, KeptInv, NoReview
<1>2. QED
  BY <1>1, BlockersAreNat DEF Kept, Acceptance!Drafts

\* An accepted candidate is better than the kept draft in the sense of the rule.
LEMMA AcceptReplaces ==
  ASSUME LoopInv, Accept
  PROVE  Acceptance!Replace
<1>1. /\ round > 0 /\ Admissible(cand) /\ HoldsScore /\ pc = "settle"
      /\ current' = cand /\ review' = candScore /\ round' = round
      /\ pc' = "decide"
  BY DEF Accept, Acceptable, KeepCandidate, EndRound
<1>2. LoopInv'
  BY BetweenRounds
<1>3. KeptDraft = Kept /\ KeptDraft' = Kept'
  BY <1>1 DEF KeptDraft, Settled, LoopInv, CandidateInv
<1>4. Kept' = [compiled |-> "yes", blockers |-> Blockers(cand), score |-> candScore]
  BY <1>1 DEF Kept, Admissible, Compiled, Blockers
<1>5. Kept' \in Acceptance!Drafts
  <2>1. candScore \in Nat
    BY LoopConstants DEF LoopInv, CandidateInv, NoReview
  <2>2. QED
    BY <1>4, <2>1, BlockersAreNat DEF Acceptance!Drafts
<1>6. candScore # NoReview
  BY <1>1 DEF LoopInv, CandidateInv, Admissible
<1>7. Acceptance!Better(Kept', Kept)
  <2>1. Kept'.compiled = "yes" /\ Kept'.blockers = Blockers(cand) /\ Kept'.score = candScore
    BY <1>4
  <2>2. CASE ~Compiled(current)
    BY <2>1, <2>2 DEF Kept, Acceptance!Better
  <2>3. CASE Compiled(current)
    <3>1. Blockers(cand) <= Blockers(current) /\ Blockers(cand) \in Nat /\ Blockers(current) \in Nat
      BY <1>1, <2>3, BlockersAreNat DEF Admissible
    <3>2. review # NoReview
      BY <1>1, <2>3 DEF LoopInv, CandidateInv, KeptInv
    <3>3. Blockers(cand) < Blockers(current) \/ candScore + Tolerance >= review
      BY <1>1, <1>6, <3>2 DEF HoldsScore
    <3>4. Kept.blockers = Blockers(current) /\ Kept.score = review
      BY DEF Kept
    <3>5. QED
      BY <2>1, <3>1, <3>3, <3>4 DEF Acceptance!Better
  <2>4. QED
    BY <2>2, <2>3
<1>8. Kept # Acceptance!NoDraft
  BY DEF Kept, Acceptance!NoDraft
<1>9. QED
  BY <1>3, <1>5, <1>7, <1>8 DEF Acceptance!Replace

\* The loop implements the rule loop.py states: every step keeps the draft or replaces
\* it by one the rule allows.
THEOREM FollowsTheRuleProved == Spec => FollowsTheRule
<1>1. Init => Acceptance!Init
  BY DEF Init, Acceptance!Init, Acceptance!NoDraft, KeptDraft, NoDraftYet, Settled
<1>2. LoopInv /\ [Next]_vars => [Acceptance!Next]_KeptDraft
  <2> SUFFICES ASSUME LoopInv, [Next]_vars PROVE [Acceptance!Next]_KeptDraft
    OBVIOUS
  <2>1. CASE \/ Build \/ CloseGates \/ Panel \/ EndReview
             \/ \E p \in GateProblems : ReportGate(p)
             \/ \E p \in Critiques, severity \in Severities : Raise(p, severity)
    <3>1. UNCHANGED << current, review, round >> /\ ~Settled /\ ~Settled'
      BY <2>1, InsideRound
    <3>2. QED
      BY <3>1 DEF KeptDraft, NoDraftYet, Kept, Compiled, Blockers
  <2>2. CASE KeepFirst
    <3>1. KeptDraft = Acceptance!NoDraft
      BY <2>2 DEF KeepFirst, KeptDraft, NoDraftYet, Acceptance!NoDraft, Settled
    <3>2. Settled'
      BY <2>2 DEF KeepFirst, EndRound, Settled
    <3>3. LoopInv'
      BY <2>2, BetweenRounds
    <3>4. KeptDraft' = Kept' /\ Kept' \in Acceptance!Drafts
      BY <3>2, <3>3, KeptIsDraft, LoopConstants, BlockersAreNat
      DEF KeptDraft, Kept, Acceptance!Drafts, LoopInv, KeptInv, NoReview
    <3>5. QED
      BY <3>1, <3>4 DEF Acceptance!Next, Acceptance!First
  <2>3. CASE Accept
    BY <2>3, AcceptReplaces DEF Acceptance!Next
  <2>4. CASE Reject
    <3>1. UNCHANGED << current, review, round >> /\ round > 0
      BY <2>4 DEF Reject
    <3>2. QED
      BY <3>1 DEF KeptDraft, Kept, Compiled, Blockers, LoopInv, CandidateInv
  <2>5. CASE Stop \/ Revise
    <3>1. UNCHANGED << current, review >> /\ Settled /\ (Settled' \/ round' = round + 1)
      BY <2>5 DEF Stop, Revise, Settled
    <3>2. QED
      BY <3>1 DEF KeptDraft, Kept, Compiled, Blockers, LoopInv, CandidateInv
  <2>6. CASE UNCHANGED vars
    BY <2>6 DEF vars, KeptDraft, NoDraftYet, Kept, Compiled, Blockers, Settled
  <2>7. QED
    BY <2>1, <2>2, <2>3, <2>4, <2>5, <2>6 DEF Next, Step, Finished
<1>3. QED
  BY <1>1, <1>2, LoopInvHolds, PTL DEF Spec, FollowsTheRule, Acceptance!Spec

-----------------------------------------------------------------------------
(* The ledger's operations.                                                  *)

\* What any operation of round r makes of a ledger: old entries keep what they are and,
\* once closed, their fate; a new one repeats no open one.
Grows(L, M, r) ==
  /\ M \in Seq(Entry) /\ DOMAIN L \subseteq DOMAIN M
  /\ \A i \in DOMAIN L :
       /\ M[i].kind = L[i].kind /\ M[i].problem = L[i].problem /\ M[i].opened = L[i].opened
       /\ M[i].response \in { L[i].response, r }
       /\ M[i].status = L[i].status \/ L[i].status = "open"
  /\ \A i \in DOMAIN M \ DOMAIN L :
       /\ M[i].opened = r /\ M[i].response = 0
       /\ \A j \in Open(M) : M[j].kind = M[i].kind /\ M[j].problem = M[i].problem => i = j

\* The problems of the open gate entries.
GatesOf(L) == { L[i].problem : i \in { j \in Open(L) : L[j].kind = "gate" } }
WaivedOf(L, rulings) ==
  { L[i].problem : i \in { j \in Open(L) : L[j].kind = "gate" /\ rulings[j] # "open" } }
OncePerProblem(L) ==
  \A i, j \in Open(L) : L[i].kind = L[j].kind /\ L[i].problem = L[j].problem => i = j

\* No operation gives a problem a second open entry.
LEMMA GrowsKeepsOnce ==
  ASSUME NEW L, NEW M, NEW r, Grows(L, M, r), OncePerProblem(L)
  PROVE  OncePerProblem(M)
<1> SUFFICES ASSUME NEW i \in Open(M), NEW j \in Open(M), M[i].kind = M[j].kind, M[i].problem = M[j].problem
             PROVE  i = j
  BY DEF OncePerProblem
<1>1. CASE i \in DOMAIN L /\ j \in DOMAIN L
  BY <1>1 DEF Grows, OncePerProblem, Open
<1>2. CASE i \notin DOMAIN L \/ j \notin DOMAIN L
  BY <1>2 DEF Grows, Open
<1> QED BY <1>1, <1>2

\* A ledger whose entries are replaced one for one.
LEMMA EntryForEntry ==
  ASSUME NEW L \in Seq(Entry), NEW M, M \in [DOMAIN L -> Entry], NEW r,
         \A i \in DOMAIN L :
           /\ M[i].kind = L[i].kind /\ M[i].problem = L[i].problem /\ M[i].opened = L[i].opened
           /\ M[i].response \in { L[i].response, r }
           /\ M[i].status = L[i].status \/ L[i].status = "open"
  PROVE  Grows(L, M, r)
<1>1. DOMAIN L = 1..Len(L) /\ Len(L) \in Nat
  OBVIOUS
<1>2. M \in Seq(Entry)
  BY <1>1, SeqDef
<1>3. DOMAIN M = DOMAIN L
  OBVIOUS
<1> QED BY <1>2, <1>3 DEF Grows

\* The end of sync_gate_findings closes the silent gates and no other.
LEMMA SilentGrows ==
  ASSUME NEW L \in Seq(Entry), NEW reported, NEW r
  PROVE  /\ Grows(L, CloseSilentGates(L, reported), r)
         /\ GatesOf(CloseSilentGates(L, reported)) = GatesOf(L) \intersect reported
<1> DEFINE M == CloseSilentGates(L, reported)
           Silent(i) == L[i].kind = "gate" /\ L[i].status = "open" /\ L[i].problem \notin reported
<1>1. \A i \in DOMAIN L : L[i] \in Entry
  OBVIOUS
<1>2. \A e \in Entry : /\ [e EXCEPT !.status = "resolved"] \in Entry
                       /\ [e EXCEPT !.status = "resolved"].kind = e.kind
                       /\ [e EXCEPT !.status = "resolved"].problem = e.problem
                       /\ [e EXCEPT !.status = "resolved"].opened = e.opened
                       /\ [e EXCEPT !.status = "resolved"].response = e.response
                       /\ [e EXCEPT !.status = "resolved"].status = "resolved"
  BY DEF Entry, Statuses
<1>3. DOMAIN M = DOMAIN L /\ \A i \in DOMAIN L : M[i] = IF Silent(i) THEN [L[i] EXCEPT !.status = "resolved"] ELSE L[i]
  BY DEF CloseSilentGates
<1>4. M \in [DOMAIN L -> Entry]
  BY <1>1, <1>2 DEF CloseSilentGates
<1>a. ASSUME NEW i \in DOMAIN L
      PROVE  /\ M[i].kind = L[i].kind /\ M[i].problem = L[i].problem /\ M[i].opened = L[i].opened
             /\ M[i].response \in { L[i].response, r }
             /\ M[i].status = L[i].status \/ L[i].status = "open"
  <2> HIDE DEF M, Silent
  <2>1. CASE Silent(i)
    <3>1. M[i] = [L[i] EXCEPT !.status = "resolved"] /\ L[i] \in Entry
      BY <1>1, <1>3, <2>1
    <3>2. L[i].status = "open"
      BY <2>1 DEF Silent
    <3> QED BY <1>2, <3>1, <3>2
  <2>2. CASE ~Silent(i)
    <3>1. M[i] = L[i]
      BY <1>3, <2>2
    <3> QED BY <3>1
  <2> QED BY <2>1, <2>2
<1> HIDE DEF M
<1>5. Grows(L, M, r)
  <2> HIDE DEF Silent
  <2> QED BY <1>4, <1>a, EntryForEntry
<1>6. \A i \in DOMAIN L : i \in Open(M) /\ M[i].kind = "gate"
                            <=> i \in Open(L) /\ L[i].kind = "gate" /\ L[i].problem \in reported
  BY <1>1, <1>2, <1>3 DEF Open
<1>7. ASSUME NEW i \in DOMAIN L PROVE M[i].problem = L[i].problem
  BY <1>a
<1>8. GatesOf(M) = GatesOf(L) \intersect reported
  BY <1>3, <1>6, <1>7 DEF GatesOf, Open
<1> QED BY <1>5, <1>8 DEF M

\* Rulings close the open entries they name, the gates' included.
LEMMA RulingsGrow ==
  ASSUME NEW L \in Seq(Entry), NEW rulings \in [Open(L) -> { "open", "resolved", "wontfix" }], NEW r
  PROVE  /\ Grows(L, ApplyRulings(L, rulings), r)
         /\ OncePerProblem(L) => GatesOf(ApplyRulings(L, rulings)) = GatesOf(L) \ WaivedOf(L, rulings)
<1> DEFINE M == ApplyRulings(L, rulings)
<1>1. \A i \in DOMAIN L : L[i] \in Entry
  OBVIOUS
<1>2. \A e \in Entry, s \in Statuses : /\ [e EXCEPT !.status = s] \in Entry
                       /\ [e EXCEPT !.status = s].kind = e.kind
                       /\ [e EXCEPT !.status = s].problem = e.problem
                       /\ [e EXCEPT !.status = s].opened = e.opened
                       /\ [e EXCEPT !.status = s].response = e.response
                       /\ [e EXCEPT !.status = s].status = s
  BY DEF Entry, Statuses
<1>d. DOMAIN rulings = Open(L) /\ DOMAIN M = DOMAIN L
  BY DEF ApplyRulings
<1>e. ASSUME NEW i \in DOMAIN L
      PROVE  IF i \in Open(L) THEN M[i] = [L[i] EXCEPT !.status = rulings[i]] ELSE M[i] = L[i]
  BY <1>d DEF ApplyRulings, Open
<1>3. /\ DOMAIN M = DOMAIN L
      /\ \A i \in DOMAIN L : IF i \in Open(L) THEN M[i] = [L[i] EXCEPT !.status = rulings[i]]
                                              ELSE M[i] = L[i]
  <2> HIDE DEF M
  <2> QED BY <1>d, <1>e
<1>s. ASSUME NEW i \in Open(L) PROVE rulings[i] \in Statuses
  BY DEF Statuses
<1>4. \A i \in DOMAIN L :
        /\ M[i] \in Entry /\ M[i].kind = L[i].kind /\ M[i].problem = L[i].problem
        /\ M[i].opened = L[i].opened /\ M[i].response = L[i].response
        /\ IF i \in Open(L) THEN M[i].status = rulings[i] ELSE M[i].status = L[i].status
  <2> SUFFICES ASSUME NEW i \in DOMAIN L
               PROVE  /\ M[i] \in Entry /\ M[i].kind = L[i].kind /\ M[i].problem = L[i].problem
                      /\ M[i].opened = L[i].opened /\ M[i].response = L[i].response
                      /\ IF i \in Open(L) THEN M[i].status = rulings[i] ELSE M[i].status = L[i].status
    OBVIOUS
  <2> HIDE DEF M
  <2>1. CASE i \notin Open(L)
    BY <1>1, <1>3, <2>1
  <2>2. CASE i \in Open(L)
    <3>1. M[i] = [L[i] EXCEPT !.status = rulings[i]] /\ rulings[i] \in Statuses /\ L[i] \in Entry
      BY <1>1, <1>3, <1>s, <2>2
    <3> QED BY <1>2, <2>2, <3>1
  <2> QED BY <2>1, <2>2
<1>5. M \in [DOMAIN L -> Entry]
  BY <1>4 DEF ApplyRulings
<1> HIDE DEF M
<1>6. Grows(L, M, r)
  BY <1>4, <1>5, EntryForEntry DEF Open
<1>7. \A i \in DOMAIN L : i \in Open(M) /\ M[i].kind = "gate"
                            <=> i \in Open(L) /\ L[i].kind = "gate" /\ rulings[i] = "open"
  BY <1>4, <1>3 DEF Open
<1>8. Open(M) \subseteq DOMAIN L /\ \A i \in DOMAIN L : M[i].problem = L[i].problem
  BY <1>3, <1>4 DEF Open
<1>9. ASSUME OncePerProblem(L) PROVE GatesOf(M) = GatesOf(L) \ WaivedOf(L, rulings)
  <2>1. ASSUME NEW p \in GatesOf(M) PROVE p \in GatesOf(L) /\ p \notin WaivedOf(L, rulings)
    <3>1. PICK i \in Open(M) : M[i].kind = "gate" /\ M[i].problem = p
      BY <2>1 DEF GatesOf
    <3>2. i \in Open(L) /\ L[i].kind = "gate" /\ rulings[i] = "open" /\ L[i].problem = p
      BY <1>7, <1>8, <3>1
    <3>3. ASSUME NEW j \in Open(L), L[j].kind = "gate", L[j].problem = p PROVE i = j
      BY <1>9, <3>2, <3>3 DEF OncePerProblem
    <3> QED BY <3>2, <3>3 DEF GatesOf, WaivedOf
  <2>2. ASSUME NEW p \in GatesOf(L), p \notin WaivedOf(L, rulings) PROVE p \in GatesOf(M)
    <3>1. PICK i \in Open(L) : L[i].kind = "gate" /\ L[i].problem = p
      BY DEF GatesOf
    <3>2. rulings[i] = "open"
      BY <2>2, <3>1 DEF WaivedOf
    <3>3. i \in Open(M) /\ M[i].kind = "gate" /\ M[i].problem = p
      BY <1>7, <1>8, <3>1, <3>2 DEF Open
    <3> QED BY <3>3 DEF GatesOf
  <2> QED BY <2>1, <2>2
<1> QED BY <1>6, <1>9 DEF M

\* Responses close nothing.
LEMMA ResponsesGrow ==
  ASSUME NEW L \in Seq(Entry), NEW ids, NEW r \in Nat
  PROVE  /\ Grows(L, RecordResponses(L, ids, r), r)
         /\ GatesOf(RecordResponses(L, ids, r)) = GatesOf(L)
<1> DEFINE M == RecordResponses(L, ids, r)
<1>1. \A i \in DOMAIN L : L[i] \in Entry
  OBVIOUS
<1>2. \A e \in Entry : /\ [e EXCEPT !.response = r] \in Entry
                       /\ [e EXCEPT !.response = r].kind = e.kind
                       /\ [e EXCEPT !.response = r].problem = e.problem
                       /\ [e EXCEPT !.response = r].opened = e.opened
                       /\ [e EXCEPT !.response = r].response = r
                       /\ [e EXCEPT !.response = r].status = e.status
  BY DEF Entry
<1>3. DOMAIN M = DOMAIN L /\ \A i \in DOMAIN L : M[i] = L[i] \/ M[i] = [L[i] EXCEPT !.response = r]
  BY DEF RecordResponses
<1>4. M \in [DOMAIN L -> Entry]
  BY <1>1, <1>2 DEF RecordResponses
<1> HIDE DEF M
<1>5. \A i \in DOMAIN L : /\ M[i].status = L[i].status /\ M[i].kind = L[i].kind
                          /\ M[i].problem = L[i].problem /\ M[i].opened = L[i].opened
                          /\ M[i].response = L[i].response \/ M[i].response = r
  <2> SUFFICES ASSUME NEW i \in DOMAIN L
               PROVE  /\ M[i].status = L[i].status /\ M[i].kind = L[i].kind
                      /\ M[i].problem = L[i].problem /\ M[i].opened = L[i].opened
                      /\ M[i].response = L[i].response \/ M[i].response = r
    OBVIOUS
  <2>1. CASE M[i] = L[i]
    BY <2>1
  <2>2. CASE M[i] = [L[i] EXCEPT !.response = r]
    BY <1>1, <1>2, <2>2
  <2> QED BY <1>3, <2>1, <2>2
<1>6. Grows(L, M, r)
  BY <1>4, <1>5, EntryForEntry
<1>7. GatesOf(M) = GatesOf(L)
  BY <1>3, <1>5 DEF GatesOf, Open
<1> QED BY <1>6, <1>7 DEF M

\* Marks change neither fates nor responses.
LEMMA MarksGrow ==
  ASSUME NEW L \in Seq(Entry), NEW ids, NEW mark \in Marks, NEW r
  PROVE  /\ Grows(L, MarkRevision(L, ids, mark), r)
         /\ GatesOf(MarkRevision(L, ids, mark)) = GatesOf(L)
         /\ \A i \in DOMAIN L : MarkRevision(L, ids, mark)[i].response = L[i].response
<1> DEFINE M == MarkRevision(L, ids, mark)
<1>1. \A i \in DOMAIN L : L[i] \in Entry
  OBVIOUS
<1>2. \A e \in Entry : /\ [e EXCEPT !.mark = mark] \in Entry
                       /\ [e EXCEPT !.mark = mark].kind = e.kind
                       /\ [e EXCEPT !.mark = mark].problem = e.problem
                       /\ [e EXCEPT !.mark = mark].opened = e.opened
                       /\ [e EXCEPT !.mark = mark].response = e.response
                       /\ [e EXCEPT !.mark = mark].status = e.status
  BY DEF Entry
<1>3. DOMAIN M = DOMAIN L /\ \A i \in DOMAIN L : M[i] = L[i] \/ M[i] = [L[i] EXCEPT !.mark = mark]
  BY DEF MarkRevision
<1>4. M \in [DOMAIN L -> Entry]
  BY <1>1, <1>2 DEF MarkRevision
<1> HIDE DEF M
<1>5. Grows(L, M, r)
  <2>1. ASSUME NEW i \in DOMAIN L
        PROVE  /\ M[i].kind = L[i].kind /\ M[i].problem = L[i].problem /\ M[i].opened = L[i].opened
               /\ M[i].response \in { L[i].response, r }
               /\ M[i].status = L[i].status \/ L[i].status = "open"
    BY <1>1, <1>2, <1>3
  <2> QED BY <1>4, <2>1, EntryForEntry
<1>6. \A i \in DOMAIN L : /\ M[i].status = L[i].status /\ M[i].kind = L[i].kind
                          /\ M[i].problem = L[i].problem /\ M[i].response = L[i].response
  BY <1>1, <1>2, <1>3
<1>7. GatesOf(M) = GatesOf(L)
  BY <1>3, <1>6 DEF GatesOf, Open
<1> QED BY <1>5, <1>6, <1>7 DEF M

\* A new entry that repeats no open one.
LEMMA AppendGrows ==
  ASSUME NEW L \in Seq(Entry), NEW e \in Entry, NEW r, e.opened = r, e.response = 0,
         Matching(L, e.kind, e.problem) = {}
  PROVE  /\ Grows(L, Append(L, e), r)
         /\ GatesOf(Append(L, e)) = GatesOf(L) \union (IF e.kind = "gate" /\ e.status = "open" THEN { e.problem } ELSE {})
<1> DEFINE M == Append(L, e)
           n == Len(L) + 1
<1>1. M \in Seq(Entry) /\ DOMAIN L = 1..Len(L) /\ Len(L) \in Nat
  OBVIOUS
<1>2. DOMAIN M = DOMAIN L \union { n } /\ n \notin DOMAIN L /\ M[n] = e /\ \A i \in DOMAIN L : M[i] = L[i]
  BY <1>1
<1> HIDE DEF M, n
<1>3. Grows(L, M, r)
  BY <1>1, <1>2 DEF Grows, Matching, Open
<1>4. Open(M) = Open(L) \union (IF e.status = "open" THEN { n } ELSE {})
  BY <1>2 DEF Open
<1>5. GatesOf(M) = GatesOf(L) \union (IF e.kind = "gate" /\ e.status = "open" THEN { e.problem } ELSE {})
  BY <1>2, <1>4 DEF GatesOf, Open
<1> QED BY <1>3, <1>5 DEF M

\* A new entry is one, and open.
LEMMA NewEntries ==
  ASSUME NEW kind \in { "gate", "panel" }, NEW problem \in GateProblems \union Critiques,
         NEW severity \in { Blocker, Major, Minor }, NEW r \in Nat
  PROVE  LET e == NewEntry(kind, problem, severity, r)
         IN  /\ e \in Entry /\ e.kind = kind /\ e.problem = problem /\ e.opened = r /\ e.response = 0
             /\ e.status = "open"
BY DEF NewEntry, Entry, Statuses, Marks

\* A reported problem gets its entry.
LEMMA GateGrows ==
  ASSUME NEW L \in Seq(Entry), NEW p \in GateProblems, NEW r \in Nat, Matching(L, "gate", p) = {}
  PROVE  Grows(L, AddGate(L, p, r), r) /\ GatesOf(AddGate(L, p, r)) = GatesOf(L) \union { p }
<1> DEFINE e == NewEntry("gate", p, IF p \in GateBlockers THEN Blocker ELSE Major, r)
<1>1. e \in Entry /\ e.kind = "gate" /\ e.problem = p /\ e.opened = r /\ e.response = 0 /\ e.status = "open"
  BY NewEntries
<1>2. AddGate(L, p, r) = Append(L, e)
  BY DEF AddGate
<1> HIDE DEF e
<1> QED BY <1>1, <1>2, AppendGrows

\* The first of the entries a critique repeats.
LEMMA FirstOf ==
  ASSUME NEW S \in SUBSET Nat, S # {}
  PROVE  (CHOOSE i \in S : \A j \in S : i <= j) \in S
<1>1. PICK x \in S : \A y \in S : ~(<<y, x>> \in OpToRel(<, Nat))
  BY NatLessThanWellFounded, WFMin
<1>2. \A y \in S : x <= y
  <2> SUFFICES ASSUME NEW y \in S PROVE x <= y
    OBVIOUS
  <2>1. ~(y < x)
    BY <1>1, Zenon DEF OpToRel
  <2> QED BY <2>1
<1> QED BY <1>2

\* A critique leaves the gates' entries alone.
LEMMA CritiqueGrows ==
  ASSUME NEW L \in Seq(Entry), NEW p \in Critiques, NEW severity \in Severities, NEW r \in Nat
  PROVE  Grows(L, AddCritique(L, p, severity, r), r) /\ GatesOf(AddCritique(L, p, severity, r)) = GatesOf(L)
<1> DEFINE same == Matching(L, "panel", p)
           first == CHOOSE i \in same : \A j \in same : i <= j
           M == AddCritique(L, p, severity, r)
<1>0. severity \in { Blocker, Major, Minor }
  BY LedgerConstants
<1>1. CASE same = {}
  <2> DEFINE e == NewEntry("panel", p, severity, r)
  <2>1. e \in Entry /\ e.kind = "panel" /\ e.problem = p /\ e.opened = r /\ e.response = 0
    BY <1>0, NewEntries
  <2>2. M = Append(L, e)
    BY <1>1 DEF AddCritique
  <2> HIDE DEF e, M
  <2>3. Matching(L, e.kind, e.problem) = {}
    BY <1>1, <2>1
  <2>4. Grows(L, Append(L, e), r) /\ GatesOf(Append(L, e)) = GatesOf(L)
    <3> HIDE DEF same, first
    <3>1. /\ Grows(L, Append(L, e), r)
          /\ GatesOf(Append(L, e)) = GatesOf(L) \union (IF e.kind = "gate" /\ e.status = "open" THEN { e.problem } ELSE {})
      BY <2>1, <2>3, AppendGrows
    <3> QED BY <2>1, <3>1
  <2>5. Grows(L, M, r) /\ GatesOf(M) = GatesOf(L)
    BY <2>2, <2>4, Zenon
  <2> QED BY <2>5 DEF M
<1>2. CASE same # {}
  <2>0. same \in SUBSET Nat
    BY DEF Matching, Open
  <2> HIDE DEF same
  <2>1. first \in same
    BY <1>2, <2>0, FirstOf
  <2>2. first \in DOMAIN L /\ L[first] \in Entry /\ L[first].status = "open" /\ L[first].kind = "panel"
    BY <2>1 DEF same, Matching, Open
  <2>3. M = [L EXCEPT ![first] = Reflag(@, severity)]
    BY <1>2 DEF AddCritique, same
  <2> HIDE DEF first, M
  <2> DEFINE e == L[first]
             f == Reflag(e, severity)
  <2>4. f \in Entry /\ f.kind = e.kind /\ f.problem = e.problem /\ f.opened = e.opened /\ f.response = e.response
    <3> DEFINE worse == IF severity < e.severity THEN severity ELSE e.severity
               fate == IF OverCap(e.reflags + 1) THEN "unaddressed" ELSE e.status
    <3>1. worse \in { Blocker, Major, Minor } /\ fate \in Statuses
      BY <1>0, <2>2 DEF Entry, Statuses
    <3>2. f = [e EXCEPT !.reflags = @ + 1, !.severity = worse, !.status = fate]
      BY DEF Reflag
    <3> HIDE DEF worse, fate, f
    <3>3. e \in Entry /\ e.reflags + 1 \in Nat
      BY <2>2 DEF Entry
    <3> HIDE DEF e
    <3> QED BY <3>1, <3>2, <3>3 DEF Entry
  <2> HIDE DEF f
  <2>5. M \in [DOMAIN L -> Entry] /\ M[first] = f /\ \A i \in DOMAIN L : i # first => M[i] = L[i]
    BY <2>2, <2>3, <2>4 DEF f
  <2>6. Grows(L, M, r)
    BY <2>2, <2>4, <2>5, EntryForEntry
  <2>7. \A i \in DOMAIN L : i \in Open(M) /\ M[i].kind = "gate" <=> i \in Open(L) /\ L[i].kind = "gate"
    BY <2>2, <2>4, <2>5 DEF Open
  <2>8. DOMAIN M = DOMAIN L /\ \A i \in DOMAIN L : M[i].problem = L[i].problem
    BY <2>4, <2>5
  <2>9. GatesOf(M) = GatesOf(L)
    BY <2>7, <2>8 DEF GatesOf, Open
  <2> QED BY <2>6, <2>9 DEF M
<1> QED BY <1>1, <1>2

-----------------------------------------------------------------------------
(* Types.                                                                    *)

Snapshot == [ledger : Seq(Entry), draft : Nat, removed : Nat, conv : Seq(Nat)]

\* An operation of one round, or none.
Inside == \/ Build \/ CloseGates \/ Panel \/ EndReview
          \/ \E p \in GateProblems : ReportGate(p)
          \/ \E p \in Critiques, severity \in Severities : Raise(p, severity)
InRound == round > 0 /\ ~Settled

\* No operation at all.
LEMMA SameLedger ==
  ASSUME NEW L \in Seq(Entry), NEW r
  PROVE  Grows(L, L, r)
BY DEF Grows

\* What each step makes of the ledger: a roll-back starts from the snapshot.
LEMMA LedgerMoves ==
  ASSUME TypeOK, [Next]_vars
  PROVE  IF Reject THEN Grows(saved.ledger, ledger', round) ELSE Grows(ledger, ledger', round')
<1> USE DEF TypeOK
<1>0. ledger \in Seq(Entry) /\ round \in Nat /\ saved.ledger \in Seq(Entry)
  BY LoopConstants
<1>1. ASSUME NEW p \in GateProblems, ReportGate(p) PROVE Grows(ledger, ledger', round')
  BY <1>0, <1>1, GateGrows DEF ReportGate
<1>2. ASSUME CloseGates PROVE Grows(ledger, ledger', round')
  BY <1>0, <1>2, SilentGrows DEF CloseGates
<1>3. ASSUME Panel PROVE Grows(ledger, ledger', round')
  <2>1. PICK rulings \in [Open(ledger) -> { "open", "resolved", "wontfix" }] :
          ledger' = ApplyRulings(ledger, rulings)
    BY <1>3 DEF Panel
  <2> QED BY <1>0, <1>3, <2>1, RulingsGrow DEF Panel
<1>4. ASSUME NEW p \in Critiques, NEW severity \in Severities, Raise(p, severity)
      PROVE  Grows(ledger, ledger', round')
  BY <1>0, <1>4, CritiqueGrows DEF Raise
<1>5. ASSUME Accept PROVE Grows(ledger, ledger', round')
  <2>1. ledger' = MarkRevision(ledger, touched, "accepted") /\ "accepted" \in Marks
    BY <1>5 DEF Accept, Marks
  <2> QED BY <1>0, <2>1, MarksGrow
<1>6. ASSUME Revise PROVE Grows(ledger, ledger', round')
  <2>1. round' = round + 1 /\ \E answered : ledger' = RecordResponses(ledger, answered, round')
    BY <1>6 DEF Revise
  <2> QED BY <1>0, <2>1, ResponsesGrow
<1>7. ASSUME Build \/ EndReview \/ KeepFirst \/ Stop \/ UNCHANGED vars PROVE Grows(ledger, ledger', round')
  <2>1. ledger' = ledger
    BY <1>7 DEF Build, EndReview, KeepFirst, Stop, vars
  <2> QED BY <1>0, <2>1, SameLedger
<1>8. ASSUME Reject PROVE Grows(saved.ledger, ledger', round)
  <2>1. ledger' = MarkRevision(saved.ledger, touched, "rejected") /\ "rejected" \in Marks
    BY <1>8 DEF Reject, RestoreLedger, Marks
  <2> QED BY <1>0, <1>8, <2>1, MarksGrow
<1>9. Reject => ~(Accept \/ Revise \/ KeepFirst \/ Stop \/ Build \/ EndReview \/ CloseGates \/ Panel
                  \/ (\E p \in GateProblems : ReportGate(p))
                  \/ (\E p \in Critiques, severity \in Severities : Raise(p, severity)))
  BY DEF Reject, Accept, Revise, KeepFirst, Stop, Build, EndReview, CloseGates, Panel, ReportGate, Raise
<1> QED BY <1>1, <1>2, <1>3, <1>4, <1>5, <1>6, <1>7, <1>8, <1>9 DEF Next, Step, Finished

\* While a round runs, what is kept and what it can be rolled back to stays.
LEMMA RoundKeeps ==
  ASSUME LoopInv, Inside
  PROVE  /\ UNCHANGED << saved, current, best, review, round, rejected, fates >>
         /\ ~Settled /\ ~Settled'
<1>1. UNCHANGED << current, review, best, round >> /\ ~Settled /\ ~Settled'
  BY InsideRound DEF Inside
<1>2. UNCHANGED << saved, rejected, fates >>
  BY DEF Inside, Build, CloseGates, Panel, EndReview, ReportGate, Raise
<1> QED BY <1>1, <1>2

\* A step works inside a round or between two.
LEMMA Steps ==
  ASSUME [Next]_vars
  PROVE  Inside \/ KeepFirst \/ Accept \/ Reject \/ Stop \/ Revise \/ UNCHANGED vars
BY DEF Next, Step, Finished, Inside

\* The types are inductive.
LEMMA TypeStep == TypeOK /\ LoopInv /\ [Next]_vars => TypeOK'
<1> SUFFICES ASSUME TypeOK, LoopInv, [Next]_vars PROVE TypeOK'
  OBVIOUS
<1> USE DEF TypeOK
<1>0. round \in Nat /\ Scores \subseteq Nat
  BY LoopConstants
<1>1. ledger' \in Seq(Entry)
  BY LedgerMoves DEF Grows
<1>2. CASE Inside
  <2>1. UNCHANGED << saved, current, best, review, round, rejected, fates >>
    BY <1>2, RoundKeeps
  <2>2. /\ pc' \in { "build", "sync", "panel", "findings", "settle", "decide", "done" }
        /\ candScore' \in Scores \union { NoReview }
    BY <1>2, InsideRound DEF Inside, LoopInv, CandidateInv
  <2>3. /\ draft' \in Nat /\ conv' \in Seq(Nat) /\ cand' \in Builds
    <3>1. CASE Build
      <4>1. Repaired(round) \in Nat
        BY <1>0 DEF Repaired
      <4>2. PICK gates \in SUBSET GateProblems, text \in { draft, Repaired(round) } :
              /\ cand' = [text |-> text, gates |-> gates, waived |-> {}] /\ draft' = text
              /\ conv' = IF text = draft THEN conv ELSE Append(conv, text)
        BY <3>1 DEF Build
      <4> QED BY <4>1, <4>2 DEF Builds
    <3>2. CASE Panel
      <4>1. PICK rulings \in [Open(ledger) -> { "open", "resolved", "wontfix" }] :
              cand' = [text |-> cand.text, gates |-> cand.gates, waived |-> Waived(rulings)]
        BY <3>2 DEF Panel
      <4>2. ASSUME NEW i \in Open(ledger) PROVE ledger[i].problem \in GateProblems \union Critiques
        <5>1. ledger \in Seq(Entry) /\ i \in DOMAIN ledger
          BY DEF Open
        <5>2. ledger[i] \in Entry
          BY <5>1
        <5> QED BY <5>2 DEF Entry
      <4>3. Waived(rulings) \subseteq GateProblems \union Critiques
        BY <4>2 DEF Waived
      <4>4. draft' = draft /\ conv' = conv
        BY <3>2 DEF Panel
      <4> QED BY <4>1, <4>3, <4>4 DEF Builds
    <3> QED BY <1>2, <3>1, <3>2 DEF Inside, CloseGates, EndReview, ReportGate, Raise
  <2>4. raised' \in 0..MaxRaised
    <3>1. raised' = raised \/ raised' = 0 \/ (raised < MaxRaised /\ raised' = raised + 1)
      BY <1>2 DEF Inside, Build, CloseGates, Panel, EndReview, ReportGate, Raise
    <3> QED BY <3>1, LoopConstants
  <2>5. admitted' \subseteq Requestable \X Nat
    <3>1. CASE Panel
      <4>1. PICK asked \in SUBSET (Requestable \ { a[1] : a \in admitted }) :
              admitted' = admitted \union { << paper, round >> : paper \in asked }
        BY <3>1 DEF Panel
      <4> QED BY <1>0, <4>1
    <3>2. CASE ~Panel
      <4>1. admitted' = admitted
        BY <1>2, <3>2 DEF Inside, Build, CloseGates, EndReview, ReportGate, Raise
      <4> QED BY <4>1
    <3> QED BY <3>1, <3>2
  <2>6. UNCHANGED << plateau, removed, touched, why, peak >>
    BY <1>2 DEF Inside, Build, CloseGates, Panel, EndReview, ReportGate, Raise
  <2> QED BY <1>1, <2>1, <2>2, <2>3, <2>4, <2>5, <2>6
<1>3. CASE KeepFirst \/ Accept \/ Reject
  <2>1. /\ pc' = "decide" /\ touched' = {} /\ raised' = 0 /\ cand' = NoBuild /\ candScore' = NoReview
        /\ saved' = Nothing /\ UNCHANGED << round, admitted, why >>
    BY <1>3 DEF KeepFirst, Accept, Reject, EndRound
  <2>2. NoBuild \in Builds /\ Nothing \in Snapshot /\ 0 \in 0..MaxRaised
    BY LoopConstants DEF NoBuild, Builds, Nothing, Snapshot, Original
  <2>3. plateau' \in Nat /\ rejected' \subseteq Nat /\ peak' \in Nat
    <3>1. plateau' \in { 0, plateau, plateau + 1 } /\ rejected' \in { rejected, rejected \union { round } }
      BY <1>3 DEF KeepFirst, Accept, Reject
    <3>2. peak' \in { peak, candScore }
      BY <1>3 DEF KeepFirst, Accept, Reject, KeepCandidate
    <3>3. \A n \in { 0, plateau, plateau + 1 } : n \in Nat
      OBVIOUS
    <3>4. candScore \in Nat
      BY <1>0 DEF NoReview
    <3> QED BY <1>0, <3>1, <3>2, <3>3, <3>4
  <2>4. current' \in Builds /\ review' \in Scores \union { NoReview } /\ best' \in Nat
    BY <1>3 DEF KeepFirst, Accept, Reject, KeepCandidate, BestIsKept
  <2>5. draft' \in Nat /\ removed' \in Nat /\ conv' \in Seq(Nat)
    BY <1>3 DEF KeepFirst, Accept, Reject, RollBackConversation
  <2> QED BY <1>1, <2>1, <2>2, <2>3, <2>4, <2>5 DEF Snapshot
<1>4. CASE Stop
  <2>1. why' = Verdict /\ pc' = "done" /\ draft' = best
        /\ UNCHANGED << round, plateau, ledger, removed, conv, cand, candScore, current, review, best,
                  saved, touched, raised, admitted, rejected, fates, peak >>
    BY <1>4 DEF Stop
  <2>2. Verdict \in { "none", "limit", "target", "plateau", "nothing" }
    BY DEF Verdict
  <2> QED BY <2>1, <2>2
<1>5. CASE Revise
  <2>1. /\ round' = round + 1 /\ touched' = Selected(ledger) /\ pc' = "build" /\ Verdict = "none"
        /\ saved' = [ledger |-> ledger, draft |-> draft, removed |-> removed, conv |-> conv]
        /\ conv' = Append(conv, Revised(round'))
        /\ UNCHANGED << plateau, cand, candScore, current, review, best, raised, admitted, why,
                  rejected, fates, peak >>
    BY <1>5 DEF Revise
  <2>2. Revised(round') \in Nat
    BY <1>0, <2>1 DEF Revised
  <2>3. draft' \in Nat /\ removed' \in Nat
    BY <1>5, <2>2 DEF Revise
  <2>4. round' \in 0..MaxRounds
    BY <2>1, LoopConstants DEF Verdict, LimitReached
  <2>5. touched' \subseteq Nat
    BY <2>1 DEF Selected, Open
  <2> QED BY <1>1, <2>1, <2>2, <2>3, <2>4, <2>5
<1>6. CASE UNCHANGED vars
  BY <1>6 DEF vars
<1> QED BY <1>2, <1>3, <1>4, <1>5, <1>6, Steps

\* Every reachable state is well typed, next to the invariant of the loop.
THEOREM TypeCorrect == Spec => [](TypeOK /\ LoopInv)
<1>1. Init => TypeOK
  BY LoopConstants DEF Init, TypeOK, NoBuild, Builds, Nothing, Original, NoReview
<1> QED BY <1>1, TypeStep, LoopInvHolds, PTL DEF Spec

-----------------------------------------------------------------------------
(* Fates.                                                                    *)

\* The closed entries are closed in the ledger and in the one to go back to.
Keeps(L, f) == f[1] \in DOMAIN L /\ L[f[1]].problem = f[2] /\ L[f[1]].status = f[3] /\ f[3] # "open"
FatesInv == \A f \in fates : Keeps(ledger, f) /\ (InRound => Keeps(saved.ledger, f))

\* What is closed stays so through any operation.
LEMMA FateStays ==
  ASSUME NEW L, NEW M, NEW r, Grows(L, M, r), NEW f, Keeps(L, f)
  PROVE  Keeps(M, f)
BY DEF Grows, Keeps

\* Fates are final: inductive with the snapshot.
LEMMA FatesStep == TypeOK /\ LoopInv /\ FatesInv /\ [Next]_vars => FatesInv'
<1> SUFFICES ASSUME TypeOK, LoopInv, FatesInv, [Next]_vars PROVE FatesInv'
  OBVIOUS
<1> USE DEF FatesInv
<1>1. CASE Inside
  <2>1. UNCHANGED << saved, round, fates >> /\ ~Settled /\ ~Settled'
    BY <1>1, RoundKeeps
  <2>2. ~Reject
    BY <1>1 DEF Reject, Inside, Build, CloseGates, Panel, EndReview, ReportGate, Raise
  <2> QED BY <2>1, <2>2, LedgerMoves, FateStays DEF InRound
<1>2. CASE KeepFirst \/ Accept \/ Reject
  <2>1. fates' = fates \union Closed(ledger') /\ pc' = "decide"
    BY <1>2 DEF KeepFirst, Accept, Reject, EndRound
  <2>2. \A f \in Closed(ledger') : Keeps(ledger', f)
    BY DEF Closed, Keeps, Open
  <2>3. \A f \in fates : Keeps(ledger', f)
    <3>1. CASE Reject
      <4>1. InRound
        BY <3>1 DEF Reject, InRound, Settled
      <4> QED BY <3>1, <4>1, LedgerMoves, FateStays
    <3> QED BY <3>1, LedgerMoves, FateStays
  <2> QED BY <2>1, <2>2, <2>3 DEF InRound, Settled
<1>3. CASE Stop
  <2>1. ledger' = ledger /\ fates' = fates /\ pc' = "done"
    BY <1>3 DEF Stop
  <2> QED BY <2>1 DEF InRound, Settled
<1>4. CASE Revise
  <2>1. fates' = fates /\ saved'.ledger = ledger
    BY <1>4 DEF Revise
  <2>2. ~Reject
    BY <1>4 DEF Reject, Revise
  <2> QED BY <2>1, <2>2, LedgerMoves, FateStays
<1>5. CASE UNCHANGED vars
  BY <1>5 DEF vars, InRound, Settled, Keeps
<1> QED BY <1>1, <1>2, <1>3, <1>4, <1>5, Steps

\* A finding that was closed at the end of a round keeps its number and its fate (the ledger
\* restored after a rejected round, the ids of the entries of later ones).
THEOREM FatesAreFinalHolds == Spec => []FatesAreFinal
<1>1. Init => FatesInv
  BY DEF Init, FatesInv
<1>2. FatesInv => FatesAreFinal
  BY DEF FatesInv, FatesAreFinal, Keeps
<1> QED BY <1>1, <1>2, FatesStep, TypeCorrect, PTL DEF Spec

-----------------------------------------------------------------------------
(* Gates.                                                                    *)

\* A reviewed candidate's gates are in the ledger, the kept build's in the one to go back to.
GatesInv ==
  /\ OncePerProblem(ledger) /\ (InRound => OncePerProblem(saved.ledger))
  /\ pc \in { "sync", "panel" } => cand.waived = {}
  /\ pc \in { "panel", "findings" } => GatesOf(ledger) = OpenReports(cand)
  /\ pc = "settle" /\ (round = 0 \/ Admissible(cand)) => GatesOf(ledger) = OpenReports(cand)
  /\ Settled => GatesOf(ledger) = OpenReports(current)
  /\ InRound => GatesOf(saved.ledger) = OpenReports(current)

\* Once every reported problem has its entry and the others are closed, they are the same.
LEMMA Synchronised ==
  ASSUME TypeOK, CloseGates
  PROVE  GatesOf(ledger') = cand.gates
<1>1. GatesOf(ledger') = GatesOf(ledger) \intersect cand.gates
  BY SilentGrows DEF CloseGates, TypeOK
<1>2. cand.gates \subseteq GatesOf(ledger)
  <2> SUFFICES ASSUME NEW p \in cand.gates PROVE p \in GatesOf(ledger)
    OBVIOUS
  <2>1. PICK i \in Open(ledger) : ledger[i].kind = "gate" /\ ledger[i].problem = p
    BY DEF CloseGates, Matching
  <2> QED BY <2>1 DEF GatesOf
<1> QED BY <1>1, <1>2

\* The gates and the ledger: inductive with the snapshot.
LEMMA GatesStep == TypeOK /\ LoopInv /\ GatesInv /\ [Next]_vars => GatesInv'
<1> SUFFICES ASSUME TypeOK, LoopInv, GatesInv, [Next]_vars PROVE GatesInv'
  OBVIOUS
<1>1. OncePerProblem(ledger')
  <2>1. CASE Reject
    <3>1. InRound
      BY <2>1 DEF Reject, InRound, Settled
    <3> QED BY <2>1, <3>1, LedgerMoves, GrowsKeepsOnce DEF GatesInv
  <2> QED BY <2>1, LedgerMoves, GrowsKeepsOnce DEF GatesInv
<1>2. CASE Inside
  <2>1. UNCHANGED << saved, current, round >> /\ ~Settled /\ ~Settled'
    BY <1>2, RoundKeeps
  <2>2. InRound' => OncePerProblem(saved'.ledger) /\ GatesOf(saved'.ledger) = OpenReports(current')
    BY <2>1 DEF InRound, GatesInv
  <2>3. \/ pc' \in { "panel", "findings" }
        \/ pc' = "settle" /\ (round = 0 \/ Admissible(cand'))
        => GatesOf(ledger') = OpenReports(cand')
    <3>1. CASE Build
      <4>1. pc' = AfterBuild(cand') /\ round' = round /\ current' = current
        BY <3>1 DEF Build
      <4>2. pc' = "settle" => round # 0 /\ ~Admissible(cand')
        BY <4>1 DEF AfterBuild
      <4> QED BY <4>1, <4>2 DEF AfterBuild
    <3>2. ASSUME NEW p \in GateProblems, ReportGate(p) PROVE pc' = "sync"
      BY <3>2 DEF ReportGate
    <3>3. CASE CloseGates
      BY <3>3, Synchronised DEF CloseGates, GatesInv, OpenReports
    <3>4. CASE Panel
      <4>1. PICK rulings \in [Open(ledger) -> { "open", "resolved", "wontfix" }] :
              /\ ledger' = ApplyRulings(ledger, rulings)
              /\ cand' = [text |-> cand.text, gates |-> cand.gates, waived |-> Waived(rulings)]
        BY <3>4 DEF Panel
      <4>2. Waived(rulings) = WaivedOf(ledger, rulings)
        BY DEF Waived, WaivedOf
      <4>3. GatesOf(ledger') = GatesOf(ledger) \ Waived(rulings)
        BY <4>1, <4>2, RulingsGrow DEF TypeOK, GatesInv
      <4>4. GatesOf(ledger) = cand.gates
        BY <3>4 DEF Panel, GatesInv, OpenReports
      <4>5. OpenReports(cand') = cand.gates \ Waived(rulings)
        BY <4>1 DEF OpenReports
      <4> QED BY <4>3, <4>4, <4>5
    <3>5. ASSUME NEW p \in Critiques, NEW severity \in Severities, Raise(p, severity)
          PROVE  GatesOf(ledger') = OpenReports(cand')
      <4>1. round \in Nat /\ ledger \in Seq(Entry)
        BY LoopConstants DEF TypeOK
      <4> QED BY <3>5, <4>1, CritiqueGrows DEF Raise, GatesInv
    <3>6. CASE EndReview
      BY <3>6 DEF EndReview, GatesInv
    <3> QED BY <1>2, <3>1, <3>2, <3>3, <3>4, <3>5, <3>6 DEF Inside
  <2>4. Admissible(cand)' = Admissible(cand')
    BY <2>1 DEF Admissible, Compiled, Blockers
  <2>5. pc' \in { "sync", "panel" } => cand'.waived = {}
    BY <1>2 DEF Inside, Build, CloseGates, Panel, EndReview, ReportGate, Raise, GatesInv
  <2> QED BY <1>1, <2>1, <2>2, <2>3, <2>4, <2>5 DEF GatesInv
<1>3. CASE KeepFirst \/ Accept \/ Reject
  <2>1. pc' = "decide"
    BY <1>3 DEF KeepFirst, Accept, Reject, EndRound
  <2>2. GatesOf(ledger') = OpenReports(current')
    <3>1. CASE KeepFirst
      BY <3>1 DEF KeepFirst, KeepCandidate, GatesInv
    <3>2. CASE Accept
      <4>1. ledger' = MarkRevision(ledger, touched, "accepted") /\ current' = cand /\ Admissible(cand) /\ pc = "settle"
        BY <3>2 DEF Accept, Acceptable, KeepCandidate
      <4>2. GatesOf(ledger') = GatesOf(ledger)
        BY <4>1, MarksGrow DEF TypeOK, Marks
      <4> QED BY <4>1, <4>2 DEF GatesInv
    <3>3. CASE Reject
      <4>1. ledger' = MarkRevision(saved.ledger, touched, "rejected") /\ current' = current /\ InRound
        BY <3>3 DEF Reject, RestoreLedger, InRound, Settled
      <4>2. GatesOf(ledger') = GatesOf(saved.ledger)
        BY <4>1, MarksGrow DEF TypeOK, Marks
      <4> QED BY <4>1, <4>2 DEF GatesInv
    <3> QED BY <1>3, <3>1, <3>2, <3>3
  <2> QED BY <1>1, <2>1, <2>2 DEF GatesInv, InRound, Settled
<1>4. CASE Stop
  <2>1. ledger' = ledger /\ current' = current /\ pc' = "done" /\ Settled
    BY <1>4 DEF Stop, Settled
  <2> QED BY <1>1, <2>1 DEF GatesInv, InRound, Settled
<1>5. CASE Revise
  <2>1. saved'.ledger = ledger /\ current' = current /\ pc' = "build" /\ Settled
    BY <1>5 DEF Revise, Settled
  <2> QED BY <1>1, <2>1 DEF GatesInv, InRound, Settled
<1>6. CASE UNCHANGED vars
  BY <1>6 DEF vars, GatesInv, InRound, Settled, Admissible, Compiled, Blockers
<1> QED BY <1>2, <1>3, <1>4, <1>5, <1>6, Steps

\* Between rounds the ledger's open gate entries are what the gates say of the kept build, less
\* what the rulings of its own review closed, each once (sync_gate_findings and apply_rulings of
\* every candidate, and the restored ledger of the rejected).
THEOREM LedgerMatchesGatesHolds == Spec => []LedgerMatchesGates
<1>1. Init => GatesInv
  BY DEF Init, GatesInv, InRound, Settled, OncePerProblem, Open, NoBuild
<1>2. GatesInv => LedgerMatchesGates
  BY DEF GatesInv, LedgerMatchesGates, GatesOf, OpenGates, OncePerProblem
<1> QED BY <1>1, <1>2, GatesStep, TypeCorrect, PTL DEF Spec

-----------------------------------------------------------------------------
(* Rejected rounds.                                                          *)

\* The rounds whose work may still show, and those before the running one.
Lived == (0..round) \ rejected
Before == Lived \ { round }

LedgerFrom(L, rounds) == \A i \in DOMAIN L : L[i].opened \in rounds /\ L[i].response \in rounds
TextsFrom(texts, rounds) == \A k \in DOMAIN texts : RoundOf(texts[k]) \in rounds

\* Everything in use was made in a round that was not rejected; while a round runs, what
\* is kept and what it can be rolled back to is older.
TraceInv ==
  /\ rejected \subseteq 1..round /\ (round \in rejected => Settled)
  /\ RoundOf(draft) \in Lived /\ RoundOf(removed) \in Lived
  /\ TextsFrom(conv, Lived) /\ LedgerFrom(ledger, Lived)
  /\ RoundOf(best) \in Lived /\ RoundOf(current.text) \in Lived
  /\ InRound => /\ RoundOf(best) \in Before /\ RoundOf(current.text) \in Before
                /\ RoundOf(saved.draft) \in Before /\ RoundOf(saved.removed) \in Before
                /\ TextsFrom(saved.conv, Before) /\ LedgerFrom(saved.ledger, Before)

\* A text tells its round.
LEMMA TextsTell ==
  ASSUME NEW r \in Nat
  PROVE  RoundOf(Revised(r)) = r /\ RoundOf(Repaired(r)) = r /\ RoundOf(Original) = 0
BY DEF RoundOf, Revised, Repaired, Original

\* An operation of a round that lives leaves a ledger of rounds that live.
LEMMA GrowsFrom ==
  ASSUME NEW L, NEW M, NEW r, Grows(L, M, r), NEW rounds, LedgerFrom(L, rounds), r \in rounds, 0 \in rounds
  PROVE  LedgerFrom(M, rounds)
<1> SUFFICES ASSUME NEW i \in DOMAIN M PROVE M[i].opened \in rounds /\ M[i].response \in rounds
  BY DEF LedgerFrom
<1>1. CASE i \in DOMAIN L
  BY <1>1 DEF Grows, LedgerFrom
<1>2. CASE i \notin DOMAIN L
  BY <1>2 DEF Grows
<1> QED BY <1>1, <1>2

\* A turn of a living round.
LEMMA ConversationGrows ==
  ASSUME NEW texts \in Seq(Nat), NEW t \in Nat, NEW rounds, TextsFrom(texts, rounds), RoundOf(t) \in rounds
  PROVE  TextsFrom(Append(texts, t), rounds)
BY DEF TextsFrom

\* Nothing in use comes from a rejected round: inductive with the snapshot.
LEMMA TraceStep == TypeOK /\ LoopInv /\ TraceInv /\ [Next]_vars => TraceInv'
<1> SUFFICES ASSUME TypeOK, LoopInv, TraceInv, [Next]_vars PROVE TraceInv'
  OBVIOUS
<1>0. round \in Nat /\ 0 \in Lived /\ (~Settled => round \in Lived)
  BY LoopConstants DEF TypeOK, TraceInv, Lived
<1>1. CASE Inside
  <2>1. UNCHANGED << saved, current, best, round, rejected >> /\ ~Settled /\ ~Settled'
    BY <1>1, RoundKeeps
  <2>2. ~Reject
    BY <1>1 DEF Reject, Inside, Build, CloseGates, Panel, EndReview, ReportGate, Raise
  <2>3. round \in Lived /\ Lived' = Lived /\ Before' = Before /\ (InRound' <=> InRound)
    BY <1>0, <2>1 DEF Lived, Before, InRound
  <2>4. LedgerFrom(ledger', Lived)
    BY <1>0, <2>1, <2>2, <2>3, LedgerMoves, GrowsFrom DEF TraceInv
  <2>5. RoundOf(draft') \in Lived /\ TextsFrom(conv', Lived) /\ removed' = removed
    <3>1. CASE Build
      <4>1. Repaired(round) \in Nat /\ RoundOf(Repaired(round)) \in Lived
        BY <1>0, <2>3, TextsTell DEF Repaired
      <4>2. PICK text \in { draft, Repaired(round) } :
              draft' = text /\ conv' = IF text = draft THEN conv ELSE Append(conv, text)
        BY <3>1 DEF Build
      <4>3. text \in Nat /\ RoundOf(text) \in Lived /\ conv \in Seq(Nat) /\ TextsFrom(conv, Lived)
        BY <4>1, <4>2 DEF TypeOK, TraceInv
      <4>4. TextsFrom(conv', Lived)
        BY <4>2, <4>3, ConversationGrows
      <4> QED BY <3>1, <4>2, <4>3, <4>4 DEF Build
    <3>2. CASE ~Build
      BY <1>1, <3>2 DEF Inside, CloseGates, Panel, EndReview, ReportGate, Raise, TraceInv
    <3> QED BY <3>1, <3>2
  <2> QED BY <2>1, <2>3, <2>4, <2>5 DEF TraceInv
<1>2. CASE KeepFirst \/ Accept
  <2>1. /\ best' = draft /\ current' = cand /\ pc' = "decide" /\ pc = "settle" /\ ~Reject
        /\ UNCHANGED << round, draft, removed, conv, rejected >>
    BY <1>2 DEF KeepFirst, Accept, Reject, EndRound, KeepCandidate, BestIsKept
  <2>2. cand.text = draft /\ round \in Lived /\ Lived' = Lived
    BY <1>0, <2>1 DEF LoopInv, CandidateInv, Settled, Lived
  <2>3. LedgerFrom(ledger', Lived)
    BY <1>0, <2>1, <2>2, LedgerMoves, GrowsFrom DEF TraceInv
  <2> QED BY <2>1, <2>2, <2>3 DEF TraceInv, InRound, Settled
<1>3. CASE Reject
  <2>1. /\ removed' = saved.removed /\ draft' = saved.draft /\ conv' = saved.conv
        /\ ledger' = MarkRevision(saved.ledger, touched, "rejected")
        /\ rejected' = rejected \union { round } /\ pc' = "decide" /\ InRound
        /\ UNCHANGED << round, current, best >>
    BY <1>3 DEF Reject, RestoreLedger, RollBackConversation, EndRound, InRound, Settled
  <2>2. Lived' = Before /\ rejected' \subseteq 1..round
    BY <1>0, <2>1 DEF Lived, Before, TraceInv, InRound
  <2>3. Grows(saved.ledger, ledger', 0) /\ 0 \in Before
    <3>1. Grows(saved.ledger, ledger', 0)
      BY <2>1, MarksGrow DEF TypeOK, Marks
    <3> QED BY <1>0, <2>1, <3>1 DEF Before, InRound
  <2>4. LedgerFrom(ledger', Before)
    BY <2>1, <2>3, GrowsFrom DEF TraceInv
  <2> QED BY <2>1, <2>2, <2>4 DEF TraceInv, InRound, Settled
<1>4. CASE Stop
  <2>1. ledger' = ledger /\ draft' = best /\ pc' = "done" /\ UNCHANGED << round, rejected, removed, conv, best, current >>
    BY <1>4 DEF Stop
  <2> QED BY <2>1 DEF TraceInv, InRound, Settled, Lived
<1>5. CASE Revise
  <2>1. /\ round' = round + 1 /\ pc = "decide" /\ pc' = "build" /\ ~Reject
        /\ saved' = [ledger |-> ledger, draft |-> draft, removed |-> removed, conv |-> conv]
        /\ conv' = Append(conv, Revised(round'))
        /\ draft' \in { draft, Revised(round') } /\ removed' \in { removed, Revised(round') }
        /\ UNCHANGED << rejected, best, current >>
    BY <1>5 DEF Revise, Reject
  <2>2. Before' = Lived /\ Lived \subseteq Lived' /\ round' \in Lived' /\ rejected' \subseteq 1..round' /\ round' \notin rejected
    BY <1>0, <2>1 DEF TraceInv, Lived, Before
  <2>3. Revised(round') \in Nat /\ RoundOf(Revised(round')) \in Lived'
    BY <1>0, <2>1, <2>2, TextsTell DEF Revised
  <2>4. TextsFrom(conv, Lived') /\ LedgerFrom(ledger, Lived')
    BY <2>2 DEF TraceInv, TextsFrom, LedgerFrom
  <2>5. TextsFrom(conv', Lived')
    BY <2>1, <2>3, <2>4, ConversationGrows DEF TypeOK
  <2>6. LedgerFrom(ledger', Lived')
    BY <1>0, <2>1, <2>2, <2>4, LedgerMoves, GrowsFrom
  <2>7. /\ RoundOf(draft') \in Lived' /\ RoundOf(removed') \in Lived'
        /\ RoundOf(best') \in Lived' /\ RoundOf(current'.text) \in Lived'
    BY <2>1, <2>2, <2>3 DEF TraceInv
  <2>8. /\ RoundOf(best') \in Before' /\ RoundOf(current'.text) \in Before'
        /\ RoundOf(saved'.draft) \in Before' /\ RoundOf(saved'.removed) \in Before'
        /\ TextsFrom(saved'.conv, Before') /\ LedgerFrom(saved'.ledger, Before')
    BY <2>1, <2>2 DEF TraceInv
  <2> QED BY <2>1, <2>2, <2>5, <2>6, <2>7, <2>8 DEF TraceInv
<1>6. CASE UNCHANGED vars
  BY <1>6 DEF vars, TraceInv, InRound, Settled, Lived, Before
<1> QED BY <1>1, <1>2, <1>3, <1>4, <1>5, <1>6, Steps

\* A rejected round leaves nothing behind: no text, no removed citation, no turn of the author
\* conversation, no entry and no response (the restores of RevisionLoop.run).
THEOREM NoTraceOfRejectedHolds == Spec => []NoTraceOfRejected
<1>1. Init => TraceInv
  BY TextsTell DEF Init, TraceInv, InRound, Settled, NoBuild, TextsFrom, LedgerFrom, Lived
<1>2. TraceInv => NoTraceOfRejected
  BY DEF TraceInv, NoTraceOfRejected, Lived, LedgerFrom, TextsFrom
<1> QED BY <1>1, <1>2, TraceStep, TypeCorrect, PTL DEF Spec
=============================================================================
