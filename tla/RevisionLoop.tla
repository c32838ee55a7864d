---------------------------- MODULE RevisionLoop ----------------------------
(***************************************************************************)
(* The review-driven revision of tyche/review/loop.py with the parts it    *)
(* changes: the composer's section texts and removed-citation records, the *)
(* author conversation, the findings ledger, and the citations admitted on *)
(* a reviewer's request (tyche/pipeline.py, stage_review).                 *)
(*                                                                         *)
(* Each round revises, rebuilds, gates and, if the candidate may still be  *)
(* accepted, has the panel review it; then the candidate replaces the kept *)
(* draft or the round is rolled back.                                      *)
(*                                                                         *)
(* A text is named by the round that wrote it: revised and repaired (or    *)
(* shortened while building) texts of a round are different texts.  A      *)
(* build is its text, what the gates report of it, and which of these      *)
(* reports the reviewers of the build ruled closed.                        *)
(***************************************************************************)
EXTENDS FindingsLedger

CONSTANTS
  MaxRounds, PlateauRounds, Target, Tolerance,   \* review.* of the configuration
  CompileErrors,   \* gate problems reported exactly when the paper does not compile
  MinGain,     \* a smaller gain of the score is no progress (0.05 in the code)
  Scores,      \* composite scores a review can give; 0 stands for no review
  MaxRaised,   \* bound: critiques raised by one review
  Requestable  \* uncited papers (R01, ...) a reviewer can ask to have cited

ASSUME LoopConstants ==
  /\ MaxRounds \in Nat /\ PlateauRounds \in Nat /\ Target \in Nat
  /\ Tolerance \in Nat /\ MinGain \in Nat /\ MaxRaised \in Nat
  /\ Scores \subseteq Nat \ { 0 }
  /\ CompileErrors \subseteq GateBlockers /\ IsFiniteSet(GateBlockers)

VARIABLES
  pc,          \* what the loop does next
  round, plateau,
  ledger,
  draft,       \* composer.sections
  removed,     \* text whose removed citations composer.removed records
  conv,        \* turns of the author conversation: the texts written in them
  cand, candScore,    \* the candidate build and its review
  current, review,    \* the kept build and its review
  best,        \* best_sections
  saved,       \* what a rejected round is rolled back to
  touched,     \* entries the writer was given this round
  raised,      \* critiques of the review so far
  admitted,    \* papers made citable on a reviewer's request, each with its round
  why,         \* why the loop stopped
  rejected,    \* history: rounds rolled back
  fates,       \* history: entries closed at the end of some round
  peak         \* history: best score kept since the blocker count last changed

vars == << pc, round, plateau, ledger, draft, removed, conv, cand, candScore, current,
           review, best, saved, touched, raised, admitted, why, rejected, fates, peak >>

Original == 0
Revised(r) == 2 * r
Repaired(r) == 2 * r + 1
RoundOf(text) == text \div 2

NoReview == 0
Compiled(b) == b.gates \intersect CompileErrors = {}
Blockers(b) == Cardinality(b.gates \intersect GateBlockers)
NoBuild == [text |-> Original, gates |-> {}, waived |-> {}]
Nothing == [ledger |-> <<>>, draft |-> Original, removed |-> Original, conv |-> <<>>]

Init ==
  /\ pc = "build" /\ round = 0 /\ plateau = 0
  /\ ledger = <<>> /\ draft = Original /\ removed = Original /\ conv = <<>>
  /\ cand = NoBuild /\ candScore = NoReview
  /\ current = NoBuild /\ review = NoReview /\ best = Original
  /\ saved = Nothing
  /\ touched = {} /\ raised = 0 /\ admitted = {} /\ why = "none"
  /\ rejected = {} /\ fates = {} /\ peak = NoReview

\* Blocker counts are only comparable between drafts that compile.
Admissible(c) == Compiled(c) /\ (~Compiled(current) \/ Blockers(c) <= Blockers(current))

\* Mutant: repairs go on until the paper compiles.
RepairsWithoutLimit(c) ==
  IF ~Compiled(c) THEN "build" ELSE IF round = 0 \/ Admissible(c) THEN "sync" ELSE "settle"

\* A candidate that cannot be accepted is not shown to the reviewers.
AfterBuild(c) == IF round = 0 \/ Admissible(c) THEN "sync" ELSE "settle"

\* composer.build: repairs and trims may change the text, through the writer.
Build ==
  /\ pc = "build"
  /\ \E gates \in SUBSET GateProblems, text \in { draft, Repaired(round) } :
       /\ cand' = [text |-> text, gates |-> gates, waived |-> {}]
       /\ draft' = text
       /\ conv' = IF text = draft THEN conv ELSE Append(conv, text)
       /\ pc' = AfterBuild(cand')
  /\ candScore' = NoReview
  /\ UNCHANGED << round, plateau, ledger, removed, current, review, best, saved, touched,
                  raised, admitted, why, rejected, fates, peak >>

\* sync_gate_findings, one reported problem at a time.
ReportGate(p) ==
  /\ pc = "sync" /\ p \in cand.gates /\ Matching(ledger, "gate", p) = {}
  /\ ledger' = AddGate(ledger, p, round)
  /\ UNCHANGED << pc, round, plateau, draft, removed, conv, cand, candScore, current, review,
                  best, saved, touched, raised, admitted, why, rejected, fates, peak >>

CloseGates ==
  /\ pc = "sync" /\ \A p \in cand.gates : Matching(ledger, "gate", p) # {}
  /\ ledger' = CloseSilentGates(ledger, cand.gates)
  /\ pc' = IF Compiled(cand) THEN "panel" ELSE "settle"
  /\ raised' = 0
  /\ UNCHANGED << round, plateau, draft, removed, conv, cand, candScore, current, review,
                  best, saved, touched, admitted, why, rejected, fates, peak >>

\* What the rulings close of the gates' entries.
Waived(rulings) ==
  { ledger[i].problem : i \in { j \in Open(ledger) : ledger[j].kind = "gate" /\ rulings[j] # "open" } }

\* Reviewers are shown the entries that are not the gates', but a ruling is applied to
\* whatever open entry it names.
Panel ==
  /\ pc = "panel"
  /\ \E s \in Scores : candScore' = s
  /\ \E rulings \in [Open(ledger) -> { "open", "resolved", "wontfix" }] :
       /\ ledger' = ApplyRulings(ledger, rulings)
       /\ cand' = [text |-> cand.text, gates |-> cand.gates, waived |-> Waived(rulings)]
  /\ \E asked \in SUBSET (Requestable \ { a[1] : a \in admitted }) :
       admitted' = admitted \union { << paper, round >> : paper \in asked }
  /\ pc' = "findings"
  /\ UNCHANGED << round, plateau, draft, removed, conv, current, review, best, saved,
                  touched, raised, why, rejected, fates, peak >>

Raise(p, severity) ==
  /\ pc = "findings" /\ raised < MaxRaised
  /\ raised' = raised + 1
  /\ ledger' = AddCritique(ledger, p, severity, round)
  /\ UNCHANGED << pc, round, plateau, draft, removed, conv, cand, candScore, current, review,
                  best, saved, touched, admitted, why, rejected, fates, peak >>

EndReview ==
  /\ pc = "findings" /\ pc' = "settle"
  /\ UNCHANGED << round, plateau, ledger, draft, removed, conv, cand, candScore, current, review,
                  best, saved, touched, raised, admitted, why, rejected, fates, peak >>

\* Mutant: the score need not hold.
HoldsAnyScore == TRUE

\* At equal blocker counts the candidate must hold the score, up to the tolerance.
HoldsScore ==
  \/ review = NoReview \/ candScore = NoReview
  \/ Blockers(cand) < Blockers(current)
  \/ candScore + Tolerance >= review

Acceptable == Admissible(cand) /\ HoldsScore

Improved ==
  \/ review = NoReview \/ candScore = NoReview
  \/ candScore > review + MinGain
  \/ Blockers(cand) < Blockers(current)

Closed(L) == { << i, L[i].problem, L[i].status >> : i \in DOMAIN L \ Open(L) }

\* Mutant: the texts of the first draft are what the loop gives back.
BestIsFirst == best' = IF round = 0 THEN draft ELSE best

\* best_sections follows every accepted candidate.
BestIsKept == best' = draft

KeepCandidate ==
  /\ current' = cand /\ review' = candScore /\ BestIsKept
  /\ peak' = IF Blockers(cand) = Blockers(current) /\ peak > candScore THEN peak ELSE candScore

\* What only a running round uses is forgotten with it.
EndRound ==
  /\ pc' = "decide" /\ touched' = {} /\ raised' = 0
  /\ cand' = NoBuild /\ candScore' = NoReview /\ saved' = Nothing
  /\ fates' = fates \union Closed(ledger')

\* Round 0 has nothing to compare with.
KeepFirst ==
  /\ pc = "settle" /\ round = 0
  /\ KeepCandidate
  /\ UNCHANGED << round, plateau, ledger, draft, removed, conv, admitted, why, rejected >>
  /\ EndRound

Accept ==
  /\ pc = "settle" /\ round > 0 /\ Acceptable
  /\ KeepCandidate
  /\ ledger' = MarkRevision(ledger, touched, "accepted")
  /\ plateau' = IF Improved THEN 0 ELSE plateau + 1
  /\ UNCHANGED << round, draft, removed, conv, admitted, why, rejected >>
  /\ EndRound

\* Mutant: the snapshot holds the open entries only.
RestoreOpenEntries ==
  LET IsOpen(e) == e.status = "open"
  IN  ledger' = MarkRevision(SelectSeq(saved.ledger, IsOpen), touched, "rejected")

RestoreLedger == ledger' = MarkRevision(saved.ledger, touched, "rejected")

\* Mutant: the author conversation goes on from the discarded text.
KeepConversation == conv' = conv

RollBackConversation == conv' = saved.conv

Reject ==
  /\ pc = "settle" /\ round > 0 /\ ~Acceptable
  /\ RestoreLedger /\ RollBackConversation
  /\ removed' = saved.removed /\ draft' = saved.draft
  /\ plateau' = plateau + 1
  /\ rejected' = rejected \union { round }
  /\ UNCHANGED << round, current, review, best, admitted, why, peak >>
  /\ EndRound

\* Mutant: the target score is enough.
TargetScoreReached == review # NoReview /\ review >= Target

TargetReached ==
  /\ review # NoReview /\ review >= Target
  /\ \A i \in Open(ledger) : ledger[i].severity # Blocker

\* Mutant: the loop has no limit of rounds.
LimitIgnored == FALSE

LimitReached == round = MaxRounds

\* The range of rounds, then the tests at the top of the loop body.
Verdict ==
  IF LimitReached THEN "limit"
  ELSE IF TargetReached THEN "target"
  ELSE IF plateau >= PlateauRounds THEN "plateau"
  ELSE IF Selected(ledger) = {} THEN "nothing"
  ELSE "none"

Stop ==
  /\ pc = "decide" /\ Verdict # "none"
  /\ why' = Verdict /\ pc' = "done" /\ draft' = best
  /\ UNCHANGED << round, plateau, ledger, removed, conv, cand, candScore, current, review, best,
                  saved, touched, raised, admitted, rejected, fates, peak >>

\* The writer revises the sections of the selected entries, one call per section;
\* it may return no text and may leave entries without a response.
Revise ==
  /\ pc = "decide" /\ Verdict = "none"
  /\ round' = round + 1 /\ touched' = Selected(ledger)
  /\ saved' = [ledger |-> ledger, draft |-> draft, removed |-> removed, conv |-> conv]
  /\ \E text \in { draft, Revised(round') } :
       /\ draft' = text
       /\ removed' = IF text = draft THEN removed ELSE text
  /\ conv' = Append(conv, Revised(round'))
  /\ \E answered \in { {}, touched' } : ledger' = RecordResponses(ledger, answered, round')
  /\ pc' = "build"
  /\ UNCHANGED << plateau, cand, candScore, current, review, best, raised, admitted, why,
                  rejected, fates, peak >>

Finished == pc = "done" /\ UNCHANGED vars

Step == \/ Build \/ CloseGates \/ Panel \/ EndReview \/ KeepFirst \/ Accept \/ Reject
        \/ Stop \/ Revise
        \/ \E p \in GateProblems : ReportGate(p)
        \/ \E p \in Critiques, severity \in Severities : Raise(p, severity)

Next == Step \/ Finished

Spec == Init /\ [][Next]_vars
\* One coroutine, whose model calls and LaTeX runs all end or time out.
FairSpec == Spec /\ WF_vars(Step)

-----------------------------------------------------------------------------
Builds == [text : Nat, gates : SUBSET GateProblems, waived : SUBSET (GateProblems \union Critiques)]

\* The types of the state: the ledger holds entries of its kinds, the counters stay in
\* their bounds, a snapshot holds what the loop restores.
TypeOK ==
  /\ pc \in { "build", "sync", "panel", "findings", "settle", "decide", "done" }
  /\ round \in 0..MaxRounds /\ plateau \in Nat
  /\ ledger \in Seq(Entry)
  /\ draft \in Nat /\ removed \in Nat /\ best \in Nat /\ conv \in Seq(Nat)
  /\ cand \in Builds /\ current \in Builds
  /\ candScore \in Scores \union { NoReview } /\ review \in Scores \union { NoReview }
  /\ saved \in [ledger : Seq(Entry), draft : Nat, removed : Nat, conv : Seq(Nat)]
  /\ touched \subseteq Nat /\ raised \in 0..MaxRaised
  /\ admitted \subseteq Requestable \X Nat
  /\ why \in { "none", "limit", "target", "plateau", "nothing" }
  /\ rejected \subseteq Nat /\ peak \in Nat

Settled == pc \in { "decide", "done" }

\* A rejected round leaves nothing behind: no section text, no removed-citation
\* record, no turn of the author conversation, no ledger entry and no response
\* (the restores of RevisionLoop.run).
NoTraceOfRejected ==
  Settled => \A r \in rejected :
    /\ RoundOf(draft) # r /\ RoundOf(best) # r /\ RoundOf(removed) # r /\ RoundOf(current.text) # r
    /\ \A k \in DOMAIN conv : RoundOf(conv[k]) # r
    /\ \A i \in DOMAIN ledger : ledger[i].opened # r /\ ledger[i].response # r

\* What the loop returns belongs together: the kept build was made from the kept
\* texts, and it has a review exactly when it compiled.
KeptTogether ==
  Settled => /\ current.text = best /\ draft = best
             /\ Compiled(current) <=> review # NoReview

OpenReports(b) == b.gates \ b.waived
OpenGates == { ledger[i].problem : i \in { j \in Open(ledger) : ledger[j].kind = "gate" } }

\* Between rounds the open gate entries are exactly what the gates report of the kept
\* build, each once, less what the reviewers of that very build ruled closed: neither a
\* ruling in a rejected round nor one on an older build leaves a report without its entry,
\* and no report of a discarded build stays open.
LedgerMatchesGates ==
  Settled =>
    /\ OpenGates = OpenReports(current)
    /\ \A i, j \in Open(ledger) : ledger[i].kind = ledger[j].kind /\ ledger[i].problem = ledger[j].problem => i = j

\* An entry closed at the end of a round keeps its number and its fate.
FatesAreFinal ==
  Settled => \A f \in fates : f[1] \in DOMAIN ledger
                              /\ ledger[f[1]].problem = f[2] /\ ledger[f[1]].status = f[3]

\* Entries stay open up to the cap and close as unaddressed only beyond it.
CapHolds ==
  \A i \in DOMAIN ledger :
     /\ ledger[i].status = "open" => ledger[i].reflags <= ReflagCap
     /\ ledger[i].status = "unaddressed" => ledger[i].reflags = ReflagCap + 1

\* Stopping on the target score means a paper of which the gates report no blocker but
\* those its reviewers ruled closed.
TargetMeansPackageable ==
  why = "target" => /\ review >= Target /\ Compiled(current)
                    /\ current.gates \intersect GateBlockers \subseteq current.waived

\* The loop ends.
Terminates == <>(pc = "done")

\* The kept draft follows the acceptance rule that loop.py states in its docstring (lines 3
\* to 8) and in the comments of the test (lines 177 and 181), from the first build to the
\* returned one.  DESIGN.md:104 states another rule: see AcceptanceOfTheDesign.
Kept == [compiled |-> IF Compiled(current) THEN "yes" ELSE "no",
         blockers |-> Blockers(current), score |-> review]
NoDraftYet == [compiled |-> "none", blockers |-> 0, score |-> 0]
KeptDraft == IF round = 0 /\ ~Settled THEN NoDraftYet ELSE Kept
Acceptance == INSTANCE DraftAcceptance WITH kept <- KeptDraft
FollowsTheRule == Acceptance!Spec

-----------------------------------------------------------------------------
(* What the documents say, and the code does not keep.                      *)

\* loop.py:10 and DESIGN.md:104: the loop always returns the best accepted draft.
ReturnsBest ==
  pc = "done" => review = peak

\* DESIGN.md:104: a candidate is accepted only if it compiles, adds no blockers and loses no
\* more of the score than the tolerance.  The code also takes one with fewer blockers whatever
\* it scores, and one that compiles, whatever its blockers, in place of one that does not.
AcceptanceOfTheDesign ==
  [][Settled' /\ ~Settled /\ current' # current /\ round > 0 =>
       /\ Compiled(current') /\ Blockers(current') <= Blockers(current)
       /\ review' + Tolerance >= review]_vars

\* ledger.py:221, the close criterion of gate entries: it closes when the gate no longer
\* reports the problem.  A reviewer's ruling may name it and closes it before.
GateEntriesCloseBySilence == Settled => OpenGates = current.gates

\* loop.py:151: everything a rejected revision could have changed is restored.
AdmittedCitationsRestored == Settled => \A a \in admitted : a[2] \notin rejected

\* DESIGN.md:103: the writer answers every finding; none is given up as
\* unaddressed that was never put to the writer.
UnaddressedWasAsked ==
  \A i \in DOMAIN ledger : ledger[i].status = "unaddressed" => ledger[i].mark # "none" \/ i \in touched
=============================================================================
