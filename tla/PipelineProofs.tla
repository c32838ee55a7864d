--------------------------- MODULE PipelineProofs ---------------------------
(* Type correctness and the staleness invariants of Pipeline, for any number *)
(* of invocations, that only --stage sends a done stage back to work, and    *)
(* that an orderly run's finished package is of its latest review and draft. *)
EXTENDS Pipeline, TLAPS

LEMMA StageFacts ==
  /\ \A i \in 1..8 : Stages[i] \in StageSet /\ Idx(Stages[i]) = i
  /\ \A s \in StageSet : Idx(s) \in 1..8 /\ Stages[Idx(s)] = s
<1>1. \A i \in 1..8 : Stages[i] \in StageSet
  BY DEF Stages, StageSet
<1>2. \A i, j \in 1..8 : Stages[i] = Stages[j] => i = j
  BY DEF Stages
<1>3. \A s \in StageSet : \E i \in 1..8 : Stages[i] = s
  BY DEF Stages, StageSet
<1>4. \A s \in StageSet : Idx(s) \in 1..8 /\ Stages[Idx(s)] = s
  BY <1>3 DEF Idx
<1>5. QED
  BY <1>1, <1>2, <1>4

LEMMA ProgramFacts ==
  ASSUME NEW s \in StageSet, NEW p \in Programs[s]
  PROVE  /\ p \in Seq(Effects)
         /\ \E i \in 1..Len(p) : p[i] = "read"
         /\ \A n \in Mandatory(s) : \E i \in 1..Len(p) : p[i] = n
         /\ \A i \in 1..Len(p) : p[i] \in Names => p[i] \in Outputs[s]
<1>1. p \in Seq(Effects)
  <2>1. /\ Names \subseteq Effects
        /\ { "retire", "read", "remember", "pin", "wipe", "release", "copy_ledger", "copy_gates" } \subseteq Effects
    BY DEF Effects
  <2>2. { "plan", "refs_bib", "source_manifest", "experiment_results", "experiment_design", "analysis",
          "draft", "ledger", "gates", "paper_pdf", "evolution" } \subseteq Effects
    BY <2>1 DEF Names
  <2>3. CASE s = "plan"
    <3>1. p = << "retire", "read", "remember", "plan" >>
      BY <2>3 DEF Programs
    <3>2. QED
      BY <2>1, <2>2, <3>1
  <2>4. CASE s = "survey"
    <3>1. p = << "retire", "read", "remember", "refs_bib", "source_manifest" >>
      BY <2>4 DEF Programs
    <3>2. QED
      BY <2>1, <2>2, <3>1
  <2>5. CASE s = "experiments"
    <3>1. CASE p = << "read", "experiment_results", "experiment_design" >>
      BY <2>1, <2>2, <3>1
    <3>2. CASE p = << "read", "experiment_results" >>
      BY <2>1, <2>2, <3>2
    <3>3. QED
      BY <2>5, <3>1, <3>2 DEF Programs
  <2>6. CASE s = "analysis"
    <3>1. p = << "retire", "read", "analysis", "remember" >>
      BY <2>6 DEF Programs
    <3>2. QED
      BY <2>1, <2>2, <3>1
  <2>7. CASE s = "write"
    <3>1. p = << "read", "draft" >>
      BY <2>7 DEF Programs
    <3>2. QED
      BY <2>1, <2>2, <3>1
  <2>8. CASE s = "review"
    <3>1. CASE p = << "read", "remember", "ledger", "gates", "paper_pdf", "pin" >>
      BY <2>1, <2>2, <3>1
    <3>2. CASE p = << "read", "remember", "ledger", "gates", "pin" >>
      BY <2>1, <2>2, <3>2
    <3>3. CASE p = << "read", "ledger", "gates", "paper_pdf", "pin" >>
      BY <2>1, <2>2, <3>3
    <3>4. CASE p = << "read", "ledger", "gates", "pin" >>
      BY <2>1, <2>2, <3>4
    <3>5. QED
      BY <2>8, <3>1, <3>2, <3>3, <3>4 DEF Programs
  <2>9. CASE s = "evolve"
    <3>1. p = << "read", "evolution" >>
      BY <2>9 DEF Programs
    <3>2. QED
      BY <2>1, <2>2, <3>1
  <2>10. CASE s = "package"
    <3>1. p = << "read", "wipe", "release", "copy_ledger", "copy_gates" >>
      BY <2>10 DEF Programs
    <3>2. QED
      BY <2>1, <2>2, <3>1
  <2>11. QED
    BY <2>3, <2>4, <2>5, <2>6, <2>7, <2>8, <2>9, <2>10 DEF StageSet
<1>2. \E i \in 1..Len(p) : p[i] = "read"
  BY DEF StageSet, Programs
<1>3. ASSUME NEW n \in Mandatory(s) PROVE \E i \in 1..Len(p) : p[i] = n
  <2>1. CASE s \in { "plan", "analysis" }
    BY <1>3, <2>1 DEF Programs, Mandatory, Outputs, OptionalNames
  <2>5. CASE s = "survey"
    BY <1>3, <2>5 DEF Programs, Mandatory, Outputs, OptionalNames
  <2>6. CASE s = "experiments"
    BY <1>3, <2>6 DEF Programs, Mandatory, Outputs, OptionalNames
  <2>2. CASE s = "review"
    BY <1>3, <2>2 DEF Programs, Mandatory, Outputs, OptionalNames
  <2>3. CASE s \in { "write", "evolve", "package" }
    BY <1>3, <2>3 DEF Programs, Mandatory, Outputs, OptionalNames
  <2>4. QED
    BY <2>1, <2>2, <2>3, <2>5, <2>6 DEF StageSet
<1>4. \A i \in 1..Len(p) : p[i] \in Names => p[i] \in Outputs[s]
  <2>1. CASE s \in { "plan", "survey", "analysis" }
    BY <2>1 DEF Programs, Outputs, Names
  <2>2. CASE s \in { "experiments", "write", "evolve", "package" }
    BY <2>2 DEF Programs, Outputs, Names
  <2>3. CASE s = "review"
    BY <2>3 DEF Programs, Outputs, Names
  <2>4. QED
    BY <2>1, <2>2, <2>3 DEF StageSet
<1>5. QED
  BY <1>1, <1>2, <1>3, <1>4

\* What the end of a stage does to the process.
LEMMA AdvanceType ==
  ASSUME TypeOK, Advance
  PROVE  /\ phase' \in { "idle", "choose" } /\ pos' \in 1..8 /\ todo' \in Seq(Effects)
         /\ only' \in StageSet \union { None } /\ stop' \in StageSet \union { None }
         /\ exit' \in { None, "ok", "complete", "error", "killed" }
<1>1. ASSUME NEW how, Leave(how)
      PROVE  /\ phase' \in { "idle", "choose" } /\ pos' \in 1..8 /\ todo' \in Seq(Effects)
             /\ only' \in StageSet \union { None } /\ stop' \in StageSet \union { None }
             /\ exit' = how
  BY <1>1 DEF Leave
<1>2. CASE only # None \/ cur = stop \/ pos = 8
  <2>1. Leave("complete") \/ Leave("ok")
    BY <1>2 DEF Advance, LastOfProcess
  <2>2. QED
    BY <1>1, <2>1
<1>3. CASE ~(only # None \/ cur = stop \/ pos = 8)
  BY <1>3 DEF TypeOK, Advance, LastOfProcess
<1>4. QED
  BY <1>2, <1>3

\* Every reachable state is well typed.
THEOREM TypeCorrect == Spec => []TypeOK
<1>1. Init => TypeOK
  BY MaxInvocationsIsNat DEF Init, TypeOK, Nothing, NoPin, EmptyPkg, None
<1>2. TypeOK /\ [Next]_vars => TypeOK'
  <2> SUFFICES ASSUME TypeOK, [Next]_vars PROVE TypeOK'
    OBVIOUS
  <2> USE MaxInvocationsIsNat DEF TypeOK
  <2>0. cur \in StageSet
    BY StageFacts DEF cur
  <2>1. ASSUME NEW o \in StageSet \union { None }, NEW st \in StageSet \union { None }, Invoke(o, st)
        PROVE  TypeOK'
    <3>1. pos' \in 1..8 /\ status' \in [StageSet -> { "pending", "running", "failed", "done" }] /\ strays' \in Nat
      <4>1. CASE o = None
        BY <2>1, <4>1 DEF Invoke, Resets
      <4>2. CASE o \in StageSet
        <5>1. o # None /\ Idx(o) \in 1..8
          BY <4>2, StageFacts DEF StageSet, None
        <5>2. QED
          BY <2>1, <5>1 DEF Invoke, Resets
      <4>3. QED
        BY <4>1, <4>2
    <3>2. QED
      BY <2>1, <3>1 DEF Invoke, None
  <2>2. CASE Skip
    BY <2>2, AdvanceType DEF Skip
  <2>3. CASE Begin
    <3>1. todo' \in Seq(Effects)
      BY <2>0, <2>3, ProgramFacts DEF Begin
    <3>2. QED
      BY <2>0, <2>3, <3>1 DEF Begin
  <2>4. ASSUME NEW e, Perform(e)
        PROVE  todo' \in Seq(Effects)
    BY <2>4 DEF Perform
  <2>5. CASE Retire
    BY <2>5, <2>4 DEF Retire, Perform
  <2>6. CASE Remember
    BY <2>6, <2>0, <2>4 DEF Remember, Perform, Tags
  <2>7. CASE Read
    BY <2>7, <2>0, <2>4 DEF Read, Perform
  <2>8. CASE PinReviewOutputs
    <3>1. "review" \in StageSet
      BY DEF StageSet
    <3>2. QED
      BY <2>8, <2>4, <3>1 DEF PinReviewOutputs, OwnPdf, Perform
  <2>9. CASE WipePackage
    BY <2>9, <2>4 DEF WipePackage, Perform, EmptyPkg
  <2>10. CASE Release
    BY <2>10, <2>4 DEF Release, Perform
  <2>11. CASE CopyLedger
    BY <2>11, <2>4 DEF CopyLedger, Perform, Names
  <2>12. CASE CopyGates
    BY <2>12, <2>4 DEF CopyGates, Perform
  <2>13. ASSUME NEW n \in Names, Save(n)
         PROVE  TypeOK'
    BY <2>13, <2>0, <2>4 DEF Save, Perform
  <2>14. CASE Finish
    BY <2>0, <2>14, AdvanceType DEF Finish
  <2>15. CASE Fail
    BY <2>0, <2>15 DEF Fail, Leave, None
  <2>16. CASE Kill
    BY <2>16 DEF Kill, Leave, None
  <2>17. CASE UNCHANGED vars
    BY <2>17 DEF vars
  <2>18. QED
    BY <2>1, <2>2, <2>3, <2>5, <2>6, <2>7, <2>8, <2>9, <2>10, <2>11, <2>12, <2>13,
       StopStagesAreStages, <2>14, <2>15, <2>16, <2>17 DEF Next, Work
<1>3. QED
  BY <1>1, <1>2, PTL DEF Spec

-----------------------------------------------------------------------------
(* The inductive invariant behind the staleness theorems.                    *)

Pending(e) == \E i \in 1..Len(todo) : todo[i] = e

\* The stage being executed is marked running; a stage about to be rerun alone
\* is not done; what an execution still saves belongs to its stage.
ProcessInv ==
  /\ phase = "execute" => status[cur] = "running"
  /\ phase = "choose" /\ only # None => ~Done(cur)
  /\ phase = "execute" => \A n \in Names : Pending(n) => n \in Outputs[cur]

\* Done stages are a prefix, and a process has only done stages behind it.
PrefixInv ==
  Orderly =>
    /\ \A s, r \in StageSet : Done(s) /\ Idx(r) < Idx(s) => Done(r)
    /\ phase # "idle" => \A r \in StageSet : Idx(r) < pos => Done(r)

\* What is done saved its artifacts and read current ones; what runs has done
\* so for each effect that is no longer pending.
FreshInv ==
  /\ \A s \in StageSet : Orderly /\ Done(s) => UpToDate(s)
  /\ phase = "execute" => UpToDate(cur) \/ Pending("read")
  /\ DoneMeansSaved
  /\ phase = "execute" => \A n \in Mandatory(cur) : art[n] = execs[cur] \/ Pending(n)

StaleInv == TypeOK /\ ProcessInv /\ PrefixInv /\ FreshInv

LEMMA Order ==
  /\ Idx("plan") = 1 /\ Idx("survey") = 2 /\ Idx("experiments") = 3 /\ Idx("analysis") = 4
  /\ Idx("write") = 5 /\ Idx("review") = 6 /\ Idx("evolve") = 7 /\ Idx("package") = 8
  BY StageFacts DEF Stages

\* A stage reads only what earlier stages save, and an artifact has one stage.
LEMMA ReadsEarlier ==
  ASSUME NEW s \in StageSet, NEW r \in StageSet, NEW n, n \in Outputs[r]
  PROVE  /\ n \in Uses(s) => Idx(r) < Idx(s)
         /\ n \in Outputs[s] => r = s
         /\ n \in Names
<1>1. n \in Names
  BY DEF StageSet, Outputs, Names
<1>2. n \in Outputs[s] => r = s
  BY DEF StageSet, Outputs
<1>3. ASSUME n \in Uses(s) PROVE Idx(r) < Idx(s)
  <2>1. CASE s \in { "plan", "survey", "experiments" }
    BY <1>3, <2>1, Order DEF StageSet, Outputs, Uses, Needs
  <2>2. CASE s \in { "analysis", "write" }
    BY <1>3, <2>2, Order DEF StageSet, Outputs, Uses, Needs, WritingInputs
  <2>3. CASE s \in { "review", "evolve", "package" }
    BY <1>3, <2>3, Order DEF StageSet, Outputs, Uses, Needs, WritingInputs
  <2>4. QED
    BY <2>1, <2>2, <2>3 DEF StageSet
<1>4. QED
  BY <1>1, <1>2, <1>3

\* Performing an effect removes it, and only it, from what is pending.
LEMMA PerformPending ==
  ASSUME TypeOK, NEW e, Perform(e)
  PROVE  /\ Pending(e)
         /\ \A x : Pending(x)' => Pending(x)
         /\ \A x : Pending(x) /\ x # e => Pending(x)'
<1>1. todo \in Seq(Effects) /\ todo # <<>> /\ todo[1] = e /\ todo' = Tail(todo)
  BY DEF TypeOK, Perform
<1>2. Len(todo) \in Nat \ {0} /\ Len(todo') = Len(todo) - 1
      /\ \A i \in 1..Len(todo') : todo'[i] = todo[i + 1]
  BY <1>1
<1>3. Pending(e)
  BY <1>1, <1>2 DEF Pending
<1>4. ASSUME NEW x, Pending(x)' PROVE Pending(x)
  BY <1>2, <1>4 DEF Pending
<1>5. ASSUME NEW x, Pending(x), x # e PROVE Pending(x)'
  <2>1. PICK i \in 1..Len(todo) : todo[i] = x
    BY <1>5 DEF Pending
  <2>2. i # 1
    BY <1>1, <1>5, <2>1
  <2>3. i - 1 \in 1..Len(todo') /\ todo'[i - 1] = x
    BY <1>2, <2>1, <2>2
  <2>4. QED
    BY <2>3 DEF Pending
<1>6. QED
  BY <1>3, <1>4, <1>5

\* Effects that save no artifact and read none leave the invariant alone.
LEMMA QuietEffect ==
  ASSUME StaleInv, NEW e, Perform(e), e \notin Names, e # "read", UNCHANGED << art, inputs >>
  PROVE  ProcessInv' /\ PrefixInv' /\ FreshInv'
<1>0. TypeOK
  BY DEF StaleInv
<1>1. UNCHANGED << phase, only, stop, pos, status, execs, invocations, strays, exit, art, inputs, cur >>
  BY DEF Perform, cur
<1>2. \A s : (Done(s)' <=> Done(s)) /\ (UpToDate(s)' <=> UpToDate(s))
  BY <1>1 DEF Done, UpToDate
<1>3. Orderly' <=> Orderly
  BY <1>1 DEF Orderly
<1>4. ProcessInv'
  BY <1>0, <1>1, <1>2, PerformPending DEF StaleInv, ProcessInv
<1>5. PrefixInv'
  BY <1>1, <1>2, <1>3 DEF StaleInv, PrefixInv
<1>6. ASSUME NEW n \in Mandatory(cur), Pending(n), phase = "execute" PROVE Pending(n)'
  <2>1. cur \in StageSet
    BY <1>0, StageFacts DEF cur, TypeOK
  <2>2. n \in Names
    BY <2>1, <1>6, ReadsEarlier DEF Mandatory
  <2>3. QED
    BY <1>0, <1>6, <2>2, PerformPending
<1>7. DoneMeansSaved'
  BY <1>1, <1>2 DEF StaleInv, FreshInv, DoneMeansSaved
<1>8. FreshInv'
  BY <1>0, <1>1, <1>2, <1>3, <1>6, <1>7, PerformPending DEF StaleInv, FreshInv
<1>9. QED
  BY <1>4, <1>5, <1>8

\* Reading makes the current stage up to date.
LEMMA ReadKeeps ==
  ASSUME StaleInv, Read
  PROVE  ProcessInv' /\ PrefixInv' /\ FreshInv'
<1>0. TypeOK /\ cur \in StageSet
  BY StageFacts DEF StaleInv, TypeOK, cur
<1>1. UNCHANGED << phase, only, stop, pos, status, execs, strays, art, cur >>
  BY DEF Read, Perform, cur
<1>2. /\ Orderly' <=> Orderly
      /\ \A s : Done(s)' <=> Done(s)
  BY <1>1 DEF Done, Orderly
<1>3. /\ \A x : Pending(x)' => Pending(x)
      /\ \A x : Pending(x) /\ x # "read" => Pending(x)'
  BY <1>0, PerformPending DEF Read
<1>4. phase = "execute" /\ status[cur] = "running" /\ ~Done(cur)
  BY DEF Read, Perform, StaleInv, ProcessInv, Done
<1>5. UpToDate(cur)'
  <2>1. Uses(cur) \subseteq Names
    BY <1>0 DEF Uses, Needs, WritingInputs, Names, StageSet
  <2>2. inputs'[cur] = [n \in Names |-> IF n \in Uses(cur) THEN art[n] ELSE 0]
    BY <1>0 DEF Read, TypeOK
  <2>3. QED
    BY <1>1, <2>1, <2>2 DEF UpToDate
<1>6. \A s \in StageSet : s # cur => (UpToDate(s)' <=> UpToDate(s))
  BY <1>0, <1>1 DEF Read, UpToDate, TypeOK
<1>7. ProcessInv'
  BY <1>1, <1>2, <1>3 DEF StaleInv, ProcessInv
<1>8. PrefixInv'
  BY <1>1, <1>2 DEF StaleInv, PrefixInv
<1>9. \A n \in Mandatory(cur) : n # "read"
  BY <1>0, ReadsEarlier DEF Mandatory, Names
<1>10. DoneMeansSaved'
  BY <1>1, <1>2 DEF StaleInv, FreshInv, DoneMeansSaved
<1>11. FreshInv'
  BY <1>1, <1>2, <1>3, <1>4, <1>5, <1>6, <1>9, <1>10 DEF StaleInv, FreshInv
<1>12. QED
  BY <1>7, <1>8, <1>11

\* Saving an artifact of the running stage leaves every done stage up to date,
\* because done stages come before it and read only what comes before them.
LEMMA SaveKeeps ==
  ASSUME StaleInv, NEW n \in Names, Save(n)
  PROVE  ProcessInv' /\ PrefixInv' /\ FreshInv'
<1>0. TypeOK /\ cur \in StageSet
  BY StageFacts DEF StaleInv, TypeOK, cur
<1>1. UNCHANGED << phase, only, stop, pos, status, execs, strays, inputs, cur >>
  BY DEF Save, Perform, cur
<1>2. /\ Orderly' <=> Orderly
      /\ \A s : Done(s)' <=> Done(s)
  BY <1>1 DEF Done, Orderly
<1>3. /\ Pending(n)
      /\ \A x : Pending(x)' => Pending(x)
      /\ \A x : Pending(x) /\ x # n => Pending(x)'
  BY <1>0, PerformPending DEF Save
<1>4. phase = "execute" /\ ~Done(cur) /\ n \in Outputs[cur] /\ n # "read"
  BY <1>3 DEF Save, Perform, StaleInv, ProcessInv, Done, Names
<1>5. /\ art'[n] = execs[cur]
      /\ \A m : m # n => art'[m] = art[m]
  BY <1>0 DEF Save, TypeOK
<1>6. ASSUME NEW s \in StageSet, UpToDate(s), Idx(s) <= Idx(cur)
      PROVE  UpToDate(s)'
  <2>1. n \notin Uses(s)
    BY <1>0, <1>4, <1>6, ReadsEarlier, StageFacts
  <2>2. QED
    BY <1>1, <1>5, <1>6, <2>1 DEF UpToDate
<1>7. ASSUME NEW s \in StageSet, Orderly, Done(s)
      PROVE  Idx(s) < Idx(cur)
  <2>1. Idx(s) \in Nat /\ Idx(cur) \in Nat
    BY <1>0, StageFacts
  <2>2. s # cur /\ ~(Idx(cur) < Idx(s))
    BY <1>0, <1>4, <1>7 DEF StaleInv, PrefixInv
  <2>3. Idx(s) # Idx(cur)
    BY <1>0, <2>2, StageFacts
  <2>4. QED
    BY <2>1, <2>2, <2>3
<1>8. ProcessInv'
  BY <1>1, <1>2, <1>3 DEF StaleInv, ProcessInv
<1>9. PrefixInv'
  BY <1>1, <1>2 DEF StaleInv, PrefixInv
<1>10. DoneMeansSaved'
  <2>1. \A s \in StageSet : Done(s) => n \notin Mandatory(s)
    BY <1>0, <1>4, ReadsEarlier DEF Mandatory
  <2>2. QED
    BY <1>1, <1>2, <1>5, <2>1 DEF StaleInv, FreshInv, DoneMeansSaved
<1>11. \A s \in StageSet : Orderly' /\ Done(s)' => UpToDate(s)'
  <2>1. ASSUME NEW s \in StageSet, Orderly, Done(s) PROVE UpToDate(s)'
    <3>1. UpToDate(s)
      BY <2>1 DEF StaleInv, FreshInv
    <3>2. Idx(s) <= Idx(cur)
      BY <2>1, <1>7, <1>0, StageFacts
    <3>3. QED
      BY <3>1, <3>2, <1>6
  <2>2. QED
    BY <1>2, <2>1
<1>12. UpToDate(cur)' \/ Pending("read")'
  <2>1. CASE UpToDate(cur)
    <3>1. \A m \in Uses(cur) : m # n
      BY <1>0, <1>4, ReadsEarlier, StageFacts
    <3>2. QED
      BY <2>1, <3>1, <1>1, <1>5 DEF UpToDate
  <2>2. CASE Pending("read")
    BY <2>2, <1>3, <1>4
  <2>3. QED
    BY <2>1, <2>2, <1>4 DEF StaleInv, FreshInv
<1>13. \A m \in Mandatory(cur) : art'[m] = execs[cur] \/ Pending(m)'
  BY <1>3, <1>4, <1>5 DEF StaleInv, FreshInv
<1>14. FreshInv'
  BY <1>1, <1>10, <1>11, <1>12, <1>13 DEF FreshInv
<1>15. QED
  BY <1>8, <1>9, <1>14

\* A process that ends, with the status of at most the current stage set to
\* something else than done, leaves the done stages as they were.
LEMMA LeaveKeeps ==
  ASSUME StaleInv, NEW how, Leave(how), UNCHANGED << art, execs, inputs, strays >>,
         status' = status \/ \E v : v # "done" /\ ~Done(cur) /\ status' = [status EXCEPT ![cur] = v]
  PROVE  ProcessInv' /\ PrefixInv' /\ FreshInv'
<1>0. TypeOK /\ cur \in StageSet /\ phase' = "idle" /\ (Orderly' <=> Orderly)
  BY StageFacts DEF StaleInv, TypeOK, cur, Leave, Orderly
<1>1. \A s \in StageSet : (Done(s)' <=> Done(s)) /\ (UpToDate(s)' <=> UpToDate(s))
  BY <1>0 DEF Done, UpToDate, TypeOK
<1>2. ProcessInv'
  BY <1>0 DEF ProcessInv
<1>3. PrefixInv'
  BY <1>0, <1>1 DEF StaleInv, PrefixInv
<1>4. DoneMeansSaved'
  BY <1>1 DEF StaleInv, FreshInv, DoneMeansSaved
<1>5. FreshInv'
  BY <1>0, <1>1, <1>4 DEF StaleInv, FreshInv
<1>6. QED
  BY <1>2, <1>3, <1>5

\* A stage that is done, or has just become it, may be passed.
LEMMA AdvanceKeeps ==
  ASSUME StaleInv, phase # "idle", Advance, UNCHANGED << art, execs, inputs, strays >>,
         status' = [status EXCEPT ![cur] = "done"],
         Done(cur) \/ (UpToDate(cur) /\ \A n \in Mandatory(cur) : art[n] = execs[cur])
  PROVE  ProcessInv' /\ PrefixInv' /\ FreshInv'
<1>0. TypeOK /\ cur \in StageSet /\ Idx(cur) = pos /\ pos \in 1..8 /\ (Orderly' <=> Orderly)
  BY StageFacts DEF StaleInv, TypeOK, cur, Orderly
<1>1. \A s \in StageSet : (Done(s)' <=> Done(s) \/ s = cur) /\ (UpToDate(s)' <=> UpToDate(s))
  BY <1>0 DEF Done, UpToDate, TypeOK
<1>2. \/ phase' = "idle"
      \/ phase' = "choose" /\ pos' = pos + 1 /\ only = None /\ only' = None
  BY DEF Advance, LastOfProcess, Leave
<1>3. ProcessInv'
  BY <1>2 DEF ProcessInv
<1>4. ASSUME Orderly, NEW s \in StageSet, NEW r \in StageSet, Done(s)', Idx(r) < Idx(s)
      PROVE  Done(r)'
  BY <1>0, <1>1, <1>4 DEF StaleInv, PrefixInv
<1>5. ASSUME Orderly, phase' # "idle", NEW r \in StageSet, Idx(r) < pos' PROVE Done(r)'
  <2>1. Idx(r) \in 1..8 /\ Stages[Idx(r)] = r
    BY StageFacts
  <2>2. Idx(r) < pos \/ Idx(r) = pos
    BY <2>1, <1>0, <1>2, <1>5
  <2>3. CASE Idx(r) < pos
    BY <2>3, <1>1, <1>5 DEF StaleInv, PrefixInv
  <2>4. CASE Idx(r) = pos
    BY <2>1, <2>4, <1>1 DEF cur
  <2>5. QED
    BY <2>2, <2>3, <2>4
<1>6. PrefixInv'
  BY <1>0, <1>4, <1>5 DEF PrefixInv
<1>7. DoneMeansSaved'
  BY <1>0, <1>1 DEF StaleInv, FreshInv, DoneMeansSaved
<1>8. \A s \in StageSet : Orderly' /\ Done(s)' => UpToDate(s)'
  BY <1>0, <1>1 DEF StaleInv, FreshInv
<1>9. phase' # "execute"
  BY <1>2
<1>10. FreshInv'
  BY <1>7, <1>8, <1>9 DEF FreshInv
<1>11. QED
  BY <1>3, <1>6, <1>10

\* Starting a stage takes its done mark from nobody: it was not done.
LEMMA BeginKeeps ==
  ASSUME StaleInv, Begin
  PROVE  ProcessInv' /\ PrefixInv' /\ FreshInv'
<1>0. TypeOK /\ cur \in StageSet /\ cur' = cur /\ Idx(cur) = pos /\ (Orderly' <=> Orderly)
  BY StageFacts DEF StaleInv, TypeOK, cur, Begin, Orderly
<1>1. ~Done(cur) /\ phase = "choose" /\ phase' = "execute" /\ pos' = pos
  BY DEF StaleInv, ProcessInv, Begin, Skippable, Done
<1>2. /\ \A s \in StageSet : Done(s)' <=> Done(s)
      /\ \A s \in StageSet : UpToDate(s)' <=> UpToDate(s)
      /\ status'[cur] = "running"
  BY <1>0, <1>1 DEF Begin, Done, UpToDate, TypeOK
<1>3. /\ Pending("read")'
      /\ \A n \in Mandatory(cur) : Pending(n)'
      /\ \A n \in Names : Pending(n)' => n \in Outputs[cur]
  <2>1. todo' \in Programs[cur]
    BY DEF Begin
  <2>2. QED
    BY <1>0, <2>1, ProgramFacts DEF Pending
<1>4. ProcessInv'
  BY <1>0, <1>1, <1>2, <1>3 DEF ProcessInv
<1>5. PrefixInv'
  BY <1>0, <1>1, <1>2 DEF StaleInv, PrefixInv
<1>6. DoneMeansSaved'
  <2>1. \A s \in StageSet : Done(s) => s # cur
    BY <1>1
  <2>2. \A s \in StageSet : s # cur => execs'[s] = execs[s]
    BY <1>0 DEF Begin, TypeOK
  <2>3. art' = art
    BY DEF Begin
  <2>4. QED
    BY <1>2, <2>1, <2>2, <2>3 DEF StaleInv, FreshInv, DoneMeansSaved
<1>7. FreshInv'
  BY <1>0, <1>2, <1>3, <1>6 DEF StaleInv, FreshInv
<1>8. QED
  BY <1>4, <1>5, <1>7

\* A new process: a plain resume starts at the first stage; --stage resets its
\* stage and the later ones, and keeps the history orderly only over done ones.
LEMMA InvokeKeeps ==
  ASSUME StaleInv, NEW o \in StageSet \union { None }, NEW st, Invoke(o, st)
  PROVE  ProcessInv' /\ PrefixInv' /\ FreshInv'
<1>0. TypeOK /\ phase = "idle" /\ phase' = "choose" /\ only' = o /\ UNCHANGED << art, execs, inputs >>
  BY DEF StaleInv, Invoke
<1>1. \A s \in StageSet : UpToDate(s)' <=> UpToDate(s)
  BY <1>0 DEF UpToDate
<1>2. CASE o = None
  <2>1. pos' = 1 /\ UNCHANGED << status, strays >>
    BY <1>2 DEF Invoke
  <2>2. (Orderly' <=> Orderly) /\ \A s : Done(s)' <=> Done(s)
    BY <2>1 DEF Orderly, Done
  <2>3. ProcessInv'
    BY <1>0, <1>2 DEF ProcessInv
  <2>4. PrefixInv'
    BY <2>1, <2>2, StageFacts DEF StaleInv, PrefixInv
  <2>5. DoneMeansSaved'
    BY <1>0, <2>2 DEF StaleInv, FreshInv, DoneMeansSaved
  <2>6. FreshInv'
    BY <1>0, <1>1, <2>2, <2>5 DEF StaleInv, FreshInv
  <2>7. QED
    BY <2>3, <2>4, <2>6
<1>3. CASE o \in StageSet
  <2>0. o # None
    BY <1>3 DEF StageSet, None
  <2>1. /\ pos' = Idx(o)
        /\ status' = [s \in StageSet |-> IF Idx(s) >= Idx(o) THEN "pending" ELSE status[s]]
        /\ strays' = IF \A s \in StageSet : Idx(s) < Idx(o) => status[s] = "done"
                         THEN strays ELSE strays + 1
    BY <1>3, <2>0 DEF Invoke, Resets
  <2>2. \A s \in StageSet : Idx(s) \in 1..8
    BY StageFacts
  <2>3. cur' = o
    BY <1>3, <2>1, StageFacts DEF cur
  <2>4. \A s \in StageSet : Done(s)' <=> Done(s) /\ Idx(s) < Idx(o)
    BY <1>3, <2>1, <2>2 DEF Done
  <2>5. Orderly' => Orderly /\ \A s \in StageSet : Idx(s) < Idx(o) => Done(s)
    <3>1. strays \in Nat
      BY <1>0 DEF TypeOK
    <3>2. QED
      BY <2>1, <3>1 DEF Orderly, Done
  <2>6. ProcessInv'
    BY <1>0, <1>3, <2>2, <2>3, <2>4 DEF ProcessInv
  <2>7. PrefixInv'
    BY <2>1, <2>2, <2>4, <2>5, <1>3 DEF StaleInv, PrefixInv
  <2>8. DoneMeansSaved'
    BY <1>0, <2>4 DEF StaleInv, FreshInv, DoneMeansSaved
  <2>9. FreshInv'
    BY <1>0, <1>1, <2>4, <2>5, <2>8 DEF StaleInv, FreshInv
  <2>10. QED
    BY <2>6, <2>7, <2>9
<1>4. QED
  BY <1>2, <1>3

\* The inductive invariant holds in every reachable state.
THEOREM StaleInvHolds == Spec => []StaleInv
<1>1. Init => ProcessInv /\ PrefixInv /\ FreshInv
  BY DEF Init, ProcessInv, PrefixInv, FreshInv, DoneMeansSaved, Done
<1>2. StaleInv /\ [Next]_vars => ProcessInv' /\ PrefixInv' /\ FreshInv'
  <2> SUFFICES ASSUME StaleInv, [Next]_vars PROVE ProcessInv' /\ PrefixInv' /\ FreshInv'
    OBVIOUS
  <2>0. TypeOK /\ cur \in StageSet
    BY StageFacts DEF StaleInv, TypeOK, cur
  <2>1. ASSUME NEW o \in StageSet \union { None }, NEW st, Invoke(o, st)
        PROVE  ProcessInv' /\ PrefixInv' /\ FreshInv'
    BY <2>1, InvokeKeeps
  <2>2. CASE Skip
    <3>1. Done(cur) /\ status' = [status EXCEPT ![cur] = "done"]
      BY <2>0, <2>2 DEF Skip, Skippable, Done, TypeOK
    <3>2. QED
      BY <2>2, <3>1, AdvanceKeeps DEF Skip
  <2>3. CASE Begin
    BY <2>3, BeginKeeps
  <2>4. CASE Retire \/ Remember \/ PinReviewOutputs \/ WipePackage \/ Release \/ CopyLedger \/ CopyGates
    <3>1. \A e \in { "retire", "remember", "pin", "wipe", "release", "copy_ledger", "copy_gates" } :
             e \notin Names /\ e # "read"
      BY DEF Names
    <3>2. PICK e \in { "retire", "remember", "pin", "wipe", "release", "copy_ledger", "copy_gates" } :
             Perform(e) /\ UNCHANGED << art, inputs >>
      BY <2>4 DEF Retire, Remember, PinReviewOutputs, WipePackage, Release, CopyLedger, CopyGates
    <3>3. QED
      BY <3>1, <3>2, QuietEffect
  <2>5. CASE Read
    BY <2>5, ReadKeeps
  <2>6. ASSUME NEW n \in Names, Save(n) PROVE ProcessInv' /\ PrefixInv' /\ FreshInv'
    BY <2>6, SaveKeeps
  <2>7. CASE Finish
    <3>1. ~Pending("read") /\ \A n \in Mandatory(cur) : ~Pending(n)
      BY <2>7 DEF Finish, Pending
    <3>2. UpToDate(cur) /\ \A n \in Mandatory(cur) : art[n] = execs[cur]
      BY <2>7, <3>1 DEF Finish, StaleInv, FreshInv
    <3>3. QED
      BY <2>7, <3>2, AdvanceKeeps DEF Finish
  <2>8. CASE Fail
    <3>1. ~Done(cur)
      BY <2>8 DEF Fail, StaleInv, ProcessInv, Done
    <3>2. QED
      BY <2>8, <3>1, LeaveKeeps DEF Fail
  <2>9. CASE Kill
    BY <2>9, LeaveKeeps DEF Kill
  <2>10. CASE UNCHANGED vars
    <3>1. /\ UNCHANGED << phase, only, pos, todo, cur, execs, art >>
          /\ (Orderly' <=> Orderly) /\ \A x : Pending(x)' <=> Pending(x)
          /\ \A s : (Done(s)' <=> Done(s)) /\ (UpToDate(s)' <=> UpToDate(s))
      BY <2>10 DEF vars, cur, Orderly, Pending, Done, UpToDate
    <3>2. DoneMeansSaved'
      BY <3>1 DEF StaleInv, FreshInv, DoneMeansSaved
    <3>3. ProcessInv'
      BY <2>10, <3>1 DEF vars, StaleInv, ProcessInv
    <3>4. PrefixInv'
      BY <3>1 DEF StaleInv, PrefixInv
    <3>5. FreshInv'
      BY <3>1, <3>2 DEF StaleInv, FreshInv
    <3>6. QED
      BY <3>3, <3>4, <3>5
  <2>11. QED
    BY <2>1, <2>2, <2>3, <2>4, <2>5, <2>6, <2>7, <2>8, <2>9, <2>10 DEF Next, Work
<1>3. QED
  BY <1>1, <1>2, TypeCorrect, PTL DEF Spec, StaleInv

\* Whatever was reset, failed or died, a done stage's artifacts are those of its
\* latest execution (Pipeline.run, reset_from, mark_stage).
THEOREM DoneStagesSaved == Spec => []DoneMeansSaved
<1>1. StaleInv => DoneMeansSaved
  BY DEF StaleInv, FreshInv
<1>2. QED
  BY <1>1, StaleInvHolds, PTL

\* As long as --stage is only used on stages whose predecessors are done, no
\* done stage was computed from an artifact that has been replaced since.
THEOREM NothingStaleWhenOrderly == Spec => []OrderlyRunsAreFresh
<1>1. StaleInv => OrderlyRunsAreFresh
  BY DEF StaleInv, PrefixInv, FreshInv, OrderlyRunsAreFresh
<1>2. QED
  BY <1>1, StaleInvHolds, PTL

\* Only `--stage` sends a done stage back to work: no resume, failure or death of
\* a process does (Pipeline.run skips done stages, reset_from is the one reset).
THEOREM OnlyStageOptionUndoes == Spec => DoneOnlyResetByStage
<1>1. ASSUME StaleInv, Next, NEW s \in StageSet, Done(s), status'[s] # "done"
      PROVE  phase = "idle" /\ only' # None
  <2>0. TypeOK /\ cur \in StageSet
    BY <1>1, StageFacts DEF StaleInv, TypeOK, cur
  <2>1. status' # status
    BY <1>1 DEF Done
  <2>2. CASE Begin \/ Fail
    <3>1. ~Done(cur)
      BY <1>1, <2>2 DEF Begin, Skippable, Fail, StaleInv, ProcessInv, Done
    <3>2. PICK v : status' = [status EXCEPT ![cur] = v]
      BY <2>2 DEF Begin, Fail
    <3>3. QED
      BY <1>1, <2>0, <3>1, <3>2 DEF TypeOK, Done
  <2>3. CASE Finish
    BY <1>1, <2>0, <2>3 DEF Finish, TypeOK, Done
  <2>4. ASSUME NEW o \in StageSet \union { None }, NEW st, Invoke(o, st)
        PROVE  phase = "idle" /\ only' # None
    BY <2>1, <2>4 DEF Invoke
  <2>5. QED
    BY <1>1, <2>1, <2>2, <2>3, <2>4 DEF Next, Work, Skip, Retire, Remember, Read, PinReviewOutputs,
       WipePackage, Release, CopyLedger, CopyGates, Save, Perform, Kill
<1>2. StaleInv /\ [Next]_vars =>
        [\A s \in StageSet : Done(s) /\ status'[s] # "done" => phase = "idle" /\ only' # None]_vars
  BY <1>1
<1>3. QED
  BY <1>2, StaleInvHolds, PTL DEF Spec, DoneOnlyResetByStage

-----------------------------------------------------------------------------
(* The inductive invariant behind the release theorem: what is pinned, and    *)
(* how far an execution of packaging has come.                                *)

PackageEffects == { "wipe", "release", "copy_ledger", "copy_gates" }

\* Only packaging writes the package and only a review pins its records.
OwnersInv ==
  phase = "execute" =>
    /\ Pending("pin") => cur = "review"
    /\ \A e \in PackageEffects : Pending(e) => cur = "package"

\* What is pinned is of the latest review, once that has pinned it.
PinnedNow == pinned.gates = execs["review"] /\ pinned.pdf \in { 0, execs["review"] }
PinInv ==
  /\ Done("review") => PinnedNow
  /\ phase = "execute" /\ cur = "review" => Pending("pin") \/ PinnedNow

\* What an execution of packaging has done with `left` still to do.
PdfDelivered == pinned.pdf \in { pkg.verified, pkg.unverified }
LedgerDelivered == pkg.ledger = art["ledger"]
GatesDelivered == pkg.gates = pinned.gates
PackagingInv ==
  phase = "execute" /\ cur = "package" =>
    \/ todo = << "read", "wipe", "release", "copy_ledger", "copy_gates" >>
    \/ /\ pinned.pdf # 0
       /\ \/ todo = << "wipe", "release", "copy_ledger", "copy_gates" >>
          \/ todo = << "release", "copy_ledger", "copy_gates" >>
          \/ /\ PdfDelivered
             /\ \/ todo = << "copy_ledger", "copy_gates" >>
                \/ /\ LedgerDelivered
                   /\ \/ todo = << "copy_gates" >>
                      \/ todo = << >> /\ GatesDelivered

\* A finished package of an orderly history holds what is pinned and current.
Delivered == pinned.pdf # 0 /\ PdfDelivered /\ LedgerDelivered /\ GatesDelivered
PackageInv == Orderly /\ Done("package") => Delivered

ReleaseInv == OwnersInv /\ PinInv /\ PackagingInv /\ PackageInv

\* Who performs which effect, read off the programs.
LEMMA Owners ==
  ASSUME NEW s \in StageSet, NEW p \in Programs[s]
  PROVE  /\ \A i \in 1..Len(p) : p[i] = "pin" => s = "review"
         /\ \A i \in 1..Len(p) : p[i] \in PackageEffects => s = "package"
         /\ s = "review" => \E i \in 1..Len(p) : p[i] = "pin"
         /\ s = "package" => p = << "read", "wipe", "release", "copy_ledger", "copy_gates" >>
<1>1. CASE s \in { "plan", "survey", "analysis" }
  BY <1>1 DEF Programs, PackageEffects
<1>2. CASE s \in { "experiments", "write", "evolve" }
  BY <1>2 DEF Programs, PackageEffects
<1>3. CASE s = "package"
  <2>1. p = << "read", "wipe", "release", "copy_ledger", "copy_gates" >>
    BY <1>3 DEF Programs
  <2>2. \A i \in 1..Len(p) : p[i] # "pin"
    BY <2>1
  <2>3. QED
    BY <1>3, <2>1, <2>2
<1>4. CASE s = "review"
  <2>1. CASE p = << "read", "remember", "ledger", "gates", "paper_pdf", "pin" >>
    <3>1. Len(p) = 6 /\ p[6] = "pin"
      BY <2>1
    <3>2. QED
      BY <1>4, <2>1, <3>1 DEF PackageEffects
  <2>2. CASE p = << "read", "remember", "ledger", "gates", "pin" >>
    <3>1. Len(p) = 5 /\ p[5] = "pin"
      BY <2>2
    <3>2. QED
      BY <1>4, <2>2, <3>1 DEF PackageEffects
  <2>3. CASE p = << "read", "ledger", "gates", "paper_pdf", "pin" >>
    <3>1. Len(p) = 5 /\ p[5] = "pin"
      BY <2>3
    <3>2. QED
      BY <1>4, <2>3, <3>1 DEF PackageEffects
  <2>4. CASE p = << "read", "ledger", "gates", "pin" >>
    <3>1. Len(p) = 4 /\ p[4] = "pin"
      BY <2>4
    <3>2. QED
      BY <1>4, <2>4, <3>1 DEF PackageEffects
  <2>5. QED
    BY <1>4, <2>1, <2>2, <2>3, <2>4 DEF Programs
<1>5. QED
  BY <1>1, <1>2, <1>3, <1>4 DEF StageSet

\* Once an orderly history has packaged, nothing is left to execute.
LEMMA PackagedIsLast ==
  ASSUME StaleInv, Orderly, Done("package")
  PROVE  /\ \A s \in StageSet : Done(s)
         /\ phase # "execute"
         /\ ~Begin
<1>1. "package" \in StageSet /\ Idx("package") = 8 /\ \A s \in StageSet : Idx(s) \in 1..8
  BY Order, StageFacts DEF StageSet
<1>2. \A s \in StageSet : Idx(s) = 8 => s = "package"
  BY <1>1, StageFacts
<1>3. ASSUME NEW s \in StageSet PROVE Done(s)
  <2>1. Idx(s) < 8 \/ Idx(s) = 8
    BY <1>1
  <2>2. QED
    BY <1>1, <1>2, <2>1 DEF StaleInv, PrefixInv
<1>4. cur \in StageSet
  BY StageFacts DEF StaleInv, TypeOK, cur
<1>5. phase # "execute"
  BY <1>3, <1>4 DEF StaleInv, ProcessInv, Done
<1>6. ~Begin
  BY <1>3, <1>4 DEF StaleInv, ProcessInv, Begin, Skippable, Done
<1>7. QED
  BY <1>3, <1>5, <1>6

\* An effect that leaves the pinned records alone.
LEMMA EffectKeeps ==
  ASSUME StaleInv, ReleaseInv, NEW e, Perform(e), e # "pin", UNCHANGED pinned
  PROVE  OwnersInv' /\ PinInv' /\ PackageInv'
<1>0. TypeOK /\ phase = "execute"
  BY DEF StaleInv, Perform
<1>1. UNCHANGED << phase, status, execs, strays, cur, pinned >>
  BY DEF Perform, cur
<1>2. (\A s : Done(s)' <=> Done(s)) /\ (PinnedNow' <=> PinnedNow) /\ (Orderly' <=> Orderly)
  BY <1>1 DEF Done, PinnedNow, Orderly
<1>3. OwnersInv'
  BY <1>0, <1>1, PerformPending DEF ReleaseInv, OwnersInv, PackageEffects
<1>4. Pending("pin") => Pending("pin")'
  BY <1>0, PerformPending
<1>5. PinInv'
  BY <1>1, <1>2, <1>4 DEF ReleaseInv, PinInv
<1>6. PackageInv'
  BY <1>0, <1>2, PackagedIsLast DEF PackageInv
<1>7. QED
  BY <1>3, <1>5, <1>6

\* The effects of packaging, each in its place.
LEMMA PackagingSteps ==
  ASSUME StaleInv, ReleaseInv, cur = "package",
         Read \/ WipePackage \/ Release \/ CopyLedger \/ CopyGates
  PROVE  PackagingInv'
<1>0. TypeOK
  BY DEF StaleInv
<1>1. PICK e : Perform(e) /\ UNCHANGED << pinned, art >>
  BY DEF Read, WipePackage, Release, CopyLedger, CopyGates
<1>2. phase = "execute" /\ todo # << >> /\ Head(todo) = e /\ todo' = Tail(todo) /\ cur' = cur
  BY <1>1 DEF Perform, cur
<1>3. CASE todo = << "read", "wipe", "release", "copy_ledger", "copy_gates" >>
  <2>1. Head(todo) = "read" /\ todo' = << "wipe", "release", "copy_ledger", "copy_gates" >>
    BY <1>2, <1>3
  <2>2. Read
    BY <2>1 DEF Read, WipePackage, Release, CopyLedger, CopyGates, Perform
  <2>3. pinned'.pdf # 0
    BY <1>1, <2>2 DEF Read, Readable
  <2>4. QED
    BY <2>1, <2>3 DEF PackagingInv
<1>4. CASE todo = << "wipe", "release", "copy_ledger", "copy_gates" >> /\ pinned.pdf # 0
  <2>1. todo' = << "release", "copy_ledger", "copy_gates" >> /\ pinned'.pdf # 0
    BY <1>1, <1>2, <1>4
  <2>2. QED
    BY <2>1 DEF PackagingInv
<1>5. CASE todo = << "release", "copy_ledger", "copy_gates" >> /\ pinned.pdf # 0
  <2>1. Head(todo) = "release" /\ todo' = << "copy_ledger", "copy_gates" >> /\ pinned'.pdf # 0
    BY <1>1, <1>2, <1>5
  <2>2. Release
    BY <2>1 DEF Read, WipePackage, Release, CopyLedger, CopyGates, Perform
  <2>3. PdfDelivered'
    BY <1>0, <1>1, <2>2 DEF Release, PdfDelivered, TypeOK
  <2>4. QED
    BY <2>1, <2>3 DEF PackagingInv
<1>6. CASE todo = << "copy_ledger", "copy_gates" >> /\ pinned.pdf # 0 /\ PdfDelivered
  <2>1. Head(todo) = "copy_ledger" /\ todo' = << "copy_gates" >> /\ pinned'.pdf # 0
    BY <1>1, <1>2, <1>6
  <2>2. CopyLedger
    BY <2>1 DEF Read, WipePackage, Release, CopyLedger, CopyGates, Perform
  <2>3. PdfDelivered' /\ LedgerDelivered'
    BY <1>0, <1>1, <1>6, <2>2 DEF CopyLedger, PdfDelivered, LedgerDelivered, TypeOK
  <2>4. QED
    BY <2>1, <2>3 DEF PackagingInv
<1>7. CASE todo = << "copy_gates" >> /\ pinned.pdf # 0 /\ PdfDelivered /\ LedgerDelivered
  <2>1. Head(todo) = "copy_gates" /\ todo' = << >> /\ pinned'.pdf # 0
    BY <1>1, <1>2, <1>7
  <2>2. CopyGates
    BY <2>1 DEF Read, WipePackage, Release, CopyLedger, CopyGates, Perform
  <2>3. PdfDelivered' /\ LedgerDelivered' /\ GatesDelivered'
    BY <1>0, <1>1, <1>7, <2>2 DEF CopyGates, PdfDelivered, LedgerDelivered, GatesDelivered, TypeOK
  <2>4. QED
    BY <2>1, <2>3 DEF PackagingInv
<1>8. QED
  BY <1>2, <1>3, <1>4, <1>5, <1>6, <1>7 DEF ReleaseInv, PackagingInv

\* No other effect comes up while packaging.
LEMMA OnlyPackagingEffects ==
  ASSUME ReleaseInv, cur = "package", NEW e, Perform(e)
  PROVE  e \in { "read", "wipe", "release", "copy_ledger", "copy_gates" }
<1>1. phase = "execute" /\ todo # << >> /\ Head(todo) = e
  BY DEF Perform
<1>2. \/ todo = << "read", "wipe", "release", "copy_ledger", "copy_gates" >>
      \/ todo = << "wipe", "release", "copy_ledger", "copy_gates" >>
      \/ todo = << "release", "copy_ledger", "copy_gates" >>
      \/ todo = << "copy_ledger", "copy_gates" >>
      \/ todo = << "copy_gates" >>
  BY <1>1 DEF ReleaseInv, PackagingInv
<1>3. QED
  BY <1>1, <1>2

\* The invariant of delivery holds in every reachable state.
THEOREM ReleaseInvHolds == Spec => []ReleaseInv
<1>1. Init => ReleaseInv
  BY DEF Init, ReleaseInv, OwnersInv, PinInv, PackagingInv, PackageInv, Done, StageSet
<1>2. StaleInv /\ ReleaseInv /\ [Next]_vars => ReleaseInv'
  <2> SUFFICES ASSUME StaleInv, ReleaseInv, [Next]_vars PROVE ReleaseInv'
    OBVIOUS
  <2>0. TypeOK /\ cur \in StageSet
    BY StageFacts DEF StaleInv, TypeOK, cur
  <2>a. ASSUME NEW e, Perform(e), cur # "package"
        PROVE  PackagingInv'
    BY <2>a DEF Perform, cur, PackagingInv
  <2>b. ASSUME phase' # "execute", UNCHANGED << art, pinned, pkg, execs >>,
               \A s \in StageSet : Done(s)' => Done(s), Orderly' => Orderly
        PROVE  ReleaseInv'
    <3>1. OwnersInv' /\ PackagingInv'
      BY <2>b DEF OwnersInv, PackagingInv
    <3>2. PinnedNow' <=> PinnedNow
      BY <2>b DEF PinnedNow
    <3>3. "review" \in StageSet /\ "package" \in StageSet
      BY DEF StageSet
    <3>4. Delivered' <=> Delivered
      BY <2>b DEF Delivered, PdfDelivered, LedgerDelivered, GatesDelivered
    <3>5. QED
      BY <2>b, <3>1, <3>2, <3>3, <3>4 DEF ReleaseInv, PinInv, PackageInv
  <2>1. ASSUME NEW o \in StageSet \union { None }, NEW st, Invoke(o, st)
        PROVE  ReleaseInv'
    <3>1. \A s \in StageSet : Done(s)' => Done(s)
      BY <2>1 DEF Invoke, Done
    <3>2. Orderly' => Orderly
      BY <2>0, <2>1 DEF Invoke, Orderly, TypeOK
    <3>3. QED
      BY <2>1, <3>1, <3>2, <2>b DEF Invoke
  <2>2. CASE Skip
    BY <2>2, <2>b DEF Skip, Advance, Leave, Done, Orderly
  <2>3. CASE Begin
    <3>1. cur' = cur /\ todo' \in Programs[cur] /\ UNCHANGED << pinned, pkg, art >> /\ (Orderly' <=> Orderly)
      BY <2>3 DEF Begin, cur, Orderly
    <3>2. /\ Pending("pin")' => cur = "review"
          /\ \A e \in PackageEffects : Pending(e)' => cur = "package"
          /\ cur = "review" => Pending("pin")'
          /\ cur = "package" => todo' = << "read", "wipe", "release", "copy_ledger", "copy_gates" >>
      BY <2>0, <3>1, Owners DEF Pending
    <3>3. OwnersInv' /\ PackagingInv'
      BY <3>1, <3>2 DEF OwnersInv, PackagingInv
    <3>4. /\ ~Done(cur)
          /\ \A s \in StageSet : Done(s)' <=> Done(s)
          /\ \A s \in StageSet : s # cur => execs'[s] = execs[s]
      <4>1. ~Done(cur)
        BY <2>3 DEF StaleInv, ProcessInv, Begin, Skippable, Done
      <4>2. QED
        BY <2>0, <2>3, <4>1 DEF Begin, Done, TypeOK
    <3>5. "review" \in StageSet /\ "package" \in StageSet
      BY DEF StageSet
    <3>6. PinInv'
      BY <3>1, <3>2, <3>4, <3>5 DEF ReleaseInv, PinInv, PinnedNow
    <3>7. PackageInv'
      BY <2>3, <3>1, <3>4, <3>5, PackagedIsLast DEF PackageInv
    <3>8. QED
      BY <3>3, <3>6, <3>7 DEF ReleaseInv
  <2>4. CASE Retire \/ Remember \/ \E n \in Names : Save(n)
    <3>1. PICK e : Perform(e) /\ e \notin { "read", "wipe", "release", "copy_ledger", "copy_gates", "pin" }
                   /\ UNCHANGED pinned
      BY <2>4 DEF Retire, Remember, Save, Names
    <3>2. cur # "package"
      BY <3>1, OnlyPackagingEffects
    <3>3. QED
      BY <3>1, <3>2, <2>a, EffectKeeps DEF ReleaseInv
  <2>5. CASE Read \/ WipePackage \/ Release \/ CopyLedger \/ CopyGates
    <3>1. PICK e : Perform(e) /\ e # "pin" /\ UNCHANGED pinned
      BY <2>5 DEF Read, WipePackage, Release, CopyLedger, CopyGates
    <3>2. PackagingInv'
      BY <2>5, <3>1, <2>a, PackagingSteps
    <3>3. QED
      BY <3>1, <3>2, EffectKeeps DEF ReleaseInv
  <2>6. CASE PinReviewOutputs
    <3>1. Perform("pin") /\ Pending("pin")
      BY <2>0, <2>6, PerformPending DEF PinReviewOutputs
    <3>2. cur = "review" /\ phase = "execute" /\ cur' = cur
      BY <3>1 DEF ReleaseInv, OwnersInv, Perform, cur
    <3>3. PackagingInv'
      BY <3>1, <3>2, <2>a
    <3>4. OwnersInv'
      BY <2>0, <3>1, <3>2, PerformPending DEF ReleaseInv, OwnersInv
    <3>5. PinInv'
      BY <2>6 DEF PinReviewOutputs, Perform, OwnPdf, PinInv, PinnedNow
    <3>6. (Done("package")' <=> Done("package")) /\ (Orderly' <=> Orderly)
      BY <3>1 DEF Perform, Done, Orderly
    <3>7. PackageInv'
      BY <3>2, <3>6, PackagedIsLast DEF PackageInv
    <3>8. QED
      BY <3>3, <3>4, <3>5, <3>7 DEF ReleaseInv
  <2>7. CASE Finish
    <3>1. /\ phase = "execute" /\ phase' # "execute" /\ UNCHANGED << art, pinned, pkg, execs >>
          /\ Orderly' <=> Orderly
          /\ ~Pending("pin")
      BY <2>7 DEF Finish, Advance, Leave, Orderly, Pending
    <3>2. \A s \in StageSet : Done(s)' <=> Done(s) \/ s = cur
      BY <2>0, <2>7 DEF Finish, Done, TypeOK
    <3>3. OwnersInv' /\ PackagingInv'
      BY <3>1 DEF OwnersInv, PackagingInv
    <3>4. "review" \in StageSet /\ "package" \in StageSet
      BY DEF StageSet
    <3>5. PinInv'
      BY <3>1, <3>2, <3>4 DEF ReleaseInv, PinInv, PinnedNow
    <3>6. PackageInv'
      <4>1. Delivered' <=> Delivered
        BY <3>1 DEF Delivered, PdfDelivered, LedgerDelivered, GatesDelivered
      <4>2. cur = "package" => Delivered
        BY <2>7, <3>1 DEF Finish, ReleaseInv, PackagingInv, Delivered
      <4>3. QED
        BY <3>1, <3>2, <3>4, <4>1, <4>2 DEF ReleaseInv, PackageInv
    <3>7. QED
      BY <3>3, <3>5, <3>6 DEF ReleaseInv
  <2>8. CASE Fail
    BY <2>0, <2>8, <2>b DEF Fail, Leave, Done, Orderly, TypeOK
  <2>9. CASE Kill
    BY <2>9, <2>b DEF Kill, Leave, Done, Orderly
  <2>10. CASE UNCHANGED vars
    <3>1. UNCHANGED << phase, todo, cur, pinned, pkg, art, execs >>
          /\ (Orderly' <=> Orderly) /\ (\A s : Done(s)' <=> Done(s)) /\ \A x : Pending(x)' <=> Pending(x)
      BY <2>10 DEF vars, cur, Orderly, Done, Pending
    <3>2. /\ PdfDelivered' <=> PdfDelivered
          /\ LedgerDelivered' <=> LedgerDelivered
          /\ GatesDelivered' <=> GatesDelivered
          /\ PinnedNow' <=> PinnedNow
      BY <3>1 DEF PdfDelivered, LedgerDelivered, GatesDelivered, PinnedNow
    <3>3. OwnersInv' /\ PinInv' /\ PackageInv'
      BY <3>1, <3>2 DEF ReleaseInv, OwnersInv, PinInv, PackageInv, Delivered
    <3>4. PackagingInv'
      BY <3>1, <3>2 DEF ReleaseInv, PackagingInv
    <3>5. QED
      BY <3>3, <3>4 DEF ReleaseInv
  <2>11. QED
    BY <2>1, <2>2, <2>3, <2>4, <2>5, <2>6, <2>7, <2>8, <2>9, <2>10 DEF Next, Work
<1>3. QED
  BY <1>1, <1>2, StaleInvHolds, PTL DEF Spec

\* After an orderly history a finished package holds PDF, gates and ledger of the
\* latest review, and that review read the latest draft (stage_review pins its
\* records, stage_package copies what is pinned, reset_from undoes the rest).
THEOREM OrderlyReleaseHolds == Spec => []OrderlyRelease
<1>1. StaleInv /\ ReleaseInv => OrderlyRelease
  <2> SUFFICES ASSUME StaleInv, ReleaseInv, Orderly, Done("package")
               PROVE  /\ pkg.gates = execs["review"] /\ pkg.ledger = execs["review"]
                      /\ execs["review"] \in { pkg.verified, pkg.unverified }
                      /\ inputs["review"]["draft"] = execs["write"]
    BY DEF OrderlyRelease
  <2>1. Delivered /\ PinnedNow /\ pinned.pdf # 0
    BY PackagedIsLast DEF ReleaseInv, PackageInv, PinInv, Delivered, StageSet
  <2>2. Done("review") /\ Done("write")
    BY PackagedIsLast DEF StageSet
  <2>3. "ledger" \in Mandatory("review") /\ "draft" \in Mandatory("write") /\ "draft" \in Uses("review")
    BY DEF Mandatory, Outputs, OptionalNames, Uses, Needs
  <2>4. art["ledger"] = execs["review"] /\ art["draft"] = execs["write"]
    BY <2>2, <2>3 DEF StaleInv, FreshInv, DoneMeansSaved, StageSet
  <2>5. inputs["review"]["draft"] = art["draft"]
    BY <2>2, <2>3 DEF StaleInv, FreshInv, UpToDate, StageSet
  <2>6. QED
    BY <2>1, <2>4, <2>5 DEF Delivered, PinnedNow, PdfDelivered, LedgerDelivered, GatesDelivered
<1>2. QED
  BY <1>1, StaleInvHolds, ReleaseInvHolds, PTL
=============================================================================
