----------------------------- MODULE LessonStore -----------------------------
(***************************************************************************)
(* Writing lessons across runs: tyche/evolution/playbook.py on top of      *)
(* tyche/memory/store.py.  All runs of a workspace share one memory.db.    *)
(*                                                                         *)
(* Every run writes its paper with some of the active lessons in the       *)
(* writer's context and then merges the lessons distilled from its ledger: *)
(* one read of all lessons, then transaction by transaction.  A process    *)
(* may be killed between two transactions, and the stage be run again;     *)
(* when processes overlap, theirs interleave.                              *)
(*                                                                         *)
(* Nothing keeps two processes, or two lessons of one set with the same    *)
(* category, from merging against a read that is out of date.  The history *)
(* variable `stale` names the categories it has happened to; the           *)
(* properties are about all others, and show that the harm stays there.    *)
(*                                                                         *)
(* A lesson's text is one of a few texts, a category stands for every      *)
(* wording with its slug, and an item's number for its content-derived id, *)
(* which the insert itself claims.                                         *)
(***************************************************************************)
EXTENDS Naturals, Sequences, FiniteSets, FiniteSetsExt, SequencesExt

CONSTANTS
  Runs, Categories, Texts,
  PromoteAfterRuns, PromoteAfterHelped, RetireAfterMisses,   \* evolution.*
  MaxHelped,      \* bound: findings of one lesson that an accepted revision fixed
  MaxLessons,     \* bound: lessons distilled from one ledger (6 in the schema)
  Parallel,       \* bound: processes that run at the same time
  MaxEvolves      \* bound: executions of the evolve stage

ASSUME LessonConstants ==
  /\ PromoteAfterRuns \in Nat /\ PromoteAfterHelped \in Nat /\ RetireAfterMisses \in Nat
  /\ MaxHelped \in Nat /\ MaxLessons \in Nat /\ MaxEvolves \in Nat
  /\ Parallel \in Nat

VARIABLES
  items,      \* the lessons ever added, by number
  listed,     \* their order in MemoryStore.list: creation second, then id
  pc,         \* per run: its paper is new or ready, its evolve stage running or done
  injected,   \* meta.injected_lessons of each run
  todo,       \* lessons the running evolve stage still has to merge
  read,       \* the items as it read them at its start
  seen,       \* the entry of each category among them; 0 is none
  fresh,      \* the replacement it has added and not linked yet
  evolves,    \* history: executions of the stage
  recorded,   \* history: categories each run's last complete execution merged
  since,      \* history: categories whose standing lesson was written since a process's read
  stale       \* history: categories in which a merge rested on a read that was out of date

vars == << items, listed, pc, injected, todo, read, seen, fresh, evolves, recorded,
           since, stale >>

Missed == { "none", "no", "yes" }
NoRecord == [helped |-> 0, missed |-> "none"]
Records == [Runs -> [helped : Nat, missed : Missed]]

\* heir is superseded_by; of, the item this one was added to replace, is not stored.
Item == [category : Categories, text : Texts, runs : Records,
         status : { "candidate", "active", "retired" }, heir : Nat, of : Nat]
Lesson == [category : Categories, text : Texts, helped : 0..MaxHelped]
NothingSeen == [c \in Categories |-> 0]

Live(i) == items[i].heir = 0
Active == { i \in DOMAIN items : Live(i) /\ items[i].status = "active" }

\* The entry `existing` holds for a category: the last one listed wins; 0 is none.
Standing(c) ==
  LET mine == { n \in DOMAIN listed : Live(listed[n]) /\ items[listed[n]].category = c }
  IN  IF mine = {} THEN 0 ELSE listed[Max(mine)]

Support(runs) == { r \in Runs : runs[r].missed # "none" }
Helped(runs) == MapThenSumSet(LAMBDA r : runs[r].helped, Runs)
Misses(runs) == { r \in Runs : runs[r].missed = "yes" }

Earned(runs) == Cardinality(Support(runs)) >= PromoteAfterRuns /\ Helped(runs) >= PromoteAfterHelped
Useless(runs) == Cardinality(Misses(runs)) >= RetireAfterMisses

\* Mutant: a lesson is judged anew every time.
StatusAnew(status, runs) ==
  IF ~Earned(runs) THEN "candidate" ELSE IF Useless(runs) THEN "retired" ELSE "active"

\* _fold_runs and _status: the counters are derived from the records.
Status(status, runs) ==
  IF status = "candidate" THEN IF Earned(runs) THEN "active" ELSE "candidate"
  ELSE IF status = "active" /\ Useless(runs) THEN "retired" ELSE status

Evolving(r) == pc[r] \in { "lesson", "adding", "linking" }
Room(r) == Cardinality({ q \in Runs \ { r } : Evolving(q) }) < Parallel

Init ==
  /\ items = <<>> /\ listed = <<>>
  /\ pc = [r \in Runs |-> "new"]
  /\ injected = [r \in Runs |-> {}]
  /\ todo = [r \in Runs |-> <<>>]
  /\ read = [r \in Runs |-> <<>>]
  /\ seen = [r \in Runs |-> NothingSeen]
  /\ fresh = [r \in Runs |-> 0]
  /\ evolves = 0
  /\ recorded = [r \in Runs |-> {}]
  /\ since = [r \in Runs |-> {}] /\ stale = {}

\* The lessons a section's retrieval can bring up.
Shown == Active

\* The write and review stages of a run, for the first time or again.
WritePaper(r) ==
  /\ pc[r] \in { "new", "ready", "evolved" } /\ Room(r)
  /\ \E shown \in SUBSET Shown : injected' = [injected EXCEPT ![r] = shown]
  /\ pc' = [pc EXCEPT ![r] = "ready"]
  /\ recorded' = [recorded EXCEPT ![r] = {}]
  /\ UNCHANGED << items, listed, todo, read, seen, fresh, evolves, since, stale >>

\* Two of them may slug to the same category.
LessonSets == BoundedSeq(Lesson, MaxLessons)

\* distill_lessons, then the read at the top of update_lessons.
Distill(r, lessons) ==
  /\ pc[r] \in { "ready", "evolved" } /\ Room(r) /\ evolves < MaxEvolves
  /\ pc' = [pc EXCEPT ![r] = "lesson"]
  /\ todo' = [todo EXCEPT ![r] = lessons]
  /\ read' = [read EXCEPT ![r] = items]
  /\ seen' = [seen EXCEPT ![r] = [c \in Categories |-> Standing(c)]]
  /\ evolves' = evolves + 1
  /\ recorded' = [recorded EXCEPT ![r] = {}]
  /\ since' = [since EXCEPT ![r] = {}]
  /\ UNCHANGED << items, listed, injected, fresh, stale >>

lesson(r) == Head(todo[r])
target(r) == seen[r][lesson(r).category]
before(r) == read[r][target(r)]

\* Mutant: the guidance is charged with a miss whether it was shown or not.
MissWhenever(r) == "yes"

Verdict(r) == IF target(r) \in injected[r] THEN "yes" ELSE "no"

\* Mutant: the records of the other runs are dropped.
OnlyThisRun(r) == [[q \in Runs |-> NoRecord] EXCEPT ![r] = [helped |-> lesson(r).helped, missed |-> Verdict(r)]]

\* A run's record in a lesson replaces the one it may have had.
Merged(r) == [before(r).runs EXCEPT ![r] = [helped |-> lesson(r).helped, missed |-> Verdict(r)]]

\* Where a new item may be listed: within one second, ids decide.
Places(r) ==
  { p \in 1..(Len(listed) + 1) : \A k \in p..Len(listed) : listed[k] > Len(read[r]) }

Insert(r, item) ==
  /\ items' = Append(items, item)
  /\ \E p \in Places(r) : listed' = InsertAt(listed, p, Len(items) + 1)

NextLesson(r) ==
  /\ pc' = [pc EXCEPT ![r] = "lesson"]
  /\ todo' = [todo EXCEPT ![r] = Tail(@)]
  /\ recorded' = [recorded EXCEPT ![r] = @ \union { lesson(r).category }]

\* The lesson that stands for the category is written: what others have read of it is old,
\* and so may be what this process goes by.
Writes(r) ==
  LET c == lesson(r).category
  IN  /\ since' = [q \in Runs |-> IF Evolving(q) THEN since[q] \union { c } ELSE since[q]]
      /\ stale' = IF c \in since[r] THEN stale \union { c } ELSE stale

\* The first lesson of a category (MemoryStore.add: one transaction).
Create(r) ==
  /\ pc[r] = "lesson" /\ todo[r] # <<>> /\ target(r) = 0
  /\ LET runs == [[q \in Runs |-> NoRecord] EXCEPT ![r] = [helped |-> lesson(r).helped, missed |-> "no"]]
     IN  Insert(r, [category |-> lesson(r).category, text |-> lesson(r).text, runs |-> runs,
                    status |-> Status("candidate", runs), heir |-> 0, of |-> 0])
  /\ NextLesson(r) /\ Writes(r)
  /\ UNCHANGED << injected, read, seen, fresh, evolves >>

\* Mutant: the text of an active lesson is replaced as well.
RewritesActive(r) == lesson(r).text # before(r).text

\* Only the text of a lesson that is not active is replaced.
Rewritten(r) == lesson(r).text # before(r).text /\ before(r).status # "active"

\* update_meta: what was read at the start, with this run's record, replaces what is stored.
Update(r) ==
  /\ pc[r] = "lesson" /\ todo[r] # <<>> /\ target(r) # 0 /\ ~Rewritten(r)
  /\ items' = [items EXCEPT ![target(r)].runs = Merged(r),
                            ![target(r)].status = Status(before(r).status, Merged(r))]
  /\ NextLesson(r) /\ Writes(r)
  /\ UNCHANGED << listed, injected, read, seen, fresh, evolves >>

\* supersede, its check: an item superseded meanwhile fails the stage.
Check(r) ==
  /\ pc[r] = "lesson" /\ todo[r] # <<>> /\ target(r) # 0 /\ Rewritten(r) /\ Live(target(r))
  /\ pc' = [pc EXCEPT ![r] = "adding"]
  /\ UNCHANGED << items, listed, injected, todo, read, seen, fresh, evolves, recorded, since, stale >>

\* supersede, its first transaction: the replacement is live from here on.
AddReplacement(r) ==
  /\ pc[r] = "adding"
  /\ Insert(r, [category |-> lesson(r).category, text |-> lesson(r).text, runs |-> Merged(r),
                status |-> Status(before(r).status, Merged(r)), heir |-> 0, of |-> target(r)])
  /\ fresh' = [fresh EXCEPT ![r] = Len(items) + 1]
  /\ pc' = [pc EXCEPT ![r] = "linking"]
  /\ Writes(r)
  /\ UNCHANGED << injected, todo, read, seen, evolves, recorded >>

\* Mutant: the link names the next free number instead of the one the insert claimed.
LinkNext(r) == items' = [items EXCEPT ![target(r)].heir = Len(items) + 1]

LinkOld(r) == items' = [items EXCEPT ![target(r)].heir = fresh[r]]

\* supersede, its second transaction.
Link(r) ==
  /\ pc[r] = "linking"
  /\ LinkOld(r)
  /\ NextLesson(r)
  /\ fresh' = [fresh EXCEPT ![r] = 0]
  /\ UNCHANGED << listed, injected, read, seen, evolves, since, stale >>

\* What the process held is gone when it ends.
Forget(r) ==
  /\ todo' = [todo EXCEPT ![r] = <<>>] /\ read' = [read EXCEPT ![r] = <<>>]
  /\ seen' = [seen EXCEPT ![r] = NothingSeen] /\ fresh' = [fresh EXCEPT ![r] = 0]
  /\ since' = [since EXCEPT ![r] = {}]

Complete(r) ==
  /\ pc[r] = "lesson" /\ todo[r] = <<>>
  /\ pc' = [pc EXCEPT ![r] = "evolved"]
  /\ Forget(r)
  /\ UNCHANGED << items, listed, injected, evolves, recorded, stale >>

\* The stage fails (superseding a superseded item) or the process is killed.
Abort(r) ==
  /\ Evolving(r)
  /\ pc' = [pc EXCEPT ![r] = "ready"]
  /\ recorded' = [recorded EXCEPT ![r] = {}]
  /\ Forget(r)
  /\ UNCHANGED << items, listed, injected, evolves, stale >>

Next ==
  \E r \in Runs :
    \/ WritePaper(r) \/ Create(r) \/ Update(r) \/ Check(r) \/ AddReplacement(r)
    \/ Link(r) \/ Complete(r) \/ Abort(r)
    \/ \E lessons \in LessonSets : Distill(r, lessons)

Spec == Init /\ [][Next]_vars

-----------------------------------------------------------------------------
\* The types of the state: links lead to lessons, and list() gives every lesson once.
TypeOK ==
  /\ items \in Seq(Item) /\ \A i \in DOMAIN items : items[i].heir \in 0..Len(items)
  /\ listed \in Seq(DOMAIN items) /\ IsInjective(listed) /\ Len(listed) = Len(items)
  /\ pc \in [Runs -> { "new", "ready", "lesson", "adding", "linking", "evolved" }]
  /\ injected \in [Runs -> SUBSET DOMAIN items]
  /\ todo \in [Runs -> Seq(Lesson)]
  /\ read \in [Runs -> Seq(Item)]
  /\ seen \in [Runs -> [Categories -> Nat]] /\ fresh \in [Runs -> Nat]
  /\ evolves \in Nat /\ recorded \in [Runs -> SUBSET Categories]
  /\ since \in [Runs -> SUBSET Categories] /\ stale \subseteq Categories

\* A category has at most one active lesson, so the writer is never given two
\* versions of the same guidance and the one it is given is the one kept up to date;
\* deaths between any two transactions and merges of other categories change nothing.
OneActivePerCategory ==
  \A i \in Active : items[i].category \notin stale =>
    /\ \A j \in Active : items[i].category = items[j].category => i = j
    /\ Standing(items[i].category) = i

\* Every complete execution of the evolve stage leaves this run's record in the
\* lesson that stands for the category, whatever other runs did since, at the same time too.
RunRecordsKept ==
  \A r \in Runs : pc[r] = "evolved" =>
    \A c \in recorded[r] \ stale : Standing(c) # 0 /\ items[Standing(c)].runs[r].missed # "none"

\* A lesson that was in the writer's context and whose problem came back is
\* charged with a miss, unless it has been retired in the meantime; one that was
\* not is not.
MissesAreCharged ==
  \A r \in Runs : pc[r] = "evolved" =>
    \A c \in recorded[r] \ stale :
      LET standing == items[Standing(c)]
          shown == { i \in injected[r] : items[i].category = c }
      IN  /\ shown # {} => standing.runs[r].missed = "yes" \/ standing.status = "retired"
          /\ shown = {} => standing.runs[r].missed = "no"

\* The lesson that stands for a category goes through the documented life cycle,
\* through corrections of its text, reruns, failures and deaths: guidance found
\* useless does not come back.  Nothing is promised of a stale category.
StandingStatus ==
  [c \in Categories |-> IF c \in stale THEN "stale"
                        ELSE IF Standing(c) = 0 THEN "none" ELSE items[Standing(c)].status]
Life == INSTANCE LessonLife WITH stage <- StandingStatus
FollowsLifeCycle == Life!Spec

-----------------------------------------------------------------------------
(* What the code does not keep.                                            *)

\* playbook.py:119: each lesson keeps one record per run.  Of two runs that evolve at the
\* same time one loses its record.
EveryRecordIsKept ==
  \A r \in Runs : pc[r] = "evolved" =>
    \A c \in recorded[r] : Standing(c) # 0 /\ items[Standing(c)].runs[r].missed # "none"

\* playbook.py:122 gives every category one entry, so that later runs see one lesson of it;
\* two lessons of one category in a set, or two processes, may leave two active ones.
AlwaysOneActive ==
  \A i, j \in Active : items[i].category = items[j].category => i = j

\* playbook.py:8: an active lesson recurred in enough runs and enough of its
\* findings were fixed by accepted revisions.
ActiveIsEarned ==
  \A i \in Active : Earned(items[i].runs)

\* store.py:171: the old item stays, linked to its replacement; between
\* executions no corrected item is left unlinked.
CorrectionsAreLinked ==
  (\A r \in Runs : ~Evolving(r)) =>
    \A i \in DOMAIN items : items[i].of # 0 => items[items[i].of].heir = i
=============================================================================
