------------------------------- MODULE Survey -------------------------------
(***************************************************************************)
(* From search results to a bibliography: Surveyor.run                     *)
(* (tyche/literature/survey.py) with Verifier.verify                       *)
(* (tyche/literature/verify.py).  Records are retrieved and merged, the    *)
(* model keeps some of the papers, the citation graph adds papers nobody   *)
(* had found, and what is kept is checked against arXiv and Crossref       *)
(* before it may be cited.                                                 *)
(*                                                                         *)
(* What services return, what they leave out and what the model keeps is   *)
(* any choice.  A service that fails returns nothing and is not asked      *)
(* again.                                                                  *)
(***************************************************************************)
EXTENDS RecordMerging

CONSTANTS
  Incoming,      \* records the services can return
  Graph,         \* those among them Semantic Scholar's citation graph can return
  Arxiv,         \* the records arXiv has, by arXiv id
  Crossref,      \* the titles Crossref has, by DOI
  ArxivDois,     \* the DOIs arXiv itself registers (10.48550/)
  SimilarTitles, \* pairs of titles that are close, besides equal ones
  MaxRetrieved, MaxFound,   \* bounds: records retrieved, records of the citation graph
  MaxPapers,     \* literature.max_papers
  MinCitable     \* min(literature.min_papers, 3)

ASSUME SurveyConstants ==
  /\ Incoming \subseteq Record /\ Graph \subseteq Incoming
  /\ \A r \in Incoming : r.ids[Title] # None
  /\ \A x \in DOMAIN Arxiv : x \in Ids /\ Arxiv[x] \in Record /\ Arxiv[x].ids[ArxivId] = x
  /\ MaxRetrieved \in Nat /\ MaxFound \in Nat /\ MaxPapers \in Nat /\ MinCitable \in Nat

VARIABLES
  phase,         \* retrieve, expand, verify, done, failed
  shelf,         \* what is being merged: the pool, later the citation graph's papers
  pool,          \* the papers retrieved
  kept,          \* the papers the model kept
  arxivAnswers,  \* whether the arXiv lookup of this survey is answered
  checked,       \* kept papers that were checked: before and after
  verdicts,      \* the result of verify, by identity key
  bib            \* the papers that may be cited

vars == << phase, shelf, pool, kept, arxivAnswers, checked, verdicts, bib >>

NoVerdict == [citable |-> FALSE, lookedUp |-> {}, of |-> {}]

Init ==
  /\ phase = "retrieve" /\ shelf = EmptyShelf /\ pool = {} /\ kept = {}
  /\ arxivAnswers \in BOOLEAN /\ checked = {}
  /\ verdicts = [key \in AllKeys |-> NoVerdict] /\ bib = {}

\* _retrieve and _canonical, with dedupe.
Retrieve(r) ==
  /\ phase = "retrieve" /\ Len(shelf.papers) < MaxRetrieved
  /\ shelf' = Taken(shelf, r)
  /\ UNCHANGED << phase, pool, kept, arxivAnswers, checked, verdicts, bib >>

NothingRetrieved ==
  /\ phase = "retrieve" /\ shelf.listed = {} /\ phase' = "failed"
  /\ UNCHANGED << shelf, pool, kept, arxivAnswers, checked, verdicts, bib >>

\* _screen, at most max_papers of the pool.
Screen ==
  /\ phase = "retrieve" /\ shelf.listed # {} /\ phase' = "expand"
  /\ pool' = Papers(shelf) /\ shelf' = EmptyShelf
  /\ kept' \in { s \in SUBSET pool' : Cardinality(s) <= MaxPapers }
  /\ UNCHANGED << arxivAnswers, checked, verdicts, bib >>

\* _expand, from a kept paper Semantic Scholar knows.
Find(r) ==
  /\ phase = "expand" /\ Len(shelf.papers) < MaxFound
  /\ \E seed \in kept : seed.ids[S2Id] # None
  /\ shelf' = Taken(shelf, r)
  /\ UNCHANGED << phase, pool, kept, arxivAnswers, checked, verdicts, bib >>

KnownKeys == UNION { KeysOf(p) : p \in pool }
Fresh == { p \in Papers(shelf) : KeysOf(p) \intersect KnownKeys = {} }

\* Mutant: the new papers are counted alone.
ExtraRoom(extra) == Cardinality(extra) <= MaxPapers

Room(extra) == Cardinality(kept) + Cardinality(extra) <= MaxPapers

Select ==
  /\ phase = "expand" /\ phase' = "verify" /\ shelf' = EmptyShelf
  /\ \E extra \in SUBSET Fresh : Room(extra) /\ kept' = kept \union extra
  /\ UNCHANGED << pool, arxivAnswers, checked, verdicts, bib >>

\* minimal_metadata; every record has a title.
Complete(p) == p.meta = { "authors", "year" } /\ \E k \in { ArxivId, Doi, S2Id } : p.ids[k] # None

Similar(t, u) == t = u \/ << t, u >> \in SimilarTitles

\* The arXiv record a paper's arXiv id is checked against, if there is one.
AsksArxiv(p) == p.ids[ArxivId] # None /\ "arxiv" \notin p.sources
ArxivSays(p) ==
  IF Complete(p) /\ AsksArxiv(p) /\ arxivAnswers /\ p.ids[ArxivId] \in DOMAIN Arxiv
  THEN { Arxiv[p.ids[ArxivId]] } ELSE {}

\* Mutant: the DOI that is looked up is the one the paper had before the arXiv record was merged.
DoiBefore(p, after) == p.ids[Doi]

DoiToAsk(p, after) == after.ids[Doi]

\* One turn of verify's loop.
Verify(p) ==
  LET says == ArxivSays(p)
      confirmed == { r \in says : Similar(r.ids[Title], p.ids[Title]) }
      after == IF confirmed = {} THEN p ELSE Merge(p, CHOOSE r \in confirmed : TRUE)
      refused == says # confirmed
      doi == DoiToAsk(p, after)
      asksCrossref == Complete(p) /\ ~refused /\ doi # None /\ doi \notin ArxivDois
  IN  /\ phase = "verify" /\ p \in kept /\ \A c \in checked : c.before # p
      /\ \E answers \in BOOLEAN :
           LET says2 == IF asksCrossref /\ answers /\ doi \in DOMAIN Crossref THEN { Crossref[doi] } ELSE {}
           IN  verdicts' = [verdicts EXCEPT ![FirstKey(p)] =
                 [citable |-> Complete(p) /\ ~refused /\ \A t \in says2 : Similar(t, after.ids[Title]),
                  lookedUp |-> { << Doi, d >> : d \in IF asksCrossref THEN { doi } ELSE {} }
                                 \union { << ArxivId, x >> : x \in IF AsksArxiv(p) THEN { p.ids[ArxivId] } ELSE {} },
                  of |-> { p }]]
      /\ checked' = checked \union { [before |-> p, after |-> after] }
      /\ UNCHANGED << phase, shelf, pool, kept, arxivAnswers, bib >>

VerdictOn(p) == verdicts[FirstKey(p)]

\* The end of run: what was found citable becomes the bibliography.
Cite ==
  LET citable == { c.after : c \in { d \in checked : VerdictOn(d.after).citable } }
  IN  /\ phase = "verify" /\ Cardinality(checked) = Cardinality(kept)
      /\ IF Cardinality(citable) < MinCitable THEN phase' = "failed" /\ bib' = bib
         ELSE phase' = "done" /\ bib' = citable
      /\ UNCHANGED << shelf, pool, kept, arxivAnswers, checked, verdicts >>

Next ==
  \/ NothingRetrieved \/ Screen \/ Select \/ Cite
  \/ \E r \in Incoming : Retrieve(r)
  \/ \E r \in Graph : Find(r)
  \/ \E p \in kept : Verify(p)

Spec == Init /\ [][Next]_vars

-----------------------------------------------------------------------------
Verdict == [citable : BOOLEAN, lookedUp : SUBSET AllKeys, of : SUBSET Record]
\* The types of the state; never more than max_papers papers are kept, of the search and
\* of the citation graph together.
TypeOK ==
  /\ phase \in { "retrieve", "expand", "verify", "done", "failed" }
  /\ shelf \in Shelf /\ shelf.listed \subseteq DOMAIN shelf.papers
  /\ pool \subseteq Record /\ kept \subseteq Record /\ bib \subseteq Record
  /\ Cardinality(kept) <= MaxPapers /\ arxivAnswers \in BOOLEAN
  /\ checked \subseteq [before : kept, after : Record]
  /\ verdicts \in [AllKeys -> Verdict]

\* dedupe puts records together only along a chain of shared identifiers or titles of
\* records that arrived, wrong ones included: a paper that was folded into another, or an
\* index entry that leads to one put away, links no records that nothing else links, and no
\* paper has an identifier that no record it is linked to came with.
LinkedByKeys == MergedAlongChains(shelf)

\* The kept papers that begin with the identity key p begins with; mostly p alone.
Namesakes(p) == { q \in kept : FirstKey(q) = FirstKey(p) }

\* The verdict a kept paper is cited or excluded by was found on this paper, or on another
\* kept paper that begins with the same identity key, if there is one: verify files it under
\* the paper's first key, then may merge an arXiv record into the paper, and run looks it up
\* under the first key it then has.
OwnVerdict == \A c \in checked : \E p \in Namesakes(c.before) : VerdictOn(c.after).of = { p }

\* Every DOI the bibliography prints was looked up, one that only arXiv supplied too.
CitedDoisLookedUp ==
  \A p \in bib :
    p.ids[Doi] = None \/ p.ids[Doi] \in ArxivDois \/ << Doi, p.ids[Doi] >> \in VerdictOn(p).lookedUp

-----------------------------------------------------------------------------
(* What the documentation says, and the code does not keep.                 *)

\* models.py:80, DESIGN.md:41: records that share an identifier or a title are one paper.
SharedIsMerged == SharingIsMerging(shelf)

\* Nothing that was retrieved is lost: every record is part of a paper in the list.
NothingIsLost == \A i \in DOMAIN shelf.home : shelf.home[i] \in shelf.listed

\* verify.py:65: a verification per paper; dedupe may list two papers with one arXiv id.
VerificationPerPaper == \A c \in checked : VerdictOn(c.after).of = { c.before }

\* verify.py:6: cross-checks run where an identifier allows one, arXiv ids against arXiv.
CitedArxivIdsLookedUp ==
  \A p \in bib : p.ids[ArxivId] # None =>
    \/ << ArxivId, p.ids[ArxivId] >> \in VerdictOn(p).lookedUp
    \/ \E r \in Incoming : "arxiv" \in r.sources /\ r.ids[ArxivId] = p.ids[ArxivId]

\* models.py:93: the same work is never listed twice, where identifiers show it is the same.
CitedOnce == \A p, q \in bib : KeysOf(p) \intersect KeysOf(q) # {} => p = q
=============================================================================
