------------------------------ MODULE MCSurvey ------------------------------
(***************************************************************************)
(* Survey for TLC: two works.  One is known to OpenAlex by its DOI and the *)
(* title of its proceedings version, to Semantic Scholar and arXiv also by *)
(* the title of its preprint; arXiv knows the DOI the author entered.  The *)
(* other is known by few identifiers.  One of its records has an arXiv id  *)
(* of a third work, another the DOI of the first.                          *)
(***************************************************************************)
EXTENDS Survey, TLC

CONSTANTS D1, D2, D3, X1, X2, X3, S1, S2, T1, T2, T3, T4

Rec(x, d, s, t, meta, source) ==
  [ids |-> (ArxivId :> x @@ Doi :> d @@ S2Id :> s @@ OpenAlexId :> None @@ Title :> t),
   meta |-> meta, sources |-> { source }]

All == { "authors", "year" }
Published == Rec(None, D1, None, T1, All, "openalex")
Deposited == Rec(None, D3, None, T2, All, "openalex")
Indexed   == Rec(X1, None, S1, T2, All, "s2")
Linked    == Rec(None, D1, S1, T2, { "authors" }, "s2")
Preprint  == Rec(X1, None, None, T2, All, "arxiv")
Mistaken  == Rec(X2, None, S2, T3, All, "s2")
Posted    == Rec(X3, None, None, T3, All, "arxiv")
Confused  == Rec(None, D1, None, T3, { "authors" }, "openalex")
Other     == Rec(None, D2, None, T3, All, "openalex")

IncomingRecords == { Published, Deposited, Indexed, Linked, Preprint, Mistaken, Posted, Confused, Other }
GraphRecords == { Indexed, Mistaken }
ArxivRecords == X1 :> Rec(X1, D1, None, T2, All, "arxiv") @@ X2 :> Rec(X2, None, None, T1, All, "arxiv")
CrossrefTitles == D1 :> T1 @@ D2 :> T2
TitlesOfFirst == { << T1, T2 >>, << T2, T1 >> }

\* Six records of one work after which dedupe lists no paper, in the order they come:
\* three papers, two of which the fourth and fifth records put together, and a key that
\* still leads to the one put away.
SixRecords ==
  { Rec(None, D1, None, T1, All, "openalex"), Rec(None, D2, None, T2, All, "openalex"),
    Rec(None, D1, None, T2, All, "openalex"), Rec(X1, None, None, T3, All, "arxiv"),
    Rec(X1, D1, None, T3, All, "s2"), Rec(None, D2, None, T1, All, "s2") }

\* Seven records of one work after which dedupe lists two papers with one arXiv id: a paper
\* that was put away keeps a copy of it, and is found and taken in by another paper.
SevenRecords ==
  { Rec(None, D3, None, T3, All, "openalex"), Rec(None, None, S1, T2, All, "s2"),
    Rec(X1, D1, None, T1, All, "s2"), Rec(X1, D2, S1, T2, All, "s2"),
    Rec(None, D3, S1, T2, All, "s2"), Rec(None, D2, None, T4, All, "openalex"),
    Rec(None, D2, None, T2, All, "openalex") }
=============================================================================
