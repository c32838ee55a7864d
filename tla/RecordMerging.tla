--------------------------- MODULE RecordMerging ---------------------------
(***************************************************************************)
(* Bibliographic records of tyche/literature/models.py and how dedupe      *)
(* merges the records of several services into a list of papers.           *)
(*                                                                         *)
(* A Paper is an object that later records are merged into; objects have   *)
(* the number of the record they came from.  A shelf is the state of       *)
(* dedupe between two records: the objects, those in the result, and the   *)
(* index from identity keys to objects.                                    *)
(***************************************************************************)
EXTENDS Naturals, Sequences, FiniteSets

CONSTANTS
  Ids,        \* identifiers and normalized titles
  None,       \* a field that is not filled
  Sources     \* names of the services

ASSUME NoneIsNoId == None \notin Ids

\* The kinds of identity keys, in the order identity_keys lists them.
ArxivId == 1
Doi == 2
S2Id == 3
OpenAlexId == 4
Title == 5
Kinds == 1..5

\* meta are the fields that must be there besides: authors and a year.
Record == [ids : [Kinds -> Ids \union { None }], meta : SUBSET { "authors", "year" },
           sources : SUBSET Sources]

\* Mutant: fields that are not filled give keys as well.
KeysOfAnyField(r) == { << k, r.ids[k] >> : k \in Kinds }

KeysOf(r) == { << k, r.ids[k] >> : k \in { j \in Kinds : r.ids[j] # None } }

\* Mutant: a DOI is preferred to an arXiv id.
DoiFirst(r) == IF r.ids[Doi] # None THEN << Doi, r.ids[Doi] >> ELSE CHOOSE key \in KeysOf(r) : TRUE

FirstKey(r) == LET k == CHOOSE k \in Kinds : r.ids[k] # None /\ \A j \in Kinds : j < k => r.ids[j] = None
               IN  << k, r.ids[k] >>
AllKeys == Kinds \X (Ids \union { None })

\* Paper.merge: fill gaps, never overwrite.
Merge(r, other) ==
  [r EXCEPT !.ids = [k \in Kinds |-> IF r.ids[k] # None THEN r.ids[k] ELSE other.ids[k]],
            !.meta = @ \union other.meta, !.sources = @ \union other.sources]

EmptyShelf == [papers |-> <<>>, listed |-> {}, index |-> [key \in AllKeys |-> 0], arrived |-> <<>>, home |-> <<>>]

\* The objects that are known under a key of the record.
Hits(shelf, r) == { shelf.index[key] : key \in KeysOf(r) } \ { 0 }

\* The kind of key an object is found by first, and the object found first.
FoundBy(shelf, r, i) ==
  CHOOSE k \in Kinds :
    LET finds(j) == << j, r.ids[j] >> \in KeysOf(r) /\ shelf.index[<< j, r.ids[j] >>] = i
    IN  finds(k) /\ \A j \in Kinds : j < k => ~finds(j)
First(shelf, r, hits) ==
  CHOOSE i \in hits : \A j \in hits : FoundBy(shelf, r, i) <= FoundBy(shelf, r, j)

\* The first hit with the record merged into it, then the other hits in their order.
Folded(shelf, r, hits) ==
  LET first == First(shelf, r, hits)
      merged == Merge(shelf.papers[first], r)
      filled(k) == { i \in hits \ { first } : shelf.papers[i].ids[k] # None }
  IN  [merged EXCEPT
         !.ids = [k \in Kinds |-> IF merged.ids[k] # None \/ filled(k) = {} THEN merged.ids[k]
                                  ELSE shelf.papers[First(shelf, r, filled(k))].ids[k]],
         !.meta = @ \union UNION { shelf.papers[i].meta : i \in hits },
         !.sources = @ \union UNION { shelf.papers[i].sources : i \in hits }]

\* A record nobody knows.
Listed(shelf, r) ==
  LET n == Len(shelf.papers) + 1
  IN  [papers |-> Append(shelf.papers, r), listed |-> shelf.listed \union { n },
       index |-> [key \in AllKeys |-> IF key \in KeysOf(r) THEN n ELSE shelf.index[key]],
       arrived |-> Append(shelf.arrived, r), home |-> Append(shelf.home, n)]

\* A record that is known: the first of its hits takes in the record and the other hits.
\* The keys the first then has, and those the others had, lead to it from now on.
Joined(shelf, r, hits) ==
  LET first == First(shelf, r, hits)
      others == hits \ { first }
      folded == Folded(shelf, r, hits)
      repointed == KeysOf(folded) \union UNION { KeysOf(shelf.papers[i]) : i \in others }
  IN  [papers |-> Append([shelf.papers EXCEPT ![first] = folded], r), listed |-> shelf.listed \ others,
       index |-> [key \in AllKeys |-> IF key \in repointed THEN first ELSE shelf.index[key]],
       arrived |-> Append(shelf.arrived, r),
       home |-> [i \in 1..(Len(shelf.home) + 1) |->
                   IF i > Len(shelf.home) \/ shelf.home[i] \in others THEN first ELSE shelf.home[i]]]

\* One turn of dedupe's loop.
Taken(shelf, r) == LET hits == Hits(shelf, r) IN IF hits = {} THEN Listed(shelf, r) ELSE Joined(shelf, r, hits)

Papers(shelf) == { shelf.papers[i] : i \in shelf.listed }

-----------------------------------------------------------------------------
\* arrived and home are history: the records taken and the object each is part of.
Shelf == [papers : Seq(Record), listed : SUBSET Nat, index : [AllKeys -> Nat], arrived : Seq(Record), home : Seq(Nat)]

\* Two records share an identifier or a title.
Share(r, s) == \E k \in Kinds : r.ids[k] # None /\ r.ids[k] = s.ids[k]

\* Records that share nothing with the other records that arrived.
Island(shelf, some) ==
  \A i \in some : \A j \in DOMAIN shelf.arrived \ some : ~Share(shelf.arrived[i], shelf.arrived[j])

\* Records are put together only along a chain of shared identifiers and titles: those of
\* an island never become part of a paper with others, and no paper of the island has an
\* identifier or a title that no record of the island came with.
MergedAlongChains(shelf) ==
  \A some \in SUBSET DOMAIN shelf.arrived : Island(shelf, some) =>
    /\ \A i, j \in DOMAIN shelf.home : shelf.home[i] = shelf.home[j] => (i \in some <=> j \in some)
    /\ \A i \in some : \A k \in Kinds : shelf.papers[i].ids[k] # None =>
         \E j \in some : shelf.arrived[j].ids[k] = shelf.papers[i].ids[k]

\* models.py:80: records that share an arXiv id, a DOI, an S2 id or a title are merged.
SharingIsMerging(shelf) ==
  \A i, j \in DOMAIN shelf.arrived :
    KeysOf(shelf.arrived[i]) \intersect KeysOf(shelf.arrived[j]) # {} => shelf.home[i] = shelf.home[j]
=============================================================================
