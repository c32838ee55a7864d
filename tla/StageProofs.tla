---------------------------- MODULE StageProofs ----------------------------
(***************************************************************************)
(* Three stages of the pipeline, each on its own: the survey (Survey), the *)
(* experiments (ExperimentAttempts) and the author conversation of the     *)
(* write and review stages (AuthorConversation).                           *)
(*                                                                         *)
(* Survey, for every set of records, those with wrong identifiers too:     *)
(* records are put together only along a chain of shared identifiers and   *)
(* titles.  The argument is about islands, records that share nothing with *)
(* the others: the identifiers of a paper of an island, and those that     *)
(* lead to it, came with records of the island (Kept), so all a record     *)
(* hits is on the record's side.  And a kept paper is judged by the        *)
(* verdict on a paper that begins with its key: what verify merges into a  *)
(* paper does not change the key it begins with, so its verdict stays      *)
(* where it was filed (Filed).                                             *)
(*                                                                         *)
(* Experiments, for any variants, attempts and executions: what is saved   *)
(* for the analysis is of the latest execution of a complete attempt, and  *)
(* no step changes an attempt that has ended.  The argument: an execution  *)
(* is recorded when it ends, with the variants it finished, each of whose  *)
(* files it wrote (RecordedWrote), and an attempt is complete only if its  *)
(* record is of the latest execution.                                      *)
(*                                                                         *)
(* Author conversation, for any sections, limits and numbers of calls: no  *)
(* text of a rejected round survives its roll-back, and a request that     *)
(* continues a conversation shows the text it is about.  The argument: a   *)
(* text is named by its call, so a checkpoint holds only texts older than  *)
(* its round (Checkpoint), and the mirror claims nothing the conversation  *)
(* does not hold (MirrorHeld), which restarts, roll-backs and the change   *)
(* of process keep because they restore both together.                     *)
(***************************************************************************)
EXTENDS Survey, ExperimentAttempts, AuthorConversation, TLAPS

-----------------------------------------------------------------------------
(* The survey.                                                             *)

\* Some record of these came with the identifier or title v of kind k.
Brought(s, some, k, v) == \E j \in some : s.arrived[j].ids[k] = v

\* The identifiers and the title of a paper are of records of these.
From(s, some, p) == \A k \in Kinds : p.ids[k] # None => Brought(s, some, k, p.ids[k])

\* The inductive invariant, of a shelf: its shape, and what is so of every island.
Shaped(s) ==
  /\ s \in Shelf /\ Len(s.arrived) = Len(s.papers) /\ Len(s.home) = Len(s.papers)
  /\ \A i \in 1..Len(s.papers) : s.home[i] \in 1..Len(s.papers)
  /\ \A k \in Kinds : \A v \in Ids : s.index[<< k, v >>] # 0 => s.index[<< k, v >>] \in 1..Len(s.papers)

Kept(s, some) ==
  /\ \A i \in 1..Len(s.papers) : s.home[i] \in some <=> i \in some
  /\ \A i \in some : From(s, some, s.papers[i])
  /\ \A k \in Kinds : \A v \in Ids : s.index[<< k, v >>] \in some => Brought(s, some, k, v)

IslandsKept(s) == \A some \in SUBSET (1..Len(s.papers)) : Island(s, some) => Kept(s, some)
Sorted(s) == Shaped(s) /\ IslandsKept(s)

\* Of some kinds, one comes first.
LEMMA FirstOfSomeKinds ==
  ASSUME NEW S \in SUBSET Kinds, S # {}
  PROVE  \E k \in S : \A j \in S : k <= j
<1>1. \A k \in S : k \in 1..5
  BY DEF Kinds
<1> QED BY <1>1, SMT

\* What a record hits exists, and is found under an identifier of the record.
LEMMA HitsExist ==
  ASSUME NEW s, Shaped(s), NEW r \in Record, NEW i \in Hits(s, r)
  PROVE  /\ i \in 1..Len(s.papers)
         /\ \E k \in Kinds : r.ids[k] \in Ids /\ r.ids[k] # None /\ s.index[<< k, r.ids[k] >>] = i
<1>1. PICK k \in Kinds : r.ids[k] # None /\ s.index[<< k, r.ids[k] >>] = i /\ i # 0
  BY DEF Hits, KeysOf
<1>2. r.ids[k] \in Ids
  BY <1>1 DEF Record
<1> QED BY <1>1, <1>2 DEF Shaped

\* The hit that is found first is one of them.
LEMMA FirstIsAHit ==
  ASSUME NEW s, NEW r, NEW hits \in SUBSET Hits(s, r), hits # {}
  PROVE  First(s, r, hits) \in hits
<1>1. ASSUME NEW i \in hits PROVE FoundBy(s, r, i) \in Kinds
  <2> DEFINE finds(j) == << j, r.ids[j] >> \in KeysOf(r) /\ s.index[<< j, r.ids[j] >>] = i
  <2>1. { k \in Kinds : finds(k) } # {}
    BY <1>1 DEF Hits, KeysOf
  <2>2. PICK k \in Kinds : finds(k) /\ \A j \in { l \in Kinds : finds(l) } : k <= j
    BY <2>1, FirstOfSomeKinds
  <2> HIDE DEF finds
  <2>3. \A j \in Kinds : j < k => ~finds(j)
    BY <2>2 DEF Kinds
  <2>4. \E l \in Kinds : finds(l) /\ \A j \in Kinds : j < l => ~finds(j)
    BY <2>2, <2>3
  <2> QED BY <2>4 DEF FoundBy, finds
<1> DEFINE found == { FoundBy(s, r, i) : i \in hits }
<1>a. found \in SUBSET Kinds /\ found # {}
  BY <1>1
<1>2. PICK k \in found : \A j \in found : k <= j
  <2> HIDE DEF found
  <2> QED BY <1>a, FirstOfSomeKinds
<1>3. \E i \in hits : \A j \in hits : FoundBy(s, r, i) <= FoundBy(s, r, j)
  BY <1>2
<1> QED BY <1>3 DEF First

\* A merged record has the identifiers of both, its own first.
LEMMA MergedIsARecord ==
  ASSUME NEW p \in Record, NEW q \in Record
  PROVE  /\ Merge(p, q) \in Record
         /\ Merge(p, q).ids = [k \in Kinds |-> IF p.ids[k] # None THEN p.ids[k] ELSE q.ids[k]]
BY DEF Merge, Record

\* The paper that takes in a record and every paper the record hits has identifiers of these.
LEMMA FoldedIsARecord ==
  ASSUME NEW s, Shaped(s), NEW r \in Record, Hits(s, r) # {}
  PROVE  /\ Folded(s, r, Hits(s, r)) \in Record
         /\ \A k \in Kinds : Folded(s, r, Hits(s, r)).ids[k] # None =>
              \/ Folded(s, r, Hits(s, r)).ids[k] = r.ids[k]
              \/ \E i \in Hits(s, r) : Folded(s, r, Hits(s, r)).ids[k] = s.papers[i].ids[k]
<1> DEFINE hits == Hits(s, r)
           first == First(s, r, hits)
           merged == Merge(s.papers[first], r)
           filled(k) == { i \in hits \ { first } : s.papers[i].ids[k] # None }
           taken(k) == IF merged.ids[k] # None \/ filled(k) = {} THEN merged.ids[k]
                       ELSE s.papers[First(s, r, filled(k))].ids[k]
<1>1. ASSUME NEW i \in hits PROVE s.papers[i] \in Record
  <2>1. i \in 1..Len(s.papers) /\ s.papers \in Seq(Record)
    BY HitsExist, <1>1 DEF Shaped, Shelf
  <2> QED BY <2>1
<1>2. first \in hits
  BY FirstIsAHit
<1>3. merged \in Record /\ merged.ids = [k \in Kinds |-> IF s.papers[first].ids[k] # None THEN s.papers[first].ids[k] ELSE r.ids[k]]
  <2>1. s.papers[first] \in Record
    BY <1>1, <1>2
  <2> HIDE DEF first
  <2> QED BY <2>1, MergedIsARecord
<1>4. ASSUME NEW k \in Kinds
      PROVE  /\ taken(k) \in Ids \union { None }
             /\ taken(k) # None => taken(k) = r.ids[k] \/ \E i \in hits : taken(k) = s.papers[i].ids[k]
  <2>1. CASE merged.ids[k] # None \/ filled(k) = {}
    <3>1. taken(k) = merged.ids[k] /\ merged.ids[k] \in Ids \union { None }
      BY <2>1, <1>3 DEF Record
    <3>2. merged.ids[k] = s.papers[first].ids[k] \/ merged.ids[k] = r.ids[k]
      BY <1>3
    <3> QED BY <3>1, <3>2, <1>2
  <2>2. CASE ~(merged.ids[k] # None \/ filled(k) = {})
    <3>1. First(s, r, filled(k)) \in filled(k)
      BY <2>2, FirstIsAHit
    <3>2. taken(k) = s.papers[First(s, r, filled(k))].ids[k] /\ First(s, r, filled(k)) \in hits
      BY <2>2, <3>1
    <3> QED BY <3>2, <1>1 DEF Record
  <2> QED BY <2>1, <2>2
<1> DEFINE metas == merged.meta \union UNION { s.papers[i].meta : i \in hits }
           names == merged.sources \union UNION { s.papers[i].sources : i \in hits }
<1>5. metas \in SUBSET { "authors", "year" } /\ names \in SUBSET Sources
  BY <1>1, <1>3 DEF Record
<1>6. Folded(s, r, hits) = [merged EXCEPT !.ids = [k \in Kinds |-> taken(k)], !.meta = metas, !.sources = names]
  BY <1>3 DEF Folded, Record
<1> HIDE DEF merged, metas, names, taken
<1>7. Folded(s, r, hits) = [ids |-> [k \in Kinds |-> taken(k)], meta |-> metas, sources |-> names]
  BY <1>3, <1>6 DEF Record
<1>8. [k \in Kinds |-> taken(k)] \in [Kinds -> Ids \union { None }]
  BY <1>4
<1>9. Folded(s, r, hits) \in Record
  BY <1>5, <1>7, <1>8 DEF Record
<1>10. \A k \in Kinds : Folded(s, r, hits).ids[k] = taken(k)
  BY <1>7
<1> QED BY <1>9, <1>10, <1>4

\* What changes when a record is put on the shelf that nobody knows.
LEMMA ListedShapes ==
  ASSUME NEW s, Shaped(s), NEW r \in Record
  PROVE  /\ Shaped(Listed(s, r)) /\ Len(Listed(s, r).papers) = Len(s.papers) + 1
         /\ \A i \in 1..Len(s.papers) : /\ Listed(s, r).home[i] = s.home[i] /\ Listed(s, r).arrived[i] = s.arrived[i]
                                        /\ Listed(s, r).papers[i] = s.papers[i]
         /\ Listed(s, r).home[Len(s.papers) + 1] = Len(s.papers) + 1
         /\ Listed(s, r).arrived[Len(s.papers) + 1] = r /\ Listed(s, r).papers[Len(s.papers) + 1] = r
         /\ Listed(s, r).index = [key \in AllKeys |-> IF key \in KeysOf(r) THEN Len(s.papers) + 1 ELSE s.index[key]]
<1> DEFINE n == Len(s.papers)
           t == Listed(s, r)
<1>1. /\ s.papers \in Seq(Record) /\ s.listed \in SUBSET Nat /\ s.index \in [AllKeys -> Nat]
      /\ s.arrived \in Seq(Record) /\ s.home \in Seq(Nat)
      /\ Len(s.arrived) = n /\ Len(s.home) = n /\ n \in Nat
  BY DEF Shaped, Shelf
<1>3. /\ t.papers = Append(s.papers, r) /\ t.arrived = Append(s.arrived, r) /\ t.home = Append(s.home, n + 1)
      /\ t.listed = s.listed \union { n + 1 }
      /\ t.index = [key \in AllKeys |-> IF key \in KeysOf(r) THEN n + 1 ELSE s.index[key]]
      /\ t = [papers |-> t.papers, listed |-> t.listed, index |-> t.index, arrived |-> t.arrived, home |-> t.home]
  BY DEF Listed
<1> HIDE DEF t
<1>4. t \in Shelf
  <2>1. t.papers \in Seq(Record) /\ t.arrived \in Seq(Record) /\ t.home \in Seq(Nat)
    BY <1>1, <1>3
  <2>2. t.listed \in SUBSET Nat /\ t.index \in [AllKeys -> Nat]
    BY <1>1, <1>3
  <2> QED BY <1>3, <2>1, <2>2 DEF Shelf
<1>5. Len(t.papers) = n + 1 /\ Len(t.arrived) = n + 1 /\ Len(t.home) = n + 1
  BY <1>1, <1>3
<1>6. /\ \A i \in 1..n : t.home[i] = s.home[i] /\ t.arrived[i] = s.arrived[i] /\ t.papers[i] = s.papers[i]
      /\ t.home[n + 1] = n + 1 /\ t.arrived[n + 1] = r /\ t.papers[n + 1] = r
  <2>1. n + 1 \in Nat
    BY <1>1
  <2>2. (\A i \in 1..n : t.home[i] = s.home[i]) /\ t.home[n + 1] = n + 1
    BY <1>1, <1>3, <2>1
  <2>3. (\A i \in 1..n : t.arrived[i] = s.arrived[i]) /\ t.arrived[n + 1] = r
    BY <1>1, <1>3
  <2>4. (\A i \in 1..n : t.papers[i] = s.papers[i]) /\ t.papers[n + 1] = r
    BY <1>1, <1>3
  <2> QED BY <2>2, <2>3, <2>4
<1>7. \A i \in 1..(n + 1) : t.home[i] \in 1..(n + 1)
  <2>1. \A i \in 1..n : t.home[i] \in 1..n
    BY <1>6 DEF Shaped
  <2>2. t.home[n + 1] = n + 1
    BY <1>6
  <2> QED BY <2>1, <2>2, <1>1
<1>8. ASSUME NEW k \in Kinds, NEW v \in Ids, t.index[<< k, v >>] # 0
      PROVE  t.index[<< k, v >>] \in 1..(n + 1)
  <2>1. t.index[<< k, v >>] = IF << k, v >> \in KeysOf(r) THEN n + 1 ELSE s.index[<< k, v >>]
    BY <1>3 DEF AllKeys
  <2>2. s.index[<< k, v >>] # 0 => s.index[<< k, v >>] \in 1..n
    BY DEF Shaped
  <2> QED BY <2>1, <2>2, <1>1, <1>8
<1>9. Shaped(t)
  BY <1>4, <1>5, <1>7, <1>8 DEF Shaped
<1> QED BY <1>3, <1>5, <1>6, <1>9 DEF t

\* The keys that lead to the paper that takes in a record.
Repointed(s, r) ==
  KeysOf(Folded(s, r, Hits(s, r)))
    \union UNION { KeysOf(s.papers[i]) : i \in Hits(s, r) \ { First(s, r, Hits(s, r)) } }

\* What changes when a paper takes in a record, and what else the record hits.
LEMMA JoinedShapes ==
  ASSUME NEW s, Shaped(s), NEW r \in Record, NEW hits, hits = Hits(s, r), hits # {},
         NEW first, first = First(s, r, hits), NEW t, t = Joined(s, r, hits)
  PROVE  /\ Shaped(t) /\ Len(t.papers) = Len(s.papers) + 1 /\ first \in hits /\ first \in 1..Len(s.papers)
         /\ \A i \in 1..Len(s.papers) :
              /\ t.home[i] = IF s.home[i] \in hits \ { first } THEN first ELSE s.home[i]
              /\ t.arrived[i] = s.arrived[i]
              /\ t.papers[i] = IF i = first THEN Folded(s, r, hits) ELSE s.papers[i]
         /\ t.home[Len(s.papers) + 1] = first /\ t.arrived[Len(s.papers) + 1] = r /\ t.papers[Len(s.papers) + 1] = r
         /\ t.index = [key \in AllKeys |-> IF key \in Repointed(s, r) THEN first ELSE s.index[key]]
<1> DEFINE n == Len(s.papers)
           others == hits \ { first }
           folded == Folded(s, r, hits)
<1>1. /\ s.papers \in Seq(Record) /\ s.listed \in SUBSET Nat /\ s.index \in [AllKeys -> Nat]
      /\ s.arrived \in Seq(Record) /\ s.home \in Seq(Nat)
      /\ Len(s.arrived) = n /\ Len(s.home) = n /\ n \in Nat
  BY DEF Shaped, Shelf
<1>4. first \in hits
  BY FirstIsAHit
<1>5. first \in 1..n
  BY <1>4, HitsExist
<1>6. folded \in Record
  BY FoldedIsARecord
<1>7. /\ t.papers = Append([s.papers EXCEPT ![first] = folded], r) /\ t.arrived = Append(s.arrived, r)
      /\ t.home = [i \in 1..(n + 1) |-> IF i > n \/ s.home[i] \in others THEN first ELSE s.home[i]]
      /\ t.listed = s.listed \ others
      /\ t.index = [key \in AllKeys |-> IF key \in Repointed(s, r) THEN first ELSE s.index[key]]
      /\ t = [papers |-> t.papers, listed |-> t.listed, index |-> t.index, arrived |-> t.arrived, home |-> t.home]
  BY <1>1 DEF Joined, Repointed
<1> HIDE DEF folded, others
<1>9. [s.papers EXCEPT ![first] = folded] \in Seq(Record) /\ Len([s.papers EXCEPT ![first] = folded]) = n
  BY <1>1, <1>5, <1>6
<1>a. t.home \in [1..(n + 1) -> Nat]
  <2>1. \A i \in 1..(n + 1) : (IF i > n \/ s.home[i] \in others THEN first ELSE s.home[i]) \in Nat
    BY <1>1, <1>5
  <2> QED BY <1>7, <2>1
<1>b. t.home \in Seq(Nat) /\ Len(t.home) = n + 1
  <2>1. n + 1 \in Nat
    BY <1>1
  <2> QED BY <2>1, <1>a
<1>10. Len(t.papers) = n + 1 /\ Len(t.arrived) = n + 1 /\ Len(t.home) = n + 1
  BY <1>1, <1>7, <1>9, <1>b
<1>11. t \in Shelf
  <2>1. t.papers \in Seq(Record)
    <3>1. t.papers = Append([s.papers EXCEPT ![first] = folded], r)
      BY <1>7
    <3> QED BY <3>1, <1>9
  <2>2. t.arrived \in Seq(Record)
    BY <1>1, <1>7
  <2>3. t.listed \in SUBSET Nat
    BY <1>1, <1>7
  <2>4. t.index \in [AllKeys -> Nat]
    BY <1>1, <1>5, <1>7
  <2> QED BY <1>7, <1>b, <2>1, <2>2, <2>3, <2>4 DEF Shelf
<1>12. \A i \in 1..n : t.arrived[i] = s.arrived[i]
  BY <1>1, <1>7
<1>13. t.arrived[n + 1] = r /\ t.papers[n + 1] = r
  BY <1>1, <1>7, <1>9
<1>14. \A i \in 1..n : t.papers[i] = IF i = first THEN folded ELSE s.papers[i]
  BY <1>1, <1>5, <1>7, <1>9
<1>15. /\ \A i \in 1..n : t.home[i] = IF s.home[i] \in others THEN first ELSE s.home[i]
       /\ t.home[n + 1] = first
  BY <1>1, <1>7
<1>16. \A i \in 1..(n + 1) : t.home[i] \in 1..(n + 1)
  <2>1. \A i \in 1..n : s.home[i] \in 1..n
    BY DEF Shaped
  <2>2. \A i \in 1..n : t.home[i] \in 1..n
    BY <2>1, <1>5, <1>15
  <2>3. t.home[n + 1] \in 1..n
    BY <1>5, <1>15
  <2>4. \A i \in 1..(n + 1) : i \in 1..n \/ i = n + 1
    BY <1>1
  <2>5. \A i \in 1..n : i \in 1..(n + 1)
    BY <1>1
  <2> QED BY <2>2, <2>3, <2>4, <2>5
<1>17. ASSUME NEW k \in Kinds, NEW v \in Ids, t.index[<< k, v >>] # 0
       PROVE  t.index[<< k, v >>] \in 1..(n + 1)
  <2>1. t.index[<< k, v >>] = IF << k, v >> \in Repointed(s, r) THEN first ELSE s.index[<< k, v >>]
    BY <1>7 DEF AllKeys
  <2>2. s.index[<< k, v >>] # 0 => s.index[<< k, v >>] \in 1..n
    BY DEF Shaped
  <2> QED BY <2>1, <2>2, <1>1, <1>5, <1>17
<1>18. Shaped(t)
  BY <1>10, <1>11, <1>16, <1>17 DEF Shaped
<1> QED BY <1>4, <1>5, <1>7, <1>10, <1>12, <1>13, <1>14, <1>15, <1>18 DEF folded, others

\* An island of the shelf with the new record was one without it; so was the rest.  What the
\* record hits is on its side.
LEMMA HitsOnOneSide ==
  ASSUME NEW s, Sorted(s), NEW r \in Record, NEW t, NEW n, n = Len(s.papers),
         DOMAIN t.arrived = 1..(n + 1), t.arrived[n + 1] = r, \A i \in 1..n : t.arrived[i] = s.arrived[i],
         NEW some \in SUBSET (1..(n + 1)), Island(t, some)
  PROVE  /\ Kept(s, some \ { n + 1 })
         /\ \A i \in Hits(s, r) : i \in some <=> n + 1 \in some
<1> DEFINE here == some \ { n + 1 }
           there == (1..n) \ here
<1>0. n \in Nat /\ DOMAIN s.arrived = 1..n /\ here \in SUBSET (1..n) /\ there \in SUBSET (1..n)
  BY DEF Sorted, Shaped, Shelf
<1>1. ASSUME NEW i \in here, NEW j \in there
      PROVE  ~Share(s.arrived[i], s.arrived[j]) /\ ~Share(s.arrived[j], s.arrived[i])
  <2>1. i \in some /\ j \in DOMAIN t.arrived \ some
    BY <1>0, <1>1
  <2>2. ~Share(t.arrived[i], t.arrived[j])
    BY <2>1 DEF Island
  <2>3. ~Share(s.arrived[i], s.arrived[j])
    BY <2>2, <1>0
  <2> QED BY <2>3 DEF Share
<1>2. Island(s, here) /\ Island(s, there)
  BY <1>0, <1>1 DEF Island
<1>3. Kept(s, here) /\ Kept(s, there)
  BY <1>0, <1>2 DEF Sorted, IslandsKept
<1>4. ASSUME NEW i \in Hits(s, r) PROVE i \in some <=> n + 1 \in some
  <2>1. PICK k \in Kinds : r.ids[k] \in Ids /\ r.ids[k] # None /\ s.index[<< k, r.ids[k] >>] = i
    BY <1>4, HitsExist DEF Sorted
  <2>2. i \in 1..n
    BY <1>4, HitsExist DEF Sorted
  <2>3. CASE i \in here /\ n + 1 \notin some
    <3>1. PICK j \in here : s.arrived[j].ids[k] = r.ids[k]
      BY <1>3, <2>1, <2>3 DEF Kept, Brought
    <3>2. Share(t.arrived[j], t.arrived[n + 1])
      BY <1>0, <2>1, <3>1 DEF Share
    <3>3. n + 1 \in DOMAIN t.arrived \ some /\ j \in some
      BY <1>0, <2>3, <3>1
    <3> QED BY <3>2, <3>3 DEF Island
  <2>4. CASE i \in there /\ n + 1 \in some
    <3>1. PICK j \in there : s.arrived[j].ids[k] = r.ids[k]
      BY <1>3, <2>1, <2>4 DEF Kept, Brought
    <3>2. Share(t.arrived[n + 1], t.arrived[j])
      BY <1>0, <2>1, <3>1 DEF Share
    <3>3. j \in DOMAIN t.arrived \ some
      BY <1>0, <3>1
    <3> QED BY <3>2, <3>3, <2>4 DEF Island
  <2> QED BY <1>0, <2>2, <2>3, <2>4
<1> QED BY <1>3, <1>4

\* A record nobody knows begins a paper of its own.
LEMMA ListedKeepsIslands ==
  ASSUME NEW s, Sorted(s), NEW r \in Record, Hits(s, r) = {}
  PROVE  Sorted(Listed(s, r))
<1> DEFINE n == Len(s.papers)
           t == Listed(s, r)
<1>1. /\ Shaped(t) /\ Len(t.papers) = n + 1 /\ n \in Nat
      /\ \A i \in 1..n : t.home[i] = s.home[i] /\ t.arrived[i] = s.arrived[i] /\ t.papers[i] = s.papers[i]
      /\ t.home[n + 1] = n + 1 /\ t.arrived[n + 1] = r /\ t.papers[n + 1] = r
      /\ t.index = [key \in AllKeys |-> IF key \in KeysOf(r) THEN n + 1 ELSE s.index[key]]
  <2>1. n \in Nat
    BY DEF Sorted, Shaped, Shelf
  <2> QED BY <2>1, ListedShapes DEF Sorted
<1>2. DOMAIN t.arrived = 1..(n + 1)
  BY <1>1 DEF Shaped, Shelf
<1> HIDE DEF t
<1>3. ASSUME NEW some \in SUBSET (1..(n + 1)), Island(t, some) PROVE Kept(t, some)
  <2> DEFINE here == some \ { n + 1 }
  <2>1. Kept(s, here)
    BY <1>1, <1>2, <1>3, HitsOnOneSide
  <2>2. \A k \in Kinds : \A v : Brought(s, here, k, v) => Brought(t, some, k, v)
    BY <1>1 DEF Brought
  <2>3. \A i \in 1..n : s.home[i] \in 1..n
    BY DEF Sorted, Shaped
  <2>4. \A i \in 1..(n + 1) : t.home[i] \in some <=> i \in some
    <3>1. ASSUME NEW i \in 1..n PROVE t.home[i] \in some <=> i \in some
      <4>1. t.home[i] = s.home[i] /\ s.home[i] \in 1..n /\ (s.home[i] \in here <=> i \in here)
        BY <1>1, <2>1, <2>3 DEF Kept
      <4> QED BY <1>1, <4>1
    <3> QED BY <3>1, <1>1
  <2>5. ASSUME NEW i \in some PROVE From(t, some, t.papers[i])
    <3>1. CASE i = n + 1
      BY <1>1, <2>5, <3>1 DEF From, Brought
    <3>2. CASE i \in 1..n
      <4>1. i \in here /\ t.papers[i] = s.papers[i]
        BY <1>1, <2>5, <3>2
      <4> QED BY <4>1, <2>1, <2>2 DEF Kept, From
    <3> QED BY <1>1, <3>1, <3>2
  <2>6. ASSUME NEW k \in Kinds, NEW v \in Ids, t.index[<< k, v >>] \in some
        PROVE  Brought(t, some, k, v)
    <3>1. t.index[<< k, v >>] = IF << k, v >> \in KeysOf(r) THEN n + 1 ELSE s.index[<< k, v >>]
      BY <1>1 DEF AllKeys
    <3>2. CASE << k, v >> \in KeysOf(r)
      BY <1>1, <2>6, <3>1, <3>2 DEF KeysOf, Brought
    <3>3. CASE << k, v >> \notin KeysOf(r)
      <4>1. s.index[<< k, v >>] \in some /\ s.index[<< k, v >>] # n + 1
        <5>1. s.index[<< k, v >>] \in some
          BY <2>6, <3>1, <3>3
        <5>2. s.index[<< k, v >>] # 0 => s.index[<< k, v >>] \in 1..n
          BY DEF Sorted, Shaped
        <5> QED BY <5>1, <5>2, <1>1
      <4>2. Brought(s, here, k, v)
        BY <4>1, <2>1 DEF Kept
      <4> QED BY <4>2, <2>2
    <3> QED BY <3>2, <3>3
  <2> QED BY <1>1, <2>4, <2>5, <2>6 DEF Kept
<1>4. IslandsKept(t)
  BY <1>1, <1>3 DEF IslandsKept
<1> QED BY <1>1, <1>4 DEF Sorted, t

\* A paper that takes in a record, and what else the record hits, stays on its island.
LEMMA JoinedKeepsIslands ==
  ASSUME NEW s, Sorted(s), NEW r \in Record, Hits(s, r) # {}
  PROVE  Sorted(Joined(s, r, Hits(s, r)))
<1> DEFINE n == Len(s.papers)
           hits == Hits(s, r)
           first == First(s, r, hits)
           folded == Folded(s, r, hits)
           t == Joined(s, r, hits)
<1>1. /\ Shaped(t) /\ Len(t.papers) = n + 1 /\ first \in hits /\ first \in 1..n
      /\ \A i \in 1..n :
           /\ t.home[i] = IF s.home[i] \in hits \ { first } THEN first ELSE s.home[i]
           /\ t.arrived[i] = s.arrived[i]
           /\ t.papers[i] = IF i = first THEN folded ELSE s.papers[i]
      /\ t.home[n + 1] = first /\ t.arrived[n + 1] = r /\ t.papers[n + 1] = r
      /\ t.index = [key \in AllKeys |-> IF key \in Repointed(s, r) THEN first ELSE s.index[key]]
  BY JoinedShapes DEF Sorted
<1>2. DOMAIN t.arrived = 1..(n + 1) /\ n \in Nat
  BY <1>1 DEF Shaped, Shelf, Sorted
<1>3. /\ \A k \in Kinds : folded.ids[k] # None =>
           folded.ids[k] = r.ids[k] \/ \E i \in hits : folded.ids[k] = s.papers[i].ids[k]
      /\ \A i \in hits : i \in 1..n
  <2>1. \A i \in hits : i \in 1..n
    BY HitsExist DEF Sorted
  <2> QED BY <2>1, FoldedIsARecord DEF Sorted
<1>4. \A k \in Kinds : \A v : << k, v >> \in Repointed(s, r) =>
        v # None /\ (folded.ids[k] = v \/ \E i \in hits : s.papers[i].ids[k] = v)
  BY DEF Repointed, KeysOf
<1> HIDE DEF t, folded, first, hits
<1>5. ASSUME NEW some \in SUBSET (1..(n + 1)), Island(t, some) PROVE Kept(t, some)
  <2> DEFINE here == some \ { n + 1 }
  <2>1. Kept(s, here) /\ \A i \in hits : i \in some <=> n + 1 \in some
    <3>1. \A i \in 1..n : t.arrived[i] = s.arrived[i]
      BY <1>1
    <3>2. t.arrived[n + 1] = r
      BY <1>1
    <3> QED BY <1>2, <1>5, <3>1, <3>2, HitsOnOneSide DEF hits
  <2>2. ASSUME NEW k \in Kinds, NEW v, Brought(s, here, k, v) PROVE Brought(t, some, k, v)
    <3>1. PICK j \in here : s.arrived[j].ids[k] = v
      BY <2>2 DEF Brought
    <3>2. j \in 1..n /\ j \in some
      BY <1>2
    <3>3. t.arrived[j] = s.arrived[j]
      BY <1>1, <3>2
    <3> QED BY <3>1, <3>2, <3>3 DEF Brought
  <2>3. \A i \in 1..n : s.home[i] \in 1..n /\ (s.home[i] \in some <=> i \in some)
    <3>1. \A i \in 1..n : s.home[i] \in 1..n
      BY DEF Sorted, Shaped
    <3>2. \A i \in 1..n : s.home[i] \in here <=> i \in here
      BY <2>1 DEF Kept
    <3> QED BY <1>2, <3>1, <3>2
  <2>4. \A i \in 1..(n + 1) : t.home[i] \in some <=> i \in some
    <3>1. ASSUME NEW i \in 1..n PROVE t.home[i] \in some <=> i \in some
      <4>1. CASE s.home[i] \in hits \ { first }
        BY <4>1, <1>1, <2>1, <2>3
      <4>2. CASE s.home[i] \notin hits \ { first }
        BY <4>2, <1>1, <2>3
      <4> QED BY <4>1, <4>2
    <3>2. t.home[n + 1] \in some <=> n + 1 \in some
      BY <1>1, <2>1
    <3> QED BY <3>1, <3>2, <1>2
  <2>5. \A i \in hits : n + 1 \in some => i \in here
    BY <1>2, <1>3, <2>1
  <2>6. ASSUME n + 1 \in some, NEW k \in Kinds
        PROVE  /\ r.ids[k] # None => Brought(t, some, k, r.ids[k])
               /\ \A i \in hits : s.papers[i].ids[k] # None => Brought(t, some, k, s.papers[i].ids[k])
               /\ folded.ids[k] # None => Brought(t, some, k, folded.ids[k])
    <3>1. Brought(t, some, k, r.ids[k])
      BY <1>1, <2>6 DEF Brought
    <3>2. ASSUME NEW i \in hits, s.papers[i].ids[k] # None PROVE Brought(t, some, k, s.papers[i].ids[k])
      <4>1. From(s, here, s.papers[i])
        BY <2>1, <2>5, <2>6 DEF Kept
      <4> QED BY <4>1, <2>2, <3>2 DEF From
    <3> QED BY <1>3, <3>1, <3>2
  <2>7. ASSUME NEW i \in some PROVE From(t, some, t.papers[i])
    <3>1. CASE i = n + 1
      BY <1>1, <2>6, <2>7, <3>1 DEF From
    <3>2. CASE i = first
      BY <1>1, <2>1, <2>6, <2>7, <3>2 DEF From
    <3>3. CASE i # n + 1 /\ i # first
      <4>1. i \in here /\ t.papers[i] = s.papers[i]
        BY <1>1, <1>2, <2>7, <3>3
      <4> QED BY <4>1, <2>1, <2>2 DEF Kept, From
    <3> QED BY <3>1, <3>2, <3>3
  <2>8. ASSUME NEW k \in Kinds, NEW v \in Ids, t.index[<< k, v >>] \in some
        PROVE  Brought(t, some, k, v)
    <3>1. t.index[<< k, v >>] = IF << k, v >> \in Repointed(s, r) THEN first ELSE s.index[<< k, v >>]
      BY <1>1 DEF AllKeys
    <3>2. CASE << k, v >> \in Repointed(s, r)
      <4>1. n + 1 \in some
        BY <1>1, <2>1, <2>8, <3>1, <3>2
      <4> QED BY <4>1, <1>4, <2>6, <3>2
    <3>3. CASE << k, v >> \notin Repointed(s, r)
      <4>1. s.index[<< k, v >>] \in here
        <5>1. s.index[<< k, v >>] \in some
          BY <2>8, <3>1, <3>3
        <5>2. s.index[<< k, v >>] # 0 => s.index[<< k, v >>] \in 1..n
          BY DEF Sorted, Shaped
        <5> QED BY <5>1, <5>2, <1>2
      <4>2. Brought(s, here, k, v)
        BY <4>1, <2>1 DEF Kept
      <4> QED BY <4>2, <2>2
    <3> QED BY <3>2, <3>3
  <2> QED BY <1>1, <2>4, <2>7, <2>8 DEF Kept
<1>6. IslandsKept(t)
  BY <1>1, <1>5 DEF IslandsKept
<1> QED BY <1>1, <1>6 DEF Sorted, t, hits

\* One turn of dedupe's loop, whatever it does.
LEMMA TakenKeepsSorted ==
  ASSUME NEW s, Sorted(s), NEW r \in Incoming
  PROVE  Sorted(Taken(s, r))
<1>1. r \in Record
  BY SurveyConstants
<1> QED BY <1>1, ListedKeepsIslands, JoinedKeepsIslands DEF Taken

\* Nothing is on the empty shelf.
LEMMA EmptyShelfIsSorted == Sorted(EmptyShelf)
<1> DEFINE e == EmptyShelf
<1>1. /\ e.papers = << >> /\ e.arrived = << >> /\ e.home = << >> /\ e.listed = {}
      /\ e.index = [key \in AllKeys |-> 0]
      /\ e = [papers |-> << >>, listed |-> {}, index |-> [key \in AllKeys |-> 0], arrived |-> << >>, home |-> << >>]
  BY DEF EmptyShelf
<1>2. e \in Shelf
  BY <1>1 DEF Shelf
<1>3. \A k \in Kinds : \A v \in Ids : e.index[<< k, v >>] = 0
  BY <1>1 DEF AllKeys
<1> HIDE DEF e
<1>4. Shaped(e)
  BY <1>1, <1>2, <1>3 DEF Shaped
<1>5. ASSUME NEW some \in SUBSET (1..Len(e.papers)) PROVE Kept(e, some)
  BY <1>1, <1>3 DEF Kept
<1> QED BY <1>4, <1>5 DEF Sorted, IslandsKept, e

-----------------------------------------------------------------------------
\* The invariant LinkedByKeys, for all constants, wrong identifiers and equal titles of
\* different works included: records are put together only along a chain of shared
\* identifiers and titles, in any order of arrival.
THEOREM LinkedByKeysHolds == Spec => []LinkedByKeys
<1>1. Init => Sorted(shelf)
  BY EmptyShelfIsSorted DEF Init
<1>2. Sorted(shelf) /\ [Next]_vars => Sorted(shelf)'
  <2> SUFFICES ASSUME Sorted(shelf), [Next]_vars PROVE Sorted(shelf')
    BY DEF Sorted, Shaped, IslandsKept, Island, Kept, From, Brought
  <2>1. ASSUME NEW r \in Incoming, Retrieve(r) \/ Find(r) PROVE Sorted(shelf')
    BY <2>1, TakenKeepsSorted DEF Retrieve, Find
  <2>2. CASE Screen \/ Select
    BY <2>2, EmptyShelfIsSorted DEF Screen, Select
  <2>3. CASE NothingRetrieved \/ Cite \/ UNCHANGED vars \/ \E p \in kept : Verify(p)
    BY <2>3 DEF NothingRetrieved, Cite, vars, Verify
  <2> QED BY <2>1, <2>2, <2>3, SurveyConstants DEF Next
<1>3. Sorted(shelf) => LinkedByKeys
  <2> SUFFICES ASSUME Sorted(shelf), NEW some \in SUBSET DOMAIN shelf.arrived, Island(shelf, some)
               PROVE  /\ \A i, j \in DOMAIN shelf.home : shelf.home[i] = shelf.home[j] => (i \in some <=> j \in some)
                      /\ \A i \in some : \A k \in Kinds : shelf.papers[i].ids[k] # None =>
                           \E j \in some : shelf.arrived[j].ids[k] = shelf.papers[i].ids[k]
    BY DEF LinkedByKeys, MergedAlongChains
  <2>1. DOMAIN shelf.home = 1..Len(shelf.papers) /\ DOMAIN shelf.arrived = 1..Len(shelf.papers)
    BY DEF Sorted, Shaped, Shelf
  <2>2. Kept(shelf, some)
    BY <2>1 DEF Sorted, IslandsKept
  <2> QED BY <2>1, <2>2 DEF Kept, From, Brought
<1> QED BY <1>1, <1>2, <1>3, PTL DEF Spec

-----------------------------------------------------------------------------
\* What is listed exists, and every paper has a title.
Titled(s) ==
  /\ s.listed \subseteq 1..Len(s.papers)
  /\ \A i \in 1..Len(s.papers) : s.papers[i].ids[Title] # None

\* A paper with a title has a first key; an arXiv id comes before anything else.
LEMMA FirstKeyIsOne ==
  ASSUME NEW p \in Record, p.ids[Title] # None
  PROVE  /\ FirstKey(p) \in AllKeys
         /\ p.ids[ArxivId] # None => FirstKey(p) = << ArxivId, p.ids[ArxivId] >>
<1> DEFINE filled == { k \in Kinds : p.ids[k] # None }
           is(k) == p.ids[k] # None /\ \A j \in Kinds : j < k => p.ids[j] = None
<1>1. filled # {}
  BY DEF Kinds, Title
<1>2. PICK k \in filled : \A j \in filled : k <= j
  BY <1>1, FirstOfSomeKinds
<1>3. k \in Kinds /\ is(k)
  BY <1>2 DEF Kinds
<1>4. \A j \in Kinds : is(j) => j = k
  BY <1>3 DEF Kinds
<1>5. FirstKey(p) = << k, p.ids[k] >>
  <2> HIDE DEF is
  <2>1. (CHOOSE j \in Kinds : is(j)) = k
    BY <1>3, <1>4
  <2> QED BY <2>1 DEF FirstKey, is
<1>6. FirstKey(p) \in AllKeys
  BY <1>3, <1>5 DEF AllKeys, Record
<1>7. p.ids[ArxivId] # None => k = ArxivId
  BY <1>4 DEF ArxivId, Kinds
<1> QED BY <1>5, <1>6, <1>7

\* Taking a record in keeps the titles: no record comes without one.
LEMMA TakenKeepsTitled ==
  ASSUME NEW s, Sorted(s), Titled(s), NEW r \in Incoming
  PROVE  Titled(Taken(s, r))
<1> DEFINE n == Len(s.papers)
           hits == Hits(s, r)
<1>0. r \in Record /\ r.ids[Title] # None /\ s.papers \in Seq(Record) /\ n \in Nat
  BY SurveyConstants DEF Sorted, Shaped, Shelf
<1>1. CASE hits = {}
  <2>1. Taken(s, r).papers = Append(s.papers, r) /\ Taken(s, r).listed = s.listed \union { n + 1 }
    BY <1>1 DEF Taken, Listed
  <2> QED BY <1>0, <2>1 DEF Titled
<1>2. CASE hits # {}
  <2> DEFINE first == First(s, r, hits)
             folded == Folded(s, r, hits)
  <2>1. /\ Taken(s, r).papers = Append([s.papers EXCEPT ![first] = folded], r)
        /\ Taken(s, r).listed = s.listed \ (hits \ { first })
    BY <1>2 DEF Taken, Joined
  <2>2. first \in 1..n /\ folded \in Record
    BY <1>0, <1>2, FirstIsAHit, HitsExist, FoldedIsARecord DEF Sorted
  <2>3. folded.ids[Title] = s.papers[first].ids[Title]
    <3> DEFINE merged == Merge(s.papers[first], r)
    <3>0. Title \in Kinds
      BY DEF Kinds, Title
    <3>1. s.papers[first] \in Record /\ s.papers[first].ids[Title] # None
      BY <1>0, <2>2 DEF Titled
    <3>2. merged \in Record /\ merged.ids[Title] = s.papers[first].ids[Title]
      <4>1. merged.ids = [k \in Kinds |-> IF s.papers[first].ids[k] # None THEN s.papers[first].ids[k] ELSE r.ids[k]]
            /\ merged \in Record
        <5> HIDE DEF first
        <5> QED BY <1>0, <3>1 DEF Merge, Record
      <4> QED BY <3>1, <3>0, <4>1
    <3>3. folded.ids = [k \in Kinds |-> IF merged.ids[k] # None \/ { i \in hits \ { first } : s.papers[i].ids[k] # None } = {}
                                        THEN merged.ids[k]
                                        ELSE s.papers[First(s, r, { i \in hits \ { first } : s.papers[i].ids[k] # None })].ids[k]]
      <4>1. merged = [ids |-> merged.ids, meta |-> merged.meta, sources |-> merged.sources]
        BY <3>2 DEF Record
      <4> HIDE DEF merged
      <4> QED BY <4>1 DEF Folded, merged
    <3> HIDE DEF merged, folded, first, hits
    <3> QED BY <3>0, <3>1, <3>2, <3>3
  <2> HIDE DEF folded, first, hits
  <2>4. [s.papers EXCEPT ![first] = folded] \in Seq(Record) /\ Len([s.papers EXCEPT ![first] = folded]) = n
    BY <1>0, <2>2
  <2>5. Len(Taken(s, r).papers) = n + 1
    BY <1>0, <2>1, <2>4
  <2>6. \A i \in 1..(n + 1) : Taken(s, r).papers[i] = IF i = n + 1 THEN r ELSE IF i = first THEN folded ELSE s.papers[i]
    BY <1>0, <2>1, <2>2, <2>4
  <2>7. \A i \in 1..(n + 1) : Taken(s, r).papers[i].ids[Title] # None
    <3>1. ASSUME NEW i \in 1..n PROVE s.papers[i].ids[Title] # None
      BY <3>1 DEF Titled
    <3>2. ASSUME NEW i \in 1..(n + 1) PROVE Taken(s, r).papers[i].ids[Title] # None
      <4>1. CASE i = n + 1
        BY <1>0, <2>6, <4>1
      <4>2. CASE i # n + 1 /\ i = first
        BY <2>2, <2>3, <2>6, <3>1, <4>2
      <4>3. CASE i # n + 1 /\ i # first
        BY <1>0, <2>6, <3>1, <4>3
      <4> QED BY <4>1, <4>2, <4>3
    <3> QED BY <3>2
  <2> QED BY <1>0, <2>1, <2>5, <2>7 DEF Titled
<1> QED BY <1>1, <1>2

\* The papers of a shelf are records with a title.
LEMMA PapersAreTitled ==
  ASSUME NEW s, Sorted(s), Titled(s), NEW p \in Papers(s)
  PROVE  p \in Record /\ p.ids[Title] # None
BY DEF Papers, Sorted, Shaped, Shelf, Titled

\* Nothing is on the empty shelf.
LEMMA EmptyShelfIsTitled == Titled(EmptyShelf)
<1>1. EmptyShelf.papers = << >> /\ EmptyShelf.listed = {}
  BY DEF EmptyShelf
<1> QED BY <1>1 DEF Titled

\* What verify has filed so far: a checked paper was kept, begins with the key it began
\* with, and its verdict is under that key unless another kept paper begins with it too.
Filed ==
  /\ phase \in { "retrieve", "expand" } => checked = {}
  /\ \A p \in pool \union kept : p \in Record /\ p.ids[Title] # None
  /\ DOMAIN verdicts = AllKeys
  /\ \A c \in checked : c.before \in kept /\ FirstKey(c.after) = FirstKey(c.before)
  /\ OwnVerdict

VerdictInv == Sorted(shelf) /\ Titled(shelf) /\ Filed

\* One turn of verify's loop: the arXiv record it may merge has the paper's arXiv id, so
\* the paper goes on beginning with that.
LEMMA VerifyFiles ==
  ASSUME VerdictInv, NEW p \in kept, Verify(p)
  PROVE  Filed'
<1>0. p \in Record /\ p.ids[Title] # None /\ FirstKey(p) \in AllKeys /\ UNCHANGED << phase, pool, kept >>
  BY FirstKeyIsOne DEF VerdictInv, Filed, Verify
<1>1. PICK after : /\ checked' = checked \union { [before |-> p, after |-> after] }
                   /\ FirstKey(after) = FirstKey(p)
  <2> DEFINE confirmed == { r \in ArxivSays(p) : Similar(r.ids[Title], p.ids[Title]) }
             r0 == CHOOSE r \in confirmed : TRUE
             after0 == IF confirmed = {} THEN p ELSE Merge(p, r0)
  <2>1. checked' = checked \union { [before |-> p, after |-> after0] }
    BY DEF Verify
  <2>2. CASE confirmed = {}
    BY <2>1, <2>2
  <2>3. CASE confirmed # {}
    <3>1. p.ids[ArxivId] # None /\ p.ids[ArxivId] \in DOMAIN Arxiv /\ r0 = Arxiv[p.ids[ArxivId]]
      BY <2>3 DEF ArxivSays, AsksArxiv
    <3>2. r0 \in Record
      BY <3>1, SurveyConstants
    <3>3. Merge(p, r0) \in Record /\ Merge(p, r0).ids = [k \in Kinds |-> IF p.ids[k] # None THEN p.ids[k] ELSE r0.ids[k]]
      <4> HIDE DEF r0
      <4> QED BY <1>0, <3>2 DEF Merge, Record
    <3>4. Merge(p, r0).ids[ArxivId] = p.ids[ArxivId] /\ Merge(p, r0).ids[Title] = p.ids[Title]
      BY <1>0, <3>1, <3>3 DEF Kinds, ArxivId, Title
    <3>5. FirstKey(Merge(p, r0)) = FirstKey(p)
      BY <1>0, <3>1, <3>3, <3>4, FirstKeyIsOne
    <3> QED BY <2>1, <2>3, <3>5
  <2> QED BY <2>2, <2>3
<1>2. PICK v : verdicts' = [verdicts EXCEPT ![FirstKey(p)] = v] /\ v.of = { p }
  <2>1. \E a, b : verdicts' = [verdicts EXCEPT ![FirstKey(p)] = [citable |-> a, lookedUp |-> b, of |-> { p }]]
    BY Zenon DEF Verify
  <2>2. PICK a, b : verdicts' = [verdicts EXCEPT ![FirstKey(p)] = [citable |-> a, lookedUp |-> b, of |-> { p }]]
    BY <2>1
  <2>3. [citable |-> a, lookedUp |-> b, of |-> { p }].of = { p }
    OBVIOUS
  <2> QED BY <2>2, <2>3
<1>3. phase = "verify" /\ \A c \in checked : c.before # p
  BY DEF Verify
<1>4. DOMAIN verdicts' = AllKeys /\ verdicts'[FirstKey(p)] = v
      /\ \A key \in AllKeys : key # FirstKey(p) => verdicts'[key] = verdicts[key]
  BY <1>0, <1>2 DEF VerdictInv, Filed
<1>5. \A c \in checked : c.before \in kept /\ FirstKey(c.after) = FirstKey(c.before)
  BY DEF VerdictInv, Filed
<1>6. \A c \in checked' : c.before \in kept' /\ FirstKey(c.after) = FirstKey(c.before)
  BY <1>0, <1>1, <1>5
<1>7. ASSUME NEW c \in checked'
      PROVE  \E q \in Namesakes(c.before) : verdicts'[FirstKey(c.after)].of = { q }
  <2>1. CASE c \in checked /\ FirstKey(c.before) # FirstKey(p)
    <3>1. FirstKey(c.before) \in AllKeys
      BY <1>5, <2>1, FirstKeyIsOne DEF VerdictInv, Filed
    <3>2. \E q \in Namesakes(c.before) : verdicts[FirstKey(c.after)].of = { q }
      BY <2>1 DEF VerdictInv, Filed, OwnVerdict, VerdictOn
    <3> QED BY <1>4, <1>5, <2>1, <3>1, <3>2
  <2>2. CASE FirstKey(c.before) = FirstKey(p)
    <3>1. FirstKey(c.after) = FirstKey(p) /\ p \in Namesakes(c.before)
      BY <1>6, <1>7, <2>2 DEF Namesakes
    <3> QED BY <1>2, <1>4, <3>1
  <2>3. c \notin checked => FirstKey(c.before) = FirstKey(p)
    BY <1>1, <1>7
  <2> QED BY <2>1, <2>2, <2>3
<1>9. OwnVerdict'
  BY <1>0, <1>7 DEF OwnVerdict, VerdictOn, Namesakes
<1> QED BY <1>0, <1>3, <1>4, <1>6, <1>9 DEF VerdictInv, Filed

\* The verdict a kept paper is cited or excluded by is its own, or that of another kept
\* paper that begins with its identity key, for any records and services.
THEOREM OwnVerdictHolds == Spec => []OwnVerdict
<1>1. Init => VerdictInv
  BY EmptyShelfIsSorted, EmptyShelfIsTitled DEF Init, VerdictInv, Filed, OwnVerdict
<1>2. VerdictInv /\ [Next]_vars => VerdictInv'
  <2> SUFFICES ASSUME VerdictInv, [Next]_vars PROVE Sorted(shelf') /\ Titled(shelf') /\ Filed'
    BY DEF VerdictInv, Sorted, Shaped, IslandsKept, Island, Kept, From, Brought, Titled
  <2>1. ASSUME NEW r \in Incoming, Retrieve(r) \/ Find(r) PROVE Sorted(shelf') /\ Titled(shelf') /\ Filed'
    <3>1. Sorted(shelf') /\ Titled(shelf')
      BY <2>1, TakenKeepsSorted, TakenKeepsTitled DEF Retrieve, Find, VerdictInv
    <3>2. UNCHANGED << phase, pool, kept, checked, verdicts >>
      BY <2>1 DEF Retrieve, Find
    <3> QED BY <3>1, <3>2 DEF VerdictInv, Filed, OwnVerdict, Namesakes, VerdictOn
  <2>2. CASE Screen \/ Select
    <3>1. Sorted(shelf') /\ Titled(shelf')
      BY <2>2, EmptyShelfIsSorted, EmptyShelfIsTitled DEF Screen, Select
    <3>2. /\ checked = {} /\ UNCHANGED << checked, verdicts >>
          /\ pool' \subseteq pool \union Papers(shelf) /\ kept' \subseteq kept \union pool' \union Papers(shelf)
      BY <2>2 DEF Screen, Select, Fresh, VerdictInv, Filed
    <3>3. \A p \in pool' \union kept' : p \in Record /\ p.ids[Title] # None
      BY <3>2, PapersAreTitled DEF VerdictInv, Filed
    <3> QED BY <3>1, <3>2, <3>3 DEF VerdictInv, Filed, OwnVerdict
  <2>3. CASE NothingRetrieved \/ Cite \/ UNCHANGED vars
    <3>1. UNCHANGED << shelf, pool, kept, checked, verdicts >> /\ (phase' = phase \/ phase' \in { "failed", "done" })
      BY <2>3 DEF NothingRetrieved, Cite, vars
    <3> QED BY <3>1 DEF VerdictInv, Filed, OwnVerdict, Namesakes, VerdictOn
  <2>4. ASSUME NEW p \in kept, Verify(p) PROVE Sorted(shelf') /\ Titled(shelf') /\ Filed'
    BY <2>4, VerifyFiles DEF Verify, VerdictInv
  <2> QED BY <2>1, <2>2, <2>3, <2>4, SurveyConstants DEF Next
<1>3. VerdictInv => OwnVerdict
  BY DEF VerdictInv, Filed
<1> QED BY <1>1, <1>2, <1>3, PTL DEF Spec

-----------------------------------------------------------------------------
(* The experiments.                                                        *)

\* The state of an attempt, and the latest one.
Manifest == [by : Nat, status : { "none", "completed", "failed" }, items : { "fine", "failing" }]
ManagerRun == [state : { "none", "open", "complete", "failed" }, metrics : [Variants -> Manifest],
               recorded : Nat, current : SUBSET Variants]
Newest == attempts[Len(attempts)]

AttemptTypes ==
  /\ attempts \in Seq(ManagerRun) /\ executions \in Nat
  /\ planned \subseteq Variants /\ finished \subseteq Variants

\* The manager works on an attempt that has not ended; what is collected is of one that has.
AtWork ==
  /\ step \in { "manager", "executing" } => attempts # <<>> /\ Newest.state \in { "none", "open" }
  /\ step \in { "collect", "save", "analysis" } => attempts # <<>>

\* A metrics file is of an execution that was begun.
WrittenByExecutions ==
  \A k \in DOMAIN attempts : \A v \in Variants :
    attempts[k].metrics[v].status = "completed" => attempts[k].metrics[v].by \in 1..executions

\* The running execution, not recorded yet, wrote the files of the variants it finished.
Underway ==
  step = "executing" =>
    /\ executions # 0 /\ Newest.recorded < executions
    /\ planned \intersect finished = {}
    /\ \A v \in finished : Newest.metrics[v].by = executions

\* The latest execution, if it is recorded, wrote the files of the variants it finished.
RecordedWrote ==
  \A k \in DOMAIN attempts :
    /\ attempts[k].recorded <= executions
    /\ attempts[k].recorded = executions => \A v \in attempts[k].current : attempts[k].metrics[v].by = executions

CollectedIsLatest ==
  /\ step = "collect" /\ Newest.state = "complete" => Newest.recorded = executions
  /\ step \in { "save", "analysis" } /\ Newest.state = "complete" =>
       \A c \in collected : c.by = Newest.recorded /\ c.variant \in Newest.current
  /\ step = "analysis" => Newest.state = "complete"

AttemptInv == AttemptTypes /\ AtWork /\ WrittenByExecutions /\ Underway /\ RecordedWrote /\ CollectedIsLatest

\* This is the newest attempt, and Updated changes no other.
LEMMA UpdatesNewest ==
  ASSUME attempts \in Seq(ManagerRun), attempts # <<>>
  PROVE  /\ Len(attempts) \in Nat \ { 0 } /\ Newest \in ManagerRun /\ This = Newest
         /\ \A a \in ManagerRun :
              /\ Updated(a) \in Seq(ManagerRun) /\ Len(Updated(a)) = Len(attempts)
              /\ Updated(a)[Len(attempts)] = a
              /\ \A k \in 1..Len(attempts) : k # Len(attempts) => Updated(a)[k] = attempts[k]
<1>1. Len(attempts) \in Nat \ { 0 } /\ Newest \in ManagerRun /\ This = Newest
  BY DEF Newest, This, Last
<1> SUFFICES ASSUME NEW a \in ManagerRun
             PROVE  /\ Updated(a) \in Seq(ManagerRun) /\ Len(Updated(a)) = Len(attempts)
                    /\ Updated(a)[Len(attempts)] = a
                    /\ \A k \in 1..Len(attempts) : k # Len(attempts) => Updated(a)[k] = attempts[k]
  BY <1>1
<1>2. Updated(a) = [attempts EXCEPT ![Len(attempts)] = a]
  BY DEF Updated, ReplaceAt
<1> QED BY <1>1, <1>2

\* An attempt begins, or an open one is taken up again.
LEMMA BeginKeepsAttempts ==
  ASSUME AttemptInv, Begin
  PROVE  AttemptInv'
<1>1. CASE Resumable /\ attempts' = attempts
  <2>1. attempts # <<>> /\ Newest.state = "open"
    BY <1>1, UpdatesNewest DEF Resumable, AttemptInv, AttemptTypes
  <2> QED BY <1>1, <2>1 DEF AttemptInv, AttemptTypes, AtWork, WrittenByExecutions, Underway, RecordedWrote,
             CollectedIsLatest, Newest, Begin
<1>2. CASE attempts' = Append(attempts, FreshAttempt)
  <2> DEFINE fresh == FreshAttempt
  <2>1. fresh \in ManagerRun /\ fresh.state = "none" /\ fresh.recorded = 0 /\ fresh.current = {}
        /\ \A v \in Variants : fresh.metrics[v].status = "none"
    BY DEF FreshAttempt, NoMetrics, NoFile, ManagerRun, Manifest
  <2> HIDE DEF fresh
  <2>2. /\ attempts' \in Seq(ManagerRun) /\ Len(attempts') = Len(attempts) + 1 /\ Len(attempts) \in Nat
        /\ attempts'[Len(attempts')] = fresh /\ attempts' # <<>>
        /\ \A k \in 1..Len(attempts) : attempts'[k] = attempts[k]
    BY <1>2, <2>1 DEF AttemptInv, AttemptTypes, fresh
  <2>3. step' = "manager" /\ UNCHANGED << executions, planned, finished >>
    BY DEF Begin
  <2>4. AttemptTypes' /\ AtWork' /\ Underway' /\ CollectedIsLatest'
    BY <2>1, <2>2, <2>3 DEF AttemptInv, AttemptTypes, AtWork, Underway, CollectedIsLatest, Newest
  <2>5. ASSUME NEW k \in 1..Len(attempts')
        PROVE  attempts'[k] = fresh \/ (k \in DOMAIN attempts /\ attempts'[k] = attempts[k])
    BY <2>2 DEF AttemptInv, AttemptTypes
  <2>6. WrittenByExecutions'
    BY <2>1, <2>2, <2>3, <2>5 DEF AttemptInv, WrittenByExecutions
  <2>7. RecordedWrote'
    BY <2>1, <2>2, <2>3, <2>5 DEF AttemptInv, AttemptTypes, RecordedWrote
  <2> QED BY <2>4, <2>6, <2>7 DEF AttemptInv
<1> QED BY <1>1, <1>2 DEF Begin

\* What a step that writes to the newest attempt has to establish of it.
LEMMA WritingKeepsTheOthers ==
  ASSUME AttemptInv, attempts # <<>>, NEW a \in ManagerRun, attempts' = Updated(a),
         executions' \in Nat, executions' = executions,
         \A v \in Variants : a.metrics[v].status = "completed" => a.metrics[v].by \in 1..executions,
         a.recorded <= executions,
         a.recorded = executions => \A v \in a.current : a.metrics[v].by = executions
  PROVE  attempts' \in Seq(ManagerRun) /\ attempts' # <<>> /\ Newest' = a /\ WrittenByExecutions' /\ RecordedWrote'
<1>1. /\ Len(attempts) \in Nat \ { 0 }
      /\ attempts' \in Seq(ManagerRun) /\ Len(attempts') = Len(attempts) /\ attempts'[Len(attempts)] = a
      /\ \A k \in 1..Len(attempts) : k # Len(attempts) => attempts'[k] = attempts[k]
  BY UpdatesNewest DEF AttemptInv, AttemptTypes
<1>2. attempts' # <<>> /\ Newest' = a
  BY <1>1 DEF Newest
<1>3. ASSUME NEW k \in DOMAIN attempts'
      PROVE  attempts'[k] = a \/ (k \in DOMAIN attempts /\ attempts'[k] = attempts[k])
  BY <1>1 DEF AttemptInv, AttemptTypes
<1>4. WrittenByExecutions'
  BY <1>3 DEF AttemptInv, WrittenByExecutions
<1>5. RecordedWrote'
  BY <1>3 DEF AttemptInv, RecordedWrote
<1> QED BY <1>1, <1>2, <1>4, <1>5

LEMMA NewestFacts ==
  ASSUME AttemptInv, attempts # <<>>
  PROVE  /\ Newest \in ManagerRun /\ This = Newest /\ executions \in Nat /\ Len(attempts) \in DOMAIN attempts
         /\ \A v \in Variants : Newest.metrics[v].status = "completed" => Newest.metrics[v].by \in 1..executions
         /\ Newest.recorded <= executions
         /\ Newest.recorded = executions => \A v \in Newest.current : Newest.metrics[v].by = executions
<1>1. Len(attempts) \in DOMAIN attempts
  BY UpdatesNewest DEF AttemptInv, AttemptTypes
<1> QED BY <1>1, UpdatesNewest DEF AttemptInv, AttemptTypes, WrittenByExecutions, RecordedWrote, Newest

\* The manager's state file: it is created, or gets its final state.
LEMMA StateFileKeepsAttempts ==
  ASSUME AttemptInv, SaveState \/ Terminate
  PROVE  AttemptInv'
<1>1. step = "manager" /\ attempts # <<>> /\ UNCHANGED << executions, planned, finished >>
  BY DEF AttemptInv, AtWork, SaveState, Terminate
<1>2. PICK status \in { "open", "complete", "failed" } :
        /\ attempts' = Updated([Newest EXCEPT !.state = status])
        /\ status = "open" => step' = "manager"
        /\ status # "open" => step' = "collect"
        /\ status = "complete" => Newest.recorded = executions
  BY <1>1, NewestFacts DEF SaveState, Terminate
<1> DEFINE a == [Newest EXCEPT !.state = status]
<1>3. a \in ManagerRun /\ a.state = status /\ a.metrics = Newest.metrics /\ a.recorded = Newest.recorded
      /\ a.current = Newest.current
  BY <1>1, NewestFacts DEF ManagerRun
<1> HIDE DEF a
<1>4. attempts' = Updated(a)
  BY <1>2 DEF a
<1>5. attempts' \in Seq(ManagerRun) /\ attempts' # <<>> /\ Newest' = a /\ WrittenByExecutions' /\ RecordedWrote'
  BY <1>1, <1>3, <1>4, NewestFacts, WritingKeepsTheOthers
<1> QED BY <1>1, <1>2, <1>3, <1>5 DEF AttemptInv, AttemptTypes, AtWork, Underway, CollectedIsLatest

\* An execution begins: nothing written so far is of it.
LEMMA ExecuteKeepsAttempts ==
  ASSUME AttemptInv, NEW vs \in SUBSET Variants, Execute(vs)
  PROVE  AttemptInv'
<1>1. /\ step = "manager" /\ step' = "executing" /\ executions' = executions + 1 /\ finished' = {} /\ planned' = vs
      /\ attempts' = attempts /\ attempts # <<>> /\ Newest' = Newest /\ executions \in Nat
  BY DEF AttemptInv, AttemptTypes, AtWork, Execute, Newest
<1>2. This.state # "none"
  BY DEF Execute
<1>3. AttemptTypes' /\ AtWork' /\ CollectedIsLatest'
  BY <1>1 DEF AttemptInv, AttemptTypes, AtWork, CollectedIsLatest
<1>4. ASSUME NEW k \in DOMAIN attempts
      PROVE  /\ attempts[k].recorded \in Nat /\ attempts[k].recorded <= executions
             /\ \A v \in Variants : attempts[k].metrics[v].status = "completed" => attempts[k].metrics[v].by \in 1..executions
  <2>1. attempts[k] \in ManagerRun
    BY DEF AttemptInv, AttemptTypes
  <2>2. attempts[k].recorded \in Nat
    BY <2>1 DEF ManagerRun
  <2> QED BY <2>2 DEF AttemptInv, RecordedWrote, WrittenByExecutions
<1>5. WrittenByExecutions'
  BY <1>1, <1>4 DEF WrittenByExecutions
<1>6. RecordedWrote'
  BY <1>1, <1>4 DEF RecordedWrote
<1>7. Underway'
  BY <1>1, <1>4, NewestFacts DEF Underway, Newest
<1> QED BY <1>3, <1>5, <1>6, <1>7 DEF AttemptInv

\* A variant of the running execution: its file is of this execution, and no finished
\* variant is written to again.
LEMMA RunVariantKeepsAttempts ==
  ASSUME AttemptInv, NEW v \in Variants, RunVariant(v)
  PROVE  AttemptInv'
<1>1. /\ step = "executing" /\ step' = step /\ v \in planned /\ planned' = planned \ { v } /\ executions' = executions
      /\ attempts # <<>> /\ collected' = collected
  BY DEF AttemptInv, AtWork, RunVariant
<1>2. /\ executions # 0 /\ Newest.recorded < executions /\ v \notin finished
      /\ \A u \in finished : Newest.metrics[u].by = executions
  BY <1>1 DEF AttemptInv, Underway
<1>3. CASE UNCHANGED << attempts, finished >>
  BY <1>1, <1>3 DEF AttemptInv, AttemptTypes, AtWork, WrittenByExecutions, Underway, RecordedWrote, CollectedIsLatest, Newest
<1>4. ASSUME NEW file \in Manifest, file.by = executions,
             attempts' = Updated([Newest EXCEPT !.metrics[v] = file]),
             finished' = finished \union { v } \/ finished' = finished
      PROVE  AttemptInv'
  <2> DEFINE a == [Newest EXCEPT !.metrics[v] = file]
  <2>1. /\ a \in ManagerRun /\ a.state = Newest.state /\ a.recorded = Newest.recorded /\ a.current = Newest.current
        /\ a.metrics[v] = file /\ \A u \in Variants : u # v => a.metrics[u] = Newest.metrics[u]
    BY <1>1, NewestFacts DEF ManagerRun
  <2> HIDE DEF a
  <2>2. attempts' = Updated(a)
    BY <1>4 DEF a
  <2>3. executions \in Nat \ { 0 } /\ a.recorded < executions /\ a.recorded \in Nat
    BY <1>1, <1>2, <2>1, NewestFacts DEF ManagerRun
  <2>4. \A u \in Variants : a.metrics[u].status = "completed" => a.metrics[u].by \in 1..executions
    BY <1>1, <1>4, <2>1, <2>3, NewestFacts
  <2>5. attempts' \in Seq(ManagerRun) /\ attempts' # <<>> /\ Newest' = a /\ WrittenByExecutions' /\ RecordedWrote'
    BY <1>1, <2>1, <2>2, <2>3, <2>4, WritingKeepsTheOthers
  <2>6. AttemptTypes' /\ AtWork' /\ CollectedIsLatest'
    BY <1>1, <1>4, <2>1, <2>5 DEF AttemptInv, AttemptTypes, AtWork, CollectedIsLatest
  <2>7. finished \subseteq Variants /\ planned \intersect finished = {}
    BY <1>1 DEF AttemptInv, AttemptTypes, Underway
  <2>8. Underway'
    BY <1>1, <1>2, <1>4, <2>1, <2>3, <2>5, <2>7 DEF Underway
  <2> QED BY <2>5, <2>6, <2>8 DEF AttemptInv
<1>5. CASE \E items \in { "fine", "failing" } :
          /\ attempts' = Updated([This EXCEPT !.metrics[v] = [by |-> executions, status |-> "completed", items |-> items]])
          /\ finished' = finished \union { v }
  <2>1. PICK items \in { "fine", "failing" } :
          /\ attempts' = Updated([This EXCEPT !.metrics[v] = [by |-> executions, status |-> "completed", items |-> items]])
          /\ finished' = finished \union { v }
    BY <1>5
  <2>2. [by |-> executions, status |-> "completed", items |-> items] \in Manifest
    BY <1>1, NewestFacts DEF Manifest
  <2> QED BY <1>1, <1>4, <2>1, <2>2, NewestFacts
<1>6. CASE /\ attempts' = Updated([This EXCEPT !.metrics[v] = [by |-> executions, status |-> "failed", items |-> "fine"]])
           /\ finished' = finished
  <2>1. [by |-> executions, status |-> "failed", items |-> "fine"] \in Manifest
    BY <1>1, NewestFacts DEF Manifest
  <2> QED BY <1>1, <1>4, <1>6, <2>1, NewestFacts
<1> QED BY <1>3, <1>5, <1>6 DEF RunVariant

\* The execution is recorded with the variants it finished.
LEMMA EndExecutionKeepsAttempts ==
  ASSUME AttemptInv, EndExecution
  PROVE  AttemptInv'
<1>1. step = "executing" /\ step' = "manager" /\ attempts # <<>> /\ UNCHANGED << executions, planned, finished >>
  BY DEF AttemptInv, AtWork, EndExecution
<1> DEFINE a == [Newest EXCEPT !.recorded = executions, !.current = finished]
<1>2. attempts' = Updated(a)
  BY <1>1, NewestFacts DEF EndExecution
<1>3. a \in ManagerRun /\ a.state = Newest.state /\ a.metrics = Newest.metrics /\ a.recorded = executions
      /\ a.current = finished
  BY <1>1, NewestFacts DEF ManagerRun, AttemptInv, AttemptTypes
<1> HIDE DEF a
<1>4. \A u \in finished : a.metrics[u].by = executions
  BY <1>1, <1>3 DEF AttemptInv, Underway
<1>5. attempts' \in Seq(ManagerRun) /\ attempts' # <<>> /\ Newest' = a /\ WrittenByExecutions' /\ RecordedWrote'
  BY <1>1, <1>2, <1>3, <1>4, NewestFacts, WritingKeepsTheOthers
<1> QED BY <1>1, <1>3, <1>5 DEF AttemptInv, AttemptTypes, AtWork, Underway, CollectedIsLatest

\* What is collected of a complete attempt is of its latest execution: an attempt of
\* which no execution is recorded completed none, and has no readable metrics.
LEMMA CollectKeepsAttempts ==
  ASSUME AttemptInv, Collect
  PROVE  AttemptInv'
<1>1. /\ step = "collect" /\ step' = "save" /\ UNCHANGED << attempts, executions, planned, finished >> /\ Newest' = Newest
      /\ attempts # <<>>
  BY DEF AttemptInv, AtWork, Collect, Newest
<1>2. AttemptTypes' /\ AtWork' /\ WrittenByExecutions' /\ Underway' /\ RecordedWrote'
  BY <1>1 DEF AttemptInv, AttemptTypes, AtWork, WrittenByExecutions, Underway, RecordedWrote
<1>3. ASSUME Newest.state = "complete", NEW c \in collected'
      PROVE  c.by = Newest.recorded /\ c.variant \in Newest.current
  <2>1. PICK v \in Usable(Newest) : c = [variant |-> v, by |-> Newest.metrics[v].by]
    BY <1>1, <1>3, NewestFacts DEF Collect
  <2>2. v \in Variants /\ Newest.metrics[v].status = "completed"
    BY <2>1 DEF Usable, Readable
  <2>3. Newest.recorded = executions /\ executions # 0
    BY <1>1, <1>3, <2>2, NewestFacts DEF AttemptInv, CollectedIsLatest
  <2>4. v \in Newest.current
    BY <2>1, <2>3 DEF Usable
  <2> QED BY <1>1, <2>1, <2>3, <2>4, NewestFacts
<1>4. CollectedIsLatest'
  BY <1>1, <1>3 DEF CollectedIsLatest
<1> QED BY <1>2, <1>4 DEF AttemptInv

\* The steps of the stage after the attempt has ended, and a kill.
LEMMA StageKeepsAttempts ==
  ASSUME AttemptInv,
         \/ SaveResults \/ FailStage \/ Analyse \/ Kill
         \/ Rerun \/ UNCHANGED experimentsVars
  PROVE  AttemptInv'
<1>1. /\ attempts' = attempts /\ executions' = executions /\ Newest' = Newest
      /\ planned' \in { planned, {} } /\ finished' \in { finished, {} }
  BY DEF SaveResults, FailStage, Analyse, Kill, Rerun,
         experimentsVars, Newest
<1>2. AttemptTypes' /\ WrittenByExecutions' /\ RecordedWrote'
  BY <1>1 DEF AttemptInv, AttemptTypes, WrittenByExecutions, RecordedWrote
<1>3. CASE SaveResults
  <2>1. /\ step = "save" /\ step' = "analysis" /\ attempts # <<>> /\ Newest.state = "complete" /\ collected' = collected
    BY <1>3, NewestFacts DEF AttemptInv, AtWork, SaveResults, Sufficient
  <2> QED BY <1>1, <1>2, <2>1 DEF AttemptInv, AtWork, Underway, CollectedIsLatest
<1>4. CASE FailStage \/ Analyse \/ Kill \/ Rerun
  <2>1. step' \in { "over", "engine" }
    BY <1>4 DEF FailStage, Analyse, Kill, Rerun
  <2> QED BY <1>2, <2>1 DEF AttemptInv, AtWork, Underway, CollectedIsLatest
<1>5. CASE UNCHANGED experimentsVars
  BY <1>5, <1>1, <1>2 DEF AttemptInv, AtWork, Underway, CollectedIsLatest, experimentsVars
<1> QED BY <1>3, <1>4, <1>5

\* The inductive invariant of the experiments.
THEOREM AttemptInvHolds == ExperimentsSpec => []AttemptInv
<1>1. ExperimentsInit => AttemptInv
  BY DEF ExperimentsInit, AttemptInv, AttemptTypes, AtWork, WrittenByExecutions, Underway, RecordedWrote, CollectedIsLatest
<1>2. AttemptInv /\ [ExperimentsNext]_experimentsVars => AttemptInv'
  BY BeginKeepsAttempts, StateFileKeepsAttempts, ExecuteKeepsAttempts, RunVariantKeepsAttempts, EndExecutionKeepsAttempts,
     CollectKeepsAttempts, StageKeepsAttempts DEF ExperimentsNext
<1> QED BY <1>1, <1>2, PTL DEF ExperimentsSpec

\* What is saved for the analysis was completed in the latest execution of a complete
\* attempt: no metrics of a variant that a later design revision dropped.
THEOREM SavedFromLatestExecutionHolds == ExperimentsSpec => []SavedFromLatestExecution
<1>1. AttemptInv => SavedFromLatestExecution
  BY NewestFacts DEF AttemptInv, AtWork, CollectedIsLatest, SavedFromLatestExecution
<1> QED BY <1>1, AttemptInvHolds, PTL

\* No step changes an attempt that has ended: what the manager writes goes to the newest
\* attempt, and that one has not ended while the manager is at work.
LEMMA StepsLeaveFinishedAttempts ==
  ASSUME AttemptInv, ExperimentsNext, NEW k \in DOMAIN attempts,
         attempts[k].state \in { "complete", "failed" }
  PROVE  attempts'[k] = attempts[k]
<1>1. attempts \in Seq(ManagerRun) /\ attempts # <<>> /\ k \in 1..Len(attempts)
  BY DEF AttemptInv, AttemptTypes
<1>2. \/ attempts' = attempts
      \/ attempts' = Append(attempts, FreshAttempt)
      \/ step \in { "manager", "executing" } /\ \E a \in ManagerRun : attempts' = Updated(a)
  <2>1. CASE SaveState \/ Terminate
    <3>1. PICK status \in { "open", "complete", "failed" } : attempts' = Updated([Newest EXCEPT !.state = status])
      BY <1>1, <2>1, NewestFacts DEF SaveState, Terminate
    <3>2. [Newest EXCEPT !.state = status] \in ManagerRun
      BY <1>1, NewestFacts DEF ManagerRun
    <3> QED BY <2>1, <3>1, <3>2 DEF SaveState, Terminate
  <2>2. CASE EndExecution
    <3>1. [Newest EXCEPT !.recorded = executions, !.current = finished] \in ManagerRun
      BY <1>1, NewestFacts DEF ManagerRun, AttemptInv, AttemptTypes
    <3> QED BY <1>1, <2>2, <3>1, NewestFacts DEF EndExecution
  <2>3. ASSUME NEW v \in Variants, RunVariant(v)
        PROVE  attempts' = attempts \/ (step = "executing" /\ \E a \in ManagerRun : attempts' = Updated(a))
    <3>1. CASE attempts' # attempts
      <4>1. PICK file \in Manifest : attempts' = Updated([Newest EXCEPT !.metrics[v] = file])
        BY <1>1, <2>3, <3>1, NewestFacts DEF RunVariant, Manifest
      <4>2. [Newest EXCEPT !.metrics[v] = file] \in ManagerRun
        BY <1>1, NewestFacts DEF ManagerRun
      <4> QED BY <2>3, <4>1, <4>2 DEF RunVariant
    <3> QED BY <3>1
  <2> QED BY <2>1, <2>2, <2>3 DEF ExperimentsNext, Begin, Collect, SaveResults,
             FailStage, Analyse, Kill, Rerun, Execute
<1>3. CASE step \in { "manager", "executing" } /\ \E a \in ManagerRun : attempts' = Updated(a)
  <2>1. k # Len(attempts)
    BY <1>1, <1>3 DEF AttemptInv, AtWork, Newest
  <2> QED BY <1>1, <1>3, <2>1, UpdatesNewest
<1> QED BY <1>1, <1>2, <1>3

\* A rerun never adds to an attempt that has finished.
THEOREM FinishedAttemptsStandHolds == ExperimentsSpec => FinishedAttemptsStand
<1>1. AttemptInv /\ [ExperimentsNext]_experimentsVars =>
        [\A k \in DOMAIN attempts : attempts[k].state \in { "complete", "failed" } => attempts'[k] = attempts[k]]_experimentsVars
  BY StepsLeaveFinishedAttempts
<1> QED BY <1>1, AttemptInvHolds, PTL DEF ExperimentsSpec, FinishedAttemptsStand

-----------------------------------------------------------------------------
(* The author conversation.                                                *)

\* An exchange and a Conversation object; texts are numbers, 0 is none.
Turn == [section : Sections \union { "title" }, current : Nat,
         sends : SUBSET { "contract", "current" }, kept : Nat]
Dialogue == [system : Nat, turns : Seq(Turn), sent : Seq(Turn)]
SectionTexts == [Sections -> Nat]
TextsIn(texts) == { texts[s] : s \in Sections }

WriterTypes ==
  /\ context \in Nat /\ drafted \in Nat /\ calls \in Nat
  /\ sections \in SectionTexts /\ latest \in SectionTexts
  /\ convs \in Seq(Dialogue) /\ conv \in 0..Len(convs)
  /\ discarded \subseteq 1..calls

\* The texts up to the call n that no round was rejected with.
Standing(n) == (0..n) \ discarded

\* What the conversation shows, the mirror and the paper are standing texts.
TextsStand == Texts(turns) \union TextsIn(latest) \union TextsIn(sections) \subseteq Standing(calls)

\* What the mirror takes for known is in the conversation.
MirrorHeld == TextsIn(latest) \subseteq { 0 } \union Texts(turns)

\* So it is for what the write stage saved.
ExportedTexts == Texts(exported.turns) \union TextsIn(exported.latest) \union TextsIn(exported.sections)
ExportStands ==
  /\ exported.turns \in Seq(Turn) /\ exported.latest \in SectionTexts /\ exported.sections \in SectionTexts
  /\ ExportedTexts \subseteq Standing(calls)
  /\ TextsIn(exported.latest) \subseteq { 0 } \union Texts(exported.turns)

\* Between the stages there is the saved conversation and no writer.
BetweenStages ==
  /\ stage = "load" => Len(convs) = 1 /\ convs[1].turns = exported.turns /\ conv = 0 /\ latest = NoTexts
  /\ stage = "titled" => conv # 0
  /\ stage \in { "first", "review", "round" } => convs # <<>>

\* And for the checkpoint of the running round, whose texts are older than the round.
MarkedTurns == IF saved.conv = 0 THEN <<>> ELSE SubSeq(convs[saved.conv].turns, 1, saved.mark)
Checkpoint ==
  stage = "round" =>
    /\ saved.calls \in 0..calls /\ saved.conv \in 0..Len(convs)
    /\ saved.conv # 0 => saved.mark \in 0..Len(convs[saved.conv].turns)
    /\ saved.latest \in SectionTexts /\ saved.sections \in SectionTexts
    /\ Texts(MarkedTurns) \union TextsIn(saved.latest) \union TextsIn(saved.sections) \subseteq Standing(saved.calls)
    /\ ExportedTexts \subseteq Standing(saved.calls)
    /\ TextsIn(saved.latest) \subseteq { 0 } \union Texts(MarkedTurns)

AskedShows == asked.fresh = "no" => asked.text = "shown"

WriterInv ==
  /\ WriterTypes /\ TextsStand /\ MirrorHeld /\ ExportStands /\ BetweenStages /\ Checkpoint /\ AskedShows

\* The history by one exchange longer, and a history cut off.
LEMMA TextsOfHistories ==
  ASSUME NEW h \in Seq(Turn), NEW e \in Turn
  PROVE  /\ Texts(h) \subseteq Texts(Append(h, e))
         /\ Texts(Append(h, e)) \subseteq Texts(h) \union { e.kept, e.current }
         /\ e.kept \in Texts(Append(h, e))
         /\ "current" \in e.sends => e.current \in Texts(Append(h, e))
<1> DEFINE g == Append(h, e)
<1>2. /\ Len(h) \in Nat /\ DOMAIN h = 1..Len(h) /\ DOMAIN g = 1..(Len(h) + 1)
      /\ g[Len(h) + 1] = e /\ \A k \in DOMAIN h : g[k] = h[k]
  OBVIOUS
<1> HIDE DEF g
<1>3. DOMAIN g = DOMAIN h \union { Len(h) + 1 }
  BY <1>2
<1>4. Texts(h) \subseteq Texts(g)
  BY <1>2, <1>3 DEF Texts
<1>5. Texts(g) \subseteq Texts(h) \union { e.kept, e.current }
  BY <1>2, <1>3 DEF Texts
<1>6. e.kept \in Texts(g) /\ ("current" \in e.sends => e.current \in Texts(g))
  BY <1>2, <1>3 DEF Texts
<1> QED BY <1>4, <1>5, <1>6 DEF g

LEMMA CutHistories ==
  ASSUME NEW h \in Seq(Turn), NEW m \in 0..Len(h)
  PROVE  /\ SubSeq(h, 1, m) \in Seq(Turn) /\ Len(SubSeq(h, 1, m)) = m
         /\ SubSeq(h, 1, Len(h)) = h
         /\ \A e \in Turn : SubSeq(Append(h, e), 1, m) = SubSeq(h, 1, m) /\ m \in 0..Len(Append(h, e))
OBVIOUS

LEMMA TurnsOfDialogues ==
  ASSUME NEW d \in Dialogue
  PROVE  d.turns \in Seq(Turn)
<1> DEFINE T == Seq(Turn)
<1>1. Dialogue = [system : Nat, turns : T, sent : T]
  BY DEF Dialogue, T
<1> HIDE DEF T
<1>2. d.turns \in T
  BY <1>1
<1> QED BY <1>2 DEF T

LEMMA DialoguesOfTurns ==
  ASSUME NEW h \in Seq(Turn), NEW g \in Seq(Turn)
  PROVE  /\ \A system \in Nat : [system |-> system, turns |-> h, sent |-> g] \in Dialogue
         /\ \A d \in Dialogue : /\ [d EXCEPT !.turns = h, !.sent = g] \in Dialogue
                                /\ [d EXCEPT !.turns = h, !.sent = g].turns = h
                                /\ [d EXCEPT !.turns = h] \in Dialogue
                                /\ [d EXCEPT !.turns = h].turns = h
<1> DEFINE T == Seq(Turn)
<1>1. Dialogue = [system : Nat, turns : T, sent : T] /\ h \in T /\ g \in T
  BY DEF Dialogue, T
<1> HIDE DEF T
<1> QED BY <1>1

\* What the mirror and the conversation are once _conversation_for has been called.
Base == IF NeedsRestart THEN <<>> ELSE turns

LEMMA BaseFacts ==
  ASSUME WriterInv
  PROVE  /\ Base \in Seq(Turn) /\ turns \in Seq(Turn)
         /\ Mirror.latest \in SectionTexts
         /\ Texts(Base) \union TextsIn(Mirror.latest) \union TextsIn(sections) \subseteq Standing(calls) \union { 0 }
         /\ TextsIn(Mirror.latest) \subseteq { 0 } \union Texts(Base)
         /\ ~NeedsRestart => Mirror.latest = latest /\ conv # 0 /\ Base = convs[conv].turns
<1>1. turns \in Seq(Turn)
  <2>1. CASE conv = 0
    BY <2>1 DEF turns
  <2>2. CASE conv # 0
    <3>1. convs[conv] \in Dialogue /\ turns = convs[conv].turns
      BY <2>2 DEF WriterInv, WriterTypes, turns
    <3> QED BY <3>1, TurnsOfDialogues
  <2> QED BY <2>1, <2>2
<1>2. CASE NeedsRestart
  <2>1. Base = <<>> /\ Mirror.latest = NoTexts
    BY <1>2 DEF Base, Mirror
  <2>2. NoTexts \in SectionTexts /\ TextsIn(NoTexts) \subseteq { 0 }
    BY DEF NoTexts, NoText, SectionTexts, TextsIn
  <2>3. TextsIn(sections) \subseteq Standing(calls)
    BY DEF WriterInv, TextsStand
  <2>4. Texts(<<>>) = {} /\ <<>> \in Seq(Turn)
    BY DEF Texts
  <2> QED BY <1>1, <1>2, <2>1, <2>2, <2>3, <2>4
<1>3. CASE ~NeedsRestart
  <2>1. conv # 0 /\ Mirror.latest = latest /\ Base = turns /\ Base = convs[conv].turns
    BY <1>3 DEF Base, Mirror, NeedsRestart, turns
  <2> QED BY <1>1, <1>3, <2>1 DEF WriterInv, WriterTypes, TextsStand, MirrorHeld
<1> QED BY <1>2, <1>3

\* A request extends the current conversation, or a new one, and no other.
LEMMA SendFacts ==
  ASSUME WriterInv, NEW e \in Turn, Send(e)
  PROVE  /\ convs' \in Seq(Dialogue) /\ Len(convs) <= Len(convs') /\ Len(convs') \in Nat /\ Len(convs) \in Nat
         /\ conv' \in 1..Len(convs')
         /\ turns' = Append(Base, e)
         /\ \A c \in 1..Len(convs) : convs'[c].turns = convs[c].turns \/ convs'[c].turns = Append(convs[c].turns, e)
<1> DEFINE n == Current
           heap == Heap
<1>1. NewConversation \in Dialogue /\ NewConversation.turns = <<>>
  BY DEF NewConversation, WriterInv, WriterTypes, Dialogue
<1>2. convs \in Seq(Dialogue) /\ Len(convs) \in Nat /\ conv \in 0..Len(convs)
  BY DEF WriterInv, WriterTypes
<1>3. /\ heap \in Seq(Dialogue) /\ n \in 1..Len(heap) /\ heap[n].turns = Base
      /\ Len(heap) \in Nat /\ Len(convs) <= Len(heap)
      /\ \A c \in 1..Len(convs) : heap[c] = convs[c]
  <2>1. CASE NeedsRestart
    <3>1. heap = Append(convs, NewConversation) /\ n = Len(heap) /\ Base = <<>>
      BY <2>1 DEF Heap, Current, Base
    <3> HIDE DEF heap, n
    <3> QED BY <1>1, <1>2, <3>1
  <2>2. CASE ~NeedsRestart
    <3>1. heap = convs /\ n = conv /\ conv # 0 /\ Base = convs[conv].turns
      BY <2>2 DEF Heap, Current, Base, NeedsRestart, turns
    <3> QED BY <1>2, <3>1
  <2> QED BY <2>1, <2>2
<1>4. convs' = [heap EXCEPT ![n].turns = Append(@, e), ![n].sent = heap[n].turns] /\ conv' = n
  BY DEF Send, Extend
<1> HIDE DEF heap, n
<1>5. heap[n] \in Dialogue
  BY <1>3
<1>6. heap[n].turns \in Seq(Turn) /\ Append(heap[n].turns, e) \in Seq(Turn)
  BY <1>5, TurnsOfDialogues
<1> DEFINE d == [heap[n] EXCEPT !.turns = Append(heap[n].turns, e), !.sent = heap[n].turns]
<1>7. d \in Dialogue /\ d.turns = Append(heap[n].turns, e)
  BY <1>5, <1>6, DialoguesOfTurns
<1>8. convs' = [heap EXCEPT ![n] = d]
  BY <1>3, <1>4
<1> HIDE DEF d
<1>9. /\ convs' \in Seq(Dialogue) /\ Len(convs') = Len(heap) /\ convs'[n] = d
      /\ \A c \in 1..Len(heap) : c # n => convs'[c] = heap[c]
  BY <1>3, <1>7, <1>8
<1>10. turns' = convs'[n].turns
  BY <1>3, <1>4 DEF turns
<1>11. ASSUME NEW c \in 1..Len(convs)
       PROVE  convs'[c].turns = convs[c].turns \/ convs'[c].turns = Append(convs[c].turns, e)
  <2>1. c \in 1..Len(heap) /\ heap[c] = convs[c]
    BY <1>2, <1>3
  <2>2. CASE c = n
    BY <1>7, <1>9, <2>1, <2>2
  <2>3. CASE c # n
    BY <1>9, <2>1, <2>3
  <2> QED BY <2>2, <2>3
<1>12. conv' \in 1..Len(convs') /\ turns' = Append(Base, e)
  BY <1>3, <1>4, <1>7, <1>9, <1>10
<1> QED BY <1>2, <1>3, <1>9, <1>11, <1>12

\* The checkpoint of the round stands while requests are added.
LEMMA RequestsKeepTheCheckpoint ==
  ASSUME WriterInv, NEW e \in Turn, Send(e), stage = "round", calls' \in Nat, calls <= calls',
         UNCHANGED << saved, discarded, exported >>
  PROVE  Checkpoint'
<1>1. /\ saved.calls \in 0..calls /\ saved.conv \in 0..Len(convs)
      /\ saved.conv # 0 => saved.mark \in 0..Len(convs[saved.conv].turns)
      /\ calls \in Nat /\ convs \in Seq(Dialogue)
  BY DEF WriterInv, WriterTypes, Checkpoint
<1>2. /\ Len(convs) <= Len(convs') /\ Len(convs') \in Nat /\ Len(convs) \in Nat
      /\ \A c \in 1..Len(convs) : convs'[c].turns = convs[c].turns \/ convs'[c].turns = Append(convs[c].turns, e)
  BY SendFacts
<1>3. saved.conv # 0 => /\ saved.mark \in 0..Len(convs'[saved.conv].turns)
                        /\ SubSeq(convs'[saved.conv].turns, 1, saved.mark) = SubSeq(convs[saved.conv].turns, 1, saved.mark)
  <2> SUFFICES ASSUME saved.conv # 0
               PROVE  /\ saved.mark \in 0..Len(convs'[saved.conv].turns)
                      /\ SubSeq(convs'[saved.conv].turns, 1, saved.mark) = SubSeq(convs[saved.conv].turns, 1, saved.mark)
    OBVIOUS
  <2>1. saved.conv \in 1..Len(convs)
    BY <1>1, <1>2
  <2>2. convs[saved.conv].turns \in Seq(Turn)
    <3>1. convs[saved.conv] \in Dialogue
      BY <1>1, <2>1
    <3> QED BY <3>1, TurnsOfDialogues
  <2> DEFINE h == convs[saved.conv].turns
  <2>3. h \in Seq(Turn) /\ saved.mark \in 0..Len(h)
    BY <1>1, <2>1, <2>2
  <2>4. convs'[saved.conv].turns = h \/ convs'[saved.conv].turns = Append(h, e)
    BY <1>2, <2>1
  <2> HIDE DEF h
  <2>5. /\ saved.mark \in 0..Len(convs'[saved.conv].turns)
        /\ SubSeq(convs'[saved.conv].turns, 1, saved.mark) = SubSeq(h, 1, saved.mark)
    <3>1. /\ SubSeq(Append(h, e), 1, saved.mark) = SubSeq(h, 1, saved.mark)
          /\ saved.mark \in 0..Len(Append(h, e))
      BY <2>3, CutHistories
    <3> QED BY <2>3, <2>4, <3>1
  <2> QED BY <2>5 DEF h
<1>4. MarkedTurns' = MarkedTurns
  BY <1>3 DEF MarkedTurns
<1>5. Standing(saved.calls)' = Standing(saved.calls) /\ ExportedTexts' = ExportedTexts
  BY DEF Standing, ExportedTexts, TextsIn
<1>6. saved'.calls \in 0..calls' /\ saved'.conv \in 0..Len(convs')
  BY <1>1, <1>2
<1>7. TextsIn(saved.latest)' = TextsIn(saved.latest) /\ TextsIn(saved.sections)' = TextsIn(saved.sections)
  BY DEF TextsIn
<1> QED BY <1>3, <1>4, <1>5, <1>6, <1>7 DEF WriterInv, Checkpoint

\* A text of a new call stands, and so do the others.
LEMMA NewCallsStand ==
  ASSUME WriterTypes, calls' \in { calls, calls + 1 }, discarded' = discarded
  PROVE  Standing(calls) \subseteq Standing(calls)' /\ (calls' = calls + 1 => calls' \in Standing(calls)')
         /\ 0 \in Standing(calls)'
<1> QED BY DEF WriterTypes, Standing

\* A request is complete, and what it leaves behind stands: the text it shows and the one
\* it asks for stand, and the mirror takes over the one it asks for.
Request(e) ==
  /\ Send(e)
  /\ e.current \in TextsIn(sections) \union { 0 }
  /\ e.current = 0 \/ "current" \in e.sends \/ e.current \in TextsIn(Mirror.latest) \/ e.current \in TextsIn(latest)
  /\ \/ e.kept = 0 /\ calls' \in { calls, calls + 1 }
     \/ e.kept = calls + 1 /\ calls' = calls + 1
  /\ latest' \in SectionTexts /\ TextsIn(latest)' \subseteq TextsIn(Mirror.latest) \union { e.kept }
  /\ sections' \in SectionTexts /\ TextsIn(sections)' \subseteq TextsIn(sections) \union { e.kept }
  /\ UNCHANGED << context, exported, discarded, saved >> /\ drafted' \in Nat
  /\ stage # "load" /\ (stage' = stage \/ stage' = "titled")

LEMMA RequestsKeepWriter ==
  ASSUME WriterInv, NEW e \in Turn, Request(e)
  PROVE  WriterInv'
<1>1. /\ turns' = Append(Base, e) /\ convs' \in Seq(Dialogue) /\ Len(convs') \in Nat /\ conv' \in 1..Len(convs')
  BY SendFacts DEF Request
<1>2. Base \in Seq(Turn)
  BY BaseFacts
<1>3. /\ Texts(Base) \subseteq Texts(turns)'
      /\ Texts(turns)' \subseteq Texts(Base) \union { e.kept, e.current }
      /\ e.kept \in Texts(turns)'
      /\ "current" \in e.sends => e.current \in Texts(turns)'
  <2>1. /\ Texts(Base) \subseteq Texts(Append(Base, e))
        /\ Texts(Append(Base, e)) \subseteq Texts(Base) \union { e.kept, e.current }
        /\ e.kept \in Texts(Append(Base, e))
        /\ "current" \in e.sends => e.current \in Texts(Append(Base, e))
    BY <1>2, TextsOfHistories
  <2>2. Texts(turns)' = Texts(Append(Base, e))
    BY <1>1 DEF Texts
  <2> QED BY <2>1, <2>2
<1>4. calls \in Nat /\ calls' \in Nat /\ calls <= calls' /\ discarded' = discarded
  BY DEF WriterInv, WriterTypes, Request
<1>5. Standing(calls) \union { 0, e.kept } \subseteq Standing(calls)'
  BY NewCallsStand DEF WriterInv, Request
<1>6. WriterTypes'
  BY <1>1, <1>4 DEF WriterInv, WriterTypes, Request
<1>7. /\ Texts(Base) \union TextsIn(Mirror.latest) \union TextsIn(sections) \subseteq Standing(calls) \union { 0 }
      /\ TextsIn(Mirror.latest) \subseteq { 0 } \union Texts(Base)
  BY BaseFacts
<1>8. /\ e.current \in TextsIn(sections) \union { 0 }
      /\ TextsIn(latest)' \subseteq TextsIn(Mirror.latest) \union { e.kept }
      /\ TextsIn(sections)' \subseteq TextsIn(sections) \union { e.kept }
  BY DEF Request
<1>9. TextsStand'
  BY <1>3, <1>5, <1>7, <1>8 DEF TextsStand
<1>10. MirrorHeld'
  BY <1>3, <1>7, <1>8 DEF MirrorHeld
<1>11. ExportStands'
  <2>1. ExportedTexts' = ExportedTexts /\ TextsIn(exported.latest)' = TextsIn(exported.latest) /\ exported' = exported
    BY DEF Request, ExportedTexts, TextsIn
  <2> QED BY <1>5, <2>1 DEF WriterInv, ExportStands
<1>12. BetweenStages'
  BY <1>1 DEF Request, WriterInv, BetweenStages
<1>13. Checkpoint'
  <2>1. CASE stage = "round"
    BY <1>4, <2>1, RequestsKeepTheCheckpoint DEF Request
  <2>2. CASE stage # "round"
    BY <2>2 DEF Checkpoint, Request
  <2> QED BY <2>1, <2>2
<1>14. AskedShows'
  <2> SUFFICES ASSUME asked'.fresh = "no" PROVE asked'.text = "shown"
    BY DEF AskedShows
  <2>1. ~NeedsRestart /\ asked'.text = Shown(e.current \in { 0 } \union Texts(Append(Heap[Current].turns, e)))
    BY DEF Request, Send, NoText
  <2>2. Heap[Current].turns = Base /\ Mirror.latest = latest
    BY <2>1, BaseFacts DEF Heap, Current
  <2>3. e.current \in { 0 } \union Texts(Append(Base, e))
    BY <1>1, <1>3, <1>7, <2>2 DEF Request
  <2> QED BY <2>1, <2>2, <2>3 DEF Shown
<1> QED BY <1>6, <1>9, <1>10, <1>11, <1>12, <1>13, <1>14 DEF WriterInv

\* A call for a section is such a request.
LEMMA CallsAreRequests ==
  ASSUME WriterInv, NEW s \in Sections, NEW current \in TextsIn(sections) \union { 0 },
         NEW text \in Replies, Call(s, current, text),
         sections' \in { sections, [sections EXCEPT ![s] = text] },
         UNCHANGED << context, exported, discarded, saved >>, drafted' \in Nat, stage # "load", stage' = stage
  PROVE  WriterInv'
<1> DEFINE sends == Blocks(s, current)
           e == [section |-> s, current |-> current, sends |-> sends, kept |-> text]
<1>1. calls \in Nat /\ text \in { 0, calls + 1 } /\ sections \in SectionTexts /\ latest \in SectionTexts
  BY DEF WriterInv, WriterTypes, Replies, NoText
<1>2. current \in Nat
  BY <1>1 DEF TextsIn, SectionTexts
<1>3. sends \in SUBSET { "contract", "current" } /\ (current = 0 \/ "current" \in sends \/ latest[s] = current)
  BY DEF Blocks, NoText
<1> HIDE DEF sends
<1>4. e \in Turn /\ e.current = current /\ e.sends = sends /\ e.kept = text
  BY <1>1, <1>2, <1>3 DEF Turn
<1>5. Send(e) /\ calls' = calls + 1
      /\ latest' = IF text = 0 THEN Mirror.latest ELSE [Mirror.latest EXCEPT ![s] = text]
  BY DEF Call, NoText, sends
<1> HIDE DEF e
<1>6. Mirror.latest \in SectionTexts
  BY BaseFacts
<1>7. ASSUME NEW f \in SectionTexts
      PROVE  [f EXCEPT ![s] = text] \in SectionTexts /\ TextsIn([f EXCEPT ![s] = text]) \subseteq TextsIn(f) \union { text }
  BY <1>1 DEF SectionTexts, TextsIn
<1>8. latest' \in SectionTexts /\ TextsIn(latest') \subseteq TextsIn(Mirror.latest) \union { text }
  BY <1>5, <1>6, <1>7
<1>9. sections' \in SectionTexts /\ TextsIn(sections') \subseteq TextsIn(sections) \union { text }
  BY <1>1, <1>7
<1>10. TextsIn(latest)' = TextsIn(latest') /\ TextsIn(sections)' = TextsIn(sections')
  BY DEF TextsIn
<1>11. current = 0 \/ "current" \in sends \/ current \in TextsIn(latest)
  BY <1>3 DEF TextsIn
<1>12. Request(e)
  BY <1>1, <1>4, <1>5, <1>8, <1>9, <1>10, <1>11 DEF Request
<1> QED BY <1>4, <1>12, RequestsKeepWriter

LEMMA DraftKeepsWriter ==
  ASSUME WriterInv, Draft
  PROVE  WriterInv'
<1>1. drafted' \in 1..Len(Order) /\ drafted' \in Nat /\ stage = "write" /\ stage' = stage
  BY DEF WriterInv, WriterTypes, Draft
<1>2. Order[drafted'] \in Sections
  BY <1>1, ConversationConstants DEF Sections, ToSet
<1>3. PICK text \in Replies :
        Call(Order[drafted'], 0, text) /\ sections' = [sections EXCEPT ![Order[drafted']] = text]
  BY DEF Draft, NoText
<1> DEFINE s == Order[drafted']
<1> QED BY <1>1, <1>2, <1>3, CallsAreRequests DEF Draft

LEMMA ChangeKeepsWriter ==
  ASSUME WriterInv, NEW s \in Sections, Change(s)
  PROVE  WriterInv'
<1>1. PICK text \in Replies :
        Call(s, sections[s], text) /\ sections' \in { sections, [sections EXCEPT ![s] = text] }
  BY DEF Change
<1>2. sections[s] \in TextsIn(sections) \union { 0 }
  BY DEF TextsIn
<1>3. UNCHANGED << context, exported, discarded, saved >> /\ drafted' \in Nat /\ stage # "load" /\ stage' = stage
  BY DEF Change, WriterInv, WriterTypes
<1> QED BY <1>1, <1>2, <1>3, CallsAreRequests

LEMMA AskTitleKeepsWriter ==
  ASSUME WriterInv, AskTitle
  PROVE  WriterInv'
<1>1. Abstract \in Sections
  BY ConversationConstants DEF Abstract, Sections, ToSet, Last
<1> DEFINE sends == IF Mirror.latest[Abstract] = sections[Abstract] THEN {} ELSE { "current" }
           e == [section |-> "title", current |-> sections[Abstract], sends |-> sends, kept |-> 0]
<1>2. calls \in Nat /\ sections \in SectionTexts /\ drafted \in Nat
  BY DEF WriterInv, WriterTypes
<1>3. sends \in SUBSET { "contract", "current" }
      /\ ("current" \in sends \/ Mirror.latest[Abstract] = sections[Abstract])
  OBVIOUS
<1>4. sections[Abstract] \in Nat /\ sections[Abstract] \in TextsIn(sections)
  BY <1>1, <1>2 DEF SectionTexts, TextsIn
<1>5. "current" \in sends \/ sections[Abstract] \in TextsIn(Mirror.latest)
  BY <1>1, <1>3 DEF TextsIn
<1>6. Send(e)
  BY DEF AskTitle, NoText
<1> HIDE DEF sends
<1>7. e \in Turn /\ e.current = sections[Abstract] /\ e.sends = sends /\ e.kept = 0
  BY <1>3, <1>4 DEF Turn
<1> HIDE DEF e
<1>8. /\ latest' = Mirror.latest /\ calls' = calls /\ sections' = sections /\ drafted' = drafted
      /\ UNCHANGED << context, exported, discarded, saved >> /\ stage = "write" /\ stage' = "titled"
  BY DEF AskTitle
<1>9. Mirror.latest \in SectionTexts
  BY BaseFacts
<1>10. TextsIn(latest)' = TextsIn(Mirror.latest) /\ TextsIn(sections)' = TextsIn(sections)
  BY <1>8 DEF TextsIn
<1>11. Request(e)
  BY <1>2, <1>4, <1>5, <1>6, <1>7, <1>8, <1>9, <1>10 DEF Request
<1> QED BY <1>7, <1>11, RequestsKeepWriter

\* The write stage saves draft, conversation and mirror as they are.
LEMMA ExportKeepsWriter ==
  ASSUME WriterInv, Export
  PROVE  WriterInv'
<1>1. /\ stage = "titled" /\ stage' = "load" /\ conv \in 1..Len(convs) /\ convs \in Seq(Dialogue)
      /\ convs' = << convs[conv] >> /\ conv' = 0 /\ latest' = NoTexts
      /\ UNCHANGED << context, sections, drafted, calls, asked, discarded >>
  BY DEF WriterInv, WriterTypes, BetweenStages, Export
<1>2. exported' = [turns |-> convs[conv].turns, latest |-> latest, introduced |-> introduced, sections |-> sections]
  BY DEF Export
<1>3. convs[conv] \in Dialogue /\ turns = convs[conv].turns /\ turns' = <<>>
  BY <1>1 DEF turns
<1>4. convs' \in Seq(Dialogue) /\ Len(convs') = 1 /\ convs'[1] = convs[conv]
  BY <1>1, <1>3
<1>5. NoTexts \in SectionTexts /\ TextsIn(NoTexts) \subseteq { 0 }
  BY DEF NoTexts, NoText, SectionTexts, TextsIn
<1>6. WriterTypes'
  BY <1>1, <1>4, <1>5 DEF WriterInv, WriterTypes
<1>7. TextsIn(latest)' \subseteq { 0 } /\ TextsIn(sections)' = TextsIn(sections) /\ Standing(calls)' = Standing(calls)
      /\ 0 \in Standing(calls) /\ Texts(turns)' = {}
  <2>1. Texts(turns)' = {}
    BY <1>3 DEF Texts
  <2>2. 0 \in Standing(calls)
    BY DEF WriterInv, WriterTypes, Standing
  <2> QED BY <1>1, <1>5, <2>1, <2>2 DEF TextsIn, Standing
<1>8. TextsStand' /\ MirrorHeld'
  BY <1>7 DEF WriterInv, TextsStand, MirrorHeld
<1>9. ExportStands'
  <2>1. exported'.turns = turns /\ exported'.latest = latest /\ exported'.sections = sections
    BY <1>2, <1>3
  <2>2. turns \in Seq(Turn)
    BY BaseFacts
  <2>3. /\ Texts(exported.turns)' = Texts(turns) /\ TextsIn(exported.latest)' = TextsIn(latest)
        /\ TextsIn(exported.sections)' = TextsIn(sections)
    BY <2>1 DEF Texts, TextsIn
  <2>4. ExportedTexts' = Texts(turns) \union TextsIn(latest) \union TextsIn(sections)
    BY <2>3 DEF ExportedTexts
  <2> QED BY <1>7, <2>1, <2>2, <2>3, <2>4 DEF WriterInv, WriterTypes, TextsStand, MirrorHeld, ExportStands
<1>10. BetweenStages' /\ Checkpoint' /\ AskedShows'
  BY <1>1, <1>2, <1>4 DEF WriterInv, BetweenStages, Checkpoint, AskedShows
<1> QED BY <1>6, <1>8, <1>9, <1>10 DEF WriterInv

\* Texts that no step moves stay what they were.
LEMMA UnmovedTexts ==
  /\ UNCHANGED << calls, discarded >> => Standing(calls)' = Standing(calls)
  /\ UNCHANGED latest => TextsIn(latest)' = TextsIn(latest)
  /\ UNCHANGED sections => TextsIn(sections)' = TextsIn(sections)
  /\ UNCHANGED << convs, conv >> => Texts(turns)' = Texts(turns)
  /\ UNCHANGED exported => /\ ExportedTexts' = ExportedTexts /\ TextsIn(exported.latest)' = TextsIn(exported.latest)
                           /\ TextsIn(exported.sections)' = TextsIn(exported.sections)
                           /\ Texts(exported.turns)' = Texts(exported.turns)
BY DEF Standing, TextsIn, Texts, turns, ExportedTexts

LEMMA ExportStandsOn ==
  ASSUME WriterInv, UNCHANGED << exported, calls, discarded >>
  PROVE  ExportStands'
BY UnmovedTexts DEF WriterInv, ExportStands

\* The review takes up the saved conversation, if its system prompt still holds, or begins one.
LEMMA ResumeKeepsWriter ==
  ASSUME WriterInv, Resume
  PROVE  WriterInv'
<1>1. /\ stage = "load" /\ stage' = "first" /\ convs \in Seq(Dialogue) /\ Len(convs) = 1 /\ convs[1].turns = exported.turns
      /\ sections' = exported.sections /\ UNCHANGED << drafted, exported, saved, calls, asked, discarded >>
      /\ context' \in Nat
  BY DEF WriterInv, WriterTypes, BetweenStages, Resume, MayChangeContext
<1>2. /\ exported.turns \in Seq(Turn) /\ exported.latest \in SectionTexts /\ exported.sections \in SectionTexts
      /\ ExportedTexts \subseteq Standing(calls)
      /\ TextsIn(exported.latest) \subseteq { 0 } \union Texts(exported.turns)
  BY DEF WriterInv, ExportStands
<1>3. NoTexts \in SectionTexts /\ TextsIn(NoTexts) \subseteq { 0 }
  BY DEF NoTexts, NoText, SectionTexts, TextsIn
<1>4. /\ convs' \in Seq(Dialogue) /\ convs' # <<>> /\ conv' \in 1..Len(convs')
      /\ \/ turns' = exported.turns /\ latest' = exported.latest
         \/ turns' = <<>> /\ latest' = NoTexts
  <2>1. CASE convs[1].system = context'
    <3>1. convs' = convs /\ conv' = 1 /\ latest' = exported.latest
      BY <2>1 DEF Resume
    <3>2. turns' = exported.turns
      BY <1>1, <3>1 DEF turns
    <3>3. convs' \in Seq(Dialogue) /\ convs' # <<>> /\ conv' \in 1..Len(convs')
      <4>1. convs \in Seq(Dialogue) /\ Len(convs) = 1
        BY <1>1
      <4>2. convs # <<>>
        BY <4>1
      <4> QED BY <3>1, <4>1, <4>2
    <3> QED BY <3>1, <3>2, <3>3
  <2>2. CASE convs[1].system # context'
    <3>1. convs' = Append(convs, [NewConversation EXCEPT !.system = context']) /\ conv' = 2 /\ latest' = NoTexts
      BY <2>2 DEF Resume
    <3>2. [NewConversation EXCEPT !.system = context'] = [system |-> context', turns |-> <<>>, sent |-> <<>>]
      BY DEF NewConversation
    <3>3. \E d \in Dialogue : d.turns = <<>> /\ convs' = Append(convs, d)
      <4>1. <<>> \in Seq(Turn)
        OBVIOUS
      <4>2. \A system \in Nat : [system |-> system, turns |-> <<>>, sent |-> <<>>] \in Dialogue
        BY <4>1, DialoguesOfTurns
      <4>3. [system |-> context', turns |-> <<>>, sent |-> <<>>] \in Dialogue
        BY <1>1, <4>2
      <4> QED BY <3>1, <3>2, <4>3
    <3>4. PICK d \in Dialogue : d.turns = <<>> /\ convs' = Append(convs, d)
      BY <3>3
    <3>5. convs' \in Seq(Dialogue) /\ Len(convs') = 2 /\ convs'[2] = d
      <4>1. convs \in Seq(Dialogue) /\ Len(convs) = 1
        BY <1>1
      <4>2. Append(convs, d) \in Seq(Dialogue)
        BY <4>1
      <4>3. Len(Append(convs, d)) = 2 /\ Append(convs, d)[2] = d
        BY <4>1
      <4> QED BY <3>4, <4>2, <4>3
    <3>6. turns' = <<>>
      BY <3>1, <3>4, <3>5 DEF turns
    <3> QED BY <3>1, <3>5, <3>6
  <2> QED BY <2>1, <2>2
<1>5. latest' \in SectionTexts /\ sections' \in SectionTexts
  BY <1>1, <1>2, <1>3, <1>4
<1>6. WriterTypes'
  BY <1>1, <1>4, <1>5 DEF WriterInv, WriterTypes
<1>7. /\ Standing(calls)' = Standing(calls) /\ 0 \in Standing(calls)
      /\ TextsIn(sections)' = TextsIn(exported.sections)
      /\ \/ Texts(turns)' = Texts(exported.turns) /\ TextsIn(latest)' = TextsIn(exported.latest)
         \/ Texts(turns)' = {} /\ TextsIn(latest)' \subseteq { 0 }
  <2>1. TextsIn(sections)' = TextsIn(exported.sections)
    BY <1>1 DEF TextsIn
  <2>2. 0 \in Standing(calls)
    BY DEF WriterInv, WriterTypes, Standing
  <2>3. CASE turns' = exported.turns /\ latest' = exported.latest
    <3>1. Texts(turns)' = Texts(exported.turns) /\ TextsIn(latest)' = TextsIn(exported.latest)
      BY <2>3 DEF Texts, TextsIn
    <3> QED BY <1>1, <2>1, <2>2, <3>1, UnmovedTexts
  <2>4. CASE turns' = <<>> /\ latest' = NoTexts
    <3>1. Texts(turns)' = {} /\ TextsIn(latest)' = TextsIn(NoTexts)
      BY <2>4 DEF Texts, TextsIn
    <3> QED BY <1>1, <1>3, <2>1, <2>2, <3>1, UnmovedTexts
  <2> QED BY <1>4, <2>3, <2>4
<1>8. TextsStand' /\ MirrorHeld'
  BY <1>2, <1>7 DEF TextsStand, MirrorHeld, ExportedTexts
<1>9. ExportStands'
  BY <1>1, ExportStandsOn
<1>10. BetweenStages' /\ Checkpoint' /\ AskedShows'
  BY <1>1, <1>4 DEF WriterInv, BetweenStages, Checkpoint, AskedShows
<1> QED BY <1>6, <1>8, <1>9, <1>10 DEF WriterInv

\* The checkpoint is what stands when the round begins.
LEMMA StartRoundKeepsWriter ==
  ASSUME WriterInv, StartRound
  PROVE  WriterInv'
<1>1. /\ stage = "review" /\ stage' = "round"
      /\ UNCHANGED << context, sections, drafted, convs, conv, latest, introduced, exported, calls, asked, discarded >>
  BY DEF StartRound
<1>2. /\ saved'.conv = conv /\ saved'.calls = calls /\ saved'.latest = latest /\ saved'.sections = sections
      /\ saved'.mark = IF conv = 0 THEN 0 ELSE Len(convs[conv].turns)
  BY DEF StartRound
<1>3. WriterTypes' /\ AskedShows'
  BY <1>1 DEF WriterInv, WriterTypes, AskedShows
<1>4. TextsStand' /\ MirrorHeld'
  BY <1>1, UnmovedTexts DEF WriterInv, TextsStand, MirrorHeld
<1>5. ExportStands'
  BY <1>1, ExportStandsOn
<1>6. BetweenStages'
  BY <1>1 DEF WriterInv, BetweenStages
<1>7. turns \in Seq(Turn) /\ convs \in Seq(Dialogue) /\ conv \in 0..Len(convs) /\ calls \in Nat
  BY BaseFacts DEF WriterInv, WriterTypes
<1>8. MarkedTurns' = turns
  <2>1. CASE conv = 0
    BY <1>1, <1>2, <2>1 DEF MarkedTurns, turns
  <2>2. CASE conv # 0
    <3>1. MarkedTurns' = SubSeq(turns, 1, Len(turns)) 
      BY <1>1, <1>2, <2>2 DEF MarkedTurns, turns
    <3>2. SubSeq(turns, 1, Len(turns)) = turns
      BY <1>7, CutHistories
    <3> QED BY <3>1, <3>2
  <2> QED BY <2>1, <2>2
<1>9. /\ saved'.conv # 0 => saved'.mark \in 0..Len(convs'[saved'.conv].turns)
  BY <1>1, <1>2, <1>7 DEF turns
<1>10. /\ Texts(MarkedTurns)' = Texts(turns) /\ TextsIn(saved.latest)' = TextsIn(latest)
       /\ TextsIn(saved.sections)' = TextsIn(sections) /\ Standing(saved.calls)' = Standing(calls)
  <2>1. Texts(MarkedTurns)' = Texts(turns)
    BY <1>8 DEF Texts
  <2> QED BY <1>1, <1>2, <2>1 DEF TextsIn, Standing
<1>11. Checkpoint'
  BY <1>1, <1>2, <1>7, <1>9, <1>10, UnmovedTexts DEF WriterInv, WriterTypes, TextsStand, MirrorHeld, ExportStands, Checkpoint
<1> QED BY <1>3, <1>4, <1>5, <1>6, <1>11 DEF WriterInv

\* A candidate is kept, or nothing happens.
LEMMA KeepKeepsWriter ==
  ASSUME WriterInv, Keep \/ UNCHANGED conversationVars
  PROVE  WriterInv'
<1>1. CASE UNCHANGED conversationVars
  <2>1. UNCHANGED << stage, context, sections, drafted, convs, conv, latest, exported, saved, calls, asked, discarded >>
    BY <1>1 DEF conversationVars
  <2>2. WriterTypes' /\ BetweenStages' /\ AskedShows'
    BY <2>1 DEF WriterInv, WriterTypes, BetweenStages, AskedShows
  <2>3. TextsStand' /\ MirrorHeld' /\ ExportStands'
    BY <2>1, UnmovedTexts, ExportStandsOn DEF WriterInv, TextsStand, MirrorHeld
  <2>4. /\ Texts(MarkedTurns)' = Texts(MarkedTurns) /\ Standing(saved.calls)' = Standing(saved.calls)
        /\ TextsIn(saved.latest)' = TextsIn(saved.latest) /\ TextsIn(saved.sections)' = TextsIn(saved.sections)
    BY <2>1 DEF MarkedTurns, Texts, Standing, TextsIn
  <2>5. Checkpoint'
    BY <2>1, <2>4, UnmovedTexts DEF WriterInv, Checkpoint
  <2> QED BY <2>2, <2>3, <2>5 DEF WriterInv
<1>2. CASE Keep
  <2>1. /\ stage \in { "first", "round" } /\ stage' = "review" /\ context' \in Nat
        /\ UNCHANGED << sections, drafted, convs, conv, latest, exported, calls, asked, discarded >>
    BY <1>2 DEF Keep, MayChangeContext
  <2>2. WriterTypes' /\ BetweenStages' /\ AskedShows' /\ Checkpoint'
    BY <2>1 DEF WriterInv, WriterTypes, BetweenStages, AskedShows, Checkpoint
  <2>3. TextsStand' /\ MirrorHeld' /\ ExportStands'
    BY <2>1, UnmovedTexts, ExportStandsOn DEF WriterInv, TextsStand, MirrorHeld
  <2> QED BY <2>2, <2>3 DEF WriterInv
<1> QED BY <1>1, <1>2

\* A rejected round is rolled back to its checkpoint, and only texts younger than that
\* are discarded.
LEMMA RejectKeepsWriter ==
  ASSUME WriterInv, Reject
  PROVE  WriterInv'
<1>1. /\ stage = "round" /\ stage' = "review" /\ context' \in Nat
      /\ conv' = saved.conv /\ latest' = saved.latest /\ sections' = saved.sections
      /\ discarded' = discarded \union ((saved.calls + 1)..calls)
      /\ UNCHANGED << drafted, exported, calls, asked >>
      /\ convs' = IF saved.conv = 0 THEN convs ELSE [convs EXCEPT ![saved.conv].turns = SubSeq(@, 1, saved.mark)]
  BY DEF Reject, RollBackWriter, MayChangeContext
<1>2. /\ saved.calls \in 0..calls /\ saved.conv \in 0..Len(convs)
      /\ saved.conv # 0 => saved.mark \in 0..Len(convs[saved.conv].turns)
      /\ saved.latest \in SectionTexts /\ saved.sections \in SectionTexts
      /\ Texts(MarkedTurns) \union TextsIn(saved.latest) \union TextsIn(saved.sections) \subseteq Standing(saved.calls)
      /\ ExportedTexts \subseteq Standing(saved.calls)
      /\ TextsIn(saved.latest) \subseteq { 0 } \union Texts(MarkedTurns)
  BY <1>1 DEF WriterInv, Checkpoint
<1>3. calls \in Nat /\ discarded \subseteq 1..calls /\ convs \in Seq(Dialogue) /\ convs # <<>>
  BY <1>1 DEF WriterInv, WriterTypes, BetweenStages
<1>4. convs' \in Seq(Dialogue) /\ Len(convs') = Len(convs) /\ turns' = MarkedTurns
  <2>1. CASE saved.conv = 0
    BY <1>1, <1>3, <2>1 DEF turns, MarkedTurns
  <2>2. CASE saved.conv # 0
    <3> DEFINE n == saved.conv
               h == SubSeq(convs[n].turns, 1, saved.mark)
    <3>1. n \in 1..Len(convs) /\ convs[n] \in Dialogue
      BY <1>2, <1>3, <2>2
    <3>2. convs[n].turns \in Seq(Turn)
      BY <3>1, TurnsOfDialogues
    <3>3. h \in Seq(Turn) /\ MarkedTurns = h
      BY <1>2, <2>2, <3>2, CutHistories DEF MarkedTurns
    <3> DEFINE d == [convs[n] EXCEPT !.turns = h]
    <3>4. d \in Dialogue /\ d.turns = h
      BY <3>1, <3>3, DialoguesOfTurns
    <3>5. convs' = [convs EXCEPT ![n] = d]
      BY <1>1, <2>2, <3>1
    <3> HIDE DEF h, d
    <3>6. convs' \in Seq(Dialogue) /\ Len(convs') = Len(convs) /\ convs'[n] = d
      BY <1>3, <3>1, <3>4, <3>5
    <3>7. turns' = convs'[n].turns
      BY <1>1, <2>2 DEF turns
    <3> QED BY <3>3, <3>4, <3>6, <3>7
  <2> QED BY <2>1, <2>2
<1>5. Standing(saved.calls) \subseteq Standing(calls)'
  BY <1>1, <1>2, <1>3 DEF Standing
<1>6. WriterTypes'
  BY <1>1, <1>2, <1>3, <1>4 DEF WriterInv, WriterTypes
<1>7. /\ Texts(turns)' = Texts(MarkedTurns) /\ TextsIn(latest)' = TextsIn(saved.latest)
      /\ TextsIn(sections)' = TextsIn(saved.sections)
  <2>1. Texts(turns)' = Texts(MarkedTurns)
    BY <1>4 DEF Texts
  <2> QED BY <1>1, <2>1 DEF TextsIn
<1>8. TextsStand' /\ MirrorHeld'
  BY <1>2, <1>5, <1>7 DEF TextsStand, MirrorHeld
<1>9. ExportStands'
  BY <1>1, <1>2, <1>5, UnmovedTexts DEF WriterInv, ExportStands
<1>10. BetweenStages' /\ Checkpoint' /\ AskedShows'
  BY <1>1, <1>3, <1>4 DEF WriterInv, BetweenStages, Checkpoint, AskedShows
<1> QED BY <1>6, <1>8, <1>9, <1>10 DEF WriterInv

\* A process that dies leaves what the write stage saved.
LEMMA DieKeepsWriter ==
  ASSUME WriterInv, Die
  PROVE  WriterInv'
<1>1. /\ stage \in { "first", "review", "round" } /\ stage' = "load" /\ conv' = 0 /\ latest' = NoTexts
      /\ convs' = << [convs[1] EXCEPT !.turns = exported.turns] >>
      /\ UNCHANGED << context, sections, drafted, exported, calls, asked, discarded >>
  BY DEF Die
<1>2. convs \in Seq(Dialogue) /\ convs # <<>> /\ exported.turns \in Seq(Turn)
  BY <1>1 DEF WriterInv, WriterTypes, BetweenStages, ExportStands
<1> DEFINE d == [convs[1] EXCEPT !.turns = exported.turns]
<1>3. convs[1] \in Dialogue
  BY <1>2
<1>4. d \in Dialogue /\ d.turns = exported.turns
  BY <1>2, <1>3, DialoguesOfTurns
<1>5. convs' = << d >>
  BY <1>1
<1> HIDE DEF d
<1>6. convs' \in Seq(Dialogue) /\ Len(convs') = 1 /\ convs'[1].turns = exported.turns
  BY <1>4, <1>5
<1>7. NoTexts \in SectionTexts /\ TextsIn(NoTexts) \subseteq { 0 }
  BY DEF NoTexts, NoText, SectionTexts, TextsIn
<1>8. WriterTypes'
  BY <1>1, <1>6, <1>7 DEF WriterInv, WriterTypes
<1>9. TextsIn(latest)' \subseteq { 0 } /\ Texts(turns)' = {} /\ 0 \in Standing(calls)
  <2>1. turns' = <<>>
    BY <1>1 DEF turns
  <2>2. Texts(turns)' = {}
    BY <2>1 DEF Texts
  <2>3. TextsIn(latest)' = TextsIn(NoTexts)
    BY <1>1 DEF TextsIn
  <2> QED BY <1>7, <2>2, <2>3 DEF WriterInv, WriterTypes, Standing
<1>10. TextsStand' /\ MirrorHeld'
  BY <1>1, <1>9, UnmovedTexts DEF WriterInv, TextsStand, MirrorHeld
<1>11. ExportStands'
  BY <1>1, ExportStandsOn
<1>12. BetweenStages' /\ Checkpoint' /\ AskedShows'
  BY <1>1, <1>6 DEF WriterInv, BetweenStages, Checkpoint, AskedShows
<1> QED BY <1>8, <1>10, <1>11, <1>12 DEF WriterInv

\* The inductive invariant of the author conversation.
THEOREM WriterInvHolds == ConversationSpec => []WriterInv
<1>1. ConversationInit => WriterInv
  <2> SUFFICES ASSUME ConversationInit PROVE WriterInv
    OBVIOUS
  <2>1. /\ stage = "write" /\ context = 1 /\ sections = NoTexts /\ drafted = 0 /\ convs = <<>> /\ conv = 0
        /\ latest = NoTexts /\ exported = NothingExported /\ calls = 0 /\ asked = NoRequest
        /\ discarded = {}
    BY DEF ConversationInit
  <2>2. NoTexts \in SectionTexts /\ TextsIn(NoTexts) \subseteq { 0 }
    BY DEF NoTexts, NoText, SectionTexts, TextsIn
  <2>3. WriterTypes /\ BetweenStages /\ Checkpoint /\ AskedShows
    BY <2>1, <2>2 DEF WriterTypes, BetweenStages, Checkpoint, AskedShows, NoRequest
  <2>4. turns = <<>> /\ Texts(<<>>) = {} /\ 0 \in Standing(calls)
    BY <2>1 DEF turns, Texts, Standing
  <2>5. exported.turns = <<>> /\ exported.latest = NoTexts /\ exported.sections = NoTexts
    BY <2>1 DEF NothingExported
  <2>6. TextsStand /\ MirrorHeld
    BY <2>1, <2>2, <2>4 DEF TextsStand, MirrorHeld
  <2>7. ExportStands
    BY <2>2, <2>4, <2>5 DEF ExportStands, ExportedTexts
  <2> QED BY <2>3, <2>6, <2>7 DEF WriterInv
<1>2. WriterInv /\ [ConversationNext]_conversationVars => WriterInv'
  BY DraftKeepsWriter, AskTitleKeepsWriter, ExportKeepsWriter, ResumeKeepsWriter, StartRoundKeepsWriter, KeepKeepsWriter,
     RejectKeepsWriter, DieKeepsWriter, ChangeKeepsWriter DEF ConversationNext
<1> QED BY <1>1, <1>2, PTL DEF ConversationSpec

\* No text of a rejected round is left in the conversation, the mirror or the paper.
THEOREM DiscardedIsGoneHolds == ConversationSpec => []DiscardedIsGone
<1>1. WriterInv => DiscardedIsGone
  BY DEF WriterInv, TextsStand, Standing, TextsIn, DiscardedIsGone
<1> QED BY <1>1, WriterInvHolds, PTL

\* A request that continues a conversation shows the writer the text it is to change.
THEOREM ContinuedRequestsShowTheTextHolds == ConversationSpec => []ContinuedRequestsShowTheText
<1>1. WriterInv => ContinuedRequestsShowTheText
  BY DEF WriterInv, AskedShows, ContinuedRequestsShowTheText
<1> QED BY <1>1, WriterInvHolds, PTL
=============================================================================
