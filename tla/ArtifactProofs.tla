----------------------------- MODULE ArtifactProofs -----------------------------
(***************************************************************************)
(* ArtifactStore for every number of names, pieces and saves: as long as   *)
(* one process at a time works on a run, no kill makes a recorded version  *)
(* drift, and the recorded versions implement ArtifactHistory.             *)
(*                                                                         *)
(* The argument: a process that saves holds the version after the latest   *)
(* recorded one (Fresh), so what it replaces and writes is not recorded    *)
(* yet; and what it has written so far is what it was given, less what it  *)
(* still has to write (Progress).                                          *)
(***************************************************************************)
EXTENDS ArtifactStore, TLAPS

\* Latest, of any sequence of records.
RecordedIn(rs, n) == { k \in DOMAIN rs : rs[k].name = n }
LatestIn(rs, n) ==
  IF RecordedIn(rs, n) = {} THEN 0
  ELSE LET k == CHOOSE k \in RecordedIn(rs, n) : \A j \in RecordedIn(rs, n) : rs[j].version <= rs[k].version
       IN  rs[k].version

\* A highest version exists of every recorded name.
HighestIn(rs) ==
  \A n \in Names : RecordedIn(rs, n) # {} =>
    \E k \in RecordedIn(rs, n) : \A j \in RecordedIn(rs, n) : rs[j].version <= rs[k].version

RecordSet == [name : Names, version : Versions, parent : 0..MaxSaves, sha : Bytes]

\* TypeOK, the records apart.
Types ==
  /\ disk \in [Names -> [Versions -> Bytes]]
  /\ phase \in [Procs -> { "idle", "target", "writing", "record" }]
  /\ name \in [Procs -> Names] /\ version \in [Procs -> 0..MaxSaves] /\ parent \in [Procs -> 0..MaxSaves]
  /\ save \in [Procs -> 0..MaxSaves] /\ todo \in [Procs -> SUBSET Pieces] /\ sha \in [Procs -> Bytes]
  /\ saves \in 0..MaxSaves /\ source \in Seq(SUBSET Pieces)
  /\ \A p \in Procs : phase[p] # "idle" => version[p] \in Versions
  /\ \A p \in Procs : todo[p] # {} => phase[p] \in { "target", "writing" }

\* What the bytes under a process's version are while it writes them.
Partial(p) == [x \in Pieces |-> IF x \in source[save[p]] \ todo[p] THEN save[p] ELSE Absent]

Fresh == \A p \in Procs : phase[p] # "idle" => version[p] = LatestIn(records, name[p]) + 1
Numbered ==
  /\ Len(source) = saves
  /\ \A k \in DOMAIN records : records[k].version <= saves
  /\ \A p \in Procs : phase[p] # "idle" =>
       save[p] \in 1..saves /\ version[p] <= saves /\ todo[p] \subseteq source[save[p]]
Progress ==
  \A p \in Procs :
    /\ phase[p] = "target" => todo[p] = source[save[p]]
    /\ phase[p] \in { "writing", "record" } => disk[name[p]][version[p]] = Partial(p)
    /\ phase[p] = "record" => todo[p] = {} /\ sha[p] = disk[name[p]][version[p]]

StoreInv == Types /\ records \in Seq(RecordSet) /\ HighestIn(records) /\ Fresh /\ Numbered /\ Progress /\ NothingDrifts

-----------------------------------------------------------------------------
\* Latest is LatestIn of the records, now and after a step.
LEMMA LatestIsLatestIn ==
  ASSUME NEW n
  PROVE  Latest(n) = LatestIn(records, n) /\ Latest(n)' = LatestIn(records', n)
BY DEF Latest, LatestIn, Recorded, RecordedIn

\* The latest version is the highest recorded one, 0 if there is none.
LEMMA LatestIsHighest ==
  ASSUME NEW rs \in Seq(RecordSet), HighestIn(rs), NEW n \in Names
  PROVE  /\ LatestIn(rs, n) \in 0..MaxSaves
         /\ \A k \in RecordedIn(rs, n) : rs[k].version <= LatestIn(rs, n)
         /\ RecordedIn(rs, n) = {} => LatestIn(rs, n) = 0
         /\ RecordedIn(rs, n) # {} => \E k \in RecordedIn(rs, n) : rs[k].version = LatestIn(rs, n)
<1>1. CASE RecordedIn(rs, n) = {}
  BY <1>1, ArtifactConstants DEF LatestIn
<1>2. CASE RecordedIn(rs, n) # {}
  <2> DEFINE Top(k) == \A j \in RecordedIn(rs, n) : rs[j].version <= rs[k].version
             top == CHOOSE k \in RecordedIn(rs, n) : Top(k)
  <2>1. \E k \in RecordedIn(rs, n) : Top(k)
    BY <1>2 DEF HighestIn
  <2>2. top \in RecordedIn(rs, n) /\ Top(top)
    BY <2>1
  <2>3. LatestIn(rs, n) = rs[top].version
    BY <1>2 DEF LatestIn
  <2>4. rs[top] \in RecordSet
    BY <2>2 DEF RecordedIn
  <2>5. rs[top].version \in 0..MaxSaves
    BY <2>4, ArtifactConstants DEF RecordSet, Versions
  <2> QED
    BY <1>2, <2>2, <2>3, <2>5
<1> QED
  BY <1>1, <1>2

\* Recording the next version of a name makes it the latest, and no other name's.
LEMMA RecordingAdvances ==
  ASSUME NEW rs \in Seq(RecordSet), HighestIn(rs), NEW r \in RecordSet,
         r.version = LatestIn(rs, r.name) + 1
  PROVE  /\ HighestIn(Append(rs, r))
         /\ LatestIn(Append(rs, r), r.name) = r.version
         /\ \A n \in Names : n # r.name => LatestIn(Append(rs, r), n) = LatestIn(rs, n)
<1> DEFINE rt == Append(rs, r)
<1>1. rt \in Seq(RecordSet) /\ DOMAIN rt = DOMAIN rs \union { Len(rs) + 1 }
  <2>1. rt \in Seq(RecordSet) /\ Len(rt) = Len(rs) + 1
    OBVIOUS
  <2>2. DOMAIN rt = 1..(Len(rs) + 1) /\ DOMAIN rs = 1..Len(rs) /\ Len(rs) \in Nat
    BY <2>1
  <2> QED
    BY <2>1, <2>2
<1>2. rt[Len(rs) + 1] = r /\ \A k \in DOMAIN rs : rt[k] = rs[k]
  <2>1. DOMAIN rs = 1..Len(rs) /\ Len(rs) \in Nat
    OBVIOUS
  <2>2. rt[Len(rs) + 1] = r
    BY <2>1
  <2>3. \A k \in 1..Len(rs) : rt[k] = rs[k]
    BY <2>1
  <2> QED
    BY <2>1, <2>2, <2>3
<1> HIDE DEF rt
<1>3. r.name \in Names /\ r.version \in Nat /\ \A k \in DOMAIN rs : rs[k].version \in Nat
  <2>1. \A k \in DOMAIN rs : rs[k] \in RecordSet
    OBVIOUS
  <2>2. \A q \in RecordSet : q.name \in Names /\ q.version \in Nat
    BY ArtifactConstants DEF RecordSet, Versions
  <2> QED
    BY <2>1, <2>2
<1>4. RecordedIn(rt, r.name) = RecordedIn(rs, r.name) \union { Len(rs) + 1 }
  BY <1>1, <1>2 DEF RecordedIn
<1>5. \A n \in Names : n # r.name => RecordedIn(rt, n) = RecordedIn(rs, n)
  BY <1>1, <1>2 DEF RecordedIn
<1>6. \A j \in RecordedIn(rs, r.name) : rs[j].version <= LatestIn(rs, r.name)
  BY <1>3, LatestIsHighest
<1>7. LatestIn(rs, r.name) \in Nat
  BY <1>3, LatestIsHighest, ArtifactConstants
<1>8. \A j \in RecordedIn(rt, r.name) : rt[j].version <= rt[Len(rs) + 1].version
  BY <1>2, <1>3, <1>4, <1>6, <1>7 DEF RecordedIn
<1>9. ASSUME NEW n \in Names, n # r.name, RecordedIn(rs, n) # {}
      PROVE  \E k \in RecordedIn(rt, n) : \A j \in RecordedIn(rt, n) : rt[j].version <= rt[k].version
  BY <1>2, <1>5, <1>9 DEF HighestIn, RecordedIn
<1>10. HighestIn(rt)
  BY <1>4, <1>5, <1>8, <1>9 DEF HighestIn
<1>11. LatestIn(rt, r.name) = r.version
  <2>1. RecordedIn(rt, r.name) # {} /\ Len(rs) + 1 \in RecordedIn(rt, r.name)
    BY <1>4
  <2>2. PICK k \in RecordedIn(rt, r.name) : rt[k].version = LatestIn(rt, r.name)
    BY <1>1, <1>3, <1>10, <2>1, LatestIsHighest
  <2>3. rt[Len(rs) + 1].version <= LatestIn(rt, r.name)
    BY <1>1, <1>3, <1>10, <2>1, LatestIsHighest
  <2>4. LatestIn(rt, r.name) \in 0..MaxSaves /\ MaxSaves \in Nat
    BY <1>1, <1>3, <1>10, LatestIsHighest, ArtifactConstants
  <2> QED
    BY <1>2, <1>3, <1>8, <2>2, <2>3, <2>4
<1>12. ASSUME NEW n \in Names, n # r.name
       PROVE  LatestIn(rt, n) = LatestIn(rs, n)
  <2>1. CASE RecordedIn(rs, n) = {}
    BY <1>5, <1>12, <2>1 DEF LatestIn
  <2>2. CASE RecordedIn(rs, n) # {}
    <3>1. PICK k \in RecordedIn(rs, n) : rs[k].version = LatestIn(rs, n)
      BY <2>2, LatestIsHighest
    <3>2. PICK j \in RecordedIn(rt, n) : rt[j].version = LatestIn(rt, n)
      BY <1>1, <1>5, <1>10, <1>12, <2>2, LatestIsHighest
    <3>3. rt[k].version <= LatestIn(rt, n)
      BY <1>1, <1>5, <1>10, <1>12, <3>1, LatestIsHighest
    <3>4. rs[j].version <= LatestIn(rs, n)
      BY <1>5, <1>12, <3>2, LatestIsHighest
    <3>5. LatestIn(rt, n) \in 0..MaxSaves /\ LatestIn(rs, n) \in 0..MaxSaves /\ MaxSaves \in Nat
      BY <1>1, <1>10, LatestIsHighest, ArtifactConstants
    <3> QED
      BY <1>2, <1>5, <1>12, <3>1, <3>2, <3>3, <3>4, <3>5 DEF RecordedIn
  <2> QED
    BY <2>1, <2>2
<1> QED
  BY <1>10, <1>11, <1>12 DEF rt


-----------------------------------------------------------------------------
\* The invariant holds of the empty store.
LEMMA InitStoreInv == Init => StoreInv
<1> SUFFICES ASSUME Init PROVE StoreInv
  OBVIOUS
<1> USE DEF Init
<1>1. NoBytes \in Bytes
  BY ArtifactConstants DEF NoBytes, Bytes, Absent
<1>2. (CHOOSE n \in Names : TRUE) \in Names
  BY ArtifactConstants
<1>3. Types /\ records \in Seq(RecordSet)
  BY <1>1, <1>2, ArtifactConstants DEF Types
<1>4. HighestIn(records) /\ NothingDrifts
  BY DEF HighestIn, RecordedIn, NothingDrifts
<1>5. Fresh /\ Numbered /\ Progress
  BY DEF Fresh, Numbered, Progress
<1> QED
  BY <1>3, <1>4, <1>5 DEF StoreInv

\* No step of a process that works alone breaks it.
LEMMA StepStoreInv ==
  ASSUME Alone, StoreInv, [Next]_vars
  PROVE  StoreInv'
<1> USE DEF StoreInv
<1>0. /\ records \in Seq(RecordSet)
      /\ \A n \in Names : LatestIn(records, n) \in 0..MaxSaves
      /\ \A k \in DOMAIN records : records[k] \in RecordSet
      /\ \A k \in DOMAIN records : records[k].version <= LatestIn(records, records[k].name)
      /\ \A n \in Names : LatestIn(records, n) <= saves
  <2>1. saves \in Nat /\ MaxSaves \in Nat
    BY ArtifactConstants DEF Types
  <2>2. \A k \in DOMAIN records : records[k] \in RecordSet
    OBVIOUS
  <2>3. \A q \in RecordSet : q.name \in Names
    BY DEF RecordSet
  <2>4. ASSUME NEW n \in Names
        PROVE  LatestIn(records, n) <= saves
    <3>1. CASE RecordedIn(records, n) = {}
      BY <2>1, <3>1, LatestIsHighest
    <3>2. CASE RecordedIn(records, n) # {}
      <4>1. PICK k \in RecordedIn(records, n) : records[k].version = LatestIn(records, n)
        BY <3>2, LatestIsHighest
      <4> QED
        BY <4>1 DEF Numbered, RecordedIn
    <3> QED
      BY <3>1, <3>2
  <2> QED
    BY <2>2, <2>3, <2>4, LatestIsHighest DEF RecordedIn
<1>1. ASSUME NEW p \in Procs, NEW n \in Names, NEW pieces \in SUBSET Pieces, Begin(p, n, pieces)
      PROVE  StoreInv'
  <2> USE <1>1 DEF Begin
  <2>b. saves \in Nat /\ saves < MaxSaves /\ saves' = saves + 1 /\ MaxSaves \in Nat
    BY ArtifactConstants DEF Types
  <2>0. version' = [version EXCEPT ![p] = LatestIn(records, n) + 1] /\ parent' = [parent EXCEPT ![p] = LatestIn(records, n)]
    BY LatestIsLatestIn DEF NextVersion
  <2>a. LatestIn(records, n) <= saves /\ LatestIn(records, n) \in Nat
    BY <1>0, <2>b
  <2>c. /\ phase'[p] = "target" /\ name'[p] = n /\ version'[p] = LatestIn(records, n) + 1
        /\ save'[p] = saves + 1 /\ todo'[p] = pieces /\ records' = records
    BY <2>0 DEF Types
  <2>d. /\ Len(source') = saves' /\ source'[saves + 1] = pieces
    BY <2>b DEF Types, Numbered
  <2>1. Types'
    <3>1. /\ LatestIn(records, n) + 1 \in Versions /\ LatestIn(records, n) + 1 \in 0..MaxSaves
          /\ LatestIn(records, n) \in 0..MaxSaves /\ saves + 1 \in 0..MaxSaves
      BY <2>a, <2>b DEF Versions
    <3>a. /\ version \in [Procs -> 0..MaxSaves] /\ parent \in [Procs -> 0..MaxSaves]
          /\ save \in [Procs -> 0..MaxSaves] /\ name \in [Procs -> Names]
          /\ todo \in [Procs -> SUBSET Pieces] /\ source \in Seq(SUBSET Pieces)
          /\ phase \in [Procs -> { "idle", "target", "writing", "record" }]
      BY DEF Types
    <3>2. version' \in [Procs -> 0..MaxSaves] /\ parent' \in [Procs -> 0..MaxSaves]
      BY <2>0, <3>1, <3>a
    <3>3. /\ saves' \in 0..MaxSaves /\ save' \in [Procs -> 0..MaxSaves]
          /\ source' \in Seq(SUBSET Pieces)
      BY <2>b, <3>1, <3>a
    <3>4. /\ name' \in [Procs -> Names] /\ todo' \in [Procs -> SUBSET Pieces]
          /\ phase' \in [Procs -> { "idle", "target", "writing", "record" }]
      BY <3>a
    <3>5. \A q \in Procs : q = p
      BY DEF Alone
    <3>6. \A q \in Procs : /\ phase'[q] # "idle" => version'[q] \in Versions
                           /\ todo'[q] # {} => phase'[q] \in { "target", "writing" }
      BY <2>c, <3>1, <3>5
    <3>7. disk' \in [Names -> [Versions -> Bytes]] /\ sha' \in [Procs -> Bytes]
      BY DEF Types
    <3> QED
      BY <3>2, <3>3, <3>4, <3>6, <3>7 DEF Types
  <2>2. HighestIn(records')
    BY DEF HighestIn, RecordedIn
  <2>3. Fresh'
    <3>1. \A q \in Procs : q = p
      BY DEF Alone
    <3> QED
      BY <2>c, <3>1 DEF Fresh
  <2>4. Numbered'
    <3>1. \A q \in Procs : q = p
      BY DEF Alone
    <3>2. \A k \in DOMAIN records' : records'[k].version <= saves'
      BY <1>0, <2>b, <2>c DEF Numbered, RecordSet, Versions
    <3> QED
      BY <2>a, <2>b, <2>c, <2>d, <3>1, <3>2 DEF Numbered
  <2>5. Progress'
    <3>1. \A q \in Procs : q = p
      BY DEF Alone
    <3> QED
      BY <2>b, <2>c, <2>d, <3>1 DEF Progress
  <2>6. NothingDrifts'
    BY DEF NothingDrifts
  <2> QED
    BY <2>1, <2>2, <2>3, <2>4, <2>5, <2>6
<1>2. ASSUME NEW p \in Procs, Open(p)
      PROVE  StoreInv'
  <2> USE <1>2 DEF Open
  <2>0. /\ name[p] \in Names /\ version[p] \in Versions
        /\ \A k \in DOMAIN records : records[k].name = name[p] => records[k].version # version[p]
    BY <1>0 DEF Types, Fresh
  <2>a. Replaced(name[p], version[p]) \in Bytes
    BY ArtifactConstants DEF Replaced, NoBytes, Absent, Bytes
  <2>1. Types'
    BY <2>0, <2>a DEF Types
  <2>2. HighestIn(records')
    OBVIOUS
  <2>3. Fresh'
    BY DEF Fresh, Types
  <2>4. Numbered'
    BY DEF Numbered, Types
  <2>5. Progress'
    BY Alone, <2>0 DEF Progress, Types, Alone, Partial, Replaced, NoBytes
  <2>6. NothingDrifts'
    BY <2>0 DEF NothingDrifts, Types
  <2> QED
    BY <2>1, <2>2, <2>3, <2>4, <2>5, <2>6
<1>3. ASSUME NEW p \in Procs, NEW x \in Pieces, Write(p, x)
      PROVE  StoreInv'
  <2> USE <1>3 DEF Write
  <2>0. /\ name[p] \in Names /\ version[p] \in Versions
        /\ \A k \in DOMAIN records : records[k].name = name[p] => records[k].version # version[p]
    BY <1>0 DEF Types, Fresh
  <2>1. Types'
    BY DEF Types, Bytes
  <2>2. HighestIn(records')
    OBVIOUS
  <2>3. Fresh'
    BY DEF Fresh, Types
  <2>4. Numbered'
    BY DEF Numbered, Types
  <2>5. Progress'
    <3>1. disk[name[p]][version[p]] = Partial(p) /\ disk[name[p]][version[p]] \in Bytes
      BY <2>0 DEF Progress, Types
    <3>2. disk'[name[p]][version[p]] = [Partial(p) EXCEPT ![x] = save[p]]
      BY <2>0, <3>1 DEF Types
    <3>3. todo'[p] = todo[p] \ { x } /\ x \in source[save[p]] /\ source' = source /\ save' = save
      BY DEF Types, Numbered
    <3>4. disk'[name[p]][version[p]] = Partial(p)'
      <4>1. ASSUME NEW y \in Pieces
            PROVE  [Partial(p) EXCEPT ![x] = save[p]][y] = Partial(p)'[y]
        BY <3>3 DEF Partial
      <4>2. [Partial(p) EXCEPT ![x] = save[p]] = [y \in Pieces |-> [Partial(p) EXCEPT ![x] = save[p]][y]]
        BY DEF Partial
      <4>3. Partial(p)' = [y \in Pieces |-> Partial(p)'[y]]
        BY DEF Partial
      <4> QED
        BY <3>2, <4>1, <4>2, <4>3
    <3>5. \A q \in Procs : q = p
      BY DEF Alone
    <3> QED
      BY <3>4, <3>5 DEF Progress
  <2>6. NothingDrifts'
    BY <2>0 DEF NothingDrifts, Types
  <2> QED
    BY <2>1, <2>2, <2>3, <2>4, <2>5, <2>6
<1>4. ASSUME NEW p \in Procs, Hash(p)
      PROVE  StoreInv'
  <2> USE <1>4 DEF Hash
  <2>1. Types'
    BY DEF Types
  <2>2. HighestIn(records')
    OBVIOUS
  <2>3. Fresh'
    BY DEF Fresh, Types
  <2>4. Numbered'
    BY DEF Numbered, Types
  <2>5. Progress'
    BY Alone DEF Progress, Types, Alone, Partial
  <2>6. NothingDrifts'
    BY DEF NothingDrifts
  <2> QED
    BY <2>1, <2>2, <2>3, <2>4, <2>5, <2>6
<1>5. ASSUME NEW p \in Procs, Record(p)
      PROVE  StoreInv'
  <2> DEFINE r == [name |-> name[p], version |-> version[p], parent |-> parent[p], sha |-> sha[p]]
  <2> USE <1>5 DEF Record
  <2>0. r \in RecordSet /\ r.version = LatestIn(records, r.name) + 1 /\ records' = Append(records, r)
    BY DEF Types, Fresh, RecordSet
  <2>a. \A k \in DOMAIN records' : records'[k] = r \/ \E j \in DOMAIN records : records'[k] = records[j]
    <3> HIDE DEF r
    <3> QED
      BY <1>0, <2>0
  <2>b. records' \in Seq(RecordSet)
    BY <2>0
  <2>1. Types'
    BY DEF Types
  <2>2. HighestIn(records')
    BY <1>0, <2>0, RecordingAdvances
  <2>3. Fresh'
    BY Alone DEF Fresh, Types, Alone
  <2>4. Numbered'
    BY <2>a DEF Numbered, Types
  <2>5. Progress'
    BY Alone DEF Progress, Types, Alone
  <2>6. NothingDrifts'
    BY <2>a DEF NothingDrifts, Progress
  <2> QED
    BY <2>b, <2>1, <2>2, <2>3, <2>4, <2>5, <2>6
<1>6. ASSUME NEW p \in Procs, Kill(p)
      PROVE  StoreInv'
  <2> USE <1>6 DEF Kill
  <2>1. Types'
    BY DEF Types
  <2>2. HighestIn(records')
    OBVIOUS
  <2>3. Fresh'
    BY DEF Fresh, Types
  <2>4. Numbered'
    BY DEF Numbered, Types
  <2>5. Progress'
    BY Alone DEF Progress, Types, Alone
  <2>6. NothingDrifts'
    BY DEF NothingDrifts
  <2> QED
    BY <2>1, <2>2, <2>3, <2>4, <2>5, <2>6
<1>7. CASE UNCHANGED vars
  <2> USE <1>7 DEF vars
  <2>1. Types' /\ records' \in Seq(RecordSet) /\ HighestIn(records')
    BY DEF Types
  <2>2. Fresh' /\ Numbered'
    BY DEF Fresh, Numbered
  <2>3. Progress'
    BY DEF Progress, Partial
  <2>4. NothingDrifts'
    BY DEF NothingDrifts
  <2> QED
    BY <2>1, <2>2, <2>3, <2>4
<1> QED
  BY <1>1, <1>2, <1>3, <1>4, <1>5, <1>6, <1>7 DEF Next

\* A run's store is well typed and nothing recorded drifts (verify_provenance is
\* empty), wherever the processes that worked on it one after the other were killed.
THEOREM NothingEverDrifts == ASSUME Alone PROVE Spec => [](TypeOK /\ NothingDrifts)
<1>1. StoreInv => TypeOK /\ NothingDrifts
  BY DEF StoreInv, Types, TypeOK, RecordSet
<1>2. StoreInv /\ [Next]_vars => StoreInv'
  BY StepStoreInv
<1> QED
  BY InitStoreInv, <1>1, <1>2, PTL DEF Spec

-----------------------------------------------------------------------------
given == { Content(s) : s \in DOMAIN source }
history == [n \in Names |-> [v \in 1..Latest(n) |-> disk[n][v]]]

\* Only recording changes what lies under the recorded versions.
LEMMA OnlyRecordingExtends ==
  ASSUME StoreInv, records' = records,
         \A n \in Names : \A v \in 1..Latest(n) : disk'[n][v] = disk[n][v]
  PROVE  history' = history
<1>1. \A n \in Names : Latest(n)' = Latest(n)
  BY DEF Latest, Recorded
<1> QED
  BY <1>1 DEF history

\* Every step of the store is one of ArtifactHistory or changes nothing in it.
LEMMA StepIsHistoryStep ==
  ASSUME Alone, StoreInv, [Next]_vars
  PROVE  History!Give \/ (\E n \in Names : History!Save(n)) \/ UNCHANGED << given, history >>
<1> USE DEF StoreInv
<1>0. \A n \in Names : LatestIn(records, n) = Latest(n) /\ Latest(n) \in Nat
  BY LatestIsLatestIn, LatestIsHighest, ArtifactConstants
<1>1. ASSUME NEW p \in Procs, NEW n \in Names, NEW pieces \in SUBSET Pieces, Begin(p, n, pieces)
      PROVE  History!Give
  <2>1. history' = history
    BY <1>1, OnlyRecordingExtends DEF Begin
  <2>2. source \in Seq(SUBSET Pieces) /\ source' = Append(source, pieces)
    BY <1>1 DEF Begin, Types
  <2>3. \A s \in DOMAIN source : s \in DOMAIN source' /\ source'[s] = source[s]
    BY <2>2
  <2>4. \A s \in DOMAIN source : Content(s)' = Content(s)
    BY <2>3 DEF Content
  <2>5. given \subseteq given'
    BY <2>3, <2>4 DEF given
  <2> QED
    BY <2>1, <2>5 DEF History!Give, given, history
<1>2. ASSUME NEW p \in Procs, Open(p) \/ \E x \in Pieces : Write(p, x)
      PROVE  UNCHANGED << given, history >>
  <2>1. version[p] > Latest(name[p]) /\ records' = records /\ source' = source /\ name[p] \in Names
    <3>1. /\ records' = records /\ source' = source /\ phase[p] # "idle"
      BY <1>2 DEF Open, Write
    <3>2. name[p] \in Names /\ version[p] = LatestIn(records, name[p]) + 1
      BY <3>1 DEF Fresh, Types
    <3> QED
      BY <1>0, <3>1, <3>2
  <2>2. \A n \in Names : \A v \in 1..Latest(n) : n # name[p] \/ v # version[p]
    BY <1>0, <2>1
  <2>3. \A n \in Names : \A v \in 1..Latest(n) : disk'[n][v] = disk[n][v]
    <3>1. CASE Open(p)
      BY <2>2, <3>1 DEF Open, Types
    <3>2. CASE \E x \in Pieces : Write(p, x)
      BY <2>2, <3>2 DEF Write, Types
    <3> QED
      BY <1>2, <3>1, <3>2
  <2>4. history' = history
    BY <2>1, <2>3, OnlyRecordingExtends
  <2>5. given' = given
    BY <2>1 DEF given, Content
  <2> QED
    BY <2>4, <2>5
<1>3. ASSUME NEW p \in Procs, Hash(p) \/ Kill(p)
      PROVE  UNCHANGED << given, history >>
  <2>1. records' = records /\ source' = source /\ disk' = disk
    BY <1>3 DEF Hash, Kill
  <2> QED
    BY <2>1, OnlyRecordingExtends DEF given, Content
<1>4. ASSUME NEW p \in Procs, NEW n \in Names, n = name[p], Record(p)
      PROVE  History!Save(n)
  <2> DEFINE r == [name |-> name[p], version |-> version[p], parent |-> parent[p], sha |-> sha[p]]
             bytes == disk[name[p]][version[p]]
  <2>1. name[p] \in Names /\ r \in RecordSet /\ version[p] = Latest(name[p]) + 1
    BY <1>0, <1>4 DEF Record, Types, Fresh, RecordSet
  <2>2. r.version = LatestIn(records, r.name) + 1
    BY <1>0, <2>1
  <2>3. records' = Append(records, r) /\ disk' = disk /\ source' = source
    BY <1>4 DEF Record
  <2>4. \A m \in Names : Latest(m)' = IF m = name[p] THEN version[p] ELSE Latest(m)
    BY <1>0, <2>1, <2>2, <2>3, RecordingAdvances, LatestIsLatestIn
  <2>5. bytes = Content(save[p])
    BY <1>4 DEF Record, Progress, Partial, Content
  <2>6. save[p] \in DOMAIN source
    BY <1>4 DEF Record, Numbered, Types
  <2>7. bytes \in given
    BY <2>5, <2>6 DEF given
  <2>8. history'[name[p]] = Append(history[name[p]], bytes)
    <3> DEFINE L == Latest(name[p])
               old == [v \in 1..L |-> disk[name[p]][v]]
               new == [v \in 1..(L + 1) |-> disk[name[p]][v]]
    <3>1. L \in Nat /\ version[p] = L + 1
      BY <1>0, <2>1
    <3>2. history[name[p]] = old /\ history'[name[p]] = new
      BY <2>1, <2>3, <2>4 DEF history
    <3> HIDE DEF L
    <3>3. new = Append(old, disk[name[p]][L + 1])
      BY <3>1
    <3> QED
      BY <3>1, <3>2, <3>3
  <2>9. \A m \in Names : m # name[p] => history'[m] = history[m]
    BY <2>3, <2>4 DEF history
  <2>10. history' = [history EXCEPT ![name[p]] = Append(@, bytes)]
    BY <2>1, <2>8, <2>9 DEF history
  <2>11. given' = given
    BY <2>3 DEF given, Content
  <2> QED
    BY <1>4, <2>7, <2>10, <2>11 DEF History!Save, given, history
<1>5. CASE UNCHANGED vars
  <2>1. records' = records /\ source' = source /\ disk' = disk
    BY <1>5 DEF vars
  <2> QED
    BY <2>1, OnlyRecordingExtends DEF given, Content
<1>6. CASE Next
  <2>1. PICK p \in Procs :
          \/ \E n \in Names, pieces \in SUBSET Pieces : Begin(p, n, pieces)
          \/ Open(p) \/ \E x \in Pieces : Write(p, x)
          \/ Hash(p) \/ Kill(p)
          \/ Record(p)
    BY <1>6 DEF Next
  <2>2. name[p] \in Names
    BY DEF Types
  <2>3. CASE \E n \in Names, pieces \in SUBSET Pieces : Begin(p, n, pieces)
    BY <1>1, <2>3
  <2>4. CASE Open(p) \/ \E x \in Pieces : Write(p, x)
    BY <1>2, <2>4
  <2>5. CASE Hash(p) \/ Kill(p)
    BY <1>3, <2>5
  <2>6. CASE Record(p)
    <3>1. PICK n \in Names : n = name[p]
      BY <2>2
    <3>2. History!Save(n)
      BY <1>4, <2>6, <3>1
    <3> QED
      BY <3>2
  <2> QED
    BY <2>1, <2>3, <2>4, <2>5, <2>6
<1> QED
  BY <1>5, <1>6

\* The store of a run implements ArtifactHistory: what is recorded is never
\* overwritten, and a name's next version is the whole of what a save was given.
THEOREM StoreIsAHistory == ASSUME Alone PROVE Spec => IsHistory
<1>1. Init => History!Init
  <2> SUFFICES ASSUME Init PROVE History!Init
    OBVIOUS
  <2>1. \A n \in Names : Latest(n) = 0
    BY DEF Init, Latest, Recorded
  <2>2. \A n \in Names : [v \in 1..Latest(n) |-> disk[n][v]] = <<>>
    BY <2>1
  <2>3. { Content(s) : s \in DOMAIN source } = {}
    BY DEF Init
  <2> QED
    BY <2>2, <2>3 DEF History!Init
<1>2. StoreInv /\ [Next]_vars => StoreInv'
  BY StepStoreInv
<1>3. StoreInv /\ [Next]_vars => [History!Next]_<< given, history >>
  BY StepIsHistoryStep DEF History!Next
<1> QED
  BY InitStoreInv, <1>1, <1>2, <1>3, PTL DEF Spec, IsHistory, History!Spec, given, history
=============================================================================
