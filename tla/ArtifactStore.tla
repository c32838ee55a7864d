----------------------------- MODULE ArtifactStore -----------------------------
(***************************************************************************)
(* The artifacts of one run in tyche/workspace.py.  To save, a process     *)
(* reads the next version from provenance.jsonl, writes the bytes under    *)
(* that version (save_text, save_file, save_tree), hashes what it wrote    *)
(* and appends the record.  It may be killed between any two of these      *)
(* steps; the next process finds bytes without a record and uses the       *)
(* version again.  Nothing locks a run, so a second process may resume it. *)
(*                                                                         *)
(* An artifact has Pieces: the files of a tree, the blocks of a file.  A   *)
(* save is numbered, and every piece it writes is named by its number.     *)
(* Replacing what lies under a version is one step (a file is truncated    *)
(* when it is opened, a tree is removed and made again).                   *)
(***************************************************************************)
EXTENDS Naturals, Sequences, FiniteSets

CONSTANTS
  Names,     \* the artifacts' names
  Pieces,    \* the pieces an artifact may have
  Procs,     \* processes that may work on the run at the same time
  MaxSaves   \* bound: saves begun

ASSUME ArtifactConstants == MaxSaves \in Nat /\ Names # {}

VARIABLES
  disk,      \* bytes under every name and version: the save that wrote each piece
  records,   \* provenance.jsonl
  phase,     \* where each process is: idle, target, writing, record
  name,      \* the name it saves
  version,   \* the version it has chosen
  parent,    \* the version recorded as its parent, 0 for none
  save,      \* the number of its save
  todo,      \* pieces it still has to write
  sha,       \* the hash it computed, as the bytes hashed
  saves,     \* saves begun by all processes
  source     \* history: the pieces each save was given

vars == << disk, records, phase, name, version, parent, save, todo, sha, saves, source >>

Versions == 1..MaxSaves
Absent == 0
NoBytes == [x \in Pieces |-> Absent]

Init ==
  /\ disk = [n \in Names |-> [v \in Versions |-> NoBytes]]
  /\ records = <<>>
  /\ phase = [p \in Procs |-> "idle"] /\ name = [p \in Procs |-> CHOOSE n \in Names : TRUE]
  /\ version = [p \in Procs |-> 0] /\ parent = [p \in Procs |-> 0] /\ save = [p \in Procs |-> 0]
  /\ todo = [p \in Procs |-> {}] /\ sha = [p \in Procs |-> NoBytes]
  /\ saves = 0 /\ source = <<>>

Recorded(n) == { k \in DOMAIN records : records[k].name = n }

\* Workspace.latest: the highest recorded version of a name, 0 if there is none.
Latest(n) ==
  IF Recorded(n) = {} THEN 0
  ELSE LET k == CHOOSE k \in Recorded(n) : \A j \in Recorded(n) : records[j].version <= records[k].version
       IN  records[k].version

\* Mutant: the latest version is written again.
LastVersion(n) == IF Latest(n) = 0 THEN 1 ELSE Latest(n)

\* Mutant: versions are counted on disk.
VersionOnDisk(n) == Cardinality({ v \in Versions : disk[n][v] # NoBytes }) + 1

NextVersion(n) == Latest(n) + 1

\* A save begins: _next_version is read.
Begin(p, n, pieces) ==
  /\ phase[p] = "idle" /\ saves < MaxSaves
  /\ saves' = saves + 1
  /\ phase' = [phase EXCEPT ![p] = "target"] /\ name' = [name EXCEPT ![p] = n]
  /\ version' = [version EXCEPT ![p] = NextVersion(n)] /\ parent' = [parent EXCEPT ![p] = Latest(n)]
  /\ save' = [save EXCEPT ![p] = saves'] /\ todo' = [todo EXCEPT ![p] = pieces]
  /\ source' = Append(source, pieces)
  /\ UNCHANGED << disk, records, sha >>

\* Mutant: a tree is copied over what is there.
Kept(n, v) == disk[n][v]

Replaced(n, v) == NoBytes

Open(p) ==
  /\ phase[p] = "target" /\ phase' = [phase EXCEPT ![p] = "writing"]
  /\ disk' = [disk EXCEPT ![name[p]][version[p]] = Replaced(name[p], version[p])]
  /\ UNCHANGED << records, name, version, parent, save, todo, sha, saves, source >>

Write(p, x) ==
  /\ phase[p] = "writing" /\ x \in todo[p]
  /\ disk' = [disk EXCEPT ![name[p]][version[p]][x] = save[p]]
  /\ todo' = [todo EXCEPT ![p] = @ \ { x }]
  /\ UNCHANGED << records, phase, name, version, parent, save, sha, saves, source >>

Hash(p) ==
  /\ phase[p] = "writing" /\ todo[p] = {}
  /\ phase' = [phase EXCEPT ![p] = "record"]
  /\ sha' = [sha EXCEPT ![p] = disk[name[p]][version[p]]]
  /\ UNCHANGED << disk, records, name, version, parent, save, todo, saves, source >>

\* _record: one line is appended; the save returns.
Record(p) ==
  /\ phase[p] = "record" /\ phase' = [phase EXCEPT ![p] = "idle"]
  /\ records' = Append(records, [name |-> name[p], version |-> version[p], parent |-> parent[p], sha |-> sha[p]])
  /\ UNCHANGED << disk, name, version, parent, save, todo, sha, saves, source >>

\* The process is killed; another one takes its place.
Kill(p) ==
  /\ phase[p] # "idle" /\ phase' = [phase EXCEPT ![p] = "idle"]
  /\ todo' = [todo EXCEPT ![p] = {}]
  /\ UNCHANGED << disk, records, name, version, parent, save, sha, saves, source >>

Next ==
  \E p \in Procs :
    \/ \E n \in Names, pieces \in SUBSET Pieces \ { {} } : Begin(p, n, pieces)
    \/ Open(p)
    \/ \E x \in Pieces : Write(p, x)
    \/ Hash(p)
    \/ Record(p)
    \/ Kill(p)

Spec == Init /\ [][Next]_vars

\* One process at a time works on the run.
Alone == \A p, q \in Procs : p = q

-----------------------------------------------------------------------------
Bytes == [Pieces -> 0..MaxSaves]
\* The types of the state; a process that saves has a version, and pieces to write only
\* before it records.
TypeOK ==
  /\ disk \in [Names -> [Versions -> Bytes]]
  /\ records \in Seq([name : Names, version : Versions, parent : 0..MaxSaves, sha : Bytes])
  /\ phase \in [Procs -> { "idle", "target", "writing", "record" }]
  /\ name \in [Procs -> Names] /\ version \in [Procs -> 0..MaxSaves] /\ parent \in [Procs -> 0..MaxSaves]
  /\ save \in [Procs -> 0..MaxSaves] /\ todo \in [Procs -> SUBSET Pieces] /\ sha \in [Procs -> Bytes]
  /\ saves \in 0..MaxSaves /\ source \in Seq(SUBSET Pieces)
  /\ \A p \in Procs : phase[p] # "idle" => version[p] \in Versions
  /\ \A p \in Procs : todo[p] # {} => phase[p] \in { "target", "writing" }

\* verify_provenance finds nothing: the bytes of every recorded version are those
\* that were hashed when it was recorded, whatever was killed since.
NothingDrifts ==
  \A k \in DOMAIN records : disk[records[k].name][records[k].version] = records[k].sha

\* The records of a name are its versions in order, each the child of the one before.
VersionsFormAChain ==
  \A k \in DOMAIN records :
    /\ records[k].version = Cardinality({ j \in 1..k : records[j].name = records[k].name })
    /\ records[k].parent = records[k].version - 1

\* The bytes under the recorded versions, against what the saves were given.
Content(s) == [x \in Pieces |-> IF x \in source[s] THEN s ELSE Absent]
History ==
  INSTANCE ArtifactHistory WITH
    given <- { Content(s) : s \in DOMAIN source },
    history <- [n \in Names |-> [v \in 1..Latest(n) |-> disk[n][v]]]

\* Artifacts are never overwritten: what is recorded stays as it was saved, and
\* saving a name again adds its next version, whole (workspace.py:12).
IsHistory == History!Spec
=============================================================================
