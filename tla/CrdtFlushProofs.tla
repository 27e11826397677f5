--------------------------- MODULE CrdtFlushProofs ---------------------------
(***************************************************************************)
(* What the flush pipeline keeps, for any number of pages, connections,    *)
(* batches and crashes, as long as no document is evicted: the store has   *)
(* room for every page and the eviction task is not part of EditSpec.      *)
(***************************************************************************)
EXTENDS CrdtProofs

RoomForAll == Cardinality(Pages) <= MaxDocs

-----------------------------------------------------------------------------
(* What the updates of an entry leave alone. *)

LEMMA TouchedFields ==
  ASSUME NEW e \in Entry
  PROVE  LET n == Touched(e) IN
         n.in = e.in /\ n.doc = e.doc /\ n.dirty = TRUE /\ n.gen = e.gen + 1
  BY DEF Touched, Entry

LEMMA CountFields ==
  \A e \in Entry, k \in Nat, b \in BOOLEAN :
    LET n == [e EXCEPT !.count = k, !.gone = b] IN
    n.in = e.in /\ n.doc = e.doc /\ n.dirty = e.dirty /\ n.gen = e.gen
  BY DEF Entry

LEMMA DocFields ==
  \A e \in Entry, t \in Content, U \in SUBSET Conns :
    LET n == [e EXCEPT !.doc = t, !.contrib = U] IN
    n.in = e.in /\ n.doc = t /\ n.dirty = e.dirty /\ n.gen = e.gen
  BY DEF Entry

LEMMA FlagFields ==
  \A e \in Entry, b \in BOOLEAN :
    /\ LET n == [e EXCEPT !.dirty = b, !.failed = FALSE] IN
       n.in = e.in /\ n.doc = e.doc /\ n.dirty = b /\ n.gen = e.gen
    /\ LET n == [e EXCEPT !.failed = TRUE] IN
       n.in = e.in /\ n.doc = e.doc /\ n.dirty = e.dirty /\ n.gen = e.gen
    /\ LET n == [e EXCEPT !.contrib = {}] IN
       n.in = e.in /\ n.doc = e.doc /\ n.dirty = e.dirty /\ n.gen = e.gen
  BY DEF Entry

LEMMA NewEntryFields ==
  ASSUME NEW t
  PROVE  LET n == NewEntry(t) IN
         n.in = TRUE /\ n.doc = t /\ n.dirty = FALSE /\ n.gen = 0
  BY DEF NewEntry, Unloaded

LEMMA JobFields ==
  \A pc, p, t, g, S :
    LET j == Job(pc, p, t, g, S) IN
    j.pc = pc /\ j.page = p /\ j.snap = t /\ j.gen = g
  BY DEF Job

LEMMA WalkFields ==
  \A pc, S : Walk(pc, S).pc = pc /\ Idle.pc = "idle"
  BY DEF Walk, Idle

LEMMA GotoFields ==
  ASSUME task \in TaskState, NEW pc, Goto(pc)
  PROVE  task'.pc = pc /\ task'.page = task.page /\ task'.snap = task.snap
           /\ task'.gen = task.gen
  BY DEF Goto, TaskState

\* An update of one page leaves the others alone.
LEMMA UpdatedOthers ==
  ASSUME docs \in [Pages -> Entry], NEW p \in Pages, NEW e, Updated(p, e)
  PROVE  /\ docs[p].in => docs'[p] = e
         /\ ~docs[p].in => docs'[p] = docs[p]
         /\ \A q \in Pages \ {p} : docs'[q] = docs[q]
  BY DEF Updated

\* A store with room for every page never looks for a victim.
LEMMA NoVictims ==
  ASSUME RoomForAll, NEW p \in Pages, ~docs[p].in
  PROVE  Victims = {}
<1>1. IsFiniteSet(Pages \ {p}) /\ Cardinality(Pages \ {p}) = Cardinality(Pages) - 1
  BY SetsAssumption, FS_RemoveElement
<1>2. Loaded \subseteq Pages \ {p}
  BY DEF Loaded
<1>3. /\ Cardinality(Loaded) <= Cardinality(Pages \ {p})
      /\ Cardinality(Loaded) \in Nat /\ Cardinality(Pages) \in Nat
  BY <1>1, <1>2, SetsAssumption, FS_Subset, FS_CardinalityType
<1>4. Cardinality(Loaded) < MaxDocs
  BY <1>1, <1>3, BoundsAssumption DEF RoomForAll
<1>. QED BY <1>4 DEF Victims

LEMMA LoadWithRoom ==
  ASSUME RoomForAll, docs \in [Pages -> Entry], NEW p \in Pages, NEW e, LoadOrGet(p, e)
  PROVE  /\ ~docs[p].in /\ docs'[p] = e /\ disk' = disk
         /\ \A q \in Pages \ {p} : docs'[q] = docs[q]
  BY NoVictims DEF LoadOrGet

-----------------------------------------------------------------------------
(* A document that is not dirty is what its file holds.                    *)
(*                                                                         *)
(* CleanMeansOnDisk is not inductive: mark_flushed clears the flag, and    *)
(* must know that the file holds the document.  SnapshotInv says what the  *)
(* task knows of the page it took a snapshot of: the generation of the     *)
(* document only grows, and while it is the snapshot's the document is the *)
(* snapshot; until the write the document stays dirty, and from the write  *)
(* to the mark the file holds the snapshot.                                *)

SnapshotOf(p, t, g) ==
  /\ docs[p].in
  /\ docs[p].gen >= g
  /\ docs[p].gen = g => docs[p].doc = t

SnapshotInv ==
  /\ task.pc \notin {"evict", "evict write", "evict truncate"}
  /\ task.pc \in {"write", "mark"} => SnapshotOf(task.page, task.snap, task.gen)
  /\ task.pc = "write" => docs[task.page].dirty
  /\ task.pc = "mark" => disk[task.page] = task.snap

FlushInv == SnapshotInv /\ CleanMeansOnDisk

\* An edit marks the document and moves its generation on.
LEMMA EditKeepsFlushInv ==
  ASSUME TypeOK, FlushInv, NEW p \in Pages, NEW e \in Entry, Updated(p, e),
         e.in = docs[p].in, e.dirty = TRUE, e.gen = docs[p].gen + 1,
         disk' = disk, task' = task
  PROVE  FlushInv'
<1>1. docs \in [Pages -> Entry] /\ docs[p].gen \in Nat
  BY DEF TypeOK, Entry
<1>2. task.gen \in Nat /\ (task.pc \in JobPcs => task.page \in Pages)
  BY DEF TypeOK, TaskState
<1>3. CleanMeansOnDisk'
  BY <1>1, UpdatedOthers DEF FlushInv, CleanMeansOnDisk
<1>4. ASSUME task.pc \in {"write", "mark"}
      PROVE  SnapshotOf(task.page, task.snap, task.gen)'
  <2>1. CASE task.page = p
    <3>1. docs[p].in /\ docs[p].gen >= task.gen
      BY <1>4, <2>1 DEF FlushInv, SnapshotInv, SnapshotOf
    <3>2. docs[p].gen + 1 >= task.gen /\ docs[p].gen + 1 # task.gen
      BY <1>1, <1>2, <3>1
    <3>3. docs'[p] = e
      BY <1>1, <3>1, UpdatedOthers
    <3>. QED BY <2>1, <3>1, <3>2, <3>3 DEF SnapshotOf
  <2>2. CASE task.page # p
    BY <1>1, <1>2, <1>4, <2>2, UpdatedOthers
    DEF FlushInv, SnapshotInv, SnapshotOf, JobPcs
  <2>. QED BY <2>1, <2>2
<1>5. task.pc = "write" => docs'[task.page].dirty
  BY <1>1, <1>2, UpdatedOthers DEF FlushInv, SnapshotInv, JobPcs
<1>. QED BY <1>3, <1>4, <1>5 DEF FlushInv, SnapshotInv

\* A step that leaves text, flag and generation of every entry alone.
SameTexts ==
  \A q \in Pages : /\ docs'[q].in = docs[q].in /\ docs'[q].doc = docs[q].doc
                   /\ docs'[q].dirty = docs[q].dirty /\ docs'[q].gen = docs[q].gen

LEMMA SameTextsUpdate ==
  ASSUME TypeOK, NEW p \in Pages, NEW e \in Entry, Updated(p, e),
         e.in = docs[p].in, e.doc = docs[p].doc, e.dirty = docs[p].dirty,
         e.gen = docs[p].gen
  PROVE  SameTexts
  BY UpdatedOthers DEF TypeOK, SameTexts

LEMMA ConnectTexts ==
  ASSUME TypeOK, NEW c \in Conns, Connect(c) \/ Disconnect(c)
  PROVE  SameTexts
<1>. DEFINE p == conn[c].page
<1>1. p \in Pages /\ docs[p] \in Entry /\ docs[p].count \in Nat /\ docs[p].gone \in BOOLEAN
  BY EntryFields DEF Connect, Disconnect, TypeOK
<1>2. PICK k \in Nat, b \in BOOLEAN :
        Updated(p, [docs[p] EXCEPT !.count = k, !.gone = b])
  <2>1. CASE Connect(c)
    <3>1. docs[p].count + 1 \in Nat
      BY <1>1
    <3>. QED BY <2>1, <3>1 DEF Connect
  <2>2. CASE Disconnect(c)
    <3>. DEFINE n == IF docs[p].count = 0 THEN 0 ELSE docs[p].count - 1
    <3>1. n \in Nat
      <4>. HIDE DEF p
      <4>. QED BY <1>1
    <3>2. Updated(p, [docs[p] EXCEPT !.count = n,
                                     !.gone = IF n = 0 THEN TRUE ELSE @])
      BY <2>2 DEF Disconnect
    <3>. HIDE DEF n
    <3>3. (IF n = 0 THEN TRUE ELSE docs[p].gone) \in BOOLEAN
      BY <1>1
    <3>. QED BY <3>1, <3>2, <3>3
  <2>. QED BY <2>1, <2>2
<1>. QED BY <1>1, <1>2, CountFields, CountUpdate, SameTextsUpdate

LEMMA FailTexts ==
  ASSUME TypeOK, FlushWriteFails PROVE SameTexts
<1>1. task.page \in Pages /\ docs[task.page] \in Entry
  BY DEF FlushWriteFails, At, JobPcs, TypeOK
<1>. QED BY <1>1, DirtyUpdate, FlagFields, SameTextsUpdate DEF FlushWriteFails

\* What FlushWriteFails does to the files and to the document it has failed.
LEMMA FailFiles ==
  ASSUME TypeOK, FlushWriteFails
  PROVE  /\ task.pc = "write" /\ task.page \in Pages /\ task.snap \in Content
         /\ disk' \in [Pages -> Content]
         /\ \A q \in Pages \ {task.page} : disk'[q] = disk[q]
         /\ disk'[task.page] = disk[task.page]
              \/ \A e \in Edits : disk'[task.page][e] <= task.snap[e]
         /\ docs[task.page].in => docs'[task.page].failed
<1>1. task.pc = "write" /\ task.page \in Pages /\ task.snap \in Content
  BY DEF FlushWriteFails, At, JobPcs, TypeOK, TaskState
<1>2. WriteBreaks(task.page, task.snap)
  BY DEF FlushWriteFails
<1>3. docs[task.page].in => docs'[task.page].failed
  BY <1>1 DEF FlushWriteFails, Updated, TypeOK, Entry
<1>. QED BY <1>1, <1>2, <1>3, BreaksType DEF TypeOK

LEMMA CommitTexts ==
  ASSUME TypeOK, FlushCommit \/ FlushReindexFails PROVE SameTexts
<1>1. task.page \in Pages /\ docs \in [Pages -> Entry] /\ docs[task.page] \in Entry
  BY DEF FlushCommit, FlushReindexFails, At, JobPcs, TypeOK
<1>2. CASE docs' = docs
  BY <1>2 DEF SameTexts
<1>3. CASE docs' = [docs EXCEPT ![task.page].contrib = {}]
  <2>1. docs' = [docs EXCEPT ![task.page] = [docs[task.page] EXCEPT !.contrib = {}]]
    BY <1>1, <1>3
  <2>. QED BY <1>1, <2>1, FlagFields DEF SameTexts
<1>. QED BY <1>2, <1>3 DEF FlushCommit, FlushReindexFails

LEMMA SameTextsKeepsFlushInv ==
  ASSUME TypeOK, FlushInv, SameTexts, disk' = disk,
         \/ task' = task
         \/ task'.pc \notin {"evict", "evict write", "evict truncate", "write", "mark"}
  PROVE  FlushInv'
<1>1. CleanMeansOnDisk'
  BY DEF FlushInv, CleanMeansOnDisk, SameTexts
<1>2. CASE task' = task
  <2>1. task.pc \in JobPcs => task.page \in Pages
    BY DEF TypeOK
  <2>. QED BY <1>1, <1>2, <2>1
       DEF FlushInv, SnapshotInv, SnapshotOf, SameTexts, JobPcs
<1>3. CASE task' # task
  BY <1>1, <1>3 DEF FlushInv, SnapshotInv
<1>. QED BY <1>2, <1>3

LEMMA FlushInvInit == Init => FlushInv
  BY DEF Init, FlushInv, SnapshotInv, CleanMeansOnDisk, Unloaded, Walk, Idle

LEMMA FlushInvStep ==
  ASSUME RoomForAll, TypeOK, FlushInv, [EditNext]_vars
  PROVE  FlushInv'
<1>. USE DEF inputs
<1>1. /\ docs \in [Pages -> Entry] /\ disk \in [Pages -> Content]
      /\ conn \in [Conns -> ConnState] /\ task \in TaskState
      /\ task.pc \in JobPcs => task.page \in Pages
  BY DEF TypeOK
<1>2. ASSUME NEW c \in Conns, NEW p \in Pages, Load(c, p) PROVE FlushInv'
  <2>1. CASE docs[p].in /\ UNCHANGED <<docs, disk>>
    BY <1>2, <2>1, SameTextsKeepsFlushInv DEF Load, SameTexts
  <2>2. CASE LoadOrGet(p, NewEntry(disk[p]))
    <3>1. /\ ~docs[p].in /\ docs'[p] = NewEntry(disk[p]) /\ disk' = disk
          /\ \A q \in Pages \ {p} : docs'[q] = docs[q]
      BY <1>1, <2>2, LoadWithRoom
    <3>2. CleanMeansOnDisk'
      <4>1. docs'[p].doc = disk'[p]
        BY <3>1, NewEntryFields
      <4>. QED BY <3>1, <4>1 DEF FlushInv, CleanMeansOnDisk
    <3>3. task' = task
      BY <1>2 DEF Load
    <3>4. task.pc \in {"write", "mark"} => task.page \in Pages \ {p}
      BY <1>1, <3>1 DEF FlushInv, SnapshotInv, SnapshotOf, JobPcs
    <3>. QED BY <3>1, <3>2, <3>3, <3>4 DEF FlushInv, SnapshotInv, SnapshotOf
  <2>. QED BY <1>2, <2>1, <2>2 DEF Load
<1>3. ASSUME NEW c \in Conns, Connect(c) \/ Disconnect(c) PROVE FlushInv'
  BY <1>3, ConnectTexts, SameTextsKeepsFlushInv DEF Connect, Disconnect
<1>4. ASSUME NEW c \in Conns, NEW o \in Ops, LogOp(c, o) PROVE FlushInv'
  BY <1>4, SameTextsKeepsFlushInv DEF LogOp, SameTexts
<1>5. ASSUME NEW c \in Conns, ApplyOps(c) PROVE FlushInv'
  <2>. DEFINE p == conn[c].page
              t == Apply(docs[p].doc, conn[c].op)
              U == docs[p].contrib \cup {c}
              e == [docs[p] EXCEPT !.doc = t, !.contrib = U]
  <2>1. p \in Pages /\ docs[p] \in Entry /\ conn[c].op \in Ops
    BY <1>5 DEF ApplyOps, TypeOK
  <2>2. t \in Content /\ U \in SUBSET Conns
    BY <2>1, EntryFields, ApplyType
  <2>3. e \in Entry /\ e.in = docs[p].in /\ e.gen = docs[p].gen
    <3>. HIDE DEF p, t, U
    <3>1. e \in Entry
      BY <2>1, <2>2, DocUpdate
    <3>2. e.in = docs[p].in /\ e.gen = docs[p].gen
      BY <2>1, <2>2, DocFields
    <3>. QED BY <3>1, <3>2
  <2>4. Updated(p, Touched(e)) /\ disk' = disk /\ task' = task
    BY <1>5 DEF ApplyOps
  <2>. HIDE DEF p, e
  <2>. QED BY <2>1, <2>3, <2>4, TouchedType, TouchedFields, EditKeepsFlushInv
<1>6. ASSUME NEW c \in Conns, RecordEdit(c) PROVE FlushInv'
  <2>. DEFINE p == conn[c].page
  <2>1. p \in Pages /\ docs[p] \in Entry
    BY <1>6 DEF RecordEdit, TypeOK
  <2>2. Updated(p, Touched(docs[p])) /\ disk' = disk /\ task' = task
    BY <1>6 DEF RecordEdit
  <2>. HIDE DEF p
  <2>. QED BY <2>1, <2>2, TouchedType, TouchedFields, EditKeepsFlushInv
<1>7. ASSUME NEW c \in Conns, NEW b \in Bodies, ApplySync(c, b) PROVE FlushInv'
  <2>. DEFINE p == conn[c].page
              U == docs[p].contrib \cup {c}
              e == [docs[p] EXCEPT !.doc = Whole(b), !.contrib = U]
  <2>1. p \in Pages /\ docs[p] \in Entry
    BY <1>7 DEF ApplySync, TypeOK
  <2>2. U \in SUBSET Conns
    BY <2>1, EntryFields
  <2>3. e \in Entry /\ e.in = docs[p].in /\ e.gen = docs[p].gen
    <3>. HIDE DEF p, U
    <3>1. e \in Entry
      BY <2>1, <2>2, WholeType, DocUpdate
    <3>2. e.in = docs[p].in /\ e.gen = docs[p].gen
      BY <2>1, <2>2, WholeType, DocFields
    <3>. QED BY <3>1, <3>2
  <2>4. Updated(p, Touched(e)) /\ disk' = disk /\ task' = task
    BY <1>7 DEF ApplySync
  <2>. HIDE DEF p, e
  <2>. QED BY <2>1, <2>3, <2>4, TouchedType, TouchedFields, EditKeepsFlushInv
<1>8. ASSUME NEW p \in Pages, FlushSerialize(p) PROVE FlushInv'
  <2>1. task' = Job("write", p, docs[p].doc, docs[p].gen, {})
    BY <1>8 DEF FlushSerialize
  <2>2. /\ task'.pc = "write" /\ task'.page = p
        /\ task'.snap = docs[p].doc /\ task'.gen = docs[p].gen
    BY <2>1, JobFields
  <2>3. docs' = docs /\ disk' = disk /\ docs[p].in /\ docs[p].dirty /\ docs[p].gen \in Nat
    BY <1>1, <1>8, EntryFields DEF FlushSerialize
  <2>4. CleanMeansOnDisk'
    BY <2>3 DEF FlushInv, CleanMeansOnDisk
  <2>5. docs[p].gen >= docs[p].gen
    BY <2>3
  <2>. QED BY <2>2, <2>3, <2>4, <2>5 DEF FlushInv, SnapshotInv, SnapshotOf
<1>9. ASSUME FlushWrite PROVE FlushInv'
  <2>1. task.pc = "write" /\ task.page \in Pages /\ docs' = docs
    BY <1>1, <1>9 DEF FlushWrite, At, JobPcs
  <2>2. /\ task'.pc = "mark" /\ task'.page = task.page
        /\ task'.snap = task.snap /\ task'.gen = task.gen
    BY <1>1, <1>9, GotoFields DEF FlushWrite
  <2>3. /\ disk'[task.page] = task.snap
        /\ \A q \in Pages \ {task.page} : disk'[q] = disk[q]
    BY <1>1, <1>9, <2>1 DEF FlushWrite
  <2>4. CleanMeansOnDisk'
    BY <2>1, <2>3 DEF FlushInv, SnapshotInv, CleanMeansOnDisk
  <2>. QED BY <2>1, <2>2, <2>3, <2>4 DEF FlushInv, SnapshotInv, SnapshotOf
<1>10. ASSUME FlushWriteFails PROVE FlushInv'
  <2>1. SameTexts
    BY <1>10, FailTexts
  <2>2. Return.pc \in {"idle", "replay"}
    BY WalkFields DEF Return
  <2>3. task'.pc \in {"idle", "replay", "discard"}
    BY <1>1, <1>10, <2>2, GotoFields DEF FlushWriteFails
  <2>4. docs[task.page].dirty /\ \A q \in Pages \ {task.page} : disk'[q] = disk[q]
    BY <1>10, FailFiles DEF FlushInv, SnapshotInv
  <2>5. CleanMeansOnDisk'
    BY <2>1, <2>4 DEF FlushInv, CleanMeansOnDisk, SameTexts
  <2>. QED BY <2>3, <2>5 DEF FlushInv, SnapshotInv
<1>11. ASSUME FlushMark PROVE FlushInv'
  <2>. DEFINE p == task.page
              b == docs[p].dirty /\ docs[p].gen # task.gen
              e == [docs[p] EXCEPT !.dirty = b, !.failed = FALSE]
  <2>1. p \in Pages /\ docs[p] \in Entry /\ task.pc = "mark"
    BY <1>1, <1>11 DEF FlushMark, At, JobPcs
  <2>2. e \in Entry /\ e.in = docs[p].in /\ e.doc = docs[p].doc /\ e.dirty = b
    <3>1. b \in BOOLEAN
      OBVIOUS
    <3>. HIDE DEF b, p
    <3>2. e \in Entry
      BY <2>1, <3>1, DirtyUpdate
    <3>3. e.in = docs[p].in /\ e.doc = docs[p].doc /\ e.dirty = b
      BY <2>1, <3>1, FlagFields
    <3>. QED BY <3>2, <3>3
  <2>3. Updated(p, e) /\ disk' = disk
    BY <1>11 DEF FlushMark
  <2>4. /\ docs[p].in /\ disk[p] = task.snap
        /\ docs[p].gen = task.gen => docs[p].doc = task.snap
    BY <2>1 DEF FlushInv, SnapshotInv, SnapshotOf
  <2>5. ~b => docs[p].doc = disk[p]
    BY <2>1, <2>4 DEF FlushInv, CleanMeansOnDisk
  <2>. HIDE DEF b, e
  <2>6. CleanMeansOnDisk'
    BY <1>1, <2>1, <2>2, <2>3, <2>4, <2>5, UpdatedOthers DEF FlushInv, CleanMeansOnDisk
  <2>7. task'.pc = "truncate"
    BY <1>1, <1>11, GotoFields DEF FlushMark
  <2>. QED BY <2>6, <2>7 DEF FlushInv, SnapshotInv
<1>12. ASSUME FlushTruncate \/ RecoverDiscard PROVE FlushInv'
  <2>1. task'.pc \in {"commit", "idle", "replay"}
    BY <1>1, <1>12, GotoFields, WalkFields DEF FlushTruncate, RecoverDiscard, Return
  <2>. QED BY <1>12, <2>1, SameTextsKeepsFlushInv DEF FlushTruncate, RecoverDiscard, SameTexts
<1>13. ASSUME FlushCommit \/ FlushReindexFails PROVE FlushInv'
  <2>1. SameTexts
    BY <1>13, CommitTexts
  <2>2. task'.pc \in {"idle", "replay"}
    BY <1>13, WalkFields DEF FlushCommit, FlushReindexFails, Return
  <2>. QED BY <1>13, <2>1, <2>2, SameTextsKeepsFlushInv DEF FlushCommit, FlushReindexFails
<1>14. ASSUME NEW p \in Pages, RecoverReplay(p) PROVE FlushInv'
  <2>. DEFINE t == Replay(disk[p], wal[p])
              g == Cardinality(wal[p])
              e == [NewEntry(t) EXCEPT !.dirty = TRUE, !.gen = g]
  <2>1. /\ ~docs[p].in /\ docs'[p] = e /\ disk' = disk
        /\ \A q \in Pages \ {p} : docs'[q] = docs[q]
    <3>1. LoadOrGet(p, e)
      BY <1>14 DEF RecoverReplay
    <3>. HIDE DEF e
    <3>. QED BY <1>1, <3>1, LoadWithRoom
  <2>2. task'.pc = "write" /\ task'.page = p /\ task'.snap = t /\ task'.gen = g
    <3>1. task' = Job("write", p, t, g, task.todo \ {p})
      BY <1>14 DEF RecoverReplay
    <3>. HIDE DEF t, g
    <3>. QED BY <3>1, JobFields
  <2>3. g \in Nat
    BY SetsAssumption, FS_Subset, FS_CardinalityType DEF TypeOK
  <2>. HIDE DEF t, g
  <2>4. e.in = TRUE /\ e.doc = t /\ e.dirty = TRUE /\ e.gen = g
    BY DEF NewEntry, Unloaded
  <2>. HIDE DEF e
  <2>5. CleanMeansOnDisk'
    BY <2>1, <2>4 DEF FlushInv, CleanMeansOnDisk
  <2>6. g >= g
    BY <2>3
  <2>. QED BY <2>1, <2>2, <2>4, <2>5, <2>6 DEF FlushInv, SnapshotInv, SnapshotOf
<1>15. ASSUME Crash PROVE FlushInv'
  <2>1. task'.pc = "replay" /\ \A p \in Pages : ~docs'[p].in
    BY <1>15, WalkFields DEF Crash, Stop, Unloaded
  <2>. QED BY <2>1 DEF FlushInv, SnapshotInv, CleanMeansOnDisk
<1>16. ASSUME Serve PROVE FlushInv'
  BY <1>16, WalkFields, SameTextsKeepsFlushInv DEF Serve, SameTexts
<1>17. CASE UNCHANGED vars
  BY <1>17, SameTextsKeepsFlushInv DEF vars, SameTexts
<1>. QED
  BY <1>2, <1>3, <1>4, <1>5, <1>6, <1>7, <1>8, <1>9, <1>10, <1>11, <1>12, <1>13,
     <1>14, <1>15, <1>16, <1>17
  DEF EditNext, CoreNext, Handler, Client, Flush, FlushFails, Recovery

\* As long as the store has room for every page, a loaded document that is not
\* dirty is what its file holds, whatever ops, sync messages, flushes that
\* race with edits, failing writes, crashes and replays come in which order.
THEOREM CleanDocuments ==
  ASSUME RoomForAll PROVE EditSpec => []CleanMeansOnDisk
<1>1. Init => FlushInv
  BY FlushInvInit
<1>2. TypeOK /\ FlushInv /\ [EditNext]_vars => FlushInv'
  BY FlushInvStep
<1>3. FlushInv => CleanMeansOnDisk
  BY DEF FlushInv
<1>. QED BY <1>1, <1>2, <1>3, EditTypes, PTL DEF EditSpec

-----------------------------------------------------------------------------
(* An edit that reached a file stays in it.                                *)
(*                                                                         *)
(* The order of the three texts of a page is inductive: what the file      *)
(* holds is in the document, and between serialize_for_flush and fs::write *)
(* the snapshot is between the two.                                        *)

Within(s, t) == \A e \in Edits : s[e] <= t[e]

GrowInv ==
  /\ \A p \in Pages : docs[p].in => Within(disk[p], docs[p].doc)
  /\ task.pc = "write" =>
       /\ docs[task.page].in
       /\ Within(disk[task.page], task.snap)
       /\ Within(task.snap, docs[task.page].doc)

LEMMA WithinSame ==
  ASSUME NEW t \in Content PROVE Within(t, t)
<1>1. \A e \in Edits : t[e] \in Nat
  BY DEF Content
<1>. QED BY <1>1 DEF Within

LEMMA WithinTrans ==
  ASSUME NEW s \in Content, NEW t \in Content, NEW u \in Content,
         Within(s, t), Within(t, u)
  PROVE  Within(s, u)
<1>1. \A e \in Edits : s[e] \in Nat /\ t[e] \in Nat /\ u[e] \in Nat
  BY DEF Content
<1>. QED BY <1>1 DEF Within

LEMMA ApplyGrows ==
  ASSUME NEW t \in Content, NEW o \in Ops PROVE Within(t, Apply(t, o))
<1>1. \A e \in Edits : t[e] \in Nat /\ t[e] <= t[e] + 1 /\ t[e] <= t[e]
  BY DEF Content
<1>2. \A e \in Edits : Apply(t, o)[e] = IF e = o THEN t[e] + 1 ELSE t[e]
  BY DEF Apply, Content
<1>. QED BY <1>1, <1>2 DEF Within

LEMMA ReplayGrows ==
  ASSUME NEW t \in Content, NEW log PROVE Within(t, Replay(t, log))
<1>1. \A e \in Edits : t[e] \in Nat /\ t[e] <= t[e] + 1 /\ t[e] <= t[e]
  BY DEF Content
<1>2. \A e \in Edits : Replay(t, log)[e] = IF e \in log THEN t[e] + 1 ELSE t[e]
  BY DEF Replay
<1>. QED BY <1>1, <1>2 DEF Within

\* A step in which documents only grow.
Grown ==
  \A q \in Pages : docs'[q].in = docs[q].in /\ Within(docs[q].doc, docs'[q].doc)

LEMMA SameTextsGrown ==
  ASSUME TypeOK, SameTexts PROVE Grown
<1>1. \A q \in Pages : docs[q].doc \in Content
  BY EntryFields DEF TypeOK
<1>. QED BY <1>1, WithinSame DEF SameTexts, Grown

LEMMA UpdateGrown ==
  ASSUME TypeOK, NEW p \in Pages, NEW e \in Entry, Updated(p, e),
         e.in = docs[p].in, Within(docs[p].doc, e.doc)
  PROVE  Grown
<1>1. \A q \in Pages : docs[q].doc \in Content
  BY EntryFields DEF TypeOK
<1>. QED BY <1>1, WithinSame, UpdatedOthers DEF Grown, TypeOK

LEMMA GrownKeepsGrowInv ==
  ASSUME TypeOK, TypeOK', GrowInv, Grown, disk' = disk,
         task' = task \/ task'.pc # "write"
  PROVE  GrowInv'
<1>1. \A q \in Pages : /\ disk[q] \in Content /\ docs[q].doc \in Content
                       /\ docs'[q].doc \in Content
  BY EntryFields DEF TypeOK
<1>2. \A q \in Pages : docs'[q].in => Within(disk'[q], docs'[q].doc)
  BY <1>1, WithinTrans DEF GrowInv, Grown
<1>3. ASSUME task' = task, task.pc = "write"
      PROVE  /\ docs'[task.page].in
             /\ Within(disk[task.page], task.snap)
             /\ Within(task.snap, docs'[task.page].doc)
  <2>1. task.page \in Pages /\ task.snap \in Content
    BY <1>3 DEF TypeOK, TaskState, JobPcs
  <2>. QED BY <1>1, <1>3, <2>1, WithinTrans DEF GrowInv, Grown
<1>. QED BY <1>2, <1>3 DEF GrowInv

\* Each step of the core keeps the order of the texts, and no file loses an
\* edit but by a write that fails.
LEMMA GrowStep ==
  ASSUME RoomForAll, TypeOK, TypeOK', GrowInv, [CoreNext]_vars
  PROVE  GrowInv' /\ (FlushWriteFails \/ \A p \in Pages : Within(disk[p], disk'[p]))
<1>. USE DEF inputs
<1>. DEFINE Good == GrowInv' /\ (FlushWriteFails \/ \A p \in Pages : Within(disk[p], disk'[p]))
<1>1. /\ docs \in [Pages -> Entry] /\ disk \in [Pages -> Content]
      /\ conn \in [Conns -> ConnState] /\ task \in TaskState
      /\ task.pc \in JobPcs => task.page \in Pages
  BY DEF TypeOK
<1>2. ASSUME Grown, disk' = disk, task' = task \/ task'.pc # "write" PROVE Good
  BY <1>1, <1>2, GrownKeepsGrowInv, WithinSame
<1>3. ASSUME SameTexts, disk' = disk, task' = task \/ task'.pc # "write" PROVE Good
  BY <1>2, <1>3, SameTextsGrown
<1>4. ASSUME NEW c \in Conns, NEW p \in Pages, Load(c, p) PROVE Good
  <2>1. CASE docs[p].in /\ UNCHANGED <<docs, disk>>
    BY <1>3, <1>4, <2>1 DEF Load, SameTexts
  <2>2. CASE LoadOrGet(p, NewEntry(disk[p]))
    <3>1. /\ ~docs[p].in /\ docs'[p] = NewEntry(disk[p]) /\ disk' = disk
          /\ \A q \in Pages \ {p} : docs'[q] = docs[q]
      BY <1>1, <2>2, LoadWithRoom
    <3>2. docs'[p].doc = disk[p] /\ task' = task
      BY <1>4, <3>1, NewEntryFields DEF Load
    <3>3. task.pc = "write" => task.page \in Pages \ {p}
      BY <1>1, <3>1 DEF GrowInv, JobPcs
    <3>. QED BY <1>1, <3>1, <3>2, <3>3, WithinSame DEF GrowInv
  <2>. QED BY <1>4, <2>1, <2>2 DEF Load
<1>5. ASSUME NEW c \in Conns, Connect(c) \/ Disconnect(c) PROVE Good
  BY <1>3, <1>5, ConnectTexts DEF Connect, Disconnect
<1>6. ASSUME NEW c \in Conns, NEW o \in Ops, LogOp(c, o) PROVE Good
  BY <1>3, <1>6 DEF LogOp, SameTexts
<1>7. ASSUME NEW c \in Conns, ApplyOps(c) PROVE Good
  <2>. DEFINE p == conn[c].page
              t == Apply(docs[p].doc, conn[c].op)
              U == docs[p].contrib \cup {c}
              e == [docs[p] EXCEPT !.doc = t, !.contrib = U]
  <2>1. p \in Pages /\ docs[p] \in Entry /\ conn[c].op \in Ops
    BY <1>7 DEF ApplyOps, TypeOK
  <2>2. t \in Content /\ U \in SUBSET Conns /\ Within(docs[p].doc, t)
    BY <2>1, EntryFields, ApplyType, ApplyGrows
  <2>3. e \in Entry /\ e.in = docs[p].in /\ e.doc = t
    <3>. HIDE DEF p, t, U
    <3>1. e \in Entry
      BY <2>1, <2>2, DocUpdate
    <3>2. e.in = docs[p].in /\ e.doc = t
      BY <2>1, <2>2, DocFields
    <3>. QED BY <3>1, <3>2
  <2>4. Updated(p, Touched(e)) /\ disk' = disk /\ task' = task
    BY <1>7 DEF ApplyOps
  <2>. HIDE DEF p, e, t
  <2>5. Grown
    BY <2>1, <2>2, <2>3, <2>4, TouchedType, TouchedFields, UpdateGrown
  <2>. QED BY <1>2, <2>4, <2>5
<1>8. ASSUME NEW c \in Conns, RecordEdit(c) PROVE Good
  <2>. DEFINE p == conn[c].page
  <2>1. p \in Pages /\ docs[p] \in Entry /\ docs[p].doc \in Content
    BY <1>8, EntryFields DEF RecordEdit, TypeOK
  <2>2. Updated(p, Touched(docs[p])) /\ disk' = disk /\ task' = task
    BY <1>8 DEF RecordEdit
  <2>. HIDE DEF p
  <2>3. Grown
    BY <2>1, <2>2, TouchedType, TouchedFields, WithinSame, UpdateGrown
  <2>. QED BY <1>2, <2>2, <2>3
<1>9. ASSUME NEW p \in Pages, FlushSerialize(p) PROVE Good
  <2>1. task' = Job("write", p, docs[p].doc, docs[p].gen, {})
    BY <1>9 DEF FlushSerialize
  <2>2. task'.pc = "write" /\ task'.page = p /\ task'.snap = docs[p].doc
    BY <2>1, JobFields
  <2>3. docs' = docs /\ disk' = disk /\ docs[p].in /\ docs[p].doc \in Content
    BY <1>1, <1>9, EntryFields DEF FlushSerialize
  <2>. QED BY <1>1, <2>2, <2>3, WithinSame DEF GrowInv
<1>10. ASSUME FlushWrite PROVE Good
  <2>1. task.pc = "write" /\ task.page \in Pages /\ docs' = docs
    BY <1>1, <1>10 DEF FlushWrite, At, JobPcs
  <2>2. task'.pc = "mark"
    BY <1>1, <1>10, GotoFields DEF FlushWrite
  <2>3. /\ disk'[task.page] = task.snap
        /\ \A q \in Pages \ {task.page} : disk'[q] = disk[q]
    BY <1>1, <1>10, <2>1 DEF FlushWrite
  <2>4. \A p \in Pages : Within(disk[p], disk'[p])
    BY <1>1, <2>1, <2>3, WithinSame DEF GrowInv
  <2>. QED BY <2>1, <2>2, <2>3, <2>4 DEF GrowInv
<1>11. ASSUME FlushWriteFails PROVE Good
  <2>1. Return.pc # "write"
    BY WalkFields DEF Return
  <2>2. task'.pc # "write"
    BY <1>1, <1>11, <2>1, GotoFields DEF FlushWriteFails
  <2>3. SameTexts
    BY <1>11, FailTexts
  <2>4. /\ task.pc = "write" /\ task.page \in Pages
        /\ \A q \in Pages \ {task.page} : disk'[q] = disk[q]
        /\ disk'[task.page] = disk[task.page] \/ Within(disk'[task.page], task.snap)
    BY <1>11, FailFiles DEF Within
  <2>5. Within(disk'[task.page], docs[task.page].doc)
    <3>1. docs[task.page].in /\ Within(task.snap, docs[task.page].doc)
      BY <2>4 DEF GrowInv
    <3>2. task.snap \in Content /\ docs[task.page].doc \in Content
      BY <1>1, <2>4, EntryFields DEF TaskState
    <3>3. disk'[task.page] \in Content
      BY <2>4 DEF TypeOK
    <3>. QED BY <2>4, <3>1, <3>2, <3>3, WithinTrans DEF GrowInv
  <2>. QED BY <1>11, <2>2, <2>3, <2>4, <2>5 DEF GrowInv, SameTexts
<1>12. ASSUME FlushMark PROVE Good
  <2>. DEFINE p == task.page
              b == docs[p].dirty /\ docs[p].gen # task.gen
              e == [docs[p] EXCEPT !.dirty = b, !.failed = FALSE]
  <2>1. p \in Pages /\ docs[p] \in Entry /\ docs[p].doc \in Content /\ b \in BOOLEAN
    BY <1>1, <1>12, EntryFields DEF FlushMark, At, JobPcs
  <2>2. Updated(p, e) /\ disk' = disk /\ Goto("truncate")
    BY <1>12 DEF FlushMark
  <2>. HIDE DEF p, b
  <2>3. e \in Entry
    BY <2>1, DirtyUpdate
  <2>4. e.in = docs[p].in /\ e.doc = docs[p].doc
    BY <2>1, FlagFields
  <2>. HIDE DEF e
  <2>5. Grown
    BY <2>1, <2>2, <2>3, <2>4, WithinSame, UpdateGrown
  <2>6. task'.pc # "write"
    BY <1>1, <2>2, GotoFields
  <2>. QED BY <1>2, <2>2, <2>5, <2>6
<1>13. ASSUME FlushTruncate \/ RecoverDiscard PROVE Good
  <2>1. task'.pc # "write"
    BY <1>1, <1>13, GotoFields, WalkFields DEF FlushTruncate, RecoverDiscard, Return
  <2>. QED BY <1>3, <1>13, <2>1 DEF FlushTruncate, RecoverDiscard, SameTexts
<1>14. ASSUME FlushCommit \/ FlushReindexFails PROVE Good
  <2>1. task'.pc # "write"
    BY <1>14, WalkFields DEF FlushCommit, FlushReindexFails, Return
  <2>. QED BY <1>3, <1>14, <2>1, CommitTexts DEF FlushCommit, FlushReindexFails
<1>15. ASSUME NEW p \in Pages, RecoverReplay(p) PROVE Good
  <2>. DEFINE t == Replay(disk[p], wal[p])
              g == Cardinality(wal[p])
              e == [NewEntry(t) EXCEPT !.dirty = TRUE, !.gen = g]
  <2>1. /\ ~docs[p].in /\ docs'[p] = e /\ disk' = disk
        /\ \A q \in Pages \ {p} : docs'[q] = docs[q]
    <3>1. LoadOrGet(p, e)
      BY <1>15 DEF RecoverReplay
    <3>. HIDE DEF e
    <3>. QED BY <1>1, <3>1, LoadWithRoom
  <2>2. task'.pc = "write" /\ task'.page = p /\ task'.snap = t
    <3>1. task' = Job("write", p, t, g, task.todo \ {p})
      BY <1>15 DEF RecoverReplay
    <3>. HIDE DEF t, g
    <3>. QED BY <3>1, JobFields
  <2>3. Within(disk[p], t) /\ t \in Content
    BY <1>1, ReplayGrows, ReplayType
  <2>. HIDE DEF t, g
  <2>4. e.in = TRUE /\ e.doc = t
    BY DEF NewEntry, Unloaded
  <2>. HIDE DEF e
  <2>. QED BY <1>1, <2>1, <2>2, <2>3, <2>4, WithinSame DEF GrowInv
<1>16. ASSUME Crash PROVE Good
  <2>1. task'.pc = "replay" /\ disk' = disk /\ \A p \in Pages : ~docs'[p].in
    BY <1>16, WalkFields DEF Crash, Stop, Unloaded
  <2>. QED BY <1>1, <2>1, WithinSame DEF GrowInv
<1>17. ASSUME Serve PROVE Good
  BY <1>3, <1>17, WalkFields DEF Serve, SameTexts
<1>18. CASE UNCHANGED vars
  BY <1>3, <1>18 DEF vars, SameTexts
<1>. QED
  BY <1>4, <1>5, <1>6, <1>7, <1>8, <1>9, <1>10, <1>11, <1>12, <1>13, <1>14, <1>15,
     <1>16, <1>17, <1>18
  DEF CoreNext, Handler, Client, Flush, FlushFails, Recovery

\* A write that fails is of a dirty document, which has all that the file held.
LEMMA FailedWriteKeepsDocument ==
  ASSUME TypeOK, TypeOK', FlushInv, GrowInv, FlushWriteFails, NEW p \in Pages, NEW e \in Edits,
         disk'[p][e] < disk[p][e]
  PROVE  docs'[p].failed /\ docs'[p].dirty /\ docs'[p].doc[e] >= disk[p][e]
<1>1. disk[p] \in Content /\ docs[p].doc \in Content
  BY EntryFields DEF TypeOK
<1>2. disk[p][e] \in Nat /\ docs[p].doc[e] \in Nat
  BY <1>1 DEF Content
<1>3. p = task.page
  BY <1>2, FailFiles
<1>4. docs[p].in /\ docs[p].dirty /\ Within(disk[p], docs[p].doc)
  BY <1>3, FailFiles DEF FlushInv, SnapshotInv, GrowInv
<1>5. docs'[p].dirty = docs[p].dirty /\ docs'[p].doc = docs[p].doc
  BY FailTexts DEF SameTexts
<1>. QED BY <1>2, <1>3, <1>4, <1>5, FailFiles DEF Within

\* As long as the store has room for every page, an edit that a file showed
\* leaves it only by a write that fails, and is then in the document, which is
\* marked to be written again: no flush and no replay after a crash writes a
\* text that lacks it, whatever edits arrive while the flush runs.
THEOREM SavedEditsStay ==
  ASSUME RoomForAll PROVE CoreSpec => DiskKeepsEdits
<1>1. Init => FlushInv /\ GrowInv
  BY FlushInvInit DEF Init, GrowInv, Unloaded, Walk, Idle
<1>2. TypeOK /\ TypeOK' /\ FlushInv /\ GrowInv /\ [CoreNext]_vars => (FlushInv /\ GrowInv)'
  <2>1. CoreNext => EditNext
    BY DEF EditNext
  <2>. QED BY <2>1, FlushInvStep, GrowStep
<1>3. ASSUME TypeOK, TypeOK', FlushInv, GrowInv, [CoreNext]_vars,
             NEW p \in Pages, NEW e \in Edits, disk'[p][e] < disk[p][e]
      PROVE  docs'[p].failed /\ docs'[p].dirty /\ docs'[p].doc[e] >= disk[p][e]
  <2>1. ~Within(disk[p], disk'[p])
    <3>1. disk[p][e] \in Nat /\ disk'[p][e] \in Nat
      BY <1>3 DEF TypeOK, Content
    <3>. QED BY <1>3, <3>1 DEF Within
  <2>. QED BY <1>3, <2>1, GrowStep, FailedWriteKeepsDocument
<1>4. TypeOK /\ TypeOK' /\ FlushInv /\ GrowInv /\ [CoreNext]_vars =>
        [\A p \in Pages : \A e \in Edits :
           disk'[p][e] < disk[p][e] =>
             docs'[p].failed /\ docs'[p].dirty /\ docs'[p].doc[e] >= disk[p][e]]_vars
  BY <1>3
<1>. QED BY <1>1, <1>2, <1>4, CoreTypes, PTL DEF CoreSpec, DiskKeepsEdits
=============================================================================
