----------------------------- MODULE CrdtProofs -----------------------------
(* Theorems about CrdtDocStore, for every value of its constants. *)
EXTENDS CrdtDocStore, FiniteSetTheorems, TLAPS

-----------------------------------------------------------------------------
(* Contents and entries. *)

LEMMA BlankType == Blank \in Content
  BY DEF Blank, Content

LEMMA WholeType == \A b : Whole(b) \in Content
  BY DEF Whole, Content

LEMMA ApplyType ==
  ASSUME NEW t \in Content, NEW o \in Ops PROVE Apply(t, o) \in Content
  BY DEF Apply, Content, Edits

LEMMA ReplayType ==
  ASSUME NEW t \in Content, NEW log PROVE Replay(t, log) \in Content
  BY DEF Replay, Content

LEMMA UnloadedType == Unloaded \in Entry
  BY BlankType DEF Unloaded, Entry

LEMMA NewEntryType ==
  ASSUME NEW t \in Content PROVE NewEntry(t) \in Entry
  BY BlankType DEF Unloaded, NewEntry, Entry

LEMMA TouchedType ==
  ASSUME NEW e \in Entry PROVE Touched(e) \in Entry
<1>1. e.gen + 1 \in Nat
  BY DEF Entry
<1>2. [e EXCEPT !.dirty = TRUE] \in Entry
  BY DEF Entry
<1>. QED BY <1>1, <1>2 DEF Entry, Touched

\* The updates of an entry that the actions make.
LEMMA CountUpdate ==
  \A e \in Entry, n \in Nat, b \in BOOLEAN :
    [e EXCEPT !.count = n, !.gone = b] \in Entry
  BY DEF Entry

LEMMA DocUpdate ==
  \A e \in Entry, t \in Content, U \in SUBSET Conns :
    [e EXCEPT !.doc = t, !.contrib = U] \in Entry
  BY DEF Entry

LEMMA DirtyUpdate ==
  \A e \in Entry, b \in BOOLEAN, n \in Nat :
    /\ [e EXCEPT !.dirty = b, !.failed = FALSE] \in Entry
    /\ [e EXCEPT !.dirty = b, !.gen = n] \in Entry
    /\ [e EXCEPT !.failed = TRUE] \in Entry
    /\ [e EXCEPT !.contrib = {}] \in Entry
  BY DEF Entry

LEMMA ConnUpdate ==
  \A s \in ConnState, o \in Ops \cup {NoOp} :
    /\ [s EXCEPT !.pc = "logged", !.op = o] \in ConnState
    /\ [s EXCEPT !.pc = "open", !.op = o] \in ConnState
  BY DEF ConnState

LEMMA EntryFields ==
  ASSUME NEW e \in Entry
  PROVE  /\ e.in \in BOOLEAN /\ e.doc \in Content /\ e.dirty \in BOOLEAN
         /\ e.gen \in Nat /\ e.count \in Nat /\ e.gone \in BOOLEAN
         /\ e.contrib \in SUBSET Conns /\ e.failed \in BOOLEAN
  BY DEF Entry

LEMMA UpdatedType ==
  ASSUME docs \in [Pages -> Entry], NEW p \in Pages, NEW e \in Entry, Updated(p, e)
  PROVE  docs' \in [Pages -> Entry]
  BY DEF Updated

LEMMA TaskTypes ==
  /\ Idle \in TaskState
  /\ \A pc \in ListPcs, S \in SUBSET Pages : Walk(pc, S) \in TaskState
  /\ \A pc \in JobPcs, p \in Pages, t \in Content, g \in Nat, S \in SUBSET Pages :
       Job(pc, p, t, g, S) \in TaskState
  BY BlankType DEF Idle, Walk, Job, TaskState, ListPcs, JobPcs

LEMMA WalkType ==
  ASSUME NEW pc \in ListPcs, NEW S \in SUBSET Pages
  PROVE  Walk(pc, S) \in TaskState /\ Walk(pc, S).pc \notin JobPcs
<1>1. Walk(pc, S).pc = pc
  BY DEF Walk, Idle
<1>. QED BY <1>1, TaskTypes DEF ListPcs, JobPcs

LEMMA GotoType ==
  ASSUME task \in TaskState, NEW pc \in JobPcs, Goto(pc)
  PROVE  task' \in TaskState /\ task'.page = task.page /\ task'.pc = pc
  BY DEF Goto, TaskState, ListPcs, JobPcs

LEMMA TaskReturn ==
  ASSUME TypeOK PROVE Return \in TaskState /\ Return.pc \notin JobPcs
<1>1. task.todo \in SUBSET Pages
  BY DEF TypeOK, TaskState
<1>. QED BY <1>1, TaskTypes DEF Return, Walk, Idle, ListPcs, JobPcs

LEMMA EvictNextType ==
  ASSUME NEW S \in SUBSET Pages
  PROVE  EvictNext(S) \in TaskState /\ EvictNext(S).pc \notin JobPcs
  BY TaskTypes DEF EvictNext, Walk, Idle, ListPcs, JobPcs

LEMMA LoadOrGetType ==
  ASSUME TypeOK, NEW p \in Pages, NEW e \in Entry, LoadOrGet(p, e)
  PROVE  docs' \in [Pages -> Entry] /\ disk' \in [Pages -> Content]
<1>1. CASE docs' = [docs EXCEPT ![p] = e] /\ UNCHANGED disk
  BY <1>1 DEF TypeOK
<1>2. ASSUME NEW q \in Victims,
             docs' = [docs EXCEPT ![q] = Unloaded, ![p] = e],
             disk' = IF docs[q].dirty THEN [disk EXCEPT ![q] = docs[q].doc] ELSE disk
      PROVE  docs' \in [Pages -> Entry] /\ disk' \in [Pages -> Content]
  <2>1. q \in Pages
    BY <1>2 DEF Victims, Loaded
  <2>2. docs[q].doc \in Content
    BY <2>1 DEF TypeOK, Entry
  <2>. QED BY <1>2, <2>1, <2>2, UnloadedType DEF TypeOK
<1>. QED BY <1>1, <1>2 DEF LoadOrGet

LEMMA PartsType ==
  ASSUME NEW t \in Content, NEW u \in Parts(t)
  PROVE  u \in Content /\ \A e \in Edits : u[e] <= t[e]
<1>1. \A e \in Edits : 0..t[e] \subseteq Nat
  BY DEF Content
<1>2. UNION {0..t[e] : e \in Edits} \subseteq Nat
  BY <1>1
<1>3. u \in [Edits -> UNION {0..t[e] : e \in Edits}] /\ \A e \in Edits : u[e] <= t[e]
  BY DEF Parts
<1>. QED BY <1>2, <1>3 DEF Content

\* What a write that breaks off leaves in the files.
LEMMA BreaksType ==
  ASSUME disk \in [Pages -> Content], NEW p \in Pages, NEW t \in Content, WriteBreaks(p, t)
  PROVE  /\ disk' \in [Pages -> Content]
         /\ \A q \in Pages \ {p} : disk'[q] = disk[q]
         /\ disk'[p] = disk[p] \/ \A e \in Edits : disk'[p][e] <= t[e]
<1>1. CASE disk' = disk
  BY <1>1
<1>2. ASSUME NEW u \in Parts(t), disk' = [disk EXCEPT ![p] = u]
      PROVE  /\ disk' \in [Pages -> Content] /\ disk'[p] = u
             /\ \A q \in Pages \ {p} : disk'[q] = disk[q]
  BY <1>2, PartsType
<1>3. CASE \E u \in Parts(t) : disk' = [disk EXCEPT ![p] = u]
  BY <1>2, <1>3, PartsType
<1>. QED BY <1>1, <1>3 DEF WriteBreaks

LEMMA EvictFailsType ==
  ASSUME TypeOK, NEW p \in Pages, EvictLruFails(p)
  PROVE  docs' = docs /\ disk' \in [Pages -> Content]
<1>1. PICK q \in Victims : WriteBreaks(q, docs[q].doc)
  BY DEF EvictLruFails
<1>2. q \in Pages
  BY DEF Victims, Loaded
<1>3. docs[q].doc \in Content
  BY <1>2, EntryFields DEF TypeOK
<1>. QED BY <1>1, <1>2, <1>3, BreaksType DEF EvictLruFails, TypeOK

-----------------------------------------------------------------------------
(* Type correctness. *)

LEMMA TypeInit == Init => TypeOK
<1>. SUFFICES ASSUME Init PROVE TypeOK
  OBVIOUS
<1>1. task \in TaskState /\ task.pc \notin JobPcs
  BY TaskTypes DEF Init, Walk, Idle, ListPcs, JobPcs
<1>2. conn \in [Conns -> ConnState] /\ \A c \in Conns : conn[c].pc = "off"
  BY DEF Init, Off, ConnState
<1>3. disk \in [Pages -> Content] /\ docs \in [Pages -> Entry]
  BY BlankType, UnloadedType DEF Init
<1>. QED BY <1>1, <1>2, <1>3, BoundsAssumption DEF Init, TypeOK

\* Every step of a client, of the lifecycle task and of the recovery, with
\* every failure, keeps the types of the store.
LEMMA TypeStep == TypeOK /\ [Next]_vars => TypeOK'
<1>. SUFFICES ASSUME TypeOK, [Next]_vars PROVE TypeOK'
  OBVIOUS
<1>. USE DEF inputs
<1>1. ASSUME NEW c \in Conns, NEW p \in Pages, Load(c, p) PROVE TypeOK'
  <2>1. NewEntry(disk[p]) \in Entry
    BY NewEntryType DEF TypeOK
  <2>2. docs' \in [Pages -> Entry] /\ disk' \in [Pages -> Content]
    BY <1>1, <2>1, LoadOrGetType DEF Load, TypeOK
  <2>3. conn' \in [Conns -> ConnState]
    BY <1>1 DEF Load, TypeOK, ConnState
  <2>. QED BY <1>1, <2>2, <2>3 DEF Load, TypeOK
<1>2. ASSUME NEW c \in Conns, NEW p \in Pages, LoadFails(c, p) PROVE TypeOK'
  <2>1. docs' \in [Pages -> Entry] /\ disk' \in [Pages -> Content]
    BY <1>2, LoadOrGetType, UnloadedType, EvictFailsType DEF LoadFails, TypeOK
  <2>. QED BY <1>2, <2>1 DEF LoadFails, TypeOK
<1>3. ASSUME NEW c \in Conns, Connect(c) PROVE TypeOK'
  <2>. DEFINE p == conn[c].page
  <2>1. p \in Pages /\ docs[p] \in Entry /\ docs[p].count + 1 \in Nat
    BY <1>3, EntryFields DEF Connect, TypeOK
  <2>2. [docs[p] EXCEPT !.count = @ + 1, !.gone = FALSE] \in Entry
    BY <2>1, CountUpdate
  <2>3. docs' \in [Pages -> Entry]
    BY <1>3, <2>1, <2>2, UpdatedType DEF Connect, TypeOK
  <2>4. conn' \in [Conns -> ConnState]
    BY <1>3 DEF Connect, TypeOK, ConnState
  <2>. QED BY <1>3, <2>3, <2>4 DEF Connect, TypeOK
<1>4. ASSUME NEW c \in Conns, Disconnect(c) PROVE TypeOK'
  <2>. DEFINE p == conn[c].page
              n == IF docs[p].count = 0 THEN 0 ELSE docs[p].count - 1
  <2>1. p \in Pages /\ docs[p] \in Entry
    BY <1>4 DEF Disconnect, TypeOK
  <2>2. n \in Nat /\ (IF n = 0 THEN TRUE ELSE docs[p].gone) \in BOOLEAN
    <3>1. docs[p].count \in Nat /\ docs[p].gone \in BOOLEAN
      BY <2>1, EntryFields
    <3>2. n \in Nat
      <4>. HIDE DEF p
      <4>. QED BY <3>1
    <3>. HIDE DEF n
    <3>. QED BY <3>1, <3>2
  <2>3. [docs[p] EXCEPT !.count = n, !.gone = IF n = 0 THEN TRUE ELSE @] \in Entry
    <3>. HIDE DEF n
    <3>. QED BY <2>1, <2>2, CountUpdate
  <2>4. docs' \in [Pages -> Entry]
    BY <1>4, <2>1, <2>3, UpdatedType DEF Disconnect, TypeOK
  <2>5. conn' \in [Conns -> ConnState]
    BY <1>4 DEF Disconnect, TypeOK, ConnState, Off
  <2>. QED BY <1>4, <2>4, <2>5 DEF Disconnect, TypeOK, Off
<1>5. ASSUME NEW c \in Conns, NEW o \in Ops, LogOp(c, o) \/ LogOpFails(c, o)
      PROVE  TypeOK'
  <2>1. conn' \in [Conns -> ConnState]
    <3>1. Receive(c, o)
      BY <1>5 DEF LogOp, LogOpFails
    <3>2. [conn[c] EXCEPT !.pc = "logged", !.op = o] \in ConnState
      BY ConnUpdate DEF TypeOK
    <3>. QED BY <3>1, <3>2 DEF Receive, TypeOK
  <2>2. wal' \in [Pages -> SUBSET Ops]
    BY <1>5 DEF LogOp, LogOpFails, Receive, TypeOK
  <2>3. author' \in [Ops -> Conns \cup {NotSent, Recovered}]
    BY <1>5 DEF LogOp, LogOpFails, Receive, TypeOK
  <2>4. /\ \A d \in Conns : conn'[d].page = conn[d].page
        /\ \A d \in Conns \ {c} : conn'[d] = conn[d]
        /\ conn[c].pc # "off" /\ conn'[c].op = o
    BY <1>5 DEF LogOp, LogOpFails, Receive, TypeOK, ConnState
  <2>5. /\ \A d \in Conns : conn'[d].pc # "off" => conn'[d].page \in Pages
        /\ \A d \in Conns : conn'[d].pc \in {"logged", "applied"} => conn'[d].op \in Ops
    BY <2>4 DEF TypeOK
  <2>. QED BY <1>5, <2>1, <2>2, <2>3, <2>5 DEF LogOp, LogOpFails, Receive, TypeOK
<1>6. ASSUME NEW c \in Conns, ApplyOps(c) PROVE TypeOK'
  <2>. DEFINE p == conn[c].page
  <2>1. p \in Pages /\ docs[p] \in Entry /\ conn[c].op \in Ops
    BY <1>6 DEF ApplyOps, TypeOK
  <2>2. /\ Apply(docs[p].doc, conn[c].op) \in Content
        /\ docs[p].contrib \cup {c} \in SUBSET Conns
    BY <2>1, EntryFields, ApplyType
  <2>3. Touched([docs[p] EXCEPT !.doc = Apply(@, conn[c].op),
                                !.contrib = @ \cup {c}]) \in Entry
    BY <2>1, <2>2, DocUpdate, TouchedType
  <2>4. docs' \in [Pages -> Entry]
    BY <1>6, <2>1, <2>3, UpdatedType DEF ApplyOps, TypeOK
  <2>5. conn' \in [Conns -> ConnState]
    BY <1>6 DEF ApplyOps, TypeOK, ConnState
  <2>. QED BY <1>6, <2>4, <2>5 DEF ApplyOps, TypeOK
<1>7. ASSUME NEW c \in Conns, RecordEdit(c) PROVE TypeOK'
  <2>. DEFINE p == conn[c].page
  <2>1. p \in Pages /\ docs[p] \in Entry
    BY <1>7 DEF RecordEdit, TypeOK
  <2>2. docs' \in [Pages -> Entry]
    BY <1>7, <2>1, TouchedType, UpdatedType DEF RecordEdit, TypeOK
  <2>3. conn' \in [Conns -> ConnState]
    BY <1>7, ConnUpdate DEF RecordEdit, TypeOK
  <2>. QED BY <1>7, <2>2, <2>3 DEF RecordEdit, TypeOK
<1>8. ASSUME NEW c \in Conns, NEW b \in Bodies, ApplySync(c, b) PROVE TypeOK'
  <2>. DEFINE p == conn[c].page
  <2>1. p \in Pages /\ docs[p] \in Entry
    BY <1>8 DEF ApplySync, TypeOK
  <2>2. docs[p].contrib \cup {c} \in SUBSET Conns
    BY <2>1, EntryFields
  <2>3. Touched([docs[p] EXCEPT !.doc = Whole(b), !.contrib = @ \cup {c}]) \in Entry
    BY <2>1, <2>2, DocUpdate, WholeType, TouchedType
  <2>4. docs' \in [Pages -> Entry]
    BY <1>8, <2>1, <2>3, UpdatedType DEF ApplySync, TypeOK
  <2>. QED BY <1>8, <2>4 DEF ApplySync, TypeOK
<1>9. ASSUME NEW p \in Pages, FlushSerialize(p) PROVE TypeOK'
  <2>1. docs[p].doc \in Content /\ docs[p].gen \in Nat
    BY EntryFields DEF TypeOK
  <2>2. task' \in TaskState /\ task'.page \in Pages
    BY <1>9, <2>1, TaskTypes DEF FlushSerialize, JobPcs, Job
  <2>. QED BY <1>9, <2>2 DEF FlushSerialize, TypeOK
<1>10. ASSUME FlushWrite \/ EvictWrite PROVE TypeOK'
  <2>1. task.page \in Pages /\ task.snap \in Content
    BY <1>10 DEF FlushWrite, EvictWrite, At, TypeOK, TaskState, JobPcs
  <2>2. task' \in TaskState /\ task'.page \in Pages
    BY <1>10, <2>1, GotoType DEF FlushWrite, EvictWrite, TypeOK, JobPcs
  <2>. QED BY <1>10, <2>1, <2>2 DEF FlushWrite, EvictWrite, TypeOK
<1>11. ASSUME FlushWriteFails PROVE TypeOK'
  <2>1. task.page \in Pages /\ docs[task.page] \in Entry
    BY <1>11 DEF FlushWriteFails, At, TypeOK, JobPcs
  <2>2. docs' \in [Pages -> Entry]
    BY <1>11, <2>1, DirtyUpdate, UpdatedType DEF FlushWriteFails, TypeOK
  <2>3. task' \in TaskState /\ (task'.pc \in JobPcs => task'.page \in Pages)
    BY <1>11, <2>1, TaskReturn, GotoType DEF FlushWriteFails, TypeOK, JobPcs
  <2>4. task.snap \in Content /\ WriteBreaks(task.page, task.snap)
    BY <1>11 DEF FlushWriteFails, TypeOK, TaskState
  <2>5. disk' \in [Pages -> Content]
    BY <2>1, <2>4, BreaksType DEF TypeOK
  <2>. QED BY <1>11, <2>2, <2>3, <2>5 DEF FlushWriteFails, TypeOK
<1>12. ASSUME FlushMark PROVE TypeOK'
  <2>. DEFINE p == task.page
  <2>1. p \in Pages /\ docs[p] \in Entry
    BY <1>12 DEF FlushMark, At, TypeOK, JobPcs
  <2>2. (docs[p].dirty /\ docs[p].gen # task.gen) \in BOOLEAN
    OBVIOUS
  <2>3. [docs[p] EXCEPT !.dirty = @ /\ docs[p].gen # task.gen, !.failed = FALSE] \in Entry
    BY <2>1, <2>2, DirtyUpdate
  <2>4. docs' \in [Pages -> Entry]
    BY <1>12, <2>1, <2>3, UpdatedType DEF FlushMark, TypeOK
  <2>5. task' \in TaskState /\ task'.page \in Pages
    BY <1>12, <2>1, GotoType DEF FlushMark, TypeOK, JobPcs
  <2>. QED BY <1>12, <2>4, <2>5 DEF FlushMark, TypeOK
<1>13. ASSUME FlushTruncate PROVE TypeOK'
  <2>1. task' \in TaskState /\ task'.page \in Pages
    BY <1>13, GotoType DEF FlushTruncate, At, TypeOK, JobPcs
  <2>. QED BY <1>13, <2>1 DEF FlushTruncate, TypeOK
<1>14. ASSUME FlushCommit \/ FlushReindexFails PROVE TypeOK'
  <2>1. task.page \in Pages /\ docs[task.page] \in Entry
    BY <1>14 DEF FlushCommit, FlushReindexFails, At, TypeOK, JobPcs
  <2>2. [docs[task.page] EXCEPT !.contrib = {}] \in Entry
    BY <2>1, DirtyUpdate
  <2>3. docs' \in [Pages -> Entry]
    BY <1>14, <2>1, <2>2 DEF FlushCommit, FlushReindexFails, TypeOK
  <2>4. task' \in TaskState /\ task'.pc \notin JobPcs
    BY <1>14, TaskReturn DEF FlushCommit, FlushReindexFails, TypeOK
  <2>. QED BY <1>14, <2>3, <2>4 DEF FlushCommit, FlushReindexFails, TypeOK
<1>15. ASSUME EvictScan PROVE TypeOK'
  <2>1. PICK S \in SUBSET Pages : task' = Walk("evict", S)
    BY <1>15 DEF EvictScan, Loaded
  <2>2. task' \in TaskState /\ task'.pc \notin JobPcs
    BY <2>1, WalkType DEF ListPcs
  <2>. QED BY <1>15, <2>2 DEF EvictScan, TypeOK
<1>16. ASSUME NEW p \in Pages, Evict(p) PROVE TypeOK'
  <2>1. task.todo \ {p} \in SUBSET Pages
    BY DEF TypeOK, TaskState
  <2>2. docs[p].doc \in Content
    BY EntryFields DEF TypeOK
  <2>3. task' \in TaskState /\ (task'.pc \in JobPcs => task'.page \in Pages)
    BY <1>16, <2>1, <2>2, EvictNextType, TaskTypes DEF Evict, JobPcs, Job
  <2>. QED BY <1>16, <2>3, UnloadedType DEF Evict, TypeOK
<1>17. ASSUME EvictWriteFails \/ EvictTruncate PROVE TypeOK'
  <2>1. task' \in TaskState /\ task'.pc \notin JobPcs
    BY <1>17, EvictNextType DEF EvictWriteFails, EvictTruncate, TypeOK, TaskState
  <2>2. task.page \in Pages /\ task.snap \in Content
    BY <1>17 DEF EvictWriteFails, EvictTruncate, At, TypeOK, TaskState, JobPcs
  <2>3. disk' \in [Pages -> Content]
    BY <1>17, <2>2, BreaksType DEF EvictWriteFails, EvictTruncate, TypeOK
  <2>. QED BY <1>17, <2>1, <2>3 DEF EvictWriteFails, EvictTruncate, TypeOK
<1>18. ASSUME Crash \/ TornCrash PROVE TypeOK'
  <2>1. Stop /\ disk' \in [Pages -> Content]
    <3>1. CASE Crash
      BY <3>1 DEF Crash, TypeOK
    <3>2. CASE TornCrash
      <4>1. task.snap \in Content
        BY DEF TypeOK, TaskState
      <4>2. PICK u \in Parts(task.snap) : disk' = [disk EXCEPT ![task.page] = u]
        BY <3>2 DEF TornCrash
      <4>. QED BY <3>2, <4>1, <4>2, PartsType DEF TornCrash, TypeOK
    <3>. QED BY <1>18, <3>1, <3>2
  <2>2. task' \in TaskState /\ task'.pc \notin JobPcs
    BY <2>1, TaskTypes DEF Stop, ListPcs, JobPcs, Walk, Idle
  <2>3. conn' \in [Conns -> ConnState] /\ \A c \in Conns : conn'[c].pc = "off"
    BY <2>1 DEF Stop, Off, ConnState
  <2>4. crashes' \in 0..MaxCrashes
    BY <2>1, BoundsAssumption DEF Stop, TypeOK
  <2>. QED BY <2>1, <2>2, <2>3, <2>4, UnloadedType DEF Stop, TypeOK
<1>19. ASSUME NEW p \in Pages, RecoverReplay(p) PROVE TypeOK'
  <2>. DEFINE t == Replay(disk[p], wal[p])
              g == Cardinality(wal[p])
  <2>1. t \in Content /\ g \in Nat
    <3>1. wal[p] \subseteq Ops
      BY DEF TypeOK
    <3>. QED BY <3>1, ReplayType, FS_Subset, FS_CardinalityType, SetsAssumption DEF TypeOK
  <2>. HIDE DEF t, g
  <2>2. [NewEntry(t) EXCEPT !.dirty = TRUE, !.gen = g] \in Entry
    BY <2>1, NewEntryType, DirtyUpdate
  <2>3. docs' \in [Pages -> Entry] /\ disk' \in [Pages -> Content]
    BY <1>19, <2>2, LoadOrGetType DEF RecoverReplay, t, g
  <2>4. task' \in TaskState /\ task'.page \in Pages
    BY <1>19, <2>1, TaskTypes DEF RecoverReplay, TypeOK, TaskState, JobPcs, Job, t, g
  <2>. QED BY <1>19, <2>3, <2>4 DEF RecoverReplay, TypeOK
<1>20. ASSUME NEW p \in Pages, RecoverPartly(p) PROVE TypeOK'
  <2>1. PICK S \in SUBSET wal[p] :
          /\ LoadOrGet(p, [NewEntry(Replay(disk[p], S)) EXCEPT !.dirty = (S # {}),
                                                               !.gen = Cardinality(S)])
          /\ task' = Job(IF S = {} THEN "discard" ELSE "write", p, Replay(disk[p], S),
                         Cardinality(S), task.todo \ {p})
    BY <1>20 DEF RecoverPartly
  <2>. DEFINE t == Replay(disk[p], S)
              g == Cardinality(S)
              b == (S # {})
              pc == IF S = {} THEN "discard" ELSE "write"
  <2>2. t \in Content /\ g \in Nat /\ b \in BOOLEAN /\ pc \in JobPcs
    <3>1. S \subseteq Ops
      BY DEF TypeOK
    <3>. QED
      BY <3>1, ReplayType, FS_Subset, FS_CardinalityType, SetsAssumption DEF TypeOK, JobPcs
  <2>. HIDE DEF t, g, b, pc
  <2>3. [NewEntry(t) EXCEPT !.dirty = b, !.gen = g] \in Entry
    BY <2>2, NewEntryType, DirtyUpdate
  <2>4. docs' \in [Pages -> Entry] /\ disk' \in [Pages -> Content]
    BY <2>1, <2>3, LoadOrGetType DEF t, g, b
  <2>5. task' = Job(pc, p, t, g, task.todo \ {p})
    BY <2>1 DEF t, g, pc
  <2>6. task' \in TaskState /\ task'.page \in Pages
    BY <2>2, <2>5, TaskTypes DEF TypeOK, TaskState, Job
  <2>. QED BY <1>20, <2>4, <2>6 DEF RecoverPartly, TypeOK
<1>21. ASSUME TruncateFails PROVE TypeOK'
  <2>1. task' \in TaskState /\ (task'.pc \in JobPcs => task'.page \in Pages)
    <3>1. CASE At("truncate") /\ Goto("commit")
      BY <3>1, GotoType DEF At, TypeOK, JobPcs
    <3>2. CASE At("evict truncate") /\ task' = EvictNext(task.todo)
      BY <3>2, EvictNextType DEF TypeOK, TaskState
    <3>3. CASE At("discard") /\ task' = Return
      BY <3>3, TaskReturn
    <3>. QED BY <1>21, <3>1, <3>2, <3>3 DEF TruncateFails
  <2>. QED BY <1>21, <2>1 DEF TruncateFails, TypeOK
<1>22. ASSUME NEW p \in Pages, RecoverSkip(p) PROVE TypeOK'
  <2>1. task.todo \ {p} \in SUBSET Pages
    BY DEF TypeOK, TaskState
  <2>2. task' \in TaskState /\ task'.pc \notin JobPcs
    BY <1>22, <2>1, WalkType DEF RecoverSkip, ListPcs
  <2>3. docs' \in [Pages -> Entry] /\ disk' \in [Pages -> Content]
    BY <1>22, LoadOrGetType, UnloadedType, EvictFailsType DEF RecoverSkip, TypeOK
  <2>. QED BY <1>22, <2>2, <2>3 DEF RecoverSkip, TypeOK
<1>23. ASSUME RecoverDiscard PROVE TypeOK'
  <2>1. task' \in TaskState /\ task'.pc \notin JobPcs
    BY <1>23, TaskReturn DEF RecoverDiscard
  <2>. QED BY <1>23, <2>1 DEF RecoverDiscard, TypeOK
<1>24. ASSUME Serve PROVE TypeOK'
  <2>1. task' \in TaskState /\ task'.pc \notin JobPcs
    BY <1>24, TaskTypes DEF Serve, Idle, JobPcs
  <2>. QED BY <1>24, <2>1 DEF Serve, TypeOK
<1>25. CASE UNCHANGED vars
  BY <1>25 DEF vars, TypeOK
<1>. QED
  BY <1>1, <1>2, <1>3, <1>4, <1>5, <1>6, <1>7, <1>8, <1>9, <1>10, <1>11, <1>12,
     <1>13, <1>14, <1>15, <1>16, <1>17, <1>18, <1>19, <1>20, <1>21, <1>22, <1>23,
     <1>24, <1>25
  DEF Next, CoreNext, Handler, Client, Flush, FlushFails, Eviction, Recovery

\* The store, the logs, the connections and the lifecycle task keep their
\* types, whatever fails and whenever the server stops.
THEOREM TypeCorrect == Spec => []TypeOK
  BY TypeInit, TypeStep, PTL DEF Spec

\* The two specifications without eviction take steps of the whole module.
LEMMA EditTypes == EditSpec => []TypeOK
<1>1. [EditNext]_vars => [Next]_vars
  BY DEF EditNext, Next
<1>. QED BY <1>1, TypeInit, TypeStep, PTL DEF EditSpec

LEMMA CoreTypes == CoreSpec => []TypeOK
<1>1. [CoreNext]_vars => [Next]_vars
  BY DEF Next
<1>. QED BY <1>1, TypeInit, TypeStep, PTL DEF CoreSpec
=============================================================================
