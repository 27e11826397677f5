----------------------------- MODULE PagesProofs -----------------------------
(***************************************************************************)
(* Theorems about PageWriters, for any number of pages, editors, ops,      *)
(* requests, external writes and unread events.                            *)
(***************************************************************************)
EXTENDS PageWriters, CrdtFlushProofs

\* Every action of the module, of whatever group of writers.
AnyNext ==
  RequestNextStep \/ FlushNextStep \/ SaveFlushNextStep \/ ApiNextStep

LEMMA Room == RoomForAll
  BY PagesAssumption DEF RoomForAll

LEMMA PageBounds ==
  /\ Spelled \subseteq Pages /\ MaxExternal \in Nat
  /\ MaxFailures \in Nat /\ MaxEvents \in Nat /\ MaxEvents >= 1
  BY PagesAssumption

-----------------------------------------------------------------------------
(* Type correctness.  The parts of PagesTypeOK, each with the variables of *)
(* one actor, and what a save must know of its page.                       *)

WatchState ==
  [pc : {"rest", "scanned", "changed", "walk", "reconcile"},
   work : SUBSET Pages, page : Pages \cup {NoPage},
   exists : BOOLEAN, scan : VaultState]

SaveState ==
  [pc : {"new", "written", "checked", "stored", "scanned", "done"},
   page : Pages \cup {NoPage}, body : Bodies \cup {NoBody}, scan : VaultState]

FilesType ==
  /\ files \in SUBSET Pages /\ pending \in SUBSET Pages
  /\ events \in [Pages -> 0..MaxEvents]
WatcherType ==
  /\ batch \in SUBSET Pages /\ queue \in Seq((SUBSET Pages) \ {{}})
  /\ watch \in WatchState
IndexType == index \in VaultState /\ rescan \in VaultState
SaveType  == save \in [Saves -> SaveState]
OwedType  == owed \in [Pages -> SUBSET Ops]

SavePages == \A s \in Saves : save[s].pc \in {"written", "checked"} => save[s].page \in Pages

PagesTypeInv ==
  /\ TypeOK
  /\ FilesType /\ WatcherType /\ IndexType /\ SaveType /\ OwedType
  /\ external \in 0..MaxExternal /\ failures \in 0..MaxFailures
  /\ SavePages

LEMMA PagesTypeInvImplies == PagesTypeInv => PagesTypeOK
  BY DEF PagesTypeInv, PagesTypeOK, FilesType, WatcherType, IndexType, SaveType,
         OwedType, WatchState, SaveState
LEMMA VaultType ==
  ASSUME TypeOK, FilesType PROVE Vault \in VaultState
  BY DEF Vault, VaultState, TypeOK, FilesType

LEMMA NoScanType == NoScan \in VaultState
  BY BlankType DEF NoScan, VaultState

LEMMA UnreadType ==
  ASSUME FilesType, NEW p \in Pages, NEW n \in Nat, Unread(p, n)
  PROVE  events' \in [Pages -> 0..MaxEvents]
<1>1. (IF n > MaxEvents THEN MaxEvents ELSE n) \in 0..MaxEvents
  BY PageBounds
<1>. QED BY <1>1 DEF Unread, FilesType

LEMMA FailureType ==
  ASSUME PagesTypeInv, Failure PROVE failures' \in 0..MaxFailures
  BY PageBounds DEF PagesTypeInv, Failure

\* The files and events that a write leaves which fails under its entry.
LEMMA FailsUnderEntryType ==
  ASSUME FilesType, NEW p \in Pages, FailsUnderEntry(p)
  PROVE  FilesType' /\ files \subseteq files'
<1>1. events[p] \in Nat
  BY PageBounds DEF FilesType
<1>2. ASSUME NEW k \in 0..2, RaiseUnderEntry(p, k)
      PROVE  events' \in [Pages -> 0..MaxEvents]
  <2>1. events[p] + k \in Nat /\ (events[p] + k > 0 => events[p] + k - 1 \in Nat)
    <3>1. \A e \in Nat : e + k \in Nat /\ (e + k > 0 => e + k - 1 \in Nat)
      OBVIOUS
    <3>. QED BY <1>1, <3>1, Zenon
  <2>2. \A n \in Nat : Unread(p, n) => events' \in [Pages -> 0..MaxEvents]
    BY UnreadType
  <2>3. CASE Unread(p, events[p] + k)
    BY <2>1, <2>2, <2>3
  <2>4. CASE events[p] + k > 0 /\ \E n \in {0, events[p] + k - 1} : Unread(p, n)
    <3>1. 0 \in Nat
      OBVIOUS
    <3>. QED BY <2>1, <2>2, <2>4, <3>1, Zenon
  <2>. QED BY <1>2, <2>3, <2>4, Zenon DEF RaiseUnderEntry
<1>3. CASE UNCHANGED <<disk, files, events, pending>>
  BY <1>3 DEF FilesType
<1>4. CASE /\ pending' = pending \ {p}
           /\ UNCHANGED <<disk, files>> /\ RaiseUnderEntry(p, 0)
  BY <1>2, <1>4 DEF FilesType
<1>5. CASE /\ pending' = pending \ {p}
           /\ files' = files \cup {p} /\ \E k \in 1..2 : RaiseUnderEntry(p, k)
  <2>1. PICK k \in 1..2 : RaiseUnderEntry(p, k)
    BY <1>5
  <2>2. k \in 0..2
    OBVIOUS
  <2>. QED BY <1>2, <1>5, <2>1, <2>2 DEF FilesType
<1>. QED BY <1>3, <1>4, <1>5 DEF FailsUnderEntry

LEMMA RaiseType ==
  ASSUME FilesType, NEW p \in Pages, Raise(p)
  PROVE  events' \in [Pages -> 0..MaxEvents] /\ events'[p] > 0
<1>1. PICK n \in 1..2 :
        events' = [events EXCEPT ![p] = IF events[p] + n > MaxEvents
                                        THEN MaxEvents ELSE events[p] + n]
  BY DEF Raise, Unread
<1>2. events \in [Pages -> 0..MaxEvents] /\ events[p] \in 0..MaxEvents
  BY DEF FilesType
<1>. QED BY <1>1, <1>2, PageBounds

LEMMA RestingType ==
  /\ Resting \in WatchState
  /\ \A pc \in {"scanned"}, S \in SUBSET Pages, v \in VaultState :
       [Resting EXCEPT !.pc = pc, !.work = S, !.scan = v] \in WatchState
<1>1. /\ "rest" \in {"rest", "scanned", "changed", "walk", "reconcile"}
      /\ {} \in SUBSET Pages /\ NoPage \in Pages \cup {NoPage}
      /\ FALSE \in BOOLEAN
  OBVIOUS
<1>2. Resting \in WatchState
  BY <1>1, NoScanType DEF Resting, WatchState
<1>. QED BY <1>2 DEF WatchState

LEMMA WatchUpdate ==
  ASSUME NEW w \in WatchState, NEW p \in Pages, NEW b \in BOOLEAN
  PROVE  /\ [w EXCEPT !.pc = "changed"] \in WatchState
         /\ [w EXCEPT !.pc = "walk", !.scan = NoScan] \in WatchState
         /\ [w EXCEPT !.work = @ \ {p}] \in WatchState
         /\ [w EXCEPT !.work = @ \ {p}, !.pc = "reconcile", !.page = p, !.exists = b]
              \in WatchState
         /\ [w EXCEPT !.pc = "walk", !.page = NoPage, !.exists = FALSE] \in WatchState
  BY NoScanType DEF WatchState

\* A step of somebody who has no part in the editing core.
LEMMA CoreUpdate ==
  ASSUME TypeOK, UNCHANGED core, disk' \in [Pages -> Content],
         docs' \in [Pages -> Entry], spent' \in SUBSET Bodies
  PROVE  TypeOK'
  BY DEF TypeOK, core

LEMMA PagesTypeInit == PagesInit => PagesTypeInv
<1>. SUFFICES ASSUME PagesInit PROVE PagesTypeInv
  OBVIOUS
<1>1. TypeOK
  BY TypeInit DEF PagesInit
<1>2. FilesType
  BY PageBounds DEF PagesInit, FilesType
<1>3. index \in VaultState /\ rescan \in VaultState
  BY <1>1, <1>2, VaultType, NoScanType DEF PagesInit
<1>4. WatcherType
  <2>1. <<>> \in Seq((SUBSET Pages) \ {{}})
    OBVIOUS
  <2>. QED BY <2>1, RestingType DEF PagesInit, WatcherType
<1>5. NoSave \in SaveState /\ NoSave.pc = "new"
  BY NoScanType DEF NoSave, SaveState
<1>6. SaveType /\ SavePages
  BY <1>5 DEF PagesInit, SaveType, SavePages
<1>. QED
  BY <1>1, <1>2, <1>3, <1>4, <1>6, PageBounds
  DEF PagesInit, PagesTypeInv, IndexType, OwedType
\* Other programs.
LEMMA OutsideType ==
  ASSUME PagesTypeInv, NEW p \in Pages,
         \/ \E t \in Content : ExternalWrite(p, t) /\ Shown(t) \subseteq Bodies
         \/ ExternalDelete(p)
  PROVE  PagesTypeInv'
<1>1. /\ disk' \in [Pages -> Content] /\ spent' \in SUBSET Bodies
      /\ UNCHANGED <<core, docs>>
  BY BlankType DEF PagesTypeInv, TypeOK, ExternalWrite, ExternalDelete, core, inputs
<1>2. TypeOK'
  BY <1>1, CoreUpdate DEF PagesTypeInv, TypeOK
<1>3. FilesType'
  BY RaiseType DEF PagesTypeInv, FilesType, ExternalWrite, ExternalDelete
<1>4. external' \in 0..MaxExternal
  BY PageBounds DEF PagesTypeInv, ExternalWrite, ExternalDelete
<1>. QED
  BY <1>2, <1>3, <1>4
  DEF PagesTypeInv, WatcherType, IndexType, SaveType, OwedType, SavePages,
      ExternalWrite, ExternalDelete, watcher

LEMMA OutsideWrites ==
  ASSUME TypeOK, Outside
  PROVE  \E p \in Pages, t \in Content : ExternalWrite(p, t) /\ Shown(t) \subseteq Bodies
<1>1. Shown(Blank) \subseteq Bodies
  BY DEF Shown, Blank
<1>2. \A b \in Bodies : Shown(Whole(b)) \subseteq Bodies
  BY DEF Shown, Whole
<1>. QED BY <1>1, <1>2, BlankType, WholeType DEF Outside

\* The editing core, and the flush pipeline with the files that it writes.
LEMMA EditType ==
  ASSUME PagesTypeInv, NEW c \in Conns, Edit(c)
  PROVE  PagesTypeInv'
<1>1. TypeOK'
  <2>1. Handler(c) \/ Client(c)
    BY DEF Edit
  <2>2. Next
    BY <2>1 DEF Next, CoreNext
  <2>. QED BY <2>2, TypeStep DEF PagesTypeInv
<1>2. OwedType'
  <2>1. conn[c].pc = "logged" => conn[c].op \in Ops
    BY DEF PagesTypeInv, TypeOK
  <2>. QED BY <2>1 DEF Edit, PagesTypeInv, OwedType
<1>. QED
  BY <1>1, <1>2
  DEF PagesTypeInv, FilesType, WatcherType, IndexType, SaveType, SavePages, Edit, watcher

LEMMA StartType ==
  ASSUME PagesTypeInv, Start PROVE PagesTypeInv'
<1>1. Next
  BY DEF Start, Next, CoreNext, Recovery
<1>2. TypeOK'
  BY <1>1, TypeStep DEF PagesTypeInv
<1>. QED
  BY <1>2
  DEF PagesTypeInv, FilesType, WatcherType, IndexType, SaveType, OwedType, SavePages,
      Start, pageVars, watcher

LEMMA PipelineType ==
  ASSUME PagesTypeInv, Pipeline PROVE PagesTypeInv'
<1>1. Flush \/ FlushFails
  BY DEF Pipeline, PipelineSerialize, PipelineWrite, PipelineWriteFails, PipelineMark,
         PipelineScan, PipelineSwap, PipelineScanFails, Flush, FlushFails
<1>2. TypeOK'
  <2>1. Next
    BY <1>1 DEF Next, CoreNext
  <2>. QED BY <2>1, TypeStep DEF PagesTypeInv
<1>3. CASE PipelineWrite
  <2>1. task.page \in Pages
    BY <1>3 DEF PipelineWrite, FlushWrite, At, JobPcs, PagesTypeInv, TypeOK
  <2>2. FilesType'
    BY <1>3, <2>1, RaiseType DEF PipelineWrite, PagesTypeInv, FilesType
  <2>3. OwedType'
    BY <1>3 DEF PipelineWrite, PagesTypeInv, OwedType
  <2>. QED
    BY <1>2, <1>3, <2>2, <2>3
    DEF PipelineWrite, PagesTypeInv, WatcherType, IndexType, SaveType, SavePages, watcher
<1>4. CASE PipelineMark
  <2>1. FilesType'
    BY <1>4 DEF PipelineMark, PagesTypeInv, FilesType
  <2>. QED
    BY <1>2, <1>4, <2>1
    DEF PipelineMark, PagesTypeInv, WatcherType, IndexType, SaveType, OwedType, SavePages,
        watcher
<1>7. CASE PipelineWriteFails
  <2>1. task.page \in Pages
    BY <1>7 DEF PipelineWriteFails, FlushWriteFails, At, JobPcs, PagesTypeInv, TypeOK
  <2>2. FilesType'
    BY <1>7, <2>1, FailsUnderEntryType DEF PipelineWriteFails, PagesTypeInv
  <2>3. OwedType'
    BY <1>7 DEF PipelineWriteFails, PagesTypeInv, OwedType
  <2>4. failures' \in 0..MaxFailures
    BY <1>7, FailureType DEF PipelineWriteFails
  <2>. QED
    BY <1>2, <1>7, <2>2, <2>3, <2>4
    DEF PipelineWriteFails, PagesTypeInv, WatcherType, IndexType, SaveType, SavePages,
        watcher
<1>5. CASE PipelineScan \/ PipelineSwap
  <2>1. IndexType'
    BY <1>5, VaultType, NoScanType DEF PipelineScan, PipelineSwap, PagesTypeInv, IndexType
  <2>. QED
    BY <1>2, <1>5, <2>1
    DEF PipelineScan, PipelineSwap, PagesTypeInv, FilesType, WatcherType, SaveType,
        OwedType, SavePages, watcher
<1>6. CASE UNCHANGED pageVars
  BY <1>2, <1>6
  DEF PagesTypeInv, FilesType, WatcherType, IndexType, SaveType, OwedType, SavePages,
      pageVars, watcher
<1>. QED
  BY <1>3, <1>4, <1>5, <1>6, <1>7 DEF Pipeline, PipelineSerialize, PipelineScanFails

\* Requests.
LEMMA SaveStepType ==
  ASSUME PagesTypeInv, NEW s \in Saves, Save(s) \/ Api(s) \/ SaveFails(s)
  PROVE  PagesTypeInv'
<1>. USE DEF PagesTypeInv
<1>1. save \in [Saves -> SaveState] /\ save[s] \in SaveState
  BY DEF SaveType
<1>2. NoSave \in SaveState /\ Saved \in SaveState /\ NoSave.pc = "new" /\ Saved.pc = "done"
  BY NoScanType DEF NoSave, Saved, SaveState
<1>3. ASSUME NEW r \in SaveState, save' = [save EXCEPT ![s] = r],
             r.pc \in {"written", "checked"} => r.page \in Pages
      PROVE  SaveType' /\ SavePages'
  BY <1>1, <1>3 DEF SaveType, SavePages
<1>4. ASSUME NEW pc \in {"stored", "scanned"}, NEW v \in VaultState,
             \/ save' = [save EXCEPT ![s].pc = pc]
             \/ save' = [save EXCEPT ![s].pc = pc, ![s].scan = v]
      PROVE  SaveType' /\ SavePages'
  <2>1. \/ save' = [save EXCEPT ![s] = [save[s] EXCEPT !.pc = pc]]
        \/ save' = [save EXCEPT ![s] = [save[s] EXCEPT !.pc = pc, !.scan = v]]
    BY <1>1, <1>4
  <2>2. /\ [save[s] EXCEPT !.pc = pc] \in SaveState
        /\ [save[s] EXCEPT !.pc = pc, !.scan = v] \in SaveState
        /\ [save[s] EXCEPT !.pc = pc].pc = pc
        /\ [save[s] EXCEPT !.pc = pc, !.scan = v].pc = pc
    BY <1>1 DEF SaveState
  <2>. QED BY <1>3, <2>1, <2>2
<1>5. Vault \in VaultState
  BY VaultType
<1>6. ASSUME NEW p \in Pages, NEW b \in Bodies, SaveWrite(s, p, b) \/ ApiCheck(s, p, b)
      PROVE  PagesTypeInv'
  <2>1. SaveType' /\ SavePages'
    <3>1. PICK pc \in {"written", "checked"} :
            save' = [save EXCEPT ![s] = [NoSave EXCEPT !.pc = pc, !.page = p, !.body = b]]
      BY <1>6 DEF SaveWrite, ApiCheck
    <3>2. /\ [NoSave EXCEPT !.pc = pc, !.page = p, !.body = b] \in SaveState
          /\ [NoSave EXCEPT !.pc = pc, !.page = p, !.body = b].page = p
      BY <1>2 DEF SaveState
    <3>. QED BY <1>3, <3>1, <3>2
  <2>2. /\ disk' \in [Pages -> Content] /\ spent' \in SUBSET Bodies
        /\ UNCHANGED <<core, docs>>
    BY <1>6, WholeType DEF SaveWrite, ApiCheck, TypeOK
  <2>3. TypeOK'
    BY <2>2, CoreUpdate DEF TypeOK
  <2>4. FilesType'
    BY <1>6, RaiseType DEF SaveWrite, ApiCheck, FilesType
  <2>. QED
    BY <1>6, <2>1, <2>3, <2>4
    DEF SaveWrite, ApiCheck, WatcherType, IndexType, OwedType, watcher
<1>7. ASSUME SaveReload(s) PROVE PagesTypeInv'
  <2>. DEFINE p == save[s].page
              e == Reloaded(docs[p], disk[p])
  <2>1. p \in Pages
    BY <1>7 DEF SaveReload, SavePages
  <2>2. docs[p] \in Entry /\ disk[p] \in Content
    BY <2>1 DEF TypeOK
  <2>3. e \in Entry
    <3>. HIDE DEF p
    <3>. QED BY <2>2 DEF Reloaded, Entry
  <2>4. docs' \in [Pages -> Entry]
    BY <1>7, <2>1, <2>3, UpdatedType DEF SaveReload, TypeOK
  <2>5. TypeOK'
    BY <1>7, <2>4, CoreUpdate DEF SaveReload, TypeOK
  <2>6. SaveType' /\ SavePages'
    BY <1>4, <1>5, <1>7 DEF SaveReload
  <2>. QED
    BY <1>7, <2>5, <2>6 DEF SaveReload, FilesType, WatcherType, IndexType, OwedType, watcher
<1>8. ASSUME \/ SaveScan(s) \/ SaveSwap(s) \/ SaveScanFails(s) \/ SaveReloadFails(s)
             \/ ApiConflict(s) \/ ApiIndex(s)
      PROVE  PagesTypeInv'
  <2>1. save[s].scan \in VaultState
    BY <1>1 DEF SaveState
  <2>2. SaveType' /\ SavePages'
    BY <1>2, <1>3, <1>4, <1>5, <1>8
    DEF SaveScan, SaveSwap, SaveScanFails, ApiConflict, ApiIndex, SaveReloadFails
  <2>3. FilesType' /\ IndexType'
    BY <1>8, <2>1
    DEF SaveScan, SaveSwap, SaveScanFails, ApiConflict, ApiIndex, SaveReloadFails,
        FilesType, IndexType
  <2>4. /\ TypeOK' /\ WatcherType' /\ OwedType' /\ external' \in 0..MaxExternal
        /\ failures' \in 0..MaxFailures
    BY <1>8
    DEF SaveScan, SaveSwap, SaveScanFails, ApiConflict, ApiIndex, SaveReloadFails,
        TypeOK, vars, WatcherType, OwedType, watcher
  <2>. QED BY <2>2, <2>3, <2>4
<1>9. ASSUME NEW p \in Pages,
             \/ \E t \in Content : Store(s, p, t)
             \/ ApiDelete(s, p)
      PROVE  PagesTypeInv'
  <2>1. SaveType' /\ SavePages'
    BY <1>4, <1>5, <1>9 DEF Store, ApiDelete
  <2>2. disk' \in [Pages -> Content] /\ UNCHANGED <<core, docs, spent>>
    BY <1>9, BlankType DEF Store, ApiDelete, TypeOK
  <2>3. TypeOK'
    BY <2>2, CoreUpdate DEF TypeOK
  <2>4. FilesType'
    BY <1>9, RaiseType DEF Store, ApiDelete, FilesType
  <2>. QED
    BY <1>9, <2>1, <2>3, <2>4 DEF Store, ApiDelete, WatcherType, IndexType, OwedType, watcher
<1>10. ASSUME ApiWrite(s) PROVE PagesTypeInv'
  BY <1>9, <1>10, WholeType DEF ApiWrite, SavePages
<1>11. ASSUME NEW p \in Pages, Restore(s, p) PROVE PagesTypeInv'
  BY <1>9, <1>11, BlankType DEF Restore
<1>12. ASSUME NEW p \in Pages, NEW b \in Bodies, SaveWriteFails(s, p, b)
       PROVE  PagesTypeInv'
  <2>1. SaveType' /\ SavePages'
    BY <1>2, <1>3, <1>12 DEF SaveWriteFails
  <2>2. /\ disk' \in [Pages -> Content] /\ spent' \in SUBSET Bodies
        /\ UNCHANGED <<core, docs>>
    BY <1>12, WholeType, BreaksType DEF SaveWriteFails, TypeOK
  <2>3. TypeOK'
    BY <2>2, CoreUpdate DEF TypeOK
  <2>4. FilesType' /\ failures' \in 0..MaxFailures
    BY <1>12, FailsUnderEntryType, FailureType DEF SaveWriteFails
  <2>. QED
    BY <1>12, <2>1, <2>3, <2>4
    DEF SaveWriteFails, WatcherType, IndexType, OwedType, watcher
<1>13. ASSUME NEW p \in Pages, NEW t \in Content, StoreFails(s, p, t) PROVE PagesTypeInv'
  <2>1. SaveType' /\ SavePages'
    BY <1>2, <1>3, <1>13 DEF StoreFails
  <2>2. disk' \in [Pages -> Content] /\ UNCHANGED <<core, docs, spent>>
    BY <1>13, BreaksType DEF StoreFails, TypeOK
  <2>3. TypeOK'
    BY <2>2, CoreUpdate DEF TypeOK
  <2>4. FilesType'
    BY <1>13, RaiseType DEF StoreFails, FilesType
  <2>5. failures' \in 0..MaxFailures
    BY <1>13, FailureType DEF StoreFails
  <2>. QED
    BY <1>13, <2>1, <2>3, <2>4, <2>5
    DEF StoreFails, WatcherType, IndexType, OwedType, watcher
<1>14. ASSUME ApiWriteFails(s) PROVE PagesTypeInv'
  BY <1>13, <1>14, WholeType DEF ApiWriteFails, SavePages
<1>15. ASSUME NEW p \in Pages, RestoreFails(s, p) PROVE PagesTypeInv'
  BY <1>13, <1>15, BlankType DEF RestoreFails
<1>. QED
  BY <1>6, <1>7, <1>8, <1>9, <1>10, <1>11, <1>12, <1>14, <1>15 DEF Save, Api, SaveFails

\* The watcher and its reconciler.
LEMMA ReconcileType ==
  ASSUME PagesTypeInv, NEW p \in Pages, Reconcile(p),
         docs' \in [Pages -> Entry], owed' \in [Pages -> SUBSET Ops],
         failures' \in 0..MaxFailures
  PROVE  PagesTypeInv'
<1>1. watch' \in WatchState
  BY WatchUpdate DEF PagesTypeInv, WatcherType, Reconcile
<1>2. TypeOK'
  BY CoreUpdate DEF PagesTypeInv, Reconcile, TypeOK
<1>. QED
  BY <1>1, <1>2
  DEF PagesTypeInv, Reconcile, FilesType, WatcherType, IndexType, SaveType, OwedType,
      SavePages

LEMMA WatchType ==
  ASSUME PagesTypeInv, Watch \/ WatchScanFails
  PROVE  PagesTypeInv'
<1>. USE DEF PagesTypeInv
<1>1. ASSUME NEW p \in Pages, Notice(p) PROVE PagesTypeInv'
  <2>1. FilesType'
    <3>1. events[p] \in 0..MaxEvents /\ events \in [Pages -> 0..MaxEvents]
      BY DEF FilesType
    <3>2. \A n \in {0, events[p] - 1} : events[p] > 0 => n \in 0..MaxEvents
      BY <3>1, PageBounds
    <3>3. events' \in [Pages -> 0..MaxEvents]
      BY <1>1, <3>1, <3>2 DEF Notice
    <3>. QED BY <1>1, <3>3 DEF Notice, FilesType, others
  <2>. QED
    BY <1>1, <2>1
    DEF Notice, TypeOK, vars, others, WatcherType, IndexType, SaveType, OwedType, SavePages
<1>2. ASSUME Debounce \/ WatchScan \/ WatchScanFails \/ WatchCompare \/ WatchDone
      PROVE  PagesTypeInv'
  <2>1. queue' \in Seq((SUBSET Pages) \ {{}}) /\ batch' \in SUBSET Pages
    <3>. DEFINE Batches == (SUBSET Pages) \ {{}}
    <3>1. queue \in Seq(Batches) /\ batch \in SUBSET Pages
      BY DEF WatcherType
    <3>2. CASE Debounce
      <4>1. batch \in Batches
        BY <3>1, <3>2 DEF Debounce
      <4>. HIDE DEF Batches
      <4>2. queue' \in Seq(Batches)
        BY <3>1, <3>2, <4>1 DEF Debounce
      <4>. QED BY <3>2, <4>2 DEF Debounce, Batches
    <3>3. CASE WatchScan \/ WatchScanFails
      <4>. HIDE DEF Batches
      <4>1. queue # <<>> /\ queue' = Tail(queue)
        BY <3>3 DEF WatchScan, WatchScanFails
      <4>2. queue' \in Seq(Batches)
        BY <3>1, <4>1
      <4>. QED BY <3>1, <3>3, <4>2 DEF WatchScan, WatchScanFails, Batches
    <3>. QED BY <1>2, <3>1, <3>2, <3>3 DEF WatchCompare, WatchDone
  <2>2. watch' \in WatchState
    <3>1. CASE WatchScan
      <4>1. Head(queue) \in SUBSET Pages
        <5>. DEFINE Batches == (SUBSET Pages) \ {{}}
        <5>1. queue \in Seq(Batches) /\ queue # <<>>
          BY <3>1 DEF WatcherType, WatchScan
        <5>2. Head(queue) \in Batches
          <6>. HIDE DEF Batches
          <6>. QED BY <5>1
        <5>. QED BY <5>2
      <4>. QED BY <3>1, <4>1, RestingType, VaultType DEF WatchScan
    <3>2. CASE WatchCompare
      <4>1. [watch EXCEPT !.pc = "changed"] \in WatchState
        BY DEF WatcherType, WatchState
      <4>. QED BY <3>2, <4>1, RestingType DEF WatchCompare
    <3>. QED
      BY <1>2, <3>1, <3>2, RestingType DEF Debounce, WatchScanFails, WatchDone, WatcherType
  <2>. QED
    BY <1>2, <2>1, <2>2
    DEF Debounce, WatchScan, WatchScanFails, WatchCompare, WatchDone, others, vars,
        TypeOK, FilesType, WatcherType, IndexType, SaveType, OwedType, SavePages
<1>3. ASSUME WatchSwap PROVE PagesTypeInv'
  <2>1. watch.scan \in VaultState
    BY DEF WatcherType, WatchState
  <2>2. [watch EXCEPT !.pc = "walk", !.scan = NoScan] \in WatchState
    BY NoScanType DEF WatcherType, WatchState
  <2>. QED
    BY <1>3, <2>1, <2>2
    DEF WatchSwap, vars, TypeOK, FilesType, WatcherType, IndexType, SaveType, OwedType,
        SavePages
<1>4. ASSUME NEW p \in Pages, WatchNext(p) PROVE PagesTypeInv'
  <2>1. (p \in files) \in BOOLEAN
    OBVIOUS
  <2>2. watch' \in WatchState
    BY <1>4, <2>1, WatchUpdate DEF WatchNext, WatcherType
  <2>. QED
    BY <1>4, <2>2
    DEF WatchNext, others, vars, TypeOK, FilesType, WatcherType, IndexType, SaveType,
        OwedType, SavePages
<1>5. ASSUME NEW p \in Pages,
             ReconcileNothing(p) \/ ReconcileDeleted(p) \/ ReconcileDeletedLost(p)
      PROVE  PagesTypeInv'
  <2>1. docs' \in [Pages -> Entry] /\ owed' \in [Pages -> SUBSET Ops]
    BY <1>5, UnloadedType
    DEF ReconcileNothing, ReconcileDeleted, ReconcileDeletedLost, TypeOK, OwedType
  <2>2. failures' \in 0..MaxFailures
    BY <1>5, FailureType DEF ReconcileNothing, ReconcileDeleted, ReconcileDeletedLost
  <2>. QED
    BY <1>5, <2>1, <2>2, ReconcileType
    DEF ReconcileNothing, ReconcileDeleted, ReconcileDeletedLost
<1>6. ASSUME NEW p \in Pages, ReconcileClean(p) \/ ReconcileMerge(p)
      PROVE  PagesTypeInv'
  <2>1. PICK t \in Content : docs' = [docs EXCEPT ![p].doc = t]
    <3>1. docs \in [Pages -> Entry] /\ docs[p].doc \in Content /\ disk[p] \in Content
      BY EntryFields DEF TypeOK
    <3>2. CASE ReconcileClean(p)
      BY <3>1, <3>2 DEF ReconcileClean
    <3>3. CASE ReconcileMerge(p)
      <4>1. PICK S \in SUBSET (Shown(disk[p]) \ Shown(docs[p].doc)) :
              docs' = [docs EXCEPT ![p].doc =
                         [e \in Edits |-> IF e \in S THEN disk[p][e] ELSE docs[p].doc[e]]]
        BY <3>3 DEF ReconcileMerge
      <4>2. [e \in Edits |-> IF e \in S THEN disk[p][e] ELSE docs[p].doc[e]] \in Content
        BY <3>1 DEF Content
      <4>. QED BY <4>1, <4>2
    <3>. QED BY <1>6, <3>2, <3>3
  <2>2. docs' = [docs EXCEPT ![p] = [docs[p] EXCEPT !.doc = t]]
    BY <2>1 DEF TypeOK
  <2>3. [docs[p] EXCEPT !.doc = t] \in Entry
    <3>. HIDE DEF PagesTypeInv
    <3>1. docs[p] \in Entry
      BY DEF PagesTypeInv, TypeOK
    <3>2. \A e \in Entry : [e EXCEPT !.doc = t] \in Entry
      BY DEF Entry
    <3>. QED BY <3>1, <3>2
  <2>4. /\ docs' \in [Pages -> Entry] /\ owed' \in [Pages -> SUBSET Ops]
        /\ failures' \in 0..MaxFailures
    BY <1>6, <2>2, <2>3 DEF ReconcileClean, ReconcileMerge, TypeOK, OwedType
  <2>. QED BY <1>6, <2>4, ReconcileType DEF ReconcileClean, ReconcileMerge
<1>. QED BY <1>1, <1>2, <1>3, <1>4, <1>5, <1>6 DEF Watch

LEMMA PagesTypeStep ==
  PagesTypeInv /\ [AnyNext]_allVars => PagesTypeInv'
<1>. SUFFICES ASSUME PagesTypeInv, [AnyNext]_allVars PROVE PagesTypeInv'
  OBVIOUS
<1>1. CASE Start \/ Outside \/ (\E p \in Pages : ExternalDelete(p))
  BY <1>1, StartType, OutsideType, OutsideWrites DEF PagesTypeInv
<1>2. CASE \E c \in Conns : Edit(c)
  BY <1>2, EditType
<1>3. CASE Watch \/ WatchScanFails
  BY <1>3, WatchType
<1>4. CASE Pipeline
  BY <1>4, PipelineType
<1>5. CASE \E s \in Saves : Save(s) \/ Api(s) \/ SaveFails(s)
  BY <1>5, SaveStepType
<1>6. CASE UNCHANGED allVars
  BY <1>6
  DEF allVars, vars, pageVars, watcher, PagesTypeInv, TypeOK, FilesType, WatcherType,
      IndexType, SaveType, OwedType, SavePages
<1>. QED
  BY <1>1, <1>2, <1>3, <1>4, <1>5, <1>6
  DEF AnyNext, RequestNextStep, WatchNextStep, FlushNextStep, SaveFlushNextStep,
      ApiNextStep

\* Whoever writes pages, the files and their events, the batches of the
\* watcher, the scans under way, the requests and the ops that are owed keep
\* their types.
THEOREM PagesTypeCorrect ==
  /\ WatchSpec => []PagesTypeOK
  /\ FlushSpec => []PagesTypeOK
  /\ SaveFlushSpec => []PagesTypeOK
  /\ ApiSpec => []PagesTypeOK
  /\ RequestSpec => []PagesTypeOK
<1>1. /\ [WatchNextStep]_allVars => [AnyNext]_allVars
      /\ [FlushNextStep]_allVars => [AnyNext]_allVars
      /\ [SaveFlushNextStep]_allVars => [AnyNext]_allVars
      /\ [ApiNextStep]_allVars => [AnyNext]_allVars
      /\ [RequestNextStep]_allVars => [AnyNext]_allVars
  BY DEF AnyNext, RequestNextStep
<1>. QED
  BY <1>1, PagesTypeInit, PagesTypeStep, PagesTypeInvImplies, PTL
  DEF WatchSpec, FlushSpec, SaveFlushSpec, ApiSpec, RequestSpec

-----------------------------------------------------------------------------
(* The index has the root of the vault once the watcher is quiet.          *)
(*                                                                         *)
(* As long as a change is on its way, as an event, in the debounce window  *)
(* or in a batch that was sent, the index may lag, and so may the scan     *)
(* that the reconciler compares with it.  If nothing is on its way, the    *)
(* scan under way has the root of the vault, or, when there is none, the   *)
(* index has it: that is all the comparison of roots can give.             *)

OnItsWay == (\E p \in Pages : events[p] > 0) \/ batch # {} \/ queue # <<>>

ScanIsVault  == VaultRoot(watch.scan) = VaultRoot(Vault)
IndexIsVault == VaultRoot(index) = VaultRoot(Vault)

WatchIndexInv ==
  /\ pending = {}
  /\ watch.pc \in {"scanned", "changed"} => ScanIsVault \/ OnItsWay
  /\ watch.pc \notin {"scanned", "changed"} => IndexIsVault \/ OnItsWay

\* Editors change documents and logs, and never a file.
LEMMA EditFiles ==
  ASSUME PagesTypeInv, NEW c \in Conns, Edit(c)
  PROVE  disk' = disk
<1>1. ASSUME NEW p \in Pages, Load(c, p) PROVE disk' = disk
  BY <1>1, Room, LoadWithRoom DEF Load, PagesTypeInv, TypeOK
<1>. QED
  BY <1>1
  DEF Edit, Handler, Client, Connect, ApplyOps, RecordEdit, LogOp, Disconnect

LEMMA WatchIndexInit == PagesInit => WatchIndexInv
  BY DEF PagesInit, WatchIndexInv, IndexIsVault, Resting

LEMMA WatchIndexStep ==
  PagesTypeInv /\ WatchIndexInv /\ [WatchNextStep]_allVars => WatchIndexInv'
<1>. SUFFICES ASSUME PagesTypeInv, WatchIndexInv, [WatchNextStep]_allVars
              PROVE  WatchIndexInv'
  OBVIOUS
<1>1. ASSUME UNCHANGED <<files, disk, pending, events, batch, queue, watch, index>>
      PROVE  WatchIndexInv'
  BY <1>1 DEF WatchIndexInv, OnItsWay, Vault, ScanIsVault, IndexIsVault
<1>2. CASE Start
  BY <1>1, <1>2 DEF Start, Serve, pageVars, watcher
<1>3. ASSUME NEW c \in Conns, Edit(c) PROVE WatchIndexInv'
  BY <1>1, <1>3, EditFiles DEF Edit, watcher
<1>4. ASSUME NEW p \in Pages,
             (\E t : ExternalWrite(p, t)) \/ ExternalDelete(p)
      PROVE  WatchIndexInv'
  <2>1. OnItsWay'
    BY <1>4, RaiseType DEF ExternalWrite, ExternalDelete, PagesTypeInv, OnItsWay
  <2>2. pending' = {}
    BY <1>4 DEF ExternalWrite, ExternalDelete, WatchIndexInv
  <2>. QED BY <2>1, <2>2 DEF WatchIndexInv
<1>5. ASSUME NEW p \in Pages, Notice(p) PROVE WatchIndexInv'
  <2>1. batch' # {} /\ pending' = {}
    BY <1>5 DEF Notice, WatchIndexInv
  <2>. QED BY <2>1 DEF WatchIndexInv, OnItsWay
<1>6. CASE Debounce
  <2>1. queue' # <<>>
    <3>1. queue \in Seq((SUBSET Pages) \ {{}}) /\ batch \in (SUBSET Pages) \ {{}}
      BY <1>6 DEF Debounce, PagesTypeInv, WatcherType
    <3>2. queue' = Append(queue, batch)
      BY <1>6 DEF Debounce
    <3>. DEFINE Batches == (SUBSET Pages) \ {{}}
    <3>. HIDE DEF Batches
    <3>3. queue \in Seq(Batches) /\ batch \in Batches
      BY <3>1 DEF Batches
    <3>. QED BY <3>2, <3>3
  <2>. QED BY <1>6, <2>1 DEF Debounce, WatchIndexInv, OnItsWay
<1>7. CASE WatchScan
  <2>1. watch'.pc = "scanned" /\ watch'.scan = Vault
    BY <1>7 DEF WatchScan, Resting
  <2>2. Vault' = Vault /\ pending' = {}
    BY <1>7 DEF WatchScan, others, vars, Vault, WatchIndexInv
  <2>. QED BY <2>1, <2>2 DEF WatchIndexInv, ScanIsVault
<1>8. CASE WatchCompare
  <2>1. \/ VaultRoot(watch.scan) = VaultRoot(index) /\ watch' = Resting
        \/ watch' = [watch EXCEPT !.pc = "changed"]
    BY <1>8 DEF WatchCompare
  <2>2. /\ Resting.pc = "rest"
        /\ [watch EXCEPT !.pc = "changed"].pc = "changed"
        /\ [watch EXCEPT !.pc = "changed"].scan = watch.scan
    BY DEF Resting, PagesTypeInv, WatcherType, WatchState
  <2>3. UNCHANGED <<Vault, OnItsWay, index, pending>> /\ watch.pc = "scanned"
    BY <1>8 DEF WatchCompare, others, vars, Vault, OnItsWay
  <2>4. VaultRoot(index)' = VaultRoot(index) /\ VaultRoot(Vault)' = VaultRoot(Vault)
    BY <2>3 DEF VaultRoot
  <2>5. CASE VaultRoot(watch.scan) = VaultRoot(index) /\ watch' = Resting
    <3>1. ScanIsVault => IndexIsVault'
      BY <2>4, <2>5 DEF ScanIsVault, IndexIsVault
    <3>. QED BY <2>2, <2>3, <2>5, <3>1 DEF WatchIndexInv
  <2>6. CASE watch' = [watch EXCEPT !.pc = "changed"]
    <3>1. watch'.pc = "changed" /\ watch'.scan = watch.scan
      BY <2>2, <2>6
    <3>2. VaultRoot(watch.scan)' = VaultRoot(watch.scan)
      BY <3>1 DEF VaultRoot
    <3>3. ScanIsVault' = ScanIsVault
      BY <2>4, <3>2 DEF ScanIsVault
    <3>. QED BY <2>3, <3>1, <3>3 DEF WatchIndexInv
  <2>. QED BY <2>1, <2>5, <2>6
<1>9. CASE WatchSwap
  <2>1. watch'.pc = "walk"
    BY <1>9 DEF WatchSwap, PagesTypeInv, WatcherType, WatchState
  <2>2. UNCHANGED <<Vault, OnItsWay, pending>> /\ watch.pc = "changed" /\ index' = watch.scan
    BY <1>9 DEF WatchSwap, vars, Vault, OnItsWay
  <2>3. VaultRoot(index)' = VaultRoot(watch.scan) /\ VaultRoot(Vault)' = VaultRoot(Vault)
    BY <2>2 DEF VaultRoot
  <2>4. ScanIsVault => IndexIsVault'
    BY <2>3 DEF ScanIsVault, IndexIsVault
  <2>. QED BY <2>1, <2>2, <2>4 DEF WatchIndexInv
<1>10. ASSUME watch.pc \notin {"scanned", "changed"},
              watch'.pc \notin {"scanned", "changed"},
              UNCHANGED <<files, disk, pending, events, batch, queue, index>>
       PROVE  WatchIndexInv'
  BY <1>10 DEF WatchIndexInv, OnItsWay, Vault, IndexIsVault
<1>11. ASSUME NEW p \in Pages, WatchNext(p) PROVE WatchIndexInv'
  <2>1. watch'.pc \in {"walk", "reconcile"}
    BY <1>11 DEF WatchNext, PagesTypeInv, WatcherType, WatchState
  <2>. QED BY <1>10, <1>11, <2>1 DEF WatchNext, others, vars
<1>12. CASE WatchDone
  BY <1>10, <1>12 DEF WatchDone, Resting, others, vars
<1>13. ASSUME NEW p \in Pages, Reconcile(p) PROVE WatchIndexInv'
  <2>1. watch'.pc = "walk"
    BY <1>13 DEF Reconcile, PagesTypeInv, WatcherType, WatchState
  <2>. QED BY <1>10, <1>13, <2>1 DEF Reconcile
<1>14. CASE UNCHANGED allVars
  BY <1>1, <1>14 DEF allVars, vars, pageVars, watcher
<1>. QED
  BY <1>2, <1>3, <1>4, <1>5, <1>6, <1>7, <1>8, <1>9, <1>11, <1>12, <1>13, <1>14
  DEF WatchNextStep, Outside, Watch, ReconcileNothing, ReconcileDeleted,
      ReconcileDeletedLost, ReconcileClean, ReconcileMerge

LEMMA WatchTypes == WatchSpec => []PagesTypeInv
<1>1. [WatchNextStep]_allVars => [AnyNext]_allVars
  BY DEF AnyNext, RequestNextStep
<1>. QED BY <1>1, PagesTypeInit, PagesTypeStep, PTL DEF WatchSpec

\* However the writes and deletions of other programs fall between the steps
\* of the watcher, once it is quiet the index has the root of the vault: no
\* change of the root that comes during a scan is lost.
THEOREM WatcherLeavesNothingBehind == WatchSpec => []QuietIndexIsCurrent
<1>1. WatchIndexInv => QuietIndexIsCurrent
  BY DEF WatchIndexInv, QuietIndexIsCurrent, Quiet, OnItsWay, IndexIsVault
<1>. QED BY <1>1, WatchIndexInit, WatchIndexStep, WatchTypes, PTL DEF WatchSpec

-----------------------------------------------------------------------------
(* Nobody's work is dropped.                                               *)
(*                                                                         *)
(* A step of a handler, a request or the watcher keeps what is owed in     *)
(* hand, or it is one of the two exceptions: no invariant is needed.  The  *)
(* flush pipeline needs one.  Its mark clears the flag, and must know that *)
(* the write has paid what was owed; a write that fails must leave what it *)
(* takes out of the file in a dirty document.  SnapshotCovers says so: as  *)
(* long as the generation of the document is that of the snapshot, the     *)
(* snapshot shows all that is owed, and after the write nothing is owed;   *)
(* and until the write the document is dirty and shows the snapshot's ops. *)
(* FileCovers says that a loaded document shows the ops of its file.       *)
(* Where the pipeline runs no file is deleted here, and no save reloads a  *)
(* document: a document once loaded stays.                                 *)

OwedKept ==
  \A p \in Pages : \A o \in owed'[p] :
    InHand(p, o)' \/ (o \in owed[p] /\ ~InHand(p, o))

\* What a step leaves in a document, and what of it the task may rely on.
KeepsOps(q) == \A o \in Ops : docs[q].doc[o] > 0 => docs'[q].doc[o] > 0

StepOf(q) ==
  /\ docs[q].in => /\ docs'[q].in /\ docs'[q].gen >= docs[q].gen
                   /\ docs'[q].gen = docs[q].gen => owed'[q] \subseteq owed[q]
  /\ docs[q].in /\ docs[q].dirty => docs'[q].dirty /\ KeepsOps(q)
  /\ docs'[q].in => docs'[q].doc = disk[q] \/ (docs[q].in /\ KeepsOps(q))

DocumentsGrow == \A q \in Pages : StepOf(q)

LEMMA SameStep ==
  ASSUME PagesTypeInv, NEW q \in Pages, owed'[q] = owed[q],
         docs'[q].in = docs[q].in, docs'[q].doc = docs[q].doc,
         docs'[q].dirty = docs[q].dirty, docs'[q].gen = docs[q].gen
  PROVE  StepOf(q) /\ \A o \in owed'[q] : InHand(q, o)' = InHand(q, o)
<1>1. docs[q].gen \in Nat
  BY EntryFields DEF PagesTypeInv, TypeOK
<1>2. docs[q].gen >= docs[q].gen
  BY <1>1
<1>. QED BY <1>2 DEF StepOf, KeepsOps, InHand

\* A step of one document: the others are as they were, and owe no more.
LEMMA OneDocument ==
  ASSUME PagesTypeInv, NEW p \in Pages,
         \A q \in Pages \ {p} : docs'[q] = docs[q] /\ owed'[q] = owed[q]
  PROVE  /\ StepOf(p) => DocumentsGrow
         /\ (\A o \in owed'[p] : InHand(p, o)' \/ (o \in owed[p] /\ ~InHand(p, o)))
              => OwedKept
<1>1. \A q \in Pages \ {p} : StepOf(q) /\ \A o \in owed'[q] : InHand(q, o)' = InHand(q, o)
  BY SameStep
<1>2. StepOf(p) => DocumentsGrow
  BY <1>1 DEF DocumentsGrow
<1>3. ASSUME \A o \in owed'[p] : InHand(p, o)' \/ (o \in owed[p] /\ ~InHand(p, o)),
             NEW q \in Pages, NEW o \in owed'[q]
      PROVE  InHand(q, o)' \/ (o \in owed[q] /\ ~InHand(q, o))
  BY <1>1, <1>3
<1>4. (\A o \in owed'[p] : InHand(p, o)' \/ (o \in owed[p] /\ ~InHand(p, o))) => OwedKept
  BY <1>3 DEF OwedKept
<1>. QED BY <1>2, <1>4

LEMMA SameTextsOwed ==
  ASSUME PagesTypeInv, SameTexts, owed' = owed
  PROVE  OwedKept /\ DocumentsGrow
<1>1. \A q \in Pages : StepOf(q) /\ \A o \in owed'[q] : InHand(q, o)' = InHand(q, o)
  BY SameStep DEF SameTexts
<1>2. DocumentsGrow
  BY <1>1 DEF DocumentsGrow
<1>3. ASSUME NEW q \in Pages, NEW o \in owed'[q]
      PROVE  InHand(q, o)' \/ (o \in owed[q] /\ ~InHand(q, o))
  BY <1>1, <1>3
<1>. QED BY <1>2, <1>3 DEF OwedKept

LEMMA SameDocuments ==
  ASSUME PagesTypeInv, UNCHANGED <<docs, owed>>
  PROVE  OwedKept /\ DocumentsGrow
  BY SameTextsOwed DEF SameTexts

\* An edit leaves the document dirty and moves its generation on.
LEMMA MarkedStep ==
  ASSUME PagesTypeInv, NEW p \in Pages, docs[p].in,
         docs'[p].in, docs'[p].dirty = TRUE, docs'[p].gen = docs[p].gen + 1, KeepsOps(p)
  PROVE  StepOf(p)
<1>1. docs[p].gen \in Nat
  BY EntryFields DEF PagesTypeInv, TypeOK
<1>2. docs'[p].gen >= docs[p].gen /\ docs'[p].gen # docs[p].gen
  BY <1>1
<1>. QED BY <1>2 DEF StepOf

\* An op that is applied is owed, shown, and moves the generation on.
LEMMA EditOwed ==
  ASSUME PagesTypeInv, NEW c \in Conns, Edit(c)
  PROVE  OwedKept /\ DocumentsGrow /\ task' = task
<1>1. /\ TypeOK /\ docs \in [Pages -> Entry] /\ owed \in [Pages -> SUBSET Ops]
      /\ conn \in [Conns -> ConnState]
  BY DEF PagesTypeInv, TypeOK, OwedType
<1>2. task' = task
  BY DEF Edit, Handler, Client, Connect, ApplyOps, RecordEdit, Load, LogOp, Disconnect
<1>3. conn[c].pc # "logged" => owed' = owed
  BY <1>1 DEF Edit
<1>4. CASE Connect(c) \/ Disconnect(c)
  <2>1. owed' = owed
    BY <1>3, <1>4 DEF Connect, Disconnect
  <2>. QED BY <1>1, <1>2, <1>4, <2>1, ConnectTexts, SameTextsOwed
<1>5. CASE RecordEdit(c)
  <2>. PICK p \in Pages : p = conn[c].page
    BY <1>1, <1>5 DEF RecordEdit, TypeOK
  <2>. DEFINE e == Touched(docs[p])
  <2>1. p \in Pages /\ owed' = owed /\ Updated(p, e)
    BY <1>1, <1>3, <1>5 DEF RecordEdit, TypeOK
  <2>2. /\ e.in = docs[p].in /\ e.doc = docs[p].doc /\ e.dirty = TRUE
        /\ e.gen = docs[p].gen + 1
    BY <1>1, <2>1, TouchedFields
  <2>. HIDE DEF e
  <2>3. /\ docs[p].in => docs'[p] = e
        /\ ~docs[p].in => docs'[p] = docs[p]
        /\ \A q \in Pages \ {p} : docs'[q] = docs[q]
    BY <1>1, <2>1, UpdatedOthers
  <2>4. CASE docs[p].in
    <3>1. StepOf(p)
      BY <2>1, <2>2, <2>3, <2>4, MarkedStep DEF KeepsOps
    <3>2. \A o \in owed'[p] : InHand(p, o)' \/ (o \in owed[p] /\ ~InHand(p, o))
      BY <2>1, <2>2, <2>3, <2>4 DEF InHand
    <3>. QED BY <1>2, <2>1, <2>3, <3>1, <3>2, OneDocument
  <2>5. CASE ~docs[p].in
    <3>1. SameTexts
      BY <2>1, <2>3, <2>5 DEF SameTexts
    <3>. QED BY <1>2, <2>1, <3>1, SameTextsOwed
  <2>. QED BY <2>4, <2>5
<1>6. CASE ApplyOps(c)
  <2>. PICK p \in Pages : p = conn[c].page
    BY <1>6 DEF ApplyOps, PagesTypeInv, TypeOK
  <2>. DEFINE o == conn[c].op
              t == Apply(docs[p].doc, o)
              U == docs[p].contrib \cup {c}
              d == [docs[p] EXCEPT !.doc = t, !.contrib = U]
              e == Touched(d)
  <2>1. p \in Pages /\ o \in Ops /\ Updated(p, e)
    BY <1>6 DEF ApplyOps, PagesTypeInv, TypeOK
  <2>2. docs[p] \in Entry /\ docs[p].doc \in Content /\ U \in SUBSET Conns
    BY <1>1, <2>1, EntryFields
  <2>3. t \in Content /\ t[o] > 0 /\ \A x \in Ops \ {o} : t[x] = docs[p].doc[x]
    <3>1. t \in Content
      BY <2>1, <2>2, ApplyType
    <3>2. t = [docs[p].doc EXCEPT ![o] = docs[p].doc[o] + 1] /\ docs[p].doc[o] \in Nat
      BY <2>1, <2>2 DEF Apply, Content, Edits
    <3>3. docs[p].doc \in [Edits -> Nat] /\ Ops \subseteq Edits
      BY <2>2 DEF Content, Edits
    <3>. HIDE DEF t, o
    <3>4. o \in Edits /\ \A x \in Ops : x \in Edits
      BY <2>1, <3>3
    <3>5. t[o] = docs[p].doc[o] + 1
      BY <3>2, <3>3, <3>4
    <3>6. t[o] > 0
      BY <3>2, <3>5
    <3>7. \A x \in Ops \ {o} : t[x] = docs[p].doc[x]
      BY <3>2, <3>3, <3>4
    <3>. QED BY <3>1, <3>6, <3>7
  <2>. HIDE DEF o, t, U
  <2>4. d \in Entry /\ d.in = docs[p].in /\ d.doc = t /\ d.gen = docs[p].gen
    <3>1. d \in Entry
      BY <2>2, <2>3, DocUpdate
    <3>2. d.in = docs[p].in /\ d.doc = t /\ d.gen = docs[p].gen
      BY <2>2, <2>3, DocFields
    <3>. QED BY <3>1, <3>2
  <2>. HIDE DEF d
  <2>5. e.in = docs[p].in /\ e.doc = t /\ e.dirty = TRUE /\ e.gen = docs[p].gen + 1
    BY <2>4, TouchedFields
  <2>. HIDE DEF e
  <2>6. /\ docs[p].in => docs'[p] = e
        /\ ~docs[p].in => docs'[p] = docs[p]
        /\ \A q \in Pages \ {p} : docs'[q] = docs[q]
    BY <1>1, <2>1, UpdatedOthers
  <2>7. /\ owed'[p] = IF docs[p].in THEN owed[p] \cup {o} ELSE owed[p]
        /\ \A q \in Pages \ {p} : owed'[q] = owed[q]
    <3>1. owed' = [q \in Pages |-> IF conn[c].pc = "logged" /\ conn[c].page = q /\ docs[q].in
                                   THEN owed[q] \cup {conn[c].op} ELSE owed[q]]
      BY DEF Edit
    <3>2. conn[c].pc = "logged" /\ conn[c].page = p /\ conn[c].op = o
      BY <1>6 DEF ApplyOps, o
    <3>. QED BY <2>1, <3>1, <3>2
  <2>8. CASE docs[p].in
    <3>1. docs'[p] = e /\ owed'[p] = owed[p] \cup {o} /\ owed[p] \subseteq Ops
      BY <1>1, <2>1, <2>6, <2>7, <2>8
    <3>2. KeepsOps(p)
      BY <2>3, <2>5, <3>1 DEF KeepsOps
    <3>3. StepOf(p)
      BY <2>1, <2>5, <2>8, <3>1, <3>2, MarkedStep
    <3>4. \A x \in owed'[p] : InHand(p, x)' \/ (x \in owed[p] /\ ~InHand(p, x))
      BY <2>3, <2>5, <2>8, <3>1 DEF InHand
    <3>. QED BY <1>2, <2>1, <2>6, <2>7, <3>3, <3>4, OneDocument
  <2>9. CASE ~docs[p].in
    <3>1. docs'[p] = docs[p] /\ owed'[p] = owed[p]
      BY <2>6, <2>7, <2>9
    <3>2. SameTexts
      BY <2>1, <2>6, <3>1 DEF SameTexts
    <3>3. owed' = owed
      <4>1. owed' = [q \in Pages |-> owed'[q]]
        BY DEF Edit
      <4>2. \A q \in Pages : owed'[q] = owed[q]
        BY <2>7, <3>1
      <4>. QED BY <1>1, <4>1, <4>2
    <3>. QED BY <1>2, <3>2, <3>3, SameTextsOwed
  <2>. QED BY <2>8, <2>9
<1>7. ASSUME NEW p \in Pages, Load(c, p) PROVE OwedKept /\ DocumentsGrow
  <2>1. owed' = owed
    BY <1>3, <1>7 DEF Load
  <2>2. CASE docs' = docs
    BY <2>1, <2>2, SameDocuments
  <2>3. CASE LoadOrGet(p, NewEntry(disk[p]))
    <3>1. /\ ~docs[p].in /\ docs'[p] = NewEntry(disk[p])
          /\ \A q \in Pages \ {p} : docs'[q] = docs[q]
      BY <1>1, <2>3, Room, LoadWithRoom
    <3>2. docs'[p].doc = disk[p]
      BY <3>1, NewEntryFields
    <3>3. StepOf(p)
      BY <3>1, <3>2 DEF StepOf
    <3>4. \A o \in owed'[p] : o \in owed[p] /\ ~InHand(p, o)
      BY <2>1, <3>1 DEF InHand
    <3>. QED BY <2>1, <3>1, <3>3, <3>4, OneDocument
  <2>. QED BY <1>7, <2>2, <2>3 DEF Load
<1>8. ASSUME NEW o \in Ops, LogOp(c, o) PROVE OwedKept /\ DocumentsGrow
  <2>1. owed' = owed /\ docs' = docs
    BY <1>3, <1>8 DEF LogOp, Receive
  <2>. QED BY <2>1, SameDocuments
<1>. QED BY <1>2, <1>4, <1>5, <1>6, <1>7, <1>8 DEF Edit, Handler, Client

\* Of the requests only the reload of a save touches a document.
LEMMA SaveOwed ==
  ASSUME PagesTypeInv, PagesTypeInv', NEW s \in Saves, Save(s) \/ Api(s) \/ SaveFails(s)
  PROVE  OwedKept \/ \E p \in Pages : /\ Discards(p)
                                      /\ owed' = owed
                                      /\ \A q \in Pages \ {p} : docs'[q] = docs[q]
<1>1. CASE SaveReload(s)
  <2>. DEFINE p == save[s].page
              e == Reloaded(docs[p], disk[p])
  <2>1. /\ p \in Pages /\ docs \in [Pages -> Entry] /\ Updated(p, e) /\ owed' = owed
        /\ save[s].pc = "written" /\ save' = [save EXCEPT ![s].pc = "stored"]
    BY <1>1 DEF SaveReload, PagesTypeInv, SavePages, TypeOK
  <2>2. save'[s].pc = "stored"
    <3>1. save \in [Saves -> SaveState]
      BY DEF PagesTypeInv, SaveType
    <3>. QED BY <2>1, <3>1 DEF SaveState
  <2>3. Discards(p)
    BY <2>1, <2>2 DEF Discards
  <2>. HIDE DEF p, e
  <2>4. \A q \in Pages \ {p} : docs'[q] = docs[q]
    BY <2>1, UpdatedOthers
  <2>. QED BY <2>1, <2>3, <2>4
<1>2. CASE ~SaveReload(s)
  <2>1. UNCHANGED <<docs, owed>>
    BY <1>2
    DEF Save, Api, SaveFails, SaveWrite, SaveScan, SaveSwap, ApiCheck, Restore, Store,
        ApiDelete, ApiConflict, ApiWrite, ApiIndex, SaveWriteFails, SaveScanFails,
        SaveReloadFails, ApiWriteFails, RestoreFails, StoreFails, vars
  <2>. QED BY <2>1, SameDocuments
<1>. QED BY <1>1, <1>2

\* The watcher unloads a document only with its file, and after it has tried to
\* put a dirty one into a recovery file; it reads a document again only if it
\* is clean, and a merge takes no edit away.
LEMMA WatchOwed ==
  ASSUME PagesTypeInv, Watch \/ WatchScanFails
  PROVE  /\ task' = task /\ disk' = disk
         /\ \/ OwedKept
            \/ \E p \in Pages : /\ Unrecovered(p) /\ owed' = owed
                                /\ \A q \in Pages \ {p} : docs'[q] = docs[q]
         /\ (watch.pc = "reconcile" => watch.exists) => OwedKept /\ DocumentsGrow
<1>1. /\ docs \in [Pages -> Entry] /\ owed \in [Pages -> SUBSET Ops]
      /\ disk \in [Pages -> Content] /\ watch \in WatchState
      /\ \A p \in Pages : docs[p].gen \in Nat /\ docs[p].doc \in Content
  BY EntryFields DEF PagesTypeInv, TypeOK, OwedType, WatcherType
<1>2. task' = task /\ disk' = disk
  BY DEF Watch, Notice, Debounce, WatchScan, WatchScanFails, WatchCompare, WatchSwap,
         WatchNext, WatchDone, ReconcileNothing, ReconcileDeleted, ReconcileDeletedLost,
         ReconcileClean, ReconcileMerge, Reconcile, core, vars
<1>3. ASSUME NEW p \in Pages, ReconcileDeleted(p)
      PROVE  OwedKept /\ watch.pc = "reconcile" /\ ~watch.exists
  <2>1. /\ docs' = [docs EXCEPT ![p] = Unloaded]
        /\ owed' = [owed EXCEPT ![p] = IF docs[p].dirty THEN owed[p] \ Shown(docs[p].doc)
                                       ELSE owed[p]]
        /\ watch.pc = "reconcile" /\ ~watch.exists
    BY <1>3 DEF ReconcileDeleted, Reconcile
  <2>2. \A o \in owed'[p] : o \in owed[p] /\ ~InHand(p, o)
    <3>1. \A o \in owed[p] : o \in Edits
      BY <1>1 DEF Edits
    <3>2. CASE docs[p].dirty
      <4>1. owed'[p] = owed[p] \ Shown(docs[p].doc)
        BY <1>1, <2>1, <3>2
      <4>. QED BY <3>1, <4>1 DEF Shown, InHand
    <3>3. CASE ~docs[p].dirty
      <4>1. owed'[p] = owed[p]
        BY <1>1, <2>1, <3>3
      <4>. QED BY <3>3, <4>1 DEF InHand
    <3>. QED BY <3>2, <3>3
  <2>3. \A q \in Pages \ {p} : docs'[q] = docs[q] /\ owed'[q] = owed[q]
    BY <1>1, <2>1
  <2>. QED BY <2>1, <2>2, <2>3, OneDocument
<1>4. ASSUME NEW p \in Pages, ReconcileDeletedLost(p)
      PROVE  /\ Unrecovered(p) /\ owed' = owed /\ ~watch.exists
             /\ \A q \in Pages \ {p} : docs'[q] = docs[q]
  <2>1. /\ watch.pc = "reconcile" /\ p = watch.page /\ ~watch.exists
        /\ watch' = [watch EXCEPT !.pc = "walk", !.page = NoPage, !.exists = FALSE]
        /\ docs' = [docs EXCEPT ![p] = Unloaded] /\ owed' = owed
        /\ failures' = failures + 1
    BY <1>4 DEF ReconcileDeletedLost, Reconcile, Failure
  <2>2. watch'.pc = "walk"
    BY <1>1, <2>1 DEF WatchState
  <2>3. failures' > failures
    <3>1. failures \in Nat
      BY PageBounds DEF PagesTypeInv
    <3>. QED BY <2>1, <3>1
  <2>. QED BY <1>1, <2>1, <2>2, <2>3 DEF Unrecovered
<1>5. ASSUME NEW p \in Pages, ReconcileClean(p) \/ ReconcileMerge(p)
      PROVE  OwedKept /\ DocumentsGrow
  <2>1. PICK t : /\ docs' = [docs EXCEPT ![p].doc = t]
                 /\ \/ ~docs[p].dirty /\ t = disk[p]
                    \/ docs[p].dirty /\ \A o \in Ops : docs[p].doc[o] > 0 => t[o] > 0
    <3>1. CASE ReconcileClean(p)
      BY <3>1 DEF ReconcileClean
    <3>2. CASE ReconcileMerge(p)
      <4>1. PICK S \in SUBSET (Shown(disk[p]) \ Shown(docs[p].doc)) :
              docs' = [docs EXCEPT ![p].doc =
                         [e \in Edits |-> IF e \in S THEN disk[p][e] ELSE docs[p].doc[e]]]
        BY <3>2 DEF ReconcileMerge
      <4>2. \A o \in Ops : docs[p].doc[o] > 0 =>
              [e \in Edits |-> IF e \in S THEN disk[p][e] ELSE docs[p].doc[e]][o] > 0
        BY DEF Shown, Edits
      <4>. QED BY <3>2, <4>1, <4>2 DEF ReconcileMerge
    <3>. QED BY <1>5, <3>1, <3>2
  <2>2. docs'[p] = [docs[p] EXCEPT !.doc = t] /\ \A q \in Pages \ {p} : docs'[q] = docs[q]
    BY <1>1, <2>1
  <2>3. /\ docs'[p].in = docs[p].in /\ docs'[p].dirty = docs[p].dirty
        /\ docs'[p].doc = t /\ docs'[p].gen = docs[p].gen
    BY <1>1, <2>2 DEF Entry
  <2>4. owed' = owed /\ docs[p].in
    BY <1>5 DEF ReconcileClean, ReconcileMerge
  <2>5. \A o \in owed'[p] : InHand(p, o)' \/ (o \in owed[p] /\ ~InHand(p, o))
    <3>1. \A o \in owed[p] : o \in Ops
      BY <1>1
    <3>. QED BY <2>1, <2>3, <2>4, <3>1 DEF InHand
  <2>6. StepOf(p)
    <3>1. docs[p].gen >= docs[p].gen
      BY <1>1
    <3>. QED BY <2>1, <2>3, <2>4, <3>1 DEF StepOf, KeepsOps
  <2>. QED BY <2>2, <2>4, <2>5, <2>6, OneDocument
<1>6. CASE UNCHANGED <<docs, owed>>
  BY <1>2, <1>6, SameDocuments
<1>7. \/ UNCHANGED <<docs, owed>>
      \/ \E p \in Pages : \/ ReconcileDeleted(p) \/ ReconcileDeletedLost(p)
                          \/ ReconcileClean(p) \/ ReconcileMerge(p)
  BY DEF Watch, Notice, Debounce, WatchScan, WatchScanFails, WatchCompare, WatchSwap,
         WatchNext, WatchDone, ReconcileNothing, vars
<1>8. ASSUME NEW p \in Pages, ReconcileDeletedLost(p) PROVE watch.pc = "reconcile"
  BY <1>8 DEF ReconcileDeletedLost, Reconcile
<1>. QED BY <1>2, <1>3, <1>4, <1>5, <1>6, <1>7, <1>8

\* The writers that delete no file: their files only grow.
AllFilesExist == files = Pages /\ (watch.pc = "reconcile" => watch.exists)

LEMMA FilesStay ==
  ASSUME PagesTypeInv, PagesTypeInv', AllFilesExist,
         \/ Start \/ Outside \/ Watch \/ Pipeline
         \/ \E c \in Conns : Edit(c)
         \/ UNCHANGED allVars
  PROVE  AllFilesExist'
<1>1. files' \subseteq Pages /\ files = Pages
  BY DEF PagesTypeInv, FilesType, AllFilesExist
<1>2. CASE Watch
  <2>1. files' = files
    BY <1>2
    DEF Watch, Notice, Debounce, WatchScan, WatchCompare, WatchSwap, WatchNext, WatchDone,
        ReconcileNothing, ReconcileDeleted, ReconcileDeletedLost, ReconcileClean,
        ReconcileMerge, Reconcile, others
  <2>2. watch'.pc = "reconcile" => watch'.exists
    <3>1. watch \in WatchState
      BY DEF PagesTypeInv, WatcherType
    <3>2. ASSUME NEW p \in Pages, WatchNext(p)
          PROVE  watch'.pc = "reconcile" => watch'.exists
      <4>1. watch.pc = "walk" /\ p \in files
        BY <1>1, <3>2 DEF WatchNext
      <4>. QED BY <3>1, <3>2, <4>1 DEF WatchNext, WatchState
    <3>3. CASE Debounce \/ \E p \in Pages : Notice(p)
      BY <3>3 DEF Debounce, Notice, AllFilesExist
    <3>4. ASSUME NEW p \in Pages, Reconcile(p)
          PROVE  watch'.pc = "walk"
      BY <3>1, <3>4 DEF Reconcile, WatchState
    <3>5. CASE WatchScan \/ WatchCompare \/ WatchSwap \/ WatchDone
      <4>1. watch'.pc \in {"rest", "scanned", "changed", "walk"}
        <5>1. CASE WatchScan
          BY <5>1 DEF WatchScan, Resting
        <5>2. CASE WatchCompare
          BY <3>1, <5>2 DEF WatchCompare, Resting, WatchState
        <5>3. CASE WatchSwap
          <6>1. [watch EXCEPT !.pc = "walk", !.scan = NoScan].pc = "walk"
            BY <3>1 DEF WatchState
          <6>. QED BY <5>3, <6>1 DEF WatchSwap
        <5>4. CASE WatchDone
          BY <5>4 DEF WatchDone, Resting
        <5>. QED BY <3>5, <5>1, <5>2, <5>3, <5>4
      <4>. QED BY <4>1
    <3>. QED
      BY <1>2, <3>2, <3>3, <3>4, <3>5
      DEF Watch, ReconcileNothing, ReconcileDeleted, ReconcileDeletedLost, ReconcileClean,
          ReconcileMerge
  <2>. QED BY <1>1, <2>1, <2>2 DEF AllFilesExist
<1>3. CASE ~Watch /\ ~PipelineWriteFails
  <2>1. files \subseteq files' /\ watch' = watch
    BY <1>3
    DEF Start, pageVars, watcher, allVars, Outside, ExternalWrite, Edit, Pipeline,
        PipelineSerialize, PipelineWrite, PipelineMark, PipelineScan, PipelineSwap,
        PipelineScanFails
  <2>. QED BY <1>1, <2>1 DEF AllFilesExist
<1>4. CASE PipelineWriteFails
  <2>1. task.page \in Pages
    BY <1>4 DEF PipelineWriteFails, FlushWriteFails, At, JobPcs, PagesTypeInv, TypeOK
  <2>2. files \subseteq files'
    BY <1>4, <2>1, FailsUnderEntryType DEF PipelineWriteFails, PagesTypeInv
  <2>3. watch' = watch
    BY <1>4 DEF PipelineWriteFails, watcher
  <2>. QED BY <1>1, <2>2, <2>3 DEF AllFilesExist
<1>. QED BY <1>2, <1>3, <1>4

-----------------------------------------------------------------------------
(* The pipeline among editors, the watcher and programs that write.        *)

OwedLoaded == \A p \in Pages : \A o \in owed[p] : InHand(p, o)

FileCovers ==
  \A p \in Pages : docs[p].in => \A o \in Ops : disk[p][o] > 0 => docs[p].doc[o] > 0

SnapshotCovers ==
  task.pc \in {"write", "mark"} =>
    LET p == task.page IN
    /\ docs[p].in /\ docs[p].gen >= task.gen
    /\ docs[p].gen = task.gen =>
         IF task.pc = "write" THEN owed[p] \subseteq Shown(task.snap) ELSE owed[p] = {}

SnapshotShown ==
  task.pc = "write" =>
    LET p == task.page IN
    docs[p].dirty /\ \A o \in Ops : task.snap[o] > 0 => docs[p].doc[o] > 0

OwedInv ==
  OwedLoaded /\ AllFilesExist /\ FileCovers /\ SnapshotCovers /\ SnapshotShown

LEMMA OwedInit == PagesInit => OwedInv
<1>1. PagesInit => task.pc = "replay" /\ watch.pc = "rest"
  BY WalkFields DEF PagesInit, Init, Resting
<1>. QED
  BY <1>1
  DEF PagesInit, Init, OwedInv, OwedLoaded, AllFilesExist, FileCovers, SnapshotCovers,
      SnapshotShown, Unloaded

LEMMA KeptStaysLoaded ==
  ASSUME OwedLoaded, OwedKept PROVE OwedLoaded'
  BY DEF OwedLoaded, OwedKept

LEMMA GrowKeepsFileCovers ==
  ASSUME PagesTypeInv, FileCovers, DocumentsGrow, NEW p \in Pages, docs'[p].in,
         \A o \in Ops : disk'[p][o] > 0 => disk[p][o] > 0
  PROVE  \A o \in Ops : disk'[p][o] > 0 => docs'[p].doc[o] > 0
<1>1. docs'[p].doc = disk[p] \/ (docs[p].in /\ KeepsOps(p))
  BY DEF DocumentsGrow, StepOf
<1>2. CASE docs'[p].doc = disk[p]
  BY <1>2
<1>3. CASE docs[p].in /\ KeepsOps(p)
  BY <1>3 DEF FileCovers, KeepsOps
<1>. QED BY <1>1, <1>2, <1>3

\* A step beside the pipeline: documents grow, and other programs put no op
\* into a file.
LEMMA BesideThePipeline ==
  ASSUME PagesTypeInv, PagesTypeInv', OwedInv, AllFilesExist', OwedKept, DocumentsGrow,
         task' = task,
         \A p \in Pages : \A o \in Ops : disk'[p][o] > 0 => disk[p][o] > 0
  PROVE  OwedInv'
<1>1. FileCovers'
  BY GrowKeepsFileCovers DEF FileCovers, OwedInv
<1>2. ASSUME task.pc \in {"write", "mark"}
      PROVE  LET p == task.page IN
             /\ docs'[p].in /\ docs'[p].gen >= task.gen
             /\ docs'[p].gen = task.gen =>
                  IF task.pc = "write" THEN owed'[p] \subseteq Shown(task.snap)
                  ELSE owed'[p] = {}
             /\ task.pc = "write" =>
                  docs'[p].dirty /\ \A o \in Ops : task.snap[o] > 0 => docs'[p].doc[o] > 0
  <2>. DEFINE p == task.page
  <2>1. p \in Pages
    BY <1>2 DEF PagesTypeInv, TypeOK, JobPcs
  <2>2. docs[p].gen \in Nat /\ docs'[p].gen \in Nat /\ task.gen \in Nat
    BY <2>1, EntryFields DEF PagesTypeInv, TypeOK, TaskState
  <2>3. /\ docs[p].in /\ docs[p].gen >= task.gen
        /\ docs[p].gen = task.gen =>
             IF task.pc = "write" THEN owed[p] \subseteq Shown(task.snap) ELSE owed[p] = {}
    BY <1>2 DEF OwedInv, SnapshotCovers
  <2>4. task.pc = "write" =>
          docs[p].dirty /\ \A o \in Ops : task.snap[o] > 0 => docs[p].doc[o] > 0
    BY DEF OwedInv, SnapshotShown
  <2>5. StepOf(p)
    BY <2>1 DEF DocumentsGrow
  <2>. HIDE DEF p
  <2>6. /\ docs'[p].in /\ docs'[p].gen >= docs[p].gen
        /\ docs'[p].gen = docs[p].gen => owed'[p] \subseteq owed[p]
        /\ docs[p].dirty => docs'[p].dirty /\ KeepsOps(p)
    BY <2>3, <2>5 DEF StepOf
  <2>7. docs'[p].gen >= task.gen
    BY <2>2, <2>3, <2>6
  <2>8. ASSUME docs'[p].gen = task.gen
        PROVE  docs[p].gen = task.gen /\ owed'[p] \subseteq owed[p]
    BY <2>2, <2>3, <2>6, <2>8
  <2>9. docs'[p].gen = task.gen =>
          IF task.pc = "write" THEN owed'[p] \subseteq Shown(task.snap) ELSE owed'[p] = {}
    BY <2>3, <2>8
  <2>10. task.pc = "write" =>
           docs'[p].dirty /\ \A o \in Ops : task.snap[o] > 0 => docs'[p].doc[o] > 0
    BY <2>4, <2>6 DEF KeepsOps
  <2>. QED BY <2>6, <2>7, <2>9, <2>10 DEF p
<1>3. SnapshotCovers'
  BY <1>2 DEF SnapshotCovers
<1>4. SnapshotShown'
  BY <1>2 DEF SnapshotShown
<1>5. OwedLoaded'
  BY KeptStaysLoaded DEF OwedInv
<1>. QED BY <1>1, <1>3, <1>4, <1>5 DEF OwedInv

\* A write that succeeds or fails: what it takes out of the file, or does not
\* put into it, the dirty document shows.
LEMMA FailOwed ==
  ASSUME PagesTypeInv, OwedInv, AllFilesExist', PipelineWriteFails PROVE OwedInv'
<1>. PICK p \in Pages : p = task.page /\ task.pc = "write"
  BY DEF PipelineWriteFails, FlushWriteFails, At, JobPcs, PagesTypeInv, TypeOK
<1>1. /\ TypeOK /\ disk \in [Pages -> Content] /\ owed \in [Pages -> SUBSET Ops]
      /\ task \in TaskState
  BY DEF PagesTypeInv, TypeOK, OwedType
<1>2. SameTexts
  BY <1>1, FailTexts DEF PipelineWriteFails
<1>3. /\ \A q \in Pages \ {p} : disk'[q] = disk[q]
      /\ disk'[p] = disk[p] \/ \A e \in Edits : disk'[p][e] <= task.snap[e]
      /\ disk' \in [Pages -> Content] /\ task.snap \in Content
  BY <1>1, FailFiles, BreaksType DEF PipelineWriteFails, FlushWriteFails
<1>4. \A o \in Ops : o \in Edits /\ disk'[p][o] \in Nat /\ task.snap[o] \in Nat
  BY <1>3 DEF Content, Edits
<1>5. /\ owed'[p] = owed[p] \cup ((Shown(disk[p]) \ Shown(disk'[p])) \cap Ops)
      /\ \A q \in Pages \ {p} : owed'[q] = owed[q]
  BY <1>1 DEF PipelineWriteFails
<1>6. /\ docs[p].in /\ docs[p].dirty
      /\ \A o \in Ops : task.snap[o] > 0 => docs[p].doc[o] > 0
      /\ \A o \in Ops : disk[p][o] > 0 => docs[p].doc[o] > 0
  BY DEF OwedInv, SnapshotCovers, SnapshotShown, FileCovers
<1>7. OwedLoaded'
  <2>1. ASSUME NEW o \in owed'[p] PROVE InHand(p, o)'
    <3>1. CASE o \in owed[p]
      BY <1>2, <3>1 DEF OwedInv, OwedLoaded, InHand, SameTexts
    <3>2. CASE o \in Shown(disk[p]) \cap Ops
      BY <1>2, <1>6, <3>2 DEF InHand, SameTexts, Shown
    <3>. QED BY <1>5, <2>1, <3>1, <3>2
  <2>2. ASSUME NEW q \in Pages \ {p}, NEW o \in owed'[q] PROVE InHand(q, o)'
    BY <1>2, <1>5, <2>2 DEF OwedInv, OwedLoaded, InHand, SameTexts
  <2>. QED BY <2>1, <2>2 DEF OwedLoaded
<1>8. FileCovers'
  <2>1. ASSUME NEW o \in Ops, disk'[p][o] > 0 PROVE docs'[p].doc[o] > 0
    <3>1. CASE disk'[p] = disk[p]
      BY <1>2, <1>6, <2>1, <3>1 DEF SameTexts
    <3>2. CASE \A e \in Edits : disk'[p][e] <= task.snap[e]
      <4>1. task.snap[o] > 0
        BY <1>4, <2>1, <3>2
      <4>. QED BY <1>2, <1>6, <4>1 DEF SameTexts
    <3>. QED BY <1>3, <3>1, <3>2
  <2>2. ASSUME NEW q \in Pages \ {p}, docs'[q].in, NEW o \in Ops, disk'[q][o] > 0
        PROVE  docs'[q].doc[o] > 0
    BY <1>2, <1>3, <2>2 DEF OwedInv, FileCovers, SameTexts
  <2>. QED BY <2>1, <2>2 DEF FileCovers
<1>9. task'.pc \in {"idle", "replay", "discard"}
  <2>1. Return.pc \in {"idle", "replay"}
    BY WalkFields DEF Return
  <2>. QED BY <1>1, <2>1, GotoFields DEF PipelineWriteFails, FlushWriteFails
<1>. QED BY <1>7, <1>8, <1>9 DEF OwedInv, SnapshotCovers, SnapshotShown

LEMMA PipelineOwed ==
  ASSUME PagesTypeInv, OwedInv, AllFilesExist', Pipeline
  PROVE  OwedInv'
<1>1. /\ docs \in [Pages -> Entry] /\ owed \in [Pages -> SUBSET Ops] /\ task \in TaskState
      /\ task.pc \in JobPcs => task.page \in Pages
      /\ disk \in [Pages -> Content]
      /\ \A p \in Pages : docs[p].gen \in Nat
  BY EntryFields DEF PagesTypeInv, TypeOK, OwedType
<1>2. /\ OwedLoaded /\ SnapshotCovers /\ SnapshotShown /\ FileCovers /\ TypeOK
  BY DEF OwedInv, PagesTypeInv
<1>3. ASSUME SameTexts, owed' = owed, disk' = disk PROVE OwedLoaded' /\ FileCovers'
  <2>1. OwedLoaded'
    BY <1>2, <1>3, SameTextsOwed, KeptStaysLoaded
  <2>. QED BY <1>2, <1>3, <2>1 DEF FileCovers, SameTexts
<1>4. ASSUME task'.pc \notin {"write", "mark"} PROVE SnapshotCovers' /\ SnapshotShown'
  BY <1>4 DEF SnapshotCovers, SnapshotShown
<1>5. ASSUME NEW p \in Pages, PipelineSerialize(p) PROVE OwedInv'
  <2>1. /\ task' = Job("write", p, docs[p].doc, docs[p].gen, {})
        /\ docs[p].in /\ docs[p].dirty
        /\ docs' = docs /\ owed' = owed /\ disk' = disk
    BY <1>5 DEF PipelineSerialize, FlushSerialize, pageVars
  <2>2. task'.pc = "write" /\ task'.page = p /\ task'.snap = docs[p].doc
          /\ task'.gen = docs[p].gen
    BY <2>1, JobFields
  <2>3. owed[p] \subseteq Shown(docs[p].doc)
    BY <1>1, <1>2 DEF OwedLoaded, InHand, Shown, Edits
  <2>4. docs[p].gen >= docs[p].gen
    BY <1>1
  <2>5. SnapshotCovers'
    BY <2>1, <2>2, <2>3, <2>4 DEF SnapshotCovers
  <2>6. SnapshotShown'
    BY <2>1, <2>2 DEF SnapshotShown
  <2>7. OwedLoaded' /\ FileCovers'
    BY <1>3, <2>1 DEF SameTexts
  <2>. QED BY <2>5, <2>6, <2>7 DEF OwedInv
<1>6. CASE PipelineWrite
  <2>. PICK p \in Pages : p = task.page /\ task.pc = "write"
    BY <1>1, <1>6 DEF PipelineWrite, FlushWrite, At, JobPcs
  <2>1. docs' = docs /\ disk' = [disk EXCEPT ![p] = task.snap]
    BY <1>6 DEF PipelineWrite, FlushWrite
  <2>2. task'.pc = "mark" /\ task'.page = p /\ task'.gen = task.gen
    BY <1>1, <1>6, GotoFields DEF PipelineWrite, FlushWrite
  <2>3. owed'[p] = owed[p] \ Shown(task.snap) /\ \A q \in Pages \ {p} : owed'[q] = owed[q]
    BY <1>1, <1>6 DEF PipelineWrite
  <2>4. OwedLoaded'
    BY <1>2, <2>1, <2>3 DEF OwedLoaded, InHand
  <2>5. /\ docs[p].in /\ docs[p].gen >= task.gen
        /\ docs[p].gen = task.gen => owed[p] \subseteq Shown(task.snap)
    BY <1>2 DEF SnapshotCovers
  <2>6. docs[p].gen = task.gen => owed'[p] = {}
    BY <2>3, <2>5
  <2>7. SnapshotCovers' /\ SnapshotShown'
    BY <2>1, <2>2, <2>5, <2>6 DEF SnapshotCovers, SnapshotShown
  <2>8. FileCovers'
    <3>1. disk'[p] = task.snap /\ \A q \in Pages \ {p} : disk'[q] = disk[q]
      BY <1>1, <2>1
    <3>2. \A o \in Ops : task.snap[o] > 0 => docs[p].doc[o] > 0
      BY <1>2 DEF SnapshotShown
    <3>. QED BY <1>2, <2>1, <3>1, <3>2 DEF FileCovers
  <2>. QED BY <2>4, <2>7, <2>8 DEF OwedInv
<1>7. CASE PipelineMark
  <2>. PICK p \in Pages : p = task.page /\ task.pc = "mark"
    BY <1>1, <1>7 DEF PipelineMark, FlushMark, At, JobPcs
  <2>. DEFINE b == docs[p].dirty /\ docs[p].gen # task.gen
              e == [docs[p] EXCEPT !.dirty = b, !.failed = FALSE]
  <2>1. owed' = owed /\ disk' = disk /\ Updated(p, e)
    BY <1>1, <1>7 DEF PipelineMark, FlushMark
  <2>2. task'.pc = "truncate"
    BY <1>1, <1>7, GotoFields DEF PipelineMark, FlushMark
  <2>3. e.in = docs[p].in /\ e.doc = docs[p].doc /\ e.dirty = b
    <3>1. docs[p] \in Entry /\ b \in BOOLEAN
      BY <1>1
    <3>. HIDE DEF b
    <3>. QED BY <3>1, FlagFields
  <2>4. docs[p].in /\ (docs[p].gen = task.gen => owed[p] = {})
    BY <1>2 DEF SnapshotCovers
  <2>5. \A o \in owed[p] : docs[p].in /\ docs[p].doc[o] > 0 /\ b
    BY <1>2, <2>4 DEF OwedLoaded, InHand
  <2>. HIDE DEF b, e
  <2>6. docs'[p] = e /\ \A q \in Pages \ {p} : docs'[q] = docs[q]
    BY <1>1, <2>1, <2>4, UpdatedOthers
  <2>7. \A o \in owed'[p] : InHand(p, o)'
    BY <2>1, <2>3, <2>5, <2>6 DEF InHand
  <2>8. OwedLoaded'
    BY <1>2, <2>1, <2>6, <2>7 DEF OwedLoaded, InHand
  <2>9. FileCovers'
    BY <1>2, <2>1, <2>3, <2>6 DEF FileCovers
  <2>. QED BY <1>4, <2>2, <2>8, <2>9 DEF OwedInv
<1>8. CASE PipelineScan
  <2>1. SameTexts /\ owed' = owed /\ disk' = disk /\ task'.pc = "commit"
    BY <1>1, <1>8, GotoFields DEF PipelineScan, FlushTruncate, SameTexts
  <2>. QED BY <1>3, <1>4, <2>1 DEF OwedInv
<1>9. CASE PipelineSwap \/ PipelineScanFails
  <2>1. SameTexts /\ owed' = owed
    BY <1>2, <1>9, CommitTexts DEF PipelineSwap, PipelineScanFails, pageVars
  <2>2. disk' = disk
    BY <1>9 DEF PipelineSwap, PipelineScanFails, FlushCommit, FlushReindexFails
  <2>3. task'.pc \in {"idle", "replay"}
    BY <1>9, WalkFields DEF PipelineSwap, PipelineScanFails, FlushCommit, FlushReindexFails, Return
  <2>. QED BY <1>3, <1>4, <2>1, <2>2, <2>3 DEF OwedInv
<1>. QED BY <1>5, <1>6, <1>7, <1>8, <1>9, FailOwed DEF Pipeline

\* No op is in a file that another program has written.
LEMMA OutsideOps ==
  ASSUME PagesTypeInv, Outside
  PROVE  \A p \in Pages : \A o \in Ops : disk'[p][o] > 0 => disk[p][o] > 0
<1>1. PICK p \in Pages, t \in Content : ExternalWrite(p, t) /\ Shown(t) \subseteq Bodies
  BY OutsideWrites DEF PagesTypeInv
<1>2. disk' = [disk EXCEPT ![p] = t] /\ disk \in [Pages -> Content]
  BY <1>1 DEF ExternalWrite, PagesTypeInv, TypeOK
<1>3. \A o \in Ops : ~(t[o] > 0)
  BY <1>1, SetsAssumption DEF Shown, Edits
<1>. QED BY <1>2, <1>3

LEMMA FlushOwedStep ==
  PagesTypeInv /\ PagesTypeInv' /\ OwedInv /\ [FlushNextStep]_allVars => OwedInv'
<1>. SUFFICES ASSUME PagesTypeInv, PagesTypeInv', OwedInv, [FlushNextStep]_allVars
              PROVE  OwedInv'
  OBVIOUS
<1>1. AllFilesExist'
  BY FilesStay DEF OwedInv, FlushNextStep
<1>2. ASSUME disk' = disk
      PROVE  \A p \in Pages : \A o \in Ops : disk'[p][o] > 0 => disk[p][o] > 0
  BY <1>2
<1>3. CASE Start
  <2>1. UNCHANGED <<docs, owed, disk>> /\ task'.pc = "idle"
    BY <1>3, WalkFields DEF Start, Serve, pageVars
  <2>2. OwedLoaded'
    BY <2>1, SameDocuments, KeptStaysLoaded DEF OwedInv
  <2>3. FileCovers'
    BY <2>1 DEF OwedInv, FileCovers
  <2>. QED BY <1>1, <2>1, <2>2, <2>3 DEF OwedInv, SnapshotCovers, SnapshotShown
<1>4. CASE Outside
  <2>1. UNCHANGED <<docs, owed, task>>
    BY <1>4 DEF Outside, ExternalWrite
  <2>. QED BY <1>1, <1>4, <2>1, OutsideOps, SameDocuments, BesideThePipeline
<1>5. CASE UNCHANGED allVars
  <2>1. UNCHANGED <<docs, owed, task, disk>>
    BY <1>5 DEF allVars, vars, pageVars
  <2>. QED BY <1>1, <1>2, <2>1, SameDocuments, BesideThePipeline
<1>6. ASSUME NEW c \in Conns, Edit(c) PROVE OwedInv'
  BY <1>1, <1>2, <1>6, EditOwed, EditFiles, BesideThePipeline
<1>7. CASE Watch
  <2>1. OwedKept /\ DocumentsGrow /\ task' = task /\ disk' = disk
    BY <1>7, WatchOwed DEF OwedInv, AllFilesExist
  <2>. QED BY <1>1, <1>2, <2>1, BesideThePipeline
<1>8. CASE Pipeline
  BY <1>1, <1>8, PipelineOwed
<1>. QED BY <1>3, <1>4, <1>5, <1>6, <1>7, <1>8 DEF FlushNextStep

-----------------------------------------------------------------------------
OwedStep ==
  \A p \in Pages : \A o \in owed'[p] :
    \/ InHand(p, o)' \/ (o \in owed[p] /\ ~InHand(p, o))
    \/ Discards(p) \/ Unrecovered(p)

LEMMA KeptIsStep == OwedKept => OwedStep
  BY DEF OwedKept, OwedStep

\* A step that only touches a page of the two exceptions.
LEMMA ExceptionIsStep ==
  ASSUME PagesTypeInv, NEW p \in Pages, Discards(p) \/ Unrecovered(p), owed' = owed,
         \A q \in Pages \ {p} : docs'[q] = docs[q]
  PROVE  OwedStep
<1>1. ASSUME NEW q \in Pages \ {p}, NEW o \in owed'[q]
      PROVE  InHand(q, o)' \/ (o \in owed[q] /\ ~InHand(q, o))
  BY <1>1 DEF InHand
<1>. QED BY <1>1 DEF OwedStep

\* Without the pipeline, deletions and all.
LEMMA RequestOwedStep ==
  PagesTypeInv /\ PagesTypeInv' /\ [RequestNextStep]_allVars => [OwedStep]_allVars
<1>. SUFFICES ASSUME PagesTypeInv, PagesTypeInv', RequestNextStep PROVE OwedStep
  OBVIOUS
<1>1. CASE Start \/ Outside \/ (\E p \in Pages : ExternalDelete(p))
  <2>1. UNCHANGED <<docs, owed>>
    BY <1>1 DEF Start, Serve, Outside, ExternalWrite, ExternalDelete, pageVars
  <2>. QED BY <2>1, SameDocuments, KeptIsStep
<1>2. CASE \E c \in Conns : Edit(c)
  BY <1>2, EditOwed, KeptIsStep
<1>3. CASE Watch \/ WatchScanFails
  <2>1. OwedKept \/ \E p \in Pages : /\ Unrecovered(p) /\ owed' = owed
                                     /\ \A q \in Pages \ {p} : docs'[q] = docs[q]
    BY <1>3, WatchOwed
  <2>. QED BY <2>1, KeptIsStep, ExceptionIsStep
<1>4. CASE \E s \in Saves : Save(s) \/ Api(s) \/ SaveFails(s)
  <2>1. OwedKept \/ \E p \in Pages : /\ Discards(p) /\ owed' = owed
                                     /\ \A q \in Pages \ {p} : docs'[q] = docs[q]
    BY <1>4, SaveOwed
  <2>. QED BY <2>1, KeptIsStep, ExceptionIsStep
<1>. QED BY <1>1, <1>2, <1>3, <1>4 DEF RequestNextStep, WatchNextStep

\* An op that was applied and is in no file stays in a dirty document, among
\* editors, the watcher, external writes and deletions, saves and the page API,
\* unless a save reloads the document or a recovery file cannot be written;
\* and, where the flush pipeline runs beside editors, external writes and the
\* watcher, so does an op that a failing write takes out of its file again.
THEOREM NobodysWorkIsDropped ==
  /\ WatchSpec => OwedOpsStayLoaded
  /\ ApiSpec => OwedOpsStayLoaded
  /\ RequestSpec => OwedOpsStayLoaded
  /\ FlushSpec => OwedOpsStayLoaded
<1>1. /\ [WatchNextStep]_allVars => [RequestNextStep]_allVars
      /\ [ApiNextStep]_allVars => [RequestNextStep]_allVars
      /\ [RequestNextStep]_allVars => [AnyNext]_allVars
      /\ [FlushNextStep]_allVars => [AnyNext]_allVars
  BY DEF AnyNext, RequestNextStep, WatchNextStep, ApiNextStep
<1>2. PagesInit => OwedInv /\ PagesTypeInv
  BY OwedInit, PagesTypeInit
<1>3. ASSUME OwedInv, OwedInv' PROVE [OwedStep]_allVars
  BY <1>3 DEF OwedInv, OwedLoaded, OwedStep
<1>4. [OwedStep]_allVars =>
        [\A p \in Pages : \A o \in owed'[p] :
           \/ InHand(p, o)' \/ (o \in owed[p] /\ ~InHand(p, o))
           \/ Discards(p) \/ Unrecovered(p)]_allVars
  BY DEF OwedStep
<1>. QED
  BY <1>1, <1>2, <1>3, <1>4, RequestOwedStep, FlushOwedStep, PagesTypeStep, PTL
  DEF WatchSpec, ApiSpec, RequestSpec, FlushSpec, OwedOpsStayLoaded
=============================================================================
