---------------------------- MODULE PageWriters ----------------------------
(***************************************************************************)
(* Everything that writes or reads the .md files of a running server: the  *)
(* editing core of CrdtDocStore, the save handler (PUT, web/routes.rs),    *)
(* programs outside the server, and the file-system watcher that           *)
(* reconciles what they wrote (web/fs_watch.rs).  They share the files,    *)
(* the documents, the set PendingWrites, and the index (WebState::data).   *)
(*                                                                         *)
(* A scan of the vault is one step; so are the ACL, search and history     *)
(* steps that follow it, which change nothing modelled here.  The server   *)
(* does not stop, and every page fits in the store.                        *)
(***************************************************************************)
EXTENDS CrdtDocStore, Sequences

CONSTANTS
  Saves,        \* requests of the save handler
  Spelled,      \* pages whose file name is spelled like their slug
  Silent,       \* edits that change no leaf of the vault's Merkle tree
  MaxExternal,  \* bound on the writes and deletions of other programs
  MaxFailures,  \* bound on the server's own writes that fail
  MaxEvents     \* bound on the unread events of a file; more of them coalesce

ASSUME PagesAssumption ==
  /\ Spelled \subseteq Pages /\ Silent \subseteq Edits
  /\ MaxExternal \in Nat /\ MaxFailures \in Nat /\ MaxEvents \in Nat \ {0}
  /\ Cardinality(Pages) <= MaxDocs

VARIABLES
  files,     \* the pages whose file exists
  pending,   \* PendingWrites
  events,    \* events of the file system that the watcher has not read
  batch,     \* the paths of the current debounce window
  queue,     \* batches sent to the reconciler
  watch,     \* the reconciler
  index,     \* WebState::data
  rescan,    \* the scan of the flush pipeline, until it is swapped in
  save,      \* where each save request is
  owed,      \* history: ops applied to a document that no file has
  failures,  \* number of the server's own writes that failed so far
  external   \* number of external writes and deletions so far

watcher == <<batch, queue, watch>>
pageVars == <<files, pending, events, watcher, index, rescan, save, owed,
              failures, external>>
allVars == <<vars, pageVars>>

Vault == [files |-> files, text |-> disk]

\* The hash the watcher compares covers the leaves of the pages, and these leave
\* out blank lines, soft line breaks and the markers of emphasis.
Root(t) == [e \in Edits \ Silent |-> t[e]]

VaultRoot(v) == [files |-> v.files, text |-> [p \in Pages |-> Root(v.text[p])]]

VaultState == [files : SUBSET Pages, text : [Pages -> Content]]

NoScan  == [files |-> {}, text |-> [p \in Pages |-> Blank]]
Resting == [pc |-> "rest", work |-> {}, page |-> NoPage, exists |-> FALSE,
            scan |-> NoScan]

NoBody == "no body"
NoSave == [pc |-> "new", page |-> NoPage, body |-> NoBody,
           scan |-> NoScan]
Saved  == [NoSave EXCEPT !.pc = "done"]

PagesTypeOK ==
  /\ TypeOK
  /\ files \in SUBSET Pages /\ pending \in SUBSET Pages /\ batch \in SUBSET Pages
  /\ events \in [Pages -> 0..MaxEvents]
  /\ queue \in Seq((SUBSET Pages) \ {{}})
  /\ watch \in [pc : {"rest", "scanned", "changed", "walk", "reconcile"},
                work : SUBSET Pages, page : Pages \cup {NoPage},
                exists : BOOLEAN, scan : VaultState]
  /\ index \in VaultState /\ rescan \in VaultState
  /\ save \in [Saves -> [pc : {"new", "written", "checked", "stored", "scanned", "done"},
                         page : Pages \cup {NoPage}, body : Bodies \cup {NoBody},
                         scan : VaultState]]
  /\ owed \in [Pages -> SUBSET Ops]
  /\ external \in 0..MaxExternal /\ failures \in 0..MaxFailures

PagesInit ==
  /\ Init
  /\ files = Pages
  /\ pending = {}
  /\ events = [p \in Pages |-> 0]
  /\ batch = {} /\ queue = <<>> /\ watch = Resting
  /\ index = Vault /\ rescan = NoScan
  /\ save = [s \in Saves |-> NoSave]
  /\ owed = [p \in Pages |-> {}]
  /\ external = 0 /\ failures = 0

-----------------------------------------------------------------------------
(* Files and their events. *)

Unread(p, n) ==
  events' = [events EXCEPT ![p] = IF n > MaxEvents THEN MaxEvents ELSE n]

\* fs::write empties a file and fills it: one event for each, or a single one
\* when they coalesce.
Raise(p) == \E n \in 1..2 : Unread(p, events[p] + n)

\* One of the server's own writes fails.
Failure == failures < MaxFailures /\ failures' = failures + 1

\* A write that fails under an entry of PendingWrites, set before it and taken
\* back after it: k events are raised, and the watcher may read one or all
\* while the entry is set.  It drops what it reads (filter_event).
RaiseUnderEntry(p, k) ==
  \/ Unread(p, events[p] + k)
  \/ events[p] + k > 0 /\ \E n \in {0, events[p] + k - 1} : Unread(p, n)

\* What a write that fails does beside disk': the directory cannot be made, the
\* file cannot be opened, or the write breaks off.
FailsUnderEntry(p) ==
  \/ UNCHANGED <<disk, files, events, pending>>
  \/ /\ pending' = pending \ {p}
     /\ \/ UNCHANGED <<disk, files>> /\ RaiseUnderEntry(p, 0)
        \/ files' = files \cup {p} /\ \E k \in 1..2 : RaiseUnderEntry(p, k)

\* Another program writes a page: a new text, or the text it had at first.
ExternalWrite(p, t) ==
  /\ external < MaxExternal /\ external' = external + 1
  /\ disk' = [disk EXCEPT ![p] = t]
  /\ spent' = spent \cup Shown(t)
  /\ files' = files \cup {p}
  /\ Raise(p)
  /\ UNCHANGED <<wal, phase, docs, conn, task, author, crashes,
                 pending, watcher, index, rescan, save, owed, failures>>

ExternalDelete(p) ==
  /\ external < MaxExternal /\ external' = external + 1
  /\ p \in files
  /\ files' = files \ {p}
  /\ disk' = [disk EXCEPT ![p] = Blank]
  /\ Raise(p)
  /\ UNCHANGED <<wal, phase, docs, conn, task, inputs,
                 pending, watcher, index, rescan, save, owed, failures>>

-----------------------------------------------------------------------------
(* The editing core, among the other writers. *)

\* Clients and handlers touch no file; an op that is applied is owed.
Edit(c) ==
  /\ Handler(c) \/ Client(c)
  /\ owed' = [p \in Pages |->
                IF conn[c].pc = "logged" /\ conn[c].page = p /\ docs[p].in
                THEN owed[p] \cup {conn[c].op} ELSE owed[p]]
  /\ UNCHANGED <<files, pending, events, watcher, index, rescan, save,
                 failures, external>>

Start == Serve /\ UNCHANGED pageVars

PipelineSerialize(p) == FlushSerialize(p) /\ UNCHANGED pageVars

\* pending_writes.insert, then fs::write.
PipelineWrite ==
  LET p == task.page IN
  /\ FlushWrite
  /\ pending' = pending \cup {p}
  /\ files' = files \cup {p}
  /\ owed' = [owed EXCEPT ![p] = @ \ Shown(task.snap)]
  /\ Raise(p)
  /\ UNCHANGED <<watcher, index, rescan, save, failures, external>>

\* The ops it takes out of the file are owed again.
PipelineWriteFails ==
  LET p == task.page IN
  /\ FlushWriteFails
  /\ Failure
  /\ FailsUnderEntry(p)
  /\ owed' = [owed EXCEPT ![p] = @ \cup ((Shown(disk[p]) \ Shown(disk'[p])) \cap Ops)]
  /\ UNCHANGED <<watcher, index, rescan, save, external>>

\* pending_writes.remove, then mark_flushed.
PipelineMark ==
  /\ FlushMark
  /\ pending' = pending \ {task.page}
  /\ UNCHANGED <<files, events, watcher, index, rescan, save, owed,
                 failures, external>>

\* The log is truncated, then the vault is scanned again.
PipelineScan ==
  /\ FlushTruncate
  /\ rescan' = Vault
  /\ UNCHANGED <<files, pending, events, watcher, index, save, owed,
                 failures, external>>

\* Contributors, commit, and at the end the swap of the index.
PipelineSwap ==
  /\ FlushCommit
  /\ index' = rescan /\ rescan' = NoScan
  /\ UNCHANGED <<files, pending, events, watcher, save, owed, failures,
                 external>>

PipelineScanFails == FlushReindexFails /\ UNCHANGED pageVars

Pipeline ==
  \/ \E p \in Pages : PipelineSerialize(p)
  \/ PipelineWrite \/ PipelineWriteFails \/ PipelineMark
  \/ PipelineScan \/ PipelineSwap \/ PipelineScanFails

-----------------------------------------------------------------------------
(* Requests that write pages: the save handler. *)

core == <<wal, phase, conn, task, author, crashes>>

\* pending_writes.insert, then fs::write.
SaveWrite(s, p, b) ==
  /\ phase = "up" /\ save[s].pc = "new" /\ b \notin spent
  /\ spent' = spent \cup {b}
  /\ disk' = [disk EXCEPT ![p] = Whole(b)]
  /\ files' = files \cup {p}
  /\ pending' = pending \cup {p}
  /\ Raise(p)
  /\ save' = [save EXCEPT ![s] = [NoSave EXCEPT !.pc = "written", !.page = p, !.body = b]]
  /\ UNCHANGED <<core, docs, watcher, index, rescan, owed, failures,
                 external>>

\* The write fails: the entry is removed, also when another writer set it.
SaveWriteFails(s, p, b) ==
  /\ phase = "up" /\ save[s].pc = "new" /\ b \notin spent
  /\ Failure
  /\ spent' = spent \cup {b}
  /\ WriteBreaks(p, Whole(b))
  /\ FailsUnderEntry(p)
  /\ save' = [save EXCEPT ![s] = Saved]
  /\ UNCHANGED <<core, docs, watcher, index, rescan, owed, external>>

Reloaded(e, t) == [e EXCEPT !.doc = t, !.dirty = FALSE]

\* reload_if_loaded discards what was edited and not written, also since the
\* save wrote its text.
SaveReload(s) ==
  LET p == save[s].page IN
  /\ save[s].pc = "written"
  /\ Updated(p, Reloaded(docs[p], disk[p]))
  /\ save' = [save EXCEPT ![s].pc = "stored"]
  /\ UNCHANGED <<core, disk, spent, files, pending, events, watcher, index,
                 rescan, owed, failures, external>>

\* The file cannot be read: the document stays as it was.
SaveReloadFails(s) ==
  /\ save[s].pc = "written"
  /\ save' = [save EXCEPT ![s].pc = "stored"]
  /\ UNCHANGED <<vars, files, pending, events, watcher, index, rescan, owed,
                 failures, external>>

\* The git commit, then the scan of the vault: every request that writes does so.
SaveScan(s) ==
  /\ save[s].pc = "stored"
  /\ save' = [save EXCEPT ![s].pc = "scanned", ![s].scan = Vault]
  /\ UNCHANGED <<vars, files, pending, events, watcher, index, rescan, owed,
                 failures, external>>

SaveSwap(s) ==
  /\ save[s].pc = "scanned"
  /\ index' = save[s].scan
  /\ save' = [save EXCEPT ![s] = Saved]
  /\ UNCHANGED <<vars, files, pending, events, watcher, rescan, owed,
                 failures, external>>

SaveScanFails(s) ==
  /\ save[s].pc = "stored"
  /\ save' = [save EXCEPT ![s] = Saved]
  /\ UNCHANGED <<vars, files, pending, events, watcher, index, rescan, owed,
                 failures, external>>

(* The page API and the restore of an older version.  They leave PendingWrites *)
(* and the document alone, and then scan and swap as a save does.              *)

\* A PUT of the API.  If the document is dirty, the client must show the hash of
\* its present text.  The check and the write are two steps.
ApiCheck(s, p, b) ==
  /\ phase = "up" /\ save[s].pc = "new" /\ b \notin spent
  /\ spent' = spent \cup {b}
  /\ save' = [save EXCEPT ![s] = [NoSave EXCEPT !.pc = "checked", !.page = p, !.body = b]]
  /\ UNCHANGED <<core, disk, docs, files, pending, events, watcher, index, rescan,
                 owed, failures, external>>

\* The client shows no hash or an older one: 409.
ApiConflict(s) ==
  /\ phase = "up" /\ save[s].pc = "new"
  /\ \E p \in Pages : docs[p].in /\ docs[p].dirty
  /\ save' = [save EXCEPT ![s] = Saved]
  /\ UNCHANGED <<vars, files, pending, events, watcher, index, rescan, owed,
                 failures, external>>

Store(s, p, t) ==
  /\ disk' = [disk EXCEPT ![p] = t]
  /\ files' = files \cup {p}
  /\ Raise(p)
  /\ save' = [save EXCEPT ![s].pc = "stored"]
  /\ UNCHANGED <<core, spent, docs, pending, watcher, index, rescan, owed,
                 failures, external>>

\* The write fails, with no entry in PendingWrites to remove.
StoreFails(s, p, t) ==
  /\ Failure
  /\ WriteBreaks(p, t)
  /\ UNCHANGED <<disk, files, events>> \/ (files' = files \cup {p} /\ Raise(p))
  /\ save' = [save EXCEPT ![s] = Saved]
  /\ UNCHANGED <<core, spent, docs, pending, watcher, index, rescan, owed, external>>

ApiWrite(s) ==
  /\ save[s].pc = "checked"
  /\ Store(s, save[s].page, Whole(save[s].body))

ApiWriteFails(s) ==
  /\ save[s].pc = "checked"
  /\ StoreFails(s, save[s].page, Whole(save[s].body))

\* The text of an older commit, here the first one.
Restore(s, p) ==
  /\ phase = "up" /\ save[s].pc = "new" /\ p \in index.files
  /\ Store(s, p, Blank)

RestoreFails(s, p) ==
  /\ phase = "up" /\ save[s].pc = "new" /\ p \in index.files
  /\ StoreFails(s, p, Blank)

ApiDelete(s, p) ==
  /\ phase = "up" /\ save[s].pc = "new" /\ p \in index.files \cap files
  /\ disk' = [disk EXCEPT ![p] = Blank]
  /\ files' = files \ {p}
  /\ Raise(p)
  /\ save' = [save EXCEPT ![s].pc = "stored"]
  /\ UNCHANGED <<core, spent, docs, pending, watcher, index, rescan, owed,
                 failures, external>>

\* POST /api/index: only the scan and the swap.
ApiIndex(s) ==
  /\ phase = "up" /\ save[s].pc = "new"
  /\ save' = [save EXCEPT ![s].pc = "stored"]
  /\ UNCHANGED <<vars, files, pending, events, watcher, index, rescan, owed,
                 failures, external>>

Save(s) ==
  \/ \E p \in Pages, b \in Bodies : SaveWrite(s, p, b)
  \/ SaveReload(s) \/ SaveScan(s) \/ SaveSwap(s)

Api(s) ==
  \/ \E p \in Pages : (\E b \in Bodies : ApiCheck(s, p, b)) \/ Restore(s, p) \/ ApiDelete(s, p)
  \/ ApiConflict(s) \/ ApiWrite(s) \/ ApiIndex(s) \/ SaveScan(s) \/ SaveSwap(s)

SaveFails(s) ==
  \/ \E p \in Pages : (\E b \in Bodies : SaveWriteFails(s, p, b)) \/ RestoreFails(s, p)
  \/ SaveReloadFails(s) \/ ApiWriteFails(s) \/ SaveScanFails(s)

-----------------------------------------------------------------------------
(* The watcher's thread: filter_event and the debounce window. *)

others == <<files, index, rescan, save, failures, external>>

\* Broken variant: events are ignored while a batch is reconciled.
NoticeWhenResting(p) ==
  /\ phase = "up" /\ events[p] > 0
  /\ \E n \in {0, events[p] - 1} : events' = [events EXCEPT ![p] = n]
  /\ pending' = pending \ {p}
  /\ batch' = IF p \in pending \/ watch.pc # "rest" THEN batch ELSE batch \cup {p}
  /\ UNCHANGED <<vars, others, queue, watch, owed>>

\* One event is read, or all of them at once.  An event of a path that is in
\* PendingWrites clears the entry; any other one is an external edit.
Notice(p) ==
  /\ phase = "up" /\ events[p] > 0
  /\ \E n \in {0, events[p] - 1} : events' = [events EXCEPT ![p] = n]
  /\ pending' = pending \ {p}
  /\ batch' = IF p \in pending THEN batch ELSE batch \cup {p}
  /\ UNCHANGED <<vars, others, queue, watch, owed>>

\* Broken variant: an empty batch is sent as well.
DebounceEmpty ==
  /\ queue = <<>>
  /\ queue' = Append(queue, batch)
  /\ batch' = {}
  /\ UNCHANGED <<vars, others, pending, events, watch, owed>>

Debounce ==
  /\ batch # {}
  /\ queue' = Append(queue, batch)
  /\ batch' = {}
  /\ UNCHANGED <<vars, others, pending, events, watch, owed>>

(* The reconciler: reconcile_external_edits, one batch after the other. *)

WatchScan ==
  /\ watch.pc = "rest" /\ queue # <<>>
  /\ queue' = Tail(queue)
  /\ watch' = [Resting EXCEPT !.pc = "scanned", !.work = Head(queue), !.scan = Vault]
  /\ UNCHANGED <<vars, others, pending, events, batch, owed>>

\* The vault cannot be scanned: the batch is dropped.
WatchScanFails ==
  /\ watch.pc = "rest" /\ queue # <<>>
  /\ queue' = Tail(queue)
  /\ UNCHANGED <<vars, others, pending, events, batch, watch, owed>>

\* The root hash of the scan is compared with the one of the index.
WatchCompare ==
  /\ watch.pc = "scanned"
  /\ watch' = IF VaultRoot(watch.scan) = VaultRoot(index) THEN Resting
              ELSE [watch EXCEPT !.pc = "changed"]
  /\ UNCHANGED <<vars, others, pending, events, batch, queue, owed>>

\* Broken variant: the index is rebuilt, and not swapped in.
WatchSwapSkipped ==
  /\ watch.pc = "changed"
  /\ watch' = [watch EXCEPT !.pc = "walk"]
  /\ UNCHANGED <<vars, others, pending, events, batch, queue, owed>>

WatchSwap ==
  /\ watch.pc = "changed"
  /\ index' = watch.scan
  /\ watch' = [watch EXCEPT !.pc = "walk", !.scan = NoScan]
  /\ UNCHANGED <<vars, files, rescan, save, failures, external, pending,
                 events, batch, queue, owed>>

\* The next page of the batch: is it loaded, does its file exist?  The slug is
\* made from the file name, and the store is asked for that spelling.
WatchNext(p) ==
  /\ watch.pc = "walk" /\ p \in watch.work
  /\ watch' = IF docs[p].in /\ p \in Spelled
              THEN [watch EXCEPT !.work = @ \ {p}, !.pc = "reconcile",
                                 !.page = p, !.exists = p \in files]
              ELSE [watch EXCEPT !.work = @ \ {p}]
  /\ UNCHANGED <<vars, others, pending, events, batch, queue, owed>>

WatchDone ==
  /\ watch.pc = "walk" /\ watch.work = {}
  /\ watch' = Resting
  /\ UNCHANGED <<vars, others, pending, events, batch, queue, owed>>

(* reconcile_crdt, under the lock of the store. *)

Reconcile(p) ==
  /\ watch.pc = "reconcile" /\ p = watch.page
  /\ watch' = [watch EXCEPT !.pc = "walk", !.page = NoPage, !.exists = FALSE]
  /\ UNCHANGED <<core, disk, spent, files, index, rescan, save, external, pending,
                 events, batch, queue>>

\* The document left the store, or its file cannot be read: nothing changes.
ReconcileNothing(p) ==
  /\ Reconcile(p)
  /\ ~docs[p].in \/ (watch.exists /\ p \notin files)
  /\ UNCHANGED <<docs, owed, failures>>

\* Broken variant: the recovery file is not written.
ReconcileDeletedUnsaved(p) ==
  /\ Reconcile(p)
  /\ docs[p].in /\ ~watch.exists
  /\ docs' = [docs EXCEPT ![p] = Unloaded]
  /\ UNCHANGED <<owed, failures>>

\* Case 3: the file was deleted.  A dirty document goes to a recovery file.
ReconcileDeleted(p) ==
  /\ Reconcile(p)
  /\ docs[p].in /\ ~watch.exists
  /\ docs' = [docs EXCEPT ![p] = Unloaded]
  /\ owed' = [owed EXCEPT ![p] = IF docs[p].dirty THEN @ \ Shown(docs[p].doc) ELSE @]
  /\ UNCHANGED failures

\* The recovery file cannot be written, or the markdown not made: a message,
\* and the document is removed all the same.
ReconcileDeletedLost(p) ==
  /\ Reconcile(p)
  /\ docs[p].in /\ docs[p].dirty /\ ~watch.exists
  /\ Failure
  /\ docs' = [docs EXCEPT ![p] = Unloaded]
  /\ UNCHANGED owed

\* Case 1: a clean document is read again.
ReconcileClean(p) ==
  /\ Reconcile(p)
  /\ docs[p].in /\ watch.exists /\ p \in files /\ ~docs[p].dirty
  /\ docs' = [docs EXCEPT ![p].doc = disk[p]]
  /\ UNCHANGED <<owed, failures>>

\* Broken variant: a dirty document is read again as well.
ReconcileMergeReloads(p) ==
  /\ Reconcile(p)
  /\ docs[p].in /\ watch.exists /\ p \in files /\ docs[p].dirty
  /\ docs' = [docs EXCEPT ![p].doc = disk[p]]
  /\ UNCHANGED <<owed, failures>>

\* Case 2: a dirty document is merged with the file.  The history made from the
\* file holds insertions only (load_markdown), so that the merge takes nothing
\* out of the document.  The two histories share no ancestor but the ids of
\* their operations, and the library may take an operation of the file for one
\* it has: an edit that only the file has is added or not.  (A merge that
\* panics or garbles the text, crdt/diamond.rs:11, is left out.)  The
\* generation and the flag stay.
ReconcileMerge(p) ==
  /\ Reconcile(p)
  /\ docs[p].in /\ watch.exists /\ p \in files /\ docs[p].dirty
  /\ \E S \in SUBSET (Shown(disk[p]) \ Shown(docs[p].doc)) :
       docs' = [docs EXCEPT ![p].doc =
                  [e \in Edits |-> IF e \in S THEN disk[p][e] ELSE @[e]]]
  /\ UNCHANGED <<owed, failures>>

Watch ==
  \/ Debounce \/ WatchScan \/ WatchCompare \/ WatchSwap \/ WatchDone
  \/ \E p \in Pages :
       \/ Notice(p) \/ WatchNext(p) \/ ReconcileNothing(p)
       \/ ReconcileDeleted(p) \/ ReconcileDeletedLost(p)
       \/ ReconcileClean(p) \/ ReconcileMerge(p)

-----------------------------------------------------------------------------
(* Specifications. *)

Outside ==
  \E p \in Pages :
    \/ \E b \in Bodies \ spent : ExternalWrite(p, Whole(b))
    \/ ExternalWrite(p, Blank)

\* Editors, other programs that write and delete, and the watcher.
WatchNextStep ==
  \/ Start \/ Outside \/ (\E p \in Pages : ExternalDelete(p))
  \/ (\E c \in Conns : Edit(c)) \/ Watch

\* Editors, the flush pipeline, other programs that write, and the watcher.
FlushNextStep ==
  Start \/ Outside \/ (\E c \in Conns : Edit(c)) \/ Watch \/ Pipeline

\* Editors, the save handler, the flush pipeline and the watcher.
SaveFlushNextStep ==
  \/ Start \/ (\E c \in Conns : Edit(c)) \/ Watch \/ Pipeline
  \/ \E s \in Saves : Save(s)

\* Editors, the page API and the watcher.
ApiNextStep ==
  Start \/ (\E c \in Conns : Edit(c)) \/ Watch \/ \E s \in Saves : Api(s)

\* Every writer but the flush pipeline, with the requests and scans that fail.
RequestNextStep ==
  \/ WatchNextStep \/ WatchScanFails
  \/ \E s \in Saves : Save(s) \/ Api(s) \/ SaveFails(s)

WatchSpec     == PagesInit /\ [][WatchNextStep]_allVars
FlushSpec     == PagesInit /\ [][FlushNextStep]_allVars
SaveFlushSpec == PagesInit /\ [][SaveFlushNextStep]_allVars
ApiSpec       == PagesInit /\ [][ApiNextStep]_allVars
RequestSpec   == PagesInit /\ [][RequestNextStep]_allVars

\* The watcher's thread and its reconciler run on; nobody else has to.
WatchLiveSpec ==
  WatchSpec /\ WF_allVars(Start) /\ WF_allVars(Watch)

-----------------------------------------------------------------------------
(* Properties. *)

\* The watcher has nothing left to do, and no flush and no save is under way.
Quiet ==
  /\ \A p \in Pages : events[p] = 0
  /\ batch = {} /\ queue = <<>> /\ watch.pc = "rest"
  /\ phase = "up" /\ At("idle")
  /\ \A s \in Saves : save[s].pc \in {"new", "done"}

InHand(p, o) == docs[p].in /\ docs[p].dirty /\ docs[p].doc[o] > 0

\* The reload of a save: the one place where the server discards edits.
Discards(p) ==
  \E s \in Saves : save[s].page = p /\ save[s].pc = "written" /\ save'[s].pc = "stored"

\* A deleted page is removed, and its recovery file could not be written.
Unrecovered(p) ==
  /\ watch.pc = "reconcile" /\ watch.page = p /\ watch'.pc = "walk"
  /\ failures' > failures

\* An op that was applied and is in no file stays in its document, and the
\* document stays dirty, so that the next flush writes it: no reconciliation
\* of an external edit (ws.rs, reconcile_crdt) and no flush, also one whose
\* write fails, drops anybody's work.  Two steps may: the reload of a save,
\* and the removal of a deleted page whose recovery file could not be written.
OwedOpsStayLoaded ==
  [][\A p \in Pages : \A o \in owed'[p] :
       \/ InHand(p, o)' \/ (o \in owed[p] /\ ~InHand(p, o))
       \/ Discards(p) \/ Unrecovered(p)]_allVars

\* Once the watcher is quiet the index is the vault but for what no root
\* shows, whatever was written or deleted while it scanned and reconciled.
QuietIndexIsCurrent == Quiet => VaultRoot(index) = VaultRoot(Vault)

\* The index catches up for good once other programs leave the vault alone.
IndexCatchesUp == <>[](VaultRoot(index) = VaultRoot(Vault))

-----------------------------------------------------------------------------
(* Claims of the comments that the code does not keep: each one is the      *)
(* property of a run that expects a violation.                              *)

\* routes.rs: the document is reloaded "so further typing happens on top of the
\* saved state rather than the pre-save" one.  So once it was reloaded, only
\* another save takes the saved text out of the file.
SavedTextStays ==
  [][(\A s \in Saves : save[s].pc # "written")
       => \A p \in Pages, b \in Bodies :
            disk[p][b] > 0 => disk'[p][b] > 0 \/ save' # save]_allVars

\* fs_watch.rs: an unchanged hash means "the edits were no-ops or reverts".
\* So a clean document is its file once the watcher is quiet.
QuietDocumentsAreCurrent == Quiet => CleanMeansOnDisk
=============================================================================
