---------------------------- MODULE CrdtDocStore ----------------------------
(***************************************************************************)
(* The collaborative editing core of `zetl serve`: the in-memory store of  *)
(* CRDT documents (web/ws.rs, CrdtDocStore), the write-ahead log           *)
(* (web/wal.rs), the flush lifecycle task (web/flush.rs) and the           *)
(* connections that edit a page (handle_socket, process_client_msg).       *)
(*                                                                         *)
(* Every action is one critical section of the code or one file-system     *)
(* call; connections and the lifecycle task interleave between them.  A    *)
(* stop of the server is always a Crash: axum::serve runs without a        *)
(* shutdown hook and nothing calls CrdtDocStore::flush_all.                *)
(*                                                                         *)
(* Data.  A document is the multiset of the edits it shows: a batch of ops *)
(* adds itself once, a whole text (a body) replaces everything.  An op     *)
(* counts twice in a document that shows it twice.  Blank is the text the  *)
(* page had before.  Durations (quiescence, eviction TTL), the 10 MB limit *)
(* of the log and the order of last accesses are left open: what they      *)
(* enable may happen at any moment.                                        *)
(***************************************************************************)
EXTENDS Naturals, FiniteSets

CONSTANTS
  Pages,       \* page slugs
  Conns,       \* WebSocket connections; each one is its own user
  Ops,         \* batches of ops that clients send, each sent at most once
  Bodies,      \* whole texts that replace a document, each used at most once
  MaxDocs,     \* DEFAULT_MAX_DOCS, the memory bound of the store
  MaxCrashes   \* bound on the number of crashes of one behaviour

ASSUME SetsAssumption ==
  /\ IsFiniteSet(Pages) /\ IsFiniteSet(Conns) /\ IsFiniteSet(Ops)
  /\ Ops \cap Bodies = {}
ASSUME BoundsAssumption == MaxDocs \in Nat \ {0} /\ MaxCrashes \in Nat

VARIABLES
  disk,     \* the .md file of each page
  wal,      \* the batches in .zetl/crdt/<slug>.wal
  phase,    \* "recovering" while replay_pending_wals runs, then "up"
  docs,     \* CrdtDocStore::docs
  conn,     \* where each connection's handler is, its slug, its batch
  task,     \* the lifecycle task, or the replay loop while recovering
  author,   \* who sent each op: a connection, NotSent, or Recovered
  spent,    \* bodies already used
  crashes

vars == <<disk, wal, phase, docs, conn, task, author, spent, crashes>>
inputs == <<author, spent, crashes>>

-----------------------------------------------------------------------------
(* Contents. *)

Edits   == Ops \cup Bodies
Content == [Edits -> Nat]

Blank       == [e \in Edits |-> 0]
Whole(b)    == [e \in Edits |-> IF e = b THEN 1 ELSE 0]
Apply(t, o) == [t EXCEPT ![o] = @ + 1]
Shown(t)    == {e \in Edits : t[e] > 0}

\* What a write of a text may leave that does not run to its end: fs::write
\* empties the file first, so any part of the text, and the whole at the most.
Parts(t) ==
  {u \in [Edits -> UNION {0..t[e] : e \in Edits}] : \A e \in Edits : u[e] <= t[e]}

\* Every batch of a log applied on top of a text.
Replay(t, log) == [e \in Edits |-> IF e \in log THEN t[e] + 1 ELSE t[e]]

(* Entries of the store.  A page that is not loaded has the entry Unloaded.  *)
(* failed is a history field: the last flush of the document failed.         *)

Entry == [in : BOOLEAN, doc : Content, dirty : BOOLEAN, gen : Nat,
          count : Nat, gone : BOOLEAN, contrib : SUBSET Conns, failed : BOOLEAN]

Unloaded == [in |-> FALSE, doc |-> Blank, dirty |-> FALSE, gen |-> 0,
             count |-> 0, gone |-> FALSE, contrib |-> {}, failed |-> FALSE]

\* Broken variant: the document is created without reading the file.
NewEntryEmpty(t) == [Unloaded EXCEPT !.in = TRUE]

NewEntry(t) == [Unloaded EXCEPT !.in = TRUE, !.doc = t]

\* Broken variant: an edit does not mark the document.
TouchedNotDirty(e) == [e EXCEPT !.gen = @ + 1]

Touched(e) == [e EXCEPT !.dirty = TRUE, !.gen = @ + 1]

Loaded == {p \in Pages : docs[p].in}

\* The entry of a page after f, if the page is loaded: `if let Some(entry)`.
Updated(p, new) == docs' = IF docs[p].in THEN [docs EXCEPT ![p] = new] ELSE docs

(* Connections and the task. *)

NotSent   == "not sent"
Recovered == "recovered"
NoPage    == "no page"
NoOp      == "no op"

ASSUME NamesAssumption == NotSent \notin Conns

Off == [pc |-> "off", page |-> NoPage, op |-> NoOp]

ConnState == [pc : {"off", "loaded", "open", "logged", "applied"},
              page : Pages \cup {NoPage}, op : Ops \cup {NoOp}]

\* The task is waiting, walks a list of pages, or has a job for one page: the
\* markdown and the generation it took from the store, and the rest of the list.
Idle == [pc |-> "idle", page |-> NoPage, snap |-> Blank, gen |-> 0, todo |-> {}]

Walk(pc, S) == [Idle EXCEPT !.pc = pc, !.todo = S]

Job(pc, p, t, g, S) ==
  [pc |-> pc, page |-> p, snap |-> t, gen |-> g, todo |-> S]

ListPcs == {"idle", "replay", "evict"}
JobPcs  == {"write", "mark", "truncate", "commit", "discard",
            "evict write", "evict truncate"}

TaskState == [pc : ListPcs \cup JobPcs, page : Pages \cup {NoPage},
              snap : Content, gen : Nat, todo : SUBSET Pages]

TypeOK ==
  /\ disk \in [Pages -> Content]
  /\ wal \in [Pages -> SUBSET Ops]
  /\ phase \in {"recovering", "up"}
  /\ docs \in [Pages -> Entry]
  /\ conn \in [Conns -> ConnState]
  /\ task \in TaskState
  /\ author \in [Ops -> Conns \cup {NotSent, Recovered}]
  /\ spent \in SUBSET Bodies
  /\ crashes \in 0..MaxCrashes
  /\ \A c \in Conns : conn[c].pc # "off" => conn[c].page \in Pages
  /\ \A c \in Conns : conn[c].pc \in {"logged", "applied"} => conn[c].op \in Ops
  /\ task.pc \in JobPcs => task.page \in Pages

Init ==
  /\ disk = [p \in Pages |-> Blank]
  /\ wal = [p \in Pages |-> {}]
  /\ phase = "recovering"
  /\ docs = [p \in Pages |-> Unloaded]
  /\ conn = [c \in Conns |-> Off]
  /\ task = Walk("replay", {})
  /\ author = [o \in Ops |-> NotSent]
  /\ spent = {}
  /\ crashes = 0

\* The text t is not written to a page: its directory cannot be made or its
\* file not opened, which changes nothing, or the write breaks off.
WriteBreaks(p, t) ==
  \/ UNCHANGED disk
  \/ \E u \in Parts(t) : disk' = [disk EXCEPT ![p] = u]

-----------------------------------------------------------------------------
(* Loading: load_or_get, under the lock of the store. *)

\* Broken variant: the bound is checked one document too late.
VictimsOffByOne ==
  IF Cardinality(Loaded) <= MaxDocs THEN {} ELSE {q \in Loaded : docs[q].count = 0}

\* The documents evict_lru may choose when the store is full: none when every
\* document has a client, and the store then grows over its bound.
Victims ==
  IF Cardinality(Loaded) < MaxDocs THEN {} ELSE {q \in Loaded : docs[q].count = 0}

\* Insert the entry of a page that is not loaded, after evict_lru.
LoadOrGet(p, entry) ==
  /\ ~docs[p].in
  /\ \/ /\ Victims = {}
        /\ docs' = [docs EXCEPT ![p] = entry]
        /\ UNCHANGED disk
     \/ \E q \in Victims :
          /\ docs' = [docs EXCEPT ![q] = Unloaded, ![p] = entry]
          /\ disk' = IF docs[q].dirty THEN [disk EXCEPT ![q] = docs[q].doc] ELSE disk

\* evict_lru cannot write its victim: load_or_get fails, the victim stays.
EvictLruFails(p) ==
  /\ ~docs[p].in
  /\ \E q \in Victims : docs[q].dirty /\ WriteBreaks(q, docs[q].doc)
  /\ UNCHANGED docs

\* A connection starts: register_path, then load_or_get.
Load(c, p) ==
  /\ phase = "up" /\ conn[c].pc = "off"
  /\ \/ docs[p].in /\ UNCHANGED <<docs, disk>>
     \/ LoadOrGet(p, NewEntry(disk[p]))
  /\ conn' = [conn EXCEPT ![c] = [pc |-> "loaded", page |-> p, op |-> NoOp]]
  /\ UNCHANGED <<wal, phase, task, inputs>>

\* load_or_get cannot evict a document, or evicts one and then cannot read the
\* page: the handler returns.  (An error before that changes nothing.)
LoadFails(c, p) ==
  /\ phase = "up" /\ conn[c].pc = "off" /\ Victims # {}
  /\ EvictLruFails(p) \/ LoadOrGet(p, Unloaded)
  /\ UNCHANGED <<wal, phase, conn, task, inputs>>

\* client_connected, in a critical section of its own.
Connect(c) ==
  LET p == conn[c].page IN
  /\ conn[c].pc = "loaded"
  /\ Updated(p, [docs[p] EXCEPT !.count = @ + 1, !.gone = FALSE])
  /\ conn' = [conn EXCEPT ![c].pc = "open"]
  /\ UNCHANGED <<disk, wal, phase, task, inputs>>

\* Broken variants: the count is not decremented, or not saturated at zero.
DisconnectKeepsCount(c) ==
  LET p == conn[c].page IN
  /\ conn[c].pc = "open"
  /\ Updated(p, [docs[p] EXCEPT !.gone = TRUE])
  /\ conn' = [conn EXCEPT ![c] = Off]
  /\ UNCHANGED <<disk, wal, phase, task, inputs>>

DisconnectUnsaturated(c) ==
  LET p == conn[c].page IN
  /\ conn[c].pc = "open"
  /\ Updated(p, [docs[p] EXCEPT !.count = @ - 1, !.gone = docs[p].count = 1])
  /\ conn' = [conn EXCEPT ![c] = Off]
  /\ UNCHANGED <<disk, wal, phase, task, inputs>>

\* The socket closes between two messages: client_disconnected.
Disconnect(c) ==
  LET p == conn[c].page
      n == IF docs[p].count = 0 THEN 0 ELSE docs[p].count - 1
  IN
  /\ conn[c].pc = "open"
  /\ Updated(p, [docs[p] EXCEPT !.count = n, !.gone = IF n = 0 THEN TRUE ELSE @])
  /\ conn' = [conn EXCEPT ![c] = Off]
  /\ UNCHANGED <<disk, wal, phase, task, inputs>>

-----------------------------------------------------------------------------
(* Messages: process_client_msg. *)

Receive(c, o) ==
  /\ conn[c].pc = "open" /\ author[o] = NotSent
  /\ author' = [author EXCEPT ![o] = c]
  /\ conn' = [conn EXCEPT ![c].pc = "logged", ![c].op = o]

\* An op message: append_ops, synced to disk before the batch is applied.
LogOp(c, o) ==
  /\ Receive(c, o)
  /\ wal' = [wal EXCEPT ![conn[c].page] = @ \cup {o}]
  /\ UNCHANGED <<disk, phase, docs, task, spent, crashes>>

\* The append fails: the handler warns and goes on.
LogOpFails(c, o) ==
  /\ Receive(c, o)
  /\ UNCHANGED <<disk, wal, phase, docs, task, spent, crashes>>

\* apply_ops: a no-op when the page is not loaded.
ApplyOps(c) ==
  LET p == conn[c].page
      e == docs[p]
  IN
  /\ conn[c].pc = "logged"
  /\ Updated(p, Touched([e EXCEPT !.doc = Apply(@, conn[c].op),
                                  !.contrib = @ \cup {c}]))
  /\ conn' = [conn EXCEPT ![c].pc = "applied"]
  /\ UNCHANGED <<disk, wal, phase, task, inputs>>

\* record_edit; the batch is then broadcast.
RecordEdit(c) ==
  LET p == conn[c].page IN
  /\ conn[c].pc = "applied"
  /\ Updated(p, Touched(docs[p]))
  /\ conn' = [conn EXCEPT ![c].pc = "open", ![c].op = NoOp]
  /\ UNCHANGED <<disk, wal, phase, task, inputs>>

\* A sync message: apply_sync replaces the document; the log does not see it.
ApplySync(c, b) ==
  LET p == conn[c].page IN
  /\ conn[c].pc = "open" /\ b \notin spent
  /\ Updated(p, Touched([docs[p] EXCEPT !.doc = Whole(b), !.contrib = @ \cup {c}]))
  /\ spent' = spent \cup {b}
  /\ UNCHANGED <<disk, wal, phase, conn, task, author, crashes>>

-----------------------------------------------------------------------------
(* The flush pipeline, run by the lifecycle task for one page at a time.   *)
(* The steps after the commit rebuild indexes and are not modelled here.   *)

At(pc) == task.pc = pc
Goto(pc) == task' = [task EXCEPT !.pc = pc]

\* What follows the pipeline: the next tick, or the next page of the replay.
Return == IF phase = "up" THEN Idle ELSE Walk("replay", task.todo)

\* serialize_for_flush: quiescence, or a log over its limit.
FlushSerialize(p) ==
  /\ phase = "up" /\ At("idle")
  /\ docs[p].in /\ docs[p].dirty
  /\ task' = Job("write", p, docs[p].doc, docs[p].gen, {})
  /\ UNCHANGED <<disk, wal, phase, docs, conn, inputs>>

FlushWrite ==
  /\ At("write")
  /\ disk' = [disk EXCEPT ![task.page] = task.snap]
  /\ Goto("mark")
  /\ UNCHANGED <<wal, phase, docs, conn, inputs>>

\* Broken variant: a failing write ends the replay loop as well.
FlushWriteFailsStops ==
  /\ At("write")
  /\ task' = Idle
  /\ WriteBreaks(task.page, task.snap)
  /\ Updated(task.page, [docs[task.page] EXCEPT !.failed = TRUE])
  /\ UNCHANGED <<wal, phase, conn, inputs>>

\* create_dir_all or fs::write fails: flush_pipeline returns None.
FlushWriteFails ==
  /\ At("write")
  /\ IF phase = "up" THEN task' = Return ELSE Goto("discard")
  /\ WriteBreaks(task.page, task.snap)
  /\ Updated(task.page, [docs[task.page] EXCEPT !.failed = TRUE])
  /\ UNCHANGED <<wal, phase, conn, inputs>>

\* Broken variant: the generation is not compared.
FlushMarkAnyGeneration ==
  /\ At("mark")
  /\ Updated(task.page, [docs[task.page] EXCEPT !.dirty = FALSE, !.failed = FALSE])
  /\ Goto("truncate")
  /\ UNCHANGED <<disk, wal, phase, conn, inputs>>

\* mark_flushed, guarded by the generation taken with the snapshot.
FlushMark ==
  LET p == task.page IN
  /\ At("mark")
  /\ Updated(p, [docs[p] EXCEPT !.dirty = @ /\ docs[p].gen # task.gen,
                                !.failed = FALSE])
  /\ Goto("truncate")
  /\ UNCHANGED <<disk, wal, phase, conn, inputs>>

\* Broken variant: the log is kept.
FlushTruncateSkipped ==
  /\ At("truncate")
  /\ Goto("commit")
  /\ UNCHANGED <<disk, wal, phase, docs, conn, inputs>>

FlushTruncate ==
  /\ At("truncate")
  /\ wal' = [wal EXCEPT ![task.page] = {}]
  /\ Goto("commit")
  /\ UNCHANGED <<disk, phase, docs, conn, inputs>>

\* take_contributors, then the git commit and the jj snapshot they sign.
FlushCommit ==
  /\ At("commit")
  /\ docs' = [docs EXCEPT ![task.page].contrib = {}]
  /\ task' = Return
  /\ UNCHANGED <<disk, wal, phase, conn, inputs>>

\* The vault cannot be re-indexed: the pipeline returns before the commit.
FlushReindexFails ==
  /\ At("commit")
  /\ task' = Return
  /\ UNCHANGED <<disk, wal, phase, docs, conn, inputs>>

-----------------------------------------------------------------------------
(* TTL eviction, by the same task after its flushes. *)

\* slugs_for_eviction: the list is made once, under one lock.  The TTL is much
\* longer than the quiescence delay, so a document on it was flushed since
\* its last edit; it is dirty only if that flush failed.
EvictScan ==
  /\ phase = "up" /\ At("idle")
  /\ \E S \in SUBSET {p \in Loaded : docs[p].count = 0 /\ docs[p].gone} :
       /\ S # {}
       /\ \A p \in S : docs[p].dirty => docs[p].failed
       /\ task' = Walk("evict", S)
  /\ UNCHANGED <<disk, wal, phase, docs, conn, inputs>>

EvictNext(S) == IF S = {} THEN Idle ELSE Walk("evict", S)

\* evict removes the document whatever happened since the list was made.
Evict(p) ==
  /\ At("evict") /\ p \in task.todo
  /\ docs' = [docs EXCEPT ![p] = Unloaded]
  /\ task' = IF docs[p].in /\ docs[p].dirty
             THEN Job("evict write", p, docs[p].doc, 0, task.todo \ {p})
             ELSE EvictNext(task.todo \ {p})
  /\ UNCHANGED <<disk, wal, phase, conn, inputs>>

EvictWrite ==
  /\ At("evict write")
  /\ disk' = [disk EXCEPT ![task.page] = task.snap]
  /\ Goto("evict truncate")
  /\ UNCHANGED <<wal, phase, docs, conn, inputs>>

\* The document is gone already: what the file lacks now is nowhere else.
EvictWriteFails ==
  /\ At("evict write")
  /\ WriteBreaks(task.page, task.snap)
  /\ task' = EvictNext(task.todo)
  /\ UNCHANGED <<wal, phase, docs, conn, inputs>>

EvictTruncate ==
  /\ At("evict truncate")
  /\ wal' = [wal EXCEPT ![task.page] = {}]
  /\ task' = EvictNext(task.todo)
  /\ UNCHANGED <<disk, phase, docs, conn, inputs>>

-----------------------------------------------------------------------------
(* Crash and recovery. *)

\* The process stops: only the files remain.  The next one begins with the
\* list of the non-empty logs, pending_slugs.
Stop ==
  /\ crashes < MaxCrashes
  /\ crashes' = crashes + 1
  /\ phase' = "recovering"
  /\ docs' = [p \in Pages |-> Unloaded]
  /\ conn' = [c \in Conns |-> Off]
  /\ task' = Walk("replay", {p \in Pages : wal[p] # {}})
  /\ author' = [o \in Ops |-> IF author[o] = NotSent THEN NotSent ELSE Recovered]
  /\ UNCHANGED <<wal, spent>>

Crash == Stop /\ UNCHANGED disk

\* The process stops in the middle of an fs::write of the task.
TornCrash ==
  /\ At("write") \/ At("evict write")
  /\ Stop
  /\ \E u \in Parts(task.snap) : disk' = [disk EXCEPT ![task.page] = u]

\* Broken variant: the log is replayed on an empty document.
RecoverReplayOnBlank(p) ==
  LET t == Replay(Blank, wal[p])
      g == Cardinality(wal[p])
  IN
  /\ At("replay") /\ p \in task.todo
  /\ LoadOrGet(p, [NewEntry(t) EXCEPT !.dirty = TRUE, !.gen = g])
  /\ task' = Job("write", p, t, g, task.todo \ {p})
  /\ UNCHANGED <<wal, phase, conn, inputs>>

\* replay_pending_wals, for one page: load it, apply every batch without a
\* contributor, serialize at once.  Nothing else runs yet.
RecoverReplay(p) ==
  LET t == Replay(disk[p], wal[p])
      g == Cardinality(wal[p])
  IN
  /\ At("replay") /\ p \in task.todo
  /\ LoadOrGet(p, [NewEntry(t) EXCEPT !.dirty = TRUE, !.gen = g])
  /\ task' = Job("write", p, t, g, task.todo \ {p})
  /\ UNCHANGED <<wal, phase, conn, inputs>>

\* Lines of the log that do not parse are skipped, and so are batches that do
\* not apply.  When nothing is left the document is clean and not flushed.
RecoverPartly(p) ==
  /\ At("replay") /\ p \in task.todo
  /\ \E S \in (SUBSET wal[p]) \ {wal[p]} :
       LET t == Replay(disk[p], S)
           g == Cardinality(S)
       IN
       /\ LoadOrGet(p, [NewEntry(t) EXCEPT !.dirty = (S # {}), !.gen = g])
       /\ task' = Job(IF S = {} THEN "discard" ELSE "write", p, t, g, task.todo \ {p})
  /\ UNCHANGED <<wal, phase, conn, inputs>>

\* The page cannot be loaded, with or without an eviction before: the loop
\* goes on with the next one.
RecoverSkip(p) ==
  /\ At("replay") /\ p \in task.todo
  /\ \/ UNCHANGED <<disk, docs>>
     \/ EvictLruFails(p)
     \/ Victims # {} /\ LoadOrGet(p, Unloaded)
  /\ task' = Walk("replay", task.todo \ {p})
  /\ UNCHANGED <<wal, phase, conn, inputs>>

\* flush_pipeline returned None, because the write failed or the document is
\* not dirty: the log is truncated anyway.
RecoverDiscard ==
  /\ At("discard")
  /\ wal' = [wal EXCEPT ![task.page] = {}]
  /\ task' = Return
  /\ UNCHANGED <<disk, phase, docs, conn, inputs>>

\* The log file cannot be removed, in any of the three places that try: a
\* warning, and the log stays.
TruncateFails ==
  /\ \/ At("truncate") /\ Goto("commit")
     \/ At("evict truncate") /\ task' = EvictNext(task.todo)
     \/ At("discard") /\ task' = Return
  /\ UNCHANGED <<disk, wal, phase, docs, conn, inputs>>

\* The replay loop is over and the server starts its tasks.
Serve ==
  /\ At("replay") /\ task.todo = {}
  /\ phase' = "up"
  /\ task' = Idle
  /\ UNCHANGED <<disk, wal, docs, conn, inputs>>

-----------------------------------------------------------------------------
(* Specifications. *)

Handler(c) == Connect(c) \/ ApplyOps(c) \/ RecordEdit(c)

Client(c) ==
  \/ \E p \in Pages : Load(c, p)
  \/ \E o \in Ops : LogOp(c, o)
  \/ Disconnect(c)

Flush ==
  \/ \E p \in Pages : FlushSerialize(p)
  \/ FlushWrite \/ FlushMark \/ FlushTruncate \/ FlushCommit

FlushFails == FlushWriteFails \/ FlushReindexFails

Eviction ==
  \/ \E p \in Pages : Evict(p)
  \/ EvictScan \/ EvictWrite \/ EvictTruncate \/ EvictWriteFails

Recovery == (\E p \in Pages : RecoverReplay(p)) \/ RecoverDiscard \/ Serve

\* Clients that send ops, flushes and crashes; documents stay loaded.
CoreNext ==
  \/ \E c \in Conns : Handler(c) \/ Client(c)
  \/ Flush \/ FlushFails \/ Recovery \/ Crash

\* The whole module: also sync messages, TTL eviction, failing appends, loads
\* and truncations, damaged logs, and a crash in the middle of fs::write.
Next ==
  \/ CoreNext
  \/ Eviction
  \/ \E c \in Conns, b \in Bodies : ApplySync(c, b)
  \/ \E c \in Conns, o \in Ops : LogOpFails(c, o)
  \/ \E c \in Conns, p \in Pages : LoadFails(c, p)
  \/ \E p \in Pages : RecoverSkip(p) \/ RecoverPartly(p)
  \/ TruncateFails
  \/ TornCrash

\* CoreNext and sync messages.
EditNext == CoreNext \/ \E c \in Conns, b \in Bodies : ApplySync(c, b)

CoreSpec == Init /\ [][CoreNext]_vars
EditSpec == Init /\ [][EditNext]_vars
Spec == Init /\ [][Next]_vars

\* A handler that started runs to its end, the task never stops, and a write
\* that is tried again and again succeeds once.  Clients owe nothing.
CoreFairness ==
  /\ \A c \in Conns : WF_vars(Handler(c))
  /\ WF_vars(FlushMark \/ FlushTruncate \/ FlushCommit \/ FlushReindexFails)
  /\ WF_vars(Recovery)
  /\ SF_vars(FlushWrite)
  /\ \A p \in Pages : SF_vars(FlushSerialize(p))

CoreLiveSpec == CoreSpec /\ CoreFairness
-----------------------------------------------------------------------------
(* Properties of CoreSpec and EditSpec. *)

\* The meaning the code gives to the dirty flag (ws.rs, CrdtDocEntry::dirty): a
\* loaded document that is not dirty is what its file holds.  Otherwise
\* nothing would ever write its edits.
CleanMeansOnDisk ==
  \A p \in Pages : docs[p].in /\ ~docs[p].dirty => docs[p].doc = disk[p]

\* An edit that reached a file leaves it only by a write that fails, and then
\* the loaded document has it and is marked to be written again: no flush, and
\* no replay after a crash, writes a document that lacks what the file shows.
DiskKeepsEdits ==
  [][\A p \in Pages : \A e \in Edits :
       disk'[p][e] < disk[p][e] =>
         docs'[p].failed /\ docs'[p].dirty /\ docs'[p].doc[e] >= disk[p][e]]_vars

\* Between the write of a flush and the truncation of the log a crash makes
\* the replay apply a batch twice, and so does a file with a part of what a
\* failed write was to leave.  At any other moment the log holds no batch the
\* file shows (wal.rs: edits "that were not yet flushed").
LogHoldsOnlyUnwritten ==
  phase = "up" /\ task.pc \notin {"mark", "truncate", "evict truncate"}
    => \A p \in Pages : docs[p].failed \/ wal[p] \cap Shown(disk[p]) = {}

\* A batch that is in a document is written to the file in the end, unless
\* the server stops first (REQ-020-034: edits are flushed on quiescence).
AppliedOpsReachDisk ==
  \A p \in Pages : \A o \in Ops :
    docs[p].doc[o] > 0 ~> (disk[p][o] > 0 \/ phase = "recovering")

\* Recovery ends: the server does not replay its logs forever.
RecoveryEnds == phase = "recovering" ~> phase = "up"

\* The edits an editor of a page is shown, or would be shown after a restart.
SeenBy(p) ==
  Shown(IF docs[p].in THEN docs[p].doc ELSE Replay(disk[p], wal[p]))

SentOps  == {o \in Ops : author[o] # NotSent}
SeenOps  == [p \in Pages |-> SeenBy(p) \cap Ops]
SavedOps == [p \in Pages |-> Shown(disk[p]) \cap Ops]

\* The ops the next write of a page will leave in its file, if it succeeds.
Due(p) ==
  IF task.pc = "write" /\ task.page = p THEN Shown(task.snap) ELSE SeenBy(p)
DueOps == [p \in Pages |-> Due(p) \cap Ops]

Durable == INSTANCE DurablePages WITH
  Edits <- Ops, sent <- SentOps, seen <- SeenOps, due <- DueOps,
  saved <- SavedOps, restarts <- crashes

\* The core implements DurablePages: a write that succeeds leaves in the file
\* every op its editors saw when it began, also those an earlier write failed
\* to keep, and only a restart takes from them what the file lacks.
ImplementsDurablePages == Durable!Spec

-----------------------------------------------------------------------------
(* Properties of Spec. *)

Connected(p) == {c \in Conns : conn[c].page = p /\ conn[c].pc \notin {"off", "loaded"}}

\* The client count of a document never exceeds its connections, also when
\* the document was evicted and loaded again under them: clients that left
\* never keep a document in memory.
CountBoundedByConnections ==
  \A p \in Pages : docs[p].count <= Cardinality(Connected(p))

\* The store grows over its bound only when every document has a client.
GrowsOnlyWhenAllActive ==
  [][Cardinality(Loaded') > Cardinality(Loaded) /\ Cardinality(Loaded) >= MaxDocs
       => \A p \in Loaded : docs[p].count > 0]_vars
-----------------------------------------------------------------------------
(* Claims of the comments that the code does not keep: each one is the      *)
(* property of a run that expects a violation.                              *)

\* mod.rs: "If the server crashed with dirty CRDT state, the WAL contains the
\* operations that were not yet flushed."
LogCoversUnwritten ==
  \A p \in Pages : \A o \in Ops :
    docs[p].doc[o] > 0 => disk[p][o] > 0 \/ o \in wal[p]

\* ws.rs: the store evicts a document after all its clients disconnected, and
\* a document "that has no active clients" when it is full.  So a connection
\* that sends ops has a document to apply them to.
ConnectedHaveDocument ==
  \A p \in Pages : Connected(p) # {} => docs[p].in
=============================================================================
