---------------------------- MODULE CrdtLogProofs ----------------------------
(***************************************************************************)
(* What the write-ahead log holds, for any number of pages, connections,   *)
(* batches and crashes, as long as no document is evicted.                 *)
(***************************************************************************)
EXTENDS CrdtFlushProofs

-----------------------------------------------------------------------------
(* LogHoldsOnlyUnwritten is not inductive.  Four things keep it:           *)
(*                                                                         *)
(* FreshInv: a batch that no client sent yet is in no text at all, so that *)
(* logging it never logs what a file shows.                                *)
(*                                                                         *)
(* LogInv: while the server is up only the page between write and truncate *)
(* and those whose last write failed may have a log their file shows;      *)
(* while it recovers, a page whose turn is over has no log.                *)
(*                                                                         *)
(* FlushInv: the document a write fails for is loaded, and marked failed.  *)
(*                                                                         *)
(* AloneInv: no client is connected during the recovery.                   *)

Fresh(o) ==
  /\ \A p \in Pages : disk[p][o] = 0 /\ docs[p].doc[o] = 0 /\ o \notin wal[p]
  /\ task.snap[o] = 0
  /\ \A c \in Conns : conn[c].pc = "logged" => conn[c].op # o

FreshInv == \A o \in Ops : author[o] = NotSent => Fresh(o)

\* The page whose log may hold what its file shows, or is still to be dropped.
InTurn(p, pcs) == task.pc \in pcs /\ task.page = p

LogInv ==
  \A p \in Pages :
    /\ phase = "up" /\ ~InTurn(p, {"mark", "truncate"}) /\ ~docs[p].failed
         => wal[p] \cap Shown(disk[p]) = {}
    /\ docs[p].failed => docs[p].in
    /\ phase # "up" /\ p \notin task.todo
         /\ ~InTurn(p, {"write", "mark", "truncate", "discard"})
         => wal[p] = {}

AloneInv == phase # "up" => \A c \in Conns : conn[c].pc = "off"

LogsInv == FreshInv /\ LogInv /\ AloneInv

-----------------------------------------------------------------------------
(* Fields of the task. *)

LEMMA TaskFields ==
  /\ \A pc, p, t, g, S :
       LET j == Job(pc, p, t, g, S) IN
       j.pc = pc /\ j.page = p /\ j.snap = t /\ j.todo = S
  /\ \A pc, S :
       LET w == Walk(pc, S) IN w.pc = pc /\ w.snap = Blank /\ w.todo = S
  /\ Idle.pc = "idle" /\ Idle.snap = Blank
  BY DEF Job, Walk, Idle

LEMMA GotoTodo ==
  ASSUME task \in TaskState, NEW pc, Goto(pc)
  PROVE  task'.todo = task.todo
  BY DEF Goto, TaskState

\* What Return gives, in either phase.
LEMMA ReturnFields ==
  /\ Return.snap = Blank
  /\ phase = "up" => Return.pc = "idle"
  /\ phase # "up" => Return.pc = "replay" /\ Return.todo = task.todo
  BY TaskFields DEF Return

LEMMA BlankZero == \A o \in Ops : Blank[o] = 0
  BY DEF Blank, Edits

-----------------------------------------------------------------------------
LEMMA LogsInit == Init => LogsInv
<1>. SUFFICES ASSUME Init PROVE LogsInv
  OBVIOUS
<1>1. FreshInv
  <2>1. \A p \in Pages : disk[p] = Blank /\ docs[p].doc = Blank /\ wal[p] = {}
    BY DEF Init, Unloaded
  <2>2. task.snap = Blank /\ \A c \in Conns : conn[c].pc = "off"
    BY TaskFields DEF Init, Off
  <2>. QED BY <2>1, <2>2, BlankZero DEF FreshInv, Fresh
<1>2. LogInv
  BY DEF Init, LogInv, Unloaded
<1>3. AloneInv
  BY DEF Init, AloneInv, Off
<1>. QED BY <1>1, <1>2, <1>3 DEF LogsInv

\* An op that is still not sent after a step is in no text after it.
LEMMA FreshStep ==
  ASSUME RoomForAll, TypeOK, FreshInv, [EditNext]_vars
  PROVE  FreshInv'
<1>. USE DEF inputs
<1>. SUFFICES ASSUME NEW o \in Ops, author'[o] = NotSent
              PROVE  Fresh(o)'
  BY DEF FreshInv
<1>1. /\ docs \in [Pages -> Entry] /\ disk \in [Pages -> Content]
      /\ wal \in [Pages -> SUBSET Ops] /\ author \in [Ops -> Conns \cup {NotSent, Recovered}]
      /\ conn \in [Conns -> ConnState] /\ task \in TaskState
      /\ task.pc \in JobPcs => task.page \in Pages
  BY DEF TypeOK
<1>2. ASSUME author[o] = NotSent PROVE Fresh(o)
  BY <1>2 DEF FreshInv
<1>3. ASSUME NEW c \in Conns, NEW p \in Pages, Load(c, p) PROVE Fresh(o)'
  <2>1. Fresh(o)
    BY <1>2, <1>3 DEF Load
  <2>2. /\ wal' = wal /\ task' = task
        /\ conn' = [conn EXCEPT ![c] = [pc |-> "loaded", page |-> p, op |-> NoOp]]
    BY <1>3 DEF Load
  <2>3. disk' = disk /\ \A q \in Pages : docs'[q].doc = docs[q].doc \/ docs'[q].doc = disk[q]
    <3>1. CASE docs[p].in /\ UNCHANGED <<docs, disk>>
      BY <3>1
    <3>2. CASE LoadOrGet(p, NewEntry(disk[p]))
      <4>1. /\ docs'[p] = NewEntry(disk[p]) /\ disk' = disk
            /\ \A q \in Pages \ {p} : docs'[q] = docs[q]
        BY <1>1, <3>2, LoadWithRoom
      <4>2. docs'[p].doc = disk[p]
        BY <4>1, NewEntryFields
      <4>. QED BY <4>1, <4>2
    <3>. QED BY <1>3, <3>1, <3>2 DEF Load
  <2>4. \A d \in Conns : conn'[d].pc = "logged" => conn'[d] = conn[d]
    BY <1>1, <2>2
  <2>. QED BY <2>1, <2>2, <2>3, <2>4 DEF Fresh
<1>4. ASSUME NEW c \in Conns, Connect(c) \/ Disconnect(c) PROVE Fresh(o)'
  <2>1. Fresh(o) /\ disk' = disk /\ wal' = wal /\ task' = task
    BY <1>2, <1>4 DEF Connect, Disconnect
  <2>2. SameTexts
    BY <1>4, ConnectTexts
  <2>3. \A d \in Conns : conn'[d].pc = "logged" => conn'[d] = conn[d]
    BY <1>1, <1>4 DEF Connect, Disconnect, Off, ConnState
  <2>. QED BY <2>1, <2>2, <2>3 DEF Fresh, SameTexts
<1>5. ASSUME NEW c \in Conns, NEW r \in Ops, LogOp(c, r) PROVE Fresh(o)'
  <2>1. author' = [author EXCEPT ![r] = c]
    BY <1>5 DEF LogOp, Receive
  <2>2. r # o /\ author[o] = NotSent
    BY <1>1, <2>1, NamesAssumption
  <2>3. Fresh(o) /\ disk' = disk /\ docs' = docs /\ task' = task
    BY <1>2, <1>5, <2>2 DEF LogOp
  <2>4. \A p \in Pages : wal'[p] \subseteq wal[p] \cup {r}
    BY <1>1, <1>5 DEF LogOp
  <2>5. \A d \in Conns : conn'[d] = conn[d] \/ conn'[d].op = r
    BY <1>1, <1>5 DEF LogOp, Receive, ConnState
  <2>. QED BY <2>2, <2>3, <2>4, <2>5 DEF Fresh
<1>6. ASSUME NEW c \in Conns, ApplyOps(c) PROVE Fresh(o)'
  <2>. DEFINE p == conn[c].page
              t == Apply(docs[p].doc, conn[c].op)
              U == docs[p].contrib \cup {c}
              e == [docs[p] EXCEPT !.doc = t, !.contrib = U]
  <2>1. Fresh(o) /\ disk' = disk /\ wal' = wal /\ task' = task
    BY <1>2, <1>6 DEF ApplyOps
  <2>2. p \in Pages /\ docs[p] \in Entry /\ conn[c].op \in Ops
    BY <1>6 DEF ApplyOps, TypeOK
  <2>3. conn[c].op # o
    BY <1>6, <2>1 DEF Fresh, ApplyOps
  <2>4. t \in Content /\ U \in SUBSET Conns
    BY <2>2, EntryFields, ApplyType
  <2>5. t[o] = 0
    BY <2>1, <2>2, <2>3, EntryFields DEF Fresh, Apply, Content, Edits
  <2>6. Touched(e).doc = t
    <3>. HIDE DEF p, t, U
    <3>1. e \in Entry /\ e.doc = t
      BY <2>2, <2>4, DocUpdate, DocFields
    <3>. HIDE DEF e
    <3>. QED BY <3>1, TouchedFields
  <2>7. Updated(p, Touched(e))
    BY <1>6 DEF ApplyOps
  <2>8. \A d \in Conns : conn'[d].pc = "logged" => conn'[d] = conn[d]
    BY <1>1, <1>6 DEF ApplyOps, ConnState
  <2>. HIDE DEF p, t, e
  <2>9. \A q \in Pages : docs'[q].doc[o] = 0
    BY <1>1, <2>1, <2>2, <2>5, <2>6, <2>7, UpdatedOthers DEF Fresh
  <2>. QED BY <2>1, <2>8, <2>9 DEF Fresh
<1>7. ASSUME NEW c \in Conns, RecordEdit(c) PROVE Fresh(o)'
  <2>. DEFINE p == conn[c].page
  <2>1. Fresh(o) /\ disk' = disk /\ wal' = wal /\ task' = task
    BY <1>2, <1>7 DEF RecordEdit
  <2>2. p \in Pages /\ docs[p] \in Entry /\ Updated(p, Touched(docs[p]))
    BY <1>7 DEF RecordEdit, TypeOK
  <2>3. \A d \in Conns : conn'[d].pc = "logged" => conn'[d] = conn[d]
    BY <1>1, <1>7 DEF RecordEdit, ConnState
  <2>. HIDE DEF p
  <2>4. \A q \in Pages : docs'[q].doc = docs[q].doc
    <3>1. Touched(docs[p]).doc = docs[p].doc
      BY <2>2, TouchedFields
    <3>. QED BY <1>1, <2>2, <3>1, UpdatedOthers
  <2>. QED BY <2>1, <2>3, <2>4 DEF Fresh
<1>8. ASSUME NEW c \in Conns, NEW b \in Bodies, ApplySync(c, b) PROVE Fresh(o)'
  <2>. DEFINE p == conn[c].page
              U == docs[p].contrib \cup {c}
              e == [docs[p] EXCEPT !.doc = Whole(b), !.contrib = U]
  <2>1. Fresh(o) /\ disk' = disk /\ wal' = wal /\ task' = task /\ conn' = conn
    BY <1>2, <1>8 DEF ApplySync
  <2>2. p \in Pages /\ docs[p] \in Entry
    BY <1>8 DEF ApplySync, TypeOK
  <2>3. U \in SUBSET Conns
    BY <2>2, EntryFields
  <2>4. Touched(e).doc = Whole(b)
    <3>. HIDE DEF p, U
    <3>1. e \in Entry /\ e.doc = Whole(b)
      BY <2>2, <2>3, WholeType, DocUpdate, DocFields
    <3>. HIDE DEF e
    <3>. QED BY <3>1, TouchedFields
  <2>5. Whole(b)[o] = 0
    BY SetsAssumption DEF Whole, Edits
  <2>6. Updated(p, Touched(e))
    BY <1>8 DEF ApplySync
  <2>. HIDE DEF p, e
  <2>7. \A q \in Pages : docs'[q].doc[o] = 0
    BY <1>1, <2>1, <2>2, <2>4, <2>5, <2>6, UpdatedOthers DEF Fresh
  <2>. QED BY <2>1, <2>7 DEF Fresh
<1>9. ASSUME NEW p \in Pages, FlushSerialize(p) PROVE Fresh(o)'
  <2>1. Fresh(o) /\ disk' = disk /\ wal' = wal /\ docs' = docs /\ conn' = conn
    BY <1>2, <1>9 DEF FlushSerialize
  <2>2. task'.snap = docs[p].doc
    BY <1>9, TaskFields DEF FlushSerialize
  <2>. QED BY <2>1, <2>2 DEF Fresh
<1>10. ASSUME FlushWrite PROVE Fresh(o)'
  <2>1. Fresh(o) /\ wal' = wal /\ docs' = docs /\ conn' = conn
    BY <1>2, <1>10 DEF FlushWrite
  <2>2. task'.snap = task.snap
    BY <1>1, <1>10, GotoFields DEF FlushWrite
  <2>3. \A p \in Pages : disk'[p] = disk[p] \/ disk'[p] = task.snap
    BY <1>1, <1>10 DEF FlushWrite
  <2>. QED BY <2>1, <2>2, <2>3 DEF Fresh
<1>11. ASSUME FlushWriteFails PROVE Fresh(o)'
  <2>1. Fresh(o) /\ wal' = wal /\ conn' = conn
    BY <1>2, <1>11 DEF FlushWriteFails
  <2>2. task'.snap = task.snap \/ task'.snap = Blank
    BY <1>1, <1>11, GotoFields, ReturnFields DEF FlushWriteFails
  <2>3. \A p \in Pages : disk'[p][o] = 0
    <3>1. \A p \in Pages : disk'[p] = disk[p] \/ disk'[p][o] <= task.snap[o]
      BY <1>11, FailFiles DEF Edits
    <3>2. \A p \in Pages : disk'[p][o] \in Nat
      BY <1>11, FailFiles DEF Content, Edits
    <3>. QED BY <2>1, <3>1, <3>2 DEF Fresh
  <2>4. \A p \in Pages : docs'[p].doc = docs[p].doc
    BY <1>11, FailTexts DEF SameTexts
  <2>. QED BY <2>1, <2>2, <2>3, <2>4, BlankZero DEF Fresh
<1>12. ASSUME FlushMark PROVE Fresh(o)'
  <2>. DEFINE p == task.page
              b == docs[p].dirty /\ docs[p].gen # task.gen
              e == [docs[p] EXCEPT !.dirty = b, !.failed = FALSE]
  <2>1. Fresh(o) /\ disk' = disk /\ wal' = wal /\ conn' = conn
    BY <1>2, <1>12 DEF FlushMark
  <2>2. p \in Pages /\ docs[p] \in Entry /\ Updated(p, e)
    BY <1>1, <1>12 DEF FlushMark, At, JobPcs
  <2>3. task'.snap = task.snap
    BY <1>1, <1>12, GotoFields DEF FlushMark
  <2>4. e.doc = docs[p].doc
    BY <2>2 DEF Entry
  <2>. HIDE DEF p, e
  <2>5. \A q \in Pages : docs'[q].doc = docs[q].doc
    BY <1>1, <2>2, <2>4, UpdatedOthers
  <2>. QED BY <2>1, <2>3, <2>5 DEF Fresh
<1>13. ASSUME FlushTruncate \/ RecoverDiscard PROVE Fresh(o)'
  <2>1. Fresh(o) /\ disk' = disk /\ docs' = docs /\ conn' = conn
    BY <1>2, <1>13 DEF FlushTruncate, RecoverDiscard
  <2>2. task'.snap = task.snap \/ task'.snap = Blank
    BY <1>1, <1>13, GotoFields, ReturnFields DEF FlushTruncate, RecoverDiscard
  <2>3. \A p \in Pages : wal'[p] \subseteq wal[p]
    BY <1>1, <1>13 DEF FlushTruncate, RecoverDiscard
  <2>. QED BY <2>1, <2>2, <2>3, BlankZero DEF Fresh
<1>14. ASSUME FlushCommit \/ FlushReindexFails PROVE Fresh(o)'
  <2>1. Fresh(o) /\ disk' = disk /\ wal' = wal /\ conn' = conn
    BY <1>2, <1>14 DEF FlushCommit, FlushReindexFails
  <2>2. task'.snap = Blank
    BY <1>14, ReturnFields DEF FlushCommit, FlushReindexFails
  <2>. QED BY <1>14, <2>1, <2>2, CommitTexts, BlankZero DEF Fresh, SameTexts
<1>15. ASSUME NEW p \in Pages, RecoverReplay(p) PROVE Fresh(o)'
  <2>. DEFINE t == Replay(disk[p], wal[p])
              g == Cardinality(wal[p])
              e == [NewEntry(t) EXCEPT !.dirty = TRUE, !.gen = g]
  <2>1. Fresh(o) /\ wal' = wal /\ conn' = conn
    BY <1>2, <1>15 DEF RecoverReplay
  <2>2. LoadOrGet(p, e) /\ task' = Job("write", p, t, g, task.todo \ {p})
    BY <1>15 DEF RecoverReplay
  <2>3. e.doc = t
    <3>. HIDE DEF t, g
    <3>. QED BY DEF NewEntry, Unloaded
  <2>4. t[o] = 0
    BY <2>1 DEF Fresh, Replay, Edits
  <2>. HIDE DEF t, g, e
  <2>5. task'.snap = t
    BY <2>2, TaskFields
  <2>6. disk' = disk /\ docs'[p] = e /\ \A q \in Pages \ {p} : docs'[q] = docs[q]
    BY <1>1, <2>2, LoadWithRoom
  <2>. QED BY <2>1, <2>3, <2>4, <2>5, <2>6 DEF Fresh
<1>16. ASSUME Crash PROVE Fresh(o)'
  <2>1. author' = [r \in Ops |-> IF author[r] = NotSent THEN NotSent ELSE Recovered]
    BY <1>16 DEF Crash, Stop
  <2>2. author[o] = NotSent
    BY <2>1 DEF NotSent, Recovered
  <2>3. Fresh(o) /\ disk' = disk /\ wal' = wal
    BY <1>2, <1>16, <2>2 DEF Crash, Stop
  <2>4. /\ task'.snap = Blank /\ \A p \in Pages : docs'[p].doc = Blank
        /\ \A c \in Conns : conn'[c].pc = "off"
    BY <1>16, TaskFields DEF Crash, Stop, Unloaded, Off
  <2>. QED BY <2>3, <2>4, BlankZero DEF Fresh
<1>17. ASSUME Serve PROVE Fresh(o)'
  <2>1. Fresh(o) /\ UNCHANGED <<disk, wal, docs, conn>> /\ task'.snap = Blank
    BY <1>2, <1>17, TaskFields DEF Serve
  <2>. QED BY <2>1, BlankZero DEF Fresh
<1>18. CASE UNCHANGED vars
  BY <1>2, <1>18 DEF vars, Fresh
<1>. QED
  BY <1>3, <1>4, <1>5, <1>6, <1>7, <1>8, <1>9, <1>10, <1>11, <1>12, <1>13,
     <1>14, <1>15, <1>16, <1>17, <1>18
  DEF EditNext, CoreNext, Handler, Client, Flush, FlushFails, Recovery

-----------------------------------------------------------------------------
\* The mark of a failed write in an updated entry.
LEMMA FailedFields ==
  \A e \in Entry :
    /\ \A k, b : [e EXCEPT !.count = k, !.gone = b].failed = e.failed
    /\ \A t, U : [e EXCEPT !.doc = t, !.contrib = U].failed = e.failed
    /\ Touched(e).failed = e.failed
    /\ [e EXCEPT !.contrib = {}].failed = e.failed
  BY DEF Entry, Touched

\* What the handlers of a connection do to the store.
LEMMA HandlerTexts ==
  ASSUME TypeOK, NEW c \in Conns,
         Handler(c) \/ Disconnect(c) \/ \E b \in Bodies : ApplySync(c, b)
  PROVE  \A q \in Pages : docs'[q].in = docs[q].in /\ docs'[q].failed = docs[q].failed
<1>. DEFINE p == conn[c].page
            U == docs[p].contrib \cup {c}
            Kept == \A q \in Pages :
                      docs'[q].in = docs[q].in /\ docs'[q].failed = docs[q].failed
<1>1. docs \in [Pages -> Entry] /\ p \in Pages /\ docs[p] \in Entry
  BY DEF TypeOK, Handler, Connect, ApplyOps, RecordEdit, Disconnect, ApplySync
<1>2. U \in SUBSET Conns
  BY <1>1, EntryFields
<1>3. CASE Connect(c) \/ Disconnect(c)
  <2>1. PICK k, b : Updated(p, [docs[p] EXCEPT !.count = k, !.gone = b])
    BY <1>3 DEF Connect, Disconnect
  <2>2. \A q \in Pages : docs'[q].failed = docs[q].failed
    <3>. DEFINE e == [docs[p] EXCEPT !.count = k, !.gone = b]
    <3>. HIDE DEF p
    <3>1. e.failed = docs[p].failed
      BY <1>1, FailedFields
    <3>2. Updated(p, e)
      BY <2>1
    <3>. HIDE DEF e
    <3>. QED BY <1>1, <3>1, <3>2, UpdatedOthers
  <2>. QED BY <1>3, <2>2, ConnectTexts DEF SameTexts
<1>4. ASSUME NEW t \in Content, Updated(p, Touched([docs[p] EXCEPT !.doc = t, !.contrib = U]))
      PROVE  Kept
  <2>. DEFINE e == [docs[p] EXCEPT !.doc = t, !.contrib = U]
  <2>. HIDE DEF p, U
  <2>1. e \in Entry
    BY <1>1, <1>2, DocUpdate
  <2>2. e.in = docs[p].in /\ e.failed = docs[p].failed
    BY <1>1, <1>2, DocFields, FailedFields
  <2>3. Updated(p, Touched(e))
    BY <1>4
  <2>. HIDE DEF e
  <2>4. Touched(e).in = docs[p].in /\ Touched(e).failed = docs[p].failed
    BY <2>1, <2>2, TouchedFields, FailedFields
  <2>. QED BY <1>1, <2>3, <2>4, UpdatedOthers
<1>5. CASE ApplyOps(c)
  <2>1. Apply(docs[p].doc, conn[c].op) \in Content
    BY <1>1, <1>5, EntryFields, ApplyType DEF ApplyOps, TypeOK
  <2>. QED BY <1>4, <1>5, <2>1 DEF ApplyOps
<1>6. CASE RecordEdit(c)
  <2>1. Updated(p, Touched(docs[p]))
    BY <1>6 DEF RecordEdit
  <2>. HIDE DEF p
  <2>2. Touched(docs[p]).in = docs[p].in /\ Touched(docs[p]).failed = docs[p].failed
    BY <1>1, TouchedFields, FailedFields
  <2>. QED BY <1>1, <2>1, <2>2, UpdatedOthers
<1>7. ASSUME NEW b \in Bodies, ApplySync(c, b) PROVE Kept
  <2>1. Whole(b) \in Content
    BY WholeType
  <2>. QED BY <1>4, <1>7, <2>1 DEF ApplySync
<1>. QED BY <1>3, <1>5, <1>6, <1>7 DEF Handler

\* A step that forgets no failed write, of a document that is loaded.
FailedKept ==
  \A q \in Pages : /\ docs[q].failed => docs'[q].failed
                   /\ docs'[q].failed => docs'[q].in

\* A step that touches neither the files nor the task.
LEMMA LogFrame ==
  ASSUME LogInv, FailedKept, disk' = disk, wal' = wal, phase' = phase, task' = task
  PROVE  LogInv'
  BY DEF LogInv, InTurn, FailedKept

\* A page that is loaded by the step had no failed write.
LEMMA LoadKeepsFailed ==
  ASSUME RoomForAll, docs \in [Pages -> Entry], LogInv, NEW p \in Pages, NEW e, LoadOrGet(p, e),
         e.in = TRUE
  PROVE  FailedKept
<1>1. ~docs[p].in /\ docs'[p] = e /\ \A q \in Pages \ {p} : docs'[q] = docs[q]
  BY LoadWithRoom
<1>. QED BY <1>1 DEF LogInv, FailedKept

\* A client that does something finds the server up.
LEMMA ClientsSeeUp ==
  ASSUME AloneInv, NEW c \in Conns, conn[c].pc # "off" PROVE phase = "up"
  BY DEF AloneInv

LEMMA AloneStep ==
  ASSUME TypeOK, AloneInv, [EditNext]_vars
  PROVE  AloneInv'
<1>. USE DEF inputs
<1>1. CASE \E c \in Conns : Handler(c) \/ Client(c)
  <2>1. PICK c \in Conns : Handler(c) \/ Client(c)
    BY <1>1
  <2>2. phase = "up"
    BY <2>1 DEF AloneInv, Handler, Client, Load, Connect, Disconnect, LogOp, Receive,
                ApplyOps, RecordEdit
  <2>3. phase' = phase
    BY <2>1 DEF Handler, Client, Load, Connect, Disconnect, LogOp, ApplyOps, RecordEdit
  <2>. QED BY <2>2, <2>3 DEF AloneInv
<1>2. CASE Crash
  BY <1>2 DEF Crash, Stop, AloneInv, Off
<1>3. CASE Serve
  BY <1>3 DEF Serve, AloneInv
<1>4. CASE \/ Flush \/ FlushFails \/ RecoverDiscard
           \/ \E p \in Pages : RecoverReplay(p)
           \/ \E c \in Conns, b \in Bodies : ApplySync(c, b)
  <2>1. phase' = phase /\ conn' = conn
    BY <1>4 DEF Flush, FlushFails, FlushSerialize, FlushWrite, FlushMark, FlushTruncate,
                FlushCommit, FlushWriteFails, FlushReindexFails, RecoverDiscard,
                RecoverReplay, ApplySync
  <2>. QED BY <2>1 DEF AloneInv
<1>5. CASE UNCHANGED vars
  BY <1>5 DEF vars, AloneInv
<1>. QED BY <1>1, <1>2, <1>3, <1>4, <1>5 DEF EditNext, CoreNext, Recovery

LEMMA LogStep ==
  ASSUME RoomForAll, TypeOK, FlushInv, LogsInv, [EditNext]_vars
  PROVE  LogInv'
<1>. USE DEF inputs
<1>1. /\ docs \in [Pages -> Entry] /\ disk \in [Pages -> Content]
      /\ wal \in [Pages -> SUBSET Ops] /\ task \in TaskState
      /\ task.pc \in JobPcs => task.page \in Pages
  BY DEF TypeOK
<1>2. LogInv /\ FreshInv /\ AloneInv
  BY DEF LogsInv
<1>17. docs' = docs => FailedKept
  BY <1>2 DEF LogInv, FailedKept
<1>3. ASSUME NEW c \in Conns, NEW p \in Pages, Load(c, p) PROVE LogInv'
  <2>1. disk' = disk
    BY <1>1, <1>3, LoadWithRoom DEF Load
  <2>2. FailedKept
    BY <1>1, <1>2, <1>3, <1>17, NewEntryFields, LoadKeepsFailed DEF Load
  <2>. QED BY <1>2, <1>3, <2>1, <2>2, LogFrame DEF Load
<1>4. ASSUME NEW c \in Conns,
             \/ Handler(c) \/ Disconnect(c)
             \/ \E b \in Bodies : ApplySync(c, b)
      PROVE  LogInv'
  <2>1. FailedKept
    BY <1>2, <1>4, HandlerTexts DEF LogInv, FailedKept
  <2>. QED
    BY <1>2, <1>4, <2>1, LogFrame
    DEF Handler, Connect, ApplyOps, RecordEdit, Disconnect, ApplySync
<1>5. ASSUME NEW c \in Conns, NEW o \in Ops, LogOp(c, o) PROVE LogInv'
  <2>1. /\ author[o] = NotSent /\ conn[c].pc = "open"
        /\ UNCHANGED <<disk, docs, phase, task>>
        /\ wal' = [wal EXCEPT ![conn[c].page] = @ \cup {o}]
    BY <1>5 DEF LogOp, Receive
  <2>2. phase = "up"
    BY <1>2, <2>1, ClientsSeeUp
  <2>3. \A p \in Pages : o \notin Shown(disk[p])
    BY <1>2, <2>1 DEF FreshInv, Fresh, Shown
  <2>4. \A p \in Pages : wal'[p] \subseteq wal[p] \cup {o}
    BY <1>1, <2>1
  <2>. QED BY <1>2, <2>1, <2>2, <2>3, <2>4 DEF LogInv, InTurn
<1>6. ASSUME NEW p \in Pages, FlushSerialize(p) PROVE LogInv'
  <2>1. task.pc = "idle" /\ phase = "up" /\ UNCHANGED <<disk, wal, phase, docs>>
    BY <1>6 DEF FlushSerialize, At
  <2>. QED BY <1>2, <2>1 DEF LogInv, InTurn
<1>7. ASSUME FlushWrite PROVE LogInv'
  <2>1. task.pc = "write" /\ UNCHANGED <<wal, phase, docs>>
    BY <1>7 DEF FlushWrite, At
  <2>2. task'.pc = "mark" /\ task'.page = task.page /\ task'.todo = task.todo
    BY <1>1, <1>7, GotoFields, GotoTodo DEF FlushWrite
  <2>3. \A p \in Pages \ {task.page} : disk'[p] = disk[p]
    BY <1>1, <1>7 DEF FlushWrite
  <2>. QED BY <1>2, <2>1, <2>2, <2>3 DEF LogInv, InTurn, Shown
<1>8. ASSUME FlushWriteFails PROVE LogInv'
  <2>1. /\ task.pc = "write" /\ task.page \in Pages /\ UNCHANGED <<wal, phase>>
        /\ \A q \in Pages \ {task.page} : disk'[q] = disk[q]
    BY <1>8, FailFiles DEF FlushWriteFails
  <2>2. docs[task.page].in /\ docs'[task.page].in /\ docs'[task.page].failed
    <3>1. docs[task.page].in
      BY <2>1 DEF FlushInv, SnapshotInv, SnapshotOf
    <3>. QED BY <1>8, <2>1, <3>1, FailTexts, FailFiles DEF SameTexts
  <2>3. \A q \in Pages \ {task.page} : docs'[q] = docs[q]
    BY <1>1, <1>8, <2>1, UpdatedOthers DEF FlushWriteFails
  <2>4. CASE phase = "up"
    BY <1>2, <2>1, <2>2, <2>3, <2>4 DEF LogInv, InTurn
  <2>5. CASE phase # "up"
    <3>1. task'.pc = "discard" /\ task'.page = task.page /\ task'.todo = task.todo
      BY <1>1, <1>8, <2>5, GotoFields, GotoTodo DEF FlushWriteFails
    <3>. QED BY <1>2, <2>1, <2>2, <2>3, <2>5, <3>1 DEF LogInv, InTurn
  <2>. QED BY <2>4, <2>5
<1>9. ASSUME FlushMark PROVE LogInv'
  <2>1. task.pc = "mark" /\ UNCHANGED <<disk, wal, phase>>
    BY <1>9 DEF FlushMark, At
  <2>2. task'.pc = "truncate" /\ task'.page = task.page /\ task'.todo = task.todo
    BY <1>1, <1>9, GotoFields, GotoTodo DEF FlushMark
  <2>3. \A q \in Pages \ {task.page} : docs'[q] = docs[q]
    BY <1>1, <1>9, <2>1, UpdatedOthers DEF FlushMark, JobPcs
  <2>4. docs'[task.page].failed => docs'[task.page].in
    BY <1>1, <1>2, <1>9, <2>1 DEF FlushMark, Updated, LogInv, JobPcs, Entry
  <2>. QED BY <1>2, <2>1, <2>2, <2>3, <2>4 DEF LogInv, InTurn
<1>10. ASSUME FlushTruncate PROVE LogInv'
  <2>1. task.pc = "truncate" /\ UNCHANGED <<disk, phase, docs>>
    BY <1>10 DEF FlushTruncate, At
  <2>2. task'.pc = "commit" /\ task'.page = task.page /\ task'.todo = task.todo
    BY <1>1, <1>10, GotoFields, GotoTodo DEF FlushTruncate
  <2>3. /\ wal'[task.page] = {}
        /\ \A p \in Pages \ {task.page} : wal'[p] = wal[p]
    BY <1>1, <1>10, <2>1 DEF FlushTruncate, JobPcs
  <2>. QED BY <1>2, <2>1, <2>2, <2>3 DEF LogInv, InTurn
<1>11. ASSUME FlushCommit \/ FlushReindexFails PROVE LogInv'
  <2>1. task.pc = "commit" /\ UNCHANGED <<disk, wal, phase>> /\ task' = Return
    BY <1>11 DEF FlushCommit, FlushReindexFails, At
  <2>2. FailedKept
    <3>1. CASE docs' = docs
      BY <1>17, <3>1
    <3>2. CASE docs' = [docs EXCEPT ![task.page].contrib = {}]
      <4>1. \A q \in Pages : docs'[q].failed = docs[q].failed /\ docs'[q].in = docs[q].in
        BY <1>1, <2>1, <3>2 DEF JobPcs, Entry
      <4>. QED BY <1>2, <4>1 DEF LogInv, FailedKept
    <3>. QED BY <1>11, <3>1, <3>2 DEF FlushCommit, FlushReindexFails
  <2>. QED BY <1>2, <2>1, <2>2, ReturnFields DEF LogInv, InTurn, FailedKept
<1>12. ASSUME RecoverDiscard PROVE LogInv'
  <2>1. task.pc = "discard" /\ UNCHANGED <<disk, phase, docs>> /\ task' = Return
    BY <1>12 DEF RecoverDiscard, At
  <2>2. /\ wal'[task.page] = {}
        /\ \A p \in Pages \ {task.page} : wal'[p] = wal[p]
    BY <1>1, <1>12, <2>1 DEF RecoverDiscard, JobPcs
  <2>. QED BY <1>2, <2>1, <2>2, ReturnFields DEF LogInv, InTurn
<1>13. ASSUME NEW p \in Pages, RecoverReplay(p) PROVE LogInv'
  <2>. DEFINE t == Replay(disk[p], wal[p])
              g == Cardinality(wal[p])
              e == [NewEntry(t) EXCEPT !.dirty = TRUE, !.gen = g]
  <2>1. /\ task.pc = "replay" /\ wal' = wal /\ phase' = phase
        /\ LoadOrGet(p, e) /\ task' = Job("write", p, t, g, task.todo \ {p})
    BY <1>13 DEF RecoverReplay, At
  <2>. HIDE DEF t, g
  <2>4. e.in = TRUE
    BY DEF NewEntry, Unloaded
  <2>. HIDE DEF e
  <2>2. task'.pc = "write" /\ task'.page = p /\ task'.todo = task.todo \ {p}
    BY <2>1, TaskFields
  <2>3. disk' = disk
    BY <1>1, <2>1, LoadWithRoom
  <2>5. FailedKept
    BY <1>1, <1>2, <2>1, <2>4, LoadKeepsFailed
  <2>. QED BY <1>2, <2>1, <2>2, <2>3, <2>5 DEF LogInv, InTurn, FailedKept
<1>14. ASSUME Crash PROVE LogInv'
  <2>1. /\ wal' = wal /\ phase' = "recovering"
        /\ task' = Walk("replay", {p \in Pages : wal[p] # {}})
    BY <1>14 DEF Crash, Stop
  <2>2. task'.todo = {p \in Pages : wal[p] # {}}
    BY <2>1, TaskFields
  <2>3. \A p \in Pages : ~docs'[p].failed
    BY <1>14 DEF Crash, Stop, Unloaded
  <2>. QED BY <2>1, <2>2, <2>3 DEF LogInv
<1>15. ASSUME Serve PROVE LogInv'
  <2>1. /\ task.pc = "replay" /\ task.todo = {} /\ UNCHANGED <<disk, wal, docs>>
        /\ phase' = "up" /\ task'.pc = "idle"
    BY <1>15, TaskFields DEF Serve, At
  <2>. QED BY <1>2, <2>1 DEF LogInv, InTurn
<1>16. CASE UNCHANGED vars
  BY <1>2, <1>16, <1>17, LogFrame DEF vars
<1>. QED
  BY <1>3, <1>4, <1>5, <1>6, <1>7, <1>8, <1>9, <1>10, <1>11, <1>12, <1>13,
     <1>14, <1>15, <1>16
  DEF EditNext, CoreNext, Client, Flush, FlushFails, Recovery

\* As long as the store has room for every page, the log of a page holds no
\* batch its file shows, except between the write of a flush and the truncation
\* of the log and after a write that failed: however clients, flushes and
\* crashes interleave, a restart at any other moment applies nothing twice.
THEOREM LogsOnlyUnwritten ==
  ASSUME RoomForAll PROVE EditSpec => []LogHoldsOnlyUnwritten
<1>1. Init => FlushInv /\ LogsInv
  BY FlushInvInit, LogsInit
<1>2. TypeOK /\ FlushInv /\ LogsInv /\ [EditNext]_vars => (FlushInv /\ LogsInv)'
  BY FlushInvStep, FreshStep, LogStep, AloneStep DEF LogsInv
<1>3. LogsInv => LogHoldsOnlyUnwritten
  BY DEF LogsInv, LogInv, InTurn, LogHoldsOnlyUnwritten
<1>. QED BY <1>1, <1>2, <1>3, EditTypes, PTL DEF EditSpec

-----------------------------------------------------------------------------
(* Documents stay loaded.                                                  *)
(*                                                                         *)
(* LoadedInv: whoever works on a page, a connection or the task, finds its *)
(* document; a page without a document has no log, except while it waits   *)
(* for its turn in the recovery.                                           *)

LoadedInv ==
  /\ \A c \in Conns : conn[c].pc # "off" => docs[conn[c].page].in
  /\ task.pc \in JobPcs => docs[task.page].in
  /\ \A p \in Pages :
       ~docs[p].in /\ wal[p] # {} => phase # "up" /\ p \in task.todo

LEMMA LoadedInit == Init => LoadedInv
<1>. SUFFICES ASSUME Init PROVE LoadedInv
  OBVIOUS
<1>1. task.pc = "replay" /\ \A c \in Conns : conn[c].pc = "off"
  BY TaskFields DEF Init, Off
<1>2. \A p \in Pages : wal[p] = {}
  BY DEF Init
<1>. QED BY <1>1, <1>2 DEF LoadedInv, JobPcs

\* A step that unloads nothing, logs nothing and sends nobody to another page.
StaysLoaded ==
  /\ \A q \in Pages : docs[q].in => docs'[q].in
  /\ \A q \in Pages : wal'[q] \subseteq wal[q]
  /\ \A c \in Conns :
       conn'[c].pc # "off" => conn[c].pc # "off" /\ conn'[c].page = conn[c].page
  /\ task'.pc \in JobPcs => task.pc \in JobPcs /\ task'.page = task.page
  /\ phase' = phase /\ (phase # "up" => task'.todo = task.todo)

LEMMA LoadedFrame ==
  ASSUME TypeOK, LoadedInv, StaysLoaded
  PROVE  LoadedInv'
<1>1. \A c \in Conns : conn[c].pc # "off" => conn[c].page \in Pages
  BY DEF TypeOK
<1>2. task.pc \in JobPcs => task.page \in Pages
  BY DEF TypeOK
<1>3. \A c \in Conns : conn'[c].pc # "off" => docs'[conn'[c].page].in
  BY <1>1 DEF LoadedInv, StaysLoaded
<1>4. task'.pc \in JobPcs => docs'[task'.page].in
  BY <1>2 DEF LoadedInv, StaysLoaded
<1>5. \A p \in Pages : ~docs'[p].in /\ wal'[p] # {} => phase' # "up" /\ p \in task'.todo
  BY DEF LoadedInv, StaysLoaded
<1>. QED BY <1>3, <1>4, <1>5 DEF LoadedInv

\* What the steps of the flush pipeline do to the store and to the task.
LEMMA PipelineTexts ==
  ASSUME TypeOK, FlushWrite \/ FlushMark \/ FlushTruncate \/ FlushCommit \/ FlushFails
                   \/ RecoverDiscard
  PROVE  /\ \A q \in Pages : docs'[q].in = docs[q].in /\ docs'[q].doc = docs[q].doc
         /\ \A q \in Pages \ {task.page} : wal'[q] = wal[q]
         /\ wal' # wal => wal'[task.page] = {}
         /\ task.pc \in JobPcs
         /\ task'.pc \in JobPcs => task'.page = task.page
         /\ phase # "up" => task'.todo = task.todo
<1>1. /\ docs \in [Pages -> Entry] /\ task \in TaskState
      /\ wal \in [Pages -> SUBSET Ops]
      /\ task.pc \in JobPcs => task.page \in Pages
  BY DEF TypeOK
<1>2. task.pc \in JobPcs
  BY DEF FlushWrite, FlushMark, FlushTruncate, FlushCommit, FlushFails, FlushWriteFails,
         FlushReindexFails, RecoverDiscard, At, JobPcs
<1>3. \A q \in Pages : docs'[q].in = docs[q].in /\ docs'[q].doc = docs[q].doc
  <2>1. CASE FlushWrite \/ FlushTruncate \/ RecoverDiscard
    BY <2>1 DEF FlushWrite, FlushTruncate, RecoverDiscard
  <2>2. CASE FlushWriteFails
    BY <2>2, FailTexts DEF SameTexts
  <2>3. CASE FlushCommit \/ FlushReindexFails
    BY <2>3, CommitTexts DEF SameTexts
  <2>4. CASE FlushMark
    <3>. DEFINE p == task.page
                b == docs[p].dirty /\ docs[p].gen # task.gen
                e == [docs[p] EXCEPT !.dirty = b, !.failed = FALSE]
    <3>1. p \in Pages /\ docs[p] \in Entry /\ b \in BOOLEAN
      BY <1>1, <1>2
    <3>2. Updated(p, e)
      BY <2>4 DEF FlushMark
    <3>. HIDE DEF p, b
    <3>3. e.in = docs[p].in /\ e.doc = docs[p].doc
      BY <3>1, FlagFields
    <3>. HIDE DEF e
    <3>. QED BY <1>1, <3>1, <3>2, <3>3, UpdatedOthers
  <2>. QED BY <2>1, <2>2, <2>3, <2>4 DEF FlushFails
<1>4. /\ \A q \in Pages \ {task.page} : wal'[q] = wal[q]
      /\ wal' # wal => wal'[task.page] = {}
  BY <1>1, <1>2 DEF FlushWrite, FlushMark, FlushTruncate, FlushCommit, FlushFails,
                    FlushWriteFails, FlushReindexFails, RecoverDiscard
<1>5. /\ task'.pc \in JobPcs => task'.page = task.page
      /\ phase # "up" => task'.todo = task.todo
  <2>1. CASE \E pc \in JobPcs : Goto(pc)
    <3>1. PICK pc \in JobPcs : Goto(pc)
      BY <2>1
    <3>. QED BY <1>1, <3>1, GotoFields, GotoTodo
  <2>2. CASE task' = Return
    BY <2>2, ReturnFields DEF JobPcs
  <2>3. task' = Return \/ \E pc \in JobPcs : Goto(pc)
    BY DEF FlushWrite, FlushMark, FlushTruncate, FlushCommit, FlushFails,
           FlushWriteFails, FlushReindexFails, RecoverDiscard, JobPcs
  <2>. QED BY <2>1, <2>2, <2>3
<1>. QED BY <1>2, <1>3, <1>4, <1>5

LEMMA LoadedStep ==
  ASSUME RoomForAll, TypeOK, AloneInv, LoadedInv, [EditNext]_vars
  PROVE  LoadedInv'
<1>. USE DEF inputs
<1>1. /\ docs \in [Pages -> Entry] /\ disk \in [Pages -> Content]
      /\ wal \in [Pages -> SUBSET Ops] /\ conn \in [Conns -> ConnState]
      /\ task.pc \in JobPcs => task.page \in Pages
      /\ \A c \in Conns : conn[c].pc # "off" => conn[c].page \in Pages
  BY DEF TypeOK
<1>2. ASSUME NEW c \in Conns, NEW p \in Pages, Load(c, p) PROVE LoadedInv'
  <2>1. /\ docs'[p].in /\ \A q \in Pages \ {p} : docs'[q] = docs[q]
    <3>1. CASE docs[p].in /\ docs' = docs
      BY <3>1
    <3>2. CASE LoadOrGet(p, NewEntry(disk[p]))
      <4>1. docs'[p] = NewEntry(disk[p]) /\ \A q \in Pages \ {p} : docs'[q] = docs[q]
        BY <1>1, <3>2, LoadWithRoom
      <4>2. NewEntry(disk[p]).in
        BY NewEntryFields
      <4>. QED BY <4>1, <4>2
    <3>. QED BY <1>2, <3>1, <3>2 DEF Load
  <2>2. /\ UNCHANGED <<wal, task, phase>>
        /\ conn' = [conn EXCEPT ![c] = [pc |-> "loaded", page |-> p, op |-> NoOp]]
    BY <1>2 DEF Load
  <2>3. \A d \in Conns : conn'[d] = conn[d] \/ conn'[d].page = p
    BY <1>1, <2>2
  <2>4. \A d \in Conns : conn'[d].pc # "off" => docs'[conn'[d].page].in
    BY <1>1, <2>1, <2>3 DEF LoadedInv
  <2>5. task.pc \in JobPcs => docs'[task.page].in
    BY <1>1, <2>1 DEF LoadedInv
  <2>. QED BY <2>1, <2>2, <2>4, <2>5 DEF LoadedInv
<1>3. ASSUME NEW c \in Conns,
             Handler(c) \/ Disconnect(c) \/ \E b \in Bodies : ApplySync(c, b)
      PROVE  LoadedInv'
  <2>1. \A q \in Pages : docs'[q].in = docs[q].in
    BY <1>3, HandlerTexts
  <2>2. UNCHANGED <<wal, task, phase>>
    BY <1>3 DEF Handler, Connect, ApplyOps, RecordEdit, Disconnect, ApplySync
  <2>3. \A d \in Conns :
          conn'[d].pc # "off" => conn[d].pc # "off" /\ conn'[d].page = conn[d].page
    <3>1. CASE Connect(c)
      BY <1>1, <3>1 DEF Connect, ConnState
    <3>2. CASE ApplyOps(c)
      BY <1>1, <3>2 DEF ApplyOps, ConnState
    <3>3. CASE RecordEdit(c)
      BY <1>1, <3>3 DEF RecordEdit, ConnState
    <3>4. CASE Disconnect(c)
      BY <1>1, <3>4 DEF Disconnect, ConnState, Off
    <3>5. CASE \E b \in Bodies : ApplySync(c, b)
      BY <3>5 DEF ApplySync
    <3>. QED BY <1>3, <3>1, <3>2, <3>3, <3>4, <3>5 DEF Handler
  <2>4. StaysLoaded
    BY <2>1, <2>2, <2>3 DEF StaysLoaded
  <2>. QED BY <2>4, LoadedFrame
<1>4. ASSUME NEW c \in Conns, NEW o \in Ops, LogOp(c, o) PROVE LoadedInv'
  <2>1. /\ conn[c].pc = "open" /\ docs' = docs /\ task' = task /\ phase' = phase
        /\ wal' = [wal EXCEPT ![conn[c].page] = @ \cup {o}]
        /\ conn' = [conn EXCEPT ![c].pc = "logged", ![c].op = o]
    BY <1>4 DEF LogOp, Receive
  <2>2. \A d \in Conns : conn'[d].page = conn[d].page
    BY <1>1, <2>1 DEF ConnState
  <2>3. \A d \in Conns : conn'[d].pc # "off" => conn[d].pc # "off"
    BY <1>1, <2>1 DEF ConnState
  <2>4. \A q \in Pages : q # conn[c].page => wal'[q] = wal[q]
    BY <1>1, <2>1
  <2>. QED BY <2>1, <2>2, <2>3, <2>4 DEF LoadedInv
<1>5. ASSUME NEW p \in Pages, FlushSerialize(p) PROVE LoadedInv'
  <2>1. /\ phase = "up" /\ docs[p].in /\ UNCHANGED <<wal, phase, docs, conn>>
        /\ task' = Job("write", p, docs[p].doc, docs[p].gen, {})
    BY <1>5 DEF FlushSerialize
  <2>2. task'.page = p
    BY <2>1, TaskFields
  <2>. QED BY <2>1, <2>2 DEF LoadedInv
<1>6. ASSUME FlushWrite \/ FlushMark \/ FlushTruncate \/ FlushCommit \/ FlushFails
               \/ RecoverDiscard
      PROVE  LoadedInv'
  <2>1. UNCHANGED <<conn, phase>>
    BY <1>6 DEF FlushWrite, FlushMark, FlushTruncate, FlushCommit, FlushFails,
                FlushWriteFails, FlushReindexFails, RecoverDiscard
  <2>2. \A q \in Pages : wal'[q] \subseteq wal[q]
    BY <1>1, <1>6, PipelineTexts
  <2>3. StaysLoaded
    BY <1>6, <2>1, <2>2, PipelineTexts DEF StaysLoaded
  <2>. QED BY <2>3, LoadedFrame
<1>7. ASSUME NEW p \in Pages, RecoverReplay(p) PROVE LoadedInv'
  <2>. DEFINE t == Replay(disk[p], wal[p])
              g == Cardinality(wal[p])
              e == [NewEntry(t) EXCEPT !.dirty = TRUE, !.gen = g]
  <2>1. /\ task.pc = "replay" /\ UNCHANGED <<wal, phase, conn>>
        /\ LoadOrGet(p, e) /\ task' = Job("write", p, t, g, task.todo \ {p})
    BY <1>7 DEF RecoverReplay, At
  <2>2. e.in = TRUE
    <3>. HIDE DEF t, g
    <3>. QED BY DEF NewEntry, Unloaded
  <2>. HIDE DEF t, g, e
  <2>3. task'.page = p /\ task'.todo = task.todo \ {p}
    BY <2>1, TaskFields
  <2>4. docs'[p].in /\ \A q \in Pages \ {p} : docs'[q] = docs[q]
    BY <1>1, <2>1, <2>2, LoadWithRoom
  <2>5. \A c \in Conns : conn'[c].pc # "off" => docs'[conn'[c].page].in
    BY <1>1, <2>1, <2>4 DEF LoadedInv
  <2>. QED BY <2>1, <2>3, <2>4, <2>5 DEF LoadedInv
<1>8. ASSUME Crash PROVE LoadedInv'
  <2>1. /\ wal' = wal /\ phase' = "recovering"
        /\ task' = Walk("replay", {p \in Pages : wal[p] # {}})
        /\ \A c \in Conns : conn'[c].pc = "off"
    BY <1>8 DEF Crash, Stop, Off
  <2>2. task'.pc = "replay" /\ task'.todo = {p \in Pages : wal[p] # {}}
    BY <2>1, TaskFields
  <2>. QED BY <2>1, <2>2 DEF LoadedInv, JobPcs
<1>9. ASSUME Serve PROVE LoadedInv'
  <2>1. /\ task.todo = {} /\ UNCHANGED <<wal, docs, conn>>
        /\ task'.pc = "idle"
    BY <1>9, TaskFields DEF Serve, At
  <2>. QED BY <2>1 DEF LoadedInv, JobPcs
<1>10. CASE UNCHANGED vars
  BY <1>10, LoadedFrame DEF vars, StaysLoaded
<1>. QED
  BY <1>2, <1>3, <1>4, <1>5, <1>6, <1>7, <1>8, <1>9, <1>10
  DEF EditNext, CoreNext, Client, Flush, Recovery

\* As long as the store has room for every page and nothing is evicted, every
\* connection has the document of its page to apply ops and syncs to, through
\* flushes, failing writes, crashes and recoveries: no edit is dropped by the
\* `if let Some(entry)` of apply_ops.
THEOREM EditorsHaveDocument ==
  ASSUME RoomForAll PROVE EditSpec => []ConnectedHaveDocument
<1>1. Init => AloneInv /\ LoadedInv
  BY LogsInit, LoadedInit DEF LogsInv
<1>2. TypeOK /\ AloneInv /\ LoadedInv /\ [EditNext]_vars => (AloneInv /\ LoadedInv)'
  BY AloneStep, LoadedStep
<1>3. LoadedInv => ConnectedHaveDocument
  BY DEF LoadedInv, ConnectedHaveDocument, Connected
<1>. QED BY <1>1, <1>2, <1>3, EditTypes, PTL DEF EditSpec

-----------------------------------------------------------------------------
(* The core implements DurablePages.                                       *)
(*                                                                         *)
(* Of the core's steps only five show through the mapping: LogOp is Send,  *)
(* ApplyOps is Accept, FlushWrite is Save, FlushWriteFails is SaveFails    *)
(* and Crash is Restart; every other step leaves what is sent, seen, due   *)
(* and saved as it is.  The proof needs GrowInv (what is due is seen, and  *)
(* a save keeps what was saved), FreshInv (nobody sees what was not sent)  *)
(* and LoadedInv (loading a page shows what its file and its log showed    *)
(* already; truncating a log takes nothing from an editor).                *)

LEMMA ReplayShown ==
  ASSUME NEW t \in Content, NEW log
  PROVE  /\ Shown(t) \subseteq Shown(Replay(t, log))
         /\ Shown(Replay(t, log)) \subseteq Shown(t) \cup log
         /\ Shown(Replay(t, {})) = Shown(t)
<1>1. \A e \in Edits : t[e] \in Nat /\ (t[e] > 0 => t[e] + 1 > 0)
  BY DEF Content
<1>2. \A l : \A e \in Edits : Replay(t, l)[e] = IF e \in l THEN t[e] + 1 ELSE t[e]
  BY DEF Replay
<1>. QED BY <1>1, <1>2 DEF Shown

LEMMA ApplyShown ==
  ASSUME NEW t \in Content, NEW o \in Ops
  PROVE  Shown(Apply(t, o)) \cap Ops = (Shown(t) \cap Ops) \cup {o}
<1>1. \A e \in Edits : t[e] \in Nat /\ t[e] + 1 > 0
  BY DEF Content
<1>2. \A e \in Edits : Apply(t, o)[e] = IF e = o THEN t[e] + 1 ELSE t[e]
  BY DEF Apply, Content
<1>. QED BY <1>1, <1>2 DEF Shown, Edits

LEMMA WithinShown ==
  ASSUME NEW s \in Content, NEW t \in Content, Within(s, t)
  PROVE  Shown(s) \subseteq Shown(t)
<1>1. \A e \in Edits : s[e] \in Nat /\ t[e] \in Nat /\ s[e] <= t[e]
  BY DEF Content, Within
<1>. QED BY <1>1 DEF Shown

\* Nobody sees what was not sent.
LEMMA SeenWasSent ==
  ASSUME TypeOK, FreshInv, NEW p \in Pages
  PROVE  SeenOps[p] \subseteq SentOps /\ SavedOps[p] \subseteq SentOps
<1>1. disk[p] \in Content /\ docs[p].doc \in Content
  BY EntryFields DEF TypeOK
<1>2. \A o \in Ops \ SentOps :
        o \notin Shown(disk[p]) /\ o \notin Shown(docs[p].doc) /\ o \notin wal[p]
  BY DEF FreshInv, Fresh, SentOps, Shown
<1>3. \A o \in Ops \ SentOps : o \notin Shown(Replay(disk[p], wal[p]))
  BY <1>1, <1>2, ReplayShown
<1>. QED BY <1>2, <1>3 DEF SeenOps, SeenBy, SavedOps

\* What a file shows is seen.
LEMMA SavedIsSeen ==
  ASSUME TypeOK, GrowInv, NEW p \in Pages
  PROVE  SavedOps[p] \subseteq SeenOps[p]
<1>1. disk[p] \in Content /\ docs[p].doc \in Content
  BY EntryFields DEF TypeOK
<1>2. CASE docs[p].in
  <2>1. Shown(disk[p]) \subseteq Shown(docs[p].doc)
    BY <1>1, <1>2, WithinShown DEF GrowInv
  <2>. QED BY <1>2, <2>1 DEF SeenOps, SeenBy, SavedOps
<1>3. CASE ~docs[p].in
  BY <1>1, <1>3, ReplayShown DEF SeenOps, SeenBy, SavedOps
<1>. QED BY <1>2, <1>3

\* What a file shows is due, and what is due is seen.
LEMMA DueBounds ==
  ASSUME TypeOK, GrowInv, NEW p \in Pages
  PROVE  SavedOps[p] \subseteq DueOps[p] /\ DueOps[p] \subseteq SeenOps[p]
<1>1. CASE task.pc = "write" /\ task.page = p
  <2>1. task.snap \in Content /\ disk[p] \in Content /\ docs[p].doc \in Content
    BY EntryFields DEF TypeOK, TaskState
  <2>2. docs[p].in /\ Within(disk[p], task.snap) /\ Within(task.snap, docs[p].doc)
    BY <1>1 DEF GrowInv
  <2>3. Shown(disk[p]) \subseteq Shown(task.snap) /\ Shown(task.snap) \subseteq Shown(docs[p].doc)
    BY <2>1, <2>2, WithinShown
  <2>4. Due(p) = Shown(task.snap) /\ SeenBy(p) = Shown(docs[p].doc)
    BY <1>1, <2>2 DEF Due, SeenBy
  <2>. QED BY <2>3, <2>4 DEF SavedOps, DueOps, SeenOps
<1>2. CASE ~(task.pc = "write" /\ task.page = p)
  <2>1. Due(p) = SeenBy(p)
    BY <1>2 DEF Due
  <2>. QED BY <2>1, SavedIsSeen DEF DueOps, SeenOps
<1>. QED BY <1>1, <1>2

\* What is due of a page that is not being written is what is seen.
LEMMA DueIsSeen ==
  ASSUME task.pc # "write" PROVE DueOps = SeenOps
<1>1. \A q \in Pages : Due(q) = SeenBy(q)
  BY DEF Due
<1>. QED BY <1>1 DEF DueOps, SeenOps

LEMMA SameDue ==
  ASSUME SeenOps' = SeenOps, task' = task \/ (task.pc # "write" /\ task'.pc # "write")
  PROVE  DueOps' = DueOps
<1>1. ASSUME NEW q \in Pages PROVE DueOps'[q] = DueOps[q]
  <2>1. SeenBy(q)' \cap Ops = SeenBy(q) \cap Ops
    BY DEF SeenOps
  <2>. QED BY <2>1 DEF DueOps, Due
<1>. QED BY <1>1 DEF DueOps

\* Editors see more, and what is due stays as it is or catches up with them.
LEMMA CatchesUp ==
  ASSUME TypeOK, GrowInv,
         \A q \in Pages : /\ SeenOps[q] \subseteq SeenOps'[q]
                          /\ DueOps'[q] = DueOps[q] \/ DueOps'[q] = SeenOps'[q]
  PROVE  Durable!CatchUp
<1>1. DueOps' \in [Pages -> SUBSET Ops]
  BY DEF DueOps
<1>2. \A q \in Pages : DueOps[q] \subseteq DueOps'[q] /\ DueOps'[q] \subseteq SeenOps'[q]
  BY DueBounds
<1>. QED BY <1>1, <1>2 DEF Durable!CatchUp

\* A step that leaves the texts of the loaded pages alone, and the files and
\* logs of the others, leaves what is seen alone.
LEMMA SameSeen ==
  ASSUME \A q \in Pages : docs'[q].in = docs[q].in /\ docs'[q].doc = docs[q].doc,
         \A q \in Pages : ~docs[q].in => disk'[q] = disk[q] /\ wal'[q] = wal[q]
  PROVE  SeenOps' = SeenOps
<1>1. \A q \in Pages : SeenBy(q)' = SeenBy(q)
  BY DEF SeenBy
<1>. QED BY <1>1 DEF SeenOps

LEMMA SameSaved == ASSUME disk' = disk PROVE SavedOps' = SavedOps
  BY DEF SavedOps

DurableStutter == UNCHANGED <<SentOps, SeenOps, DueOps, SavedOps, crashes>>

LEMMA StutterVars == DurableStutter => UNCHANGED Durable!vars
  BY DEF DurableStutter, Durable!vars

LEMMA SentSame == ASSUME author' = author PROVE SentOps' = SentOps
  BY DEF SentOps

\* LogOp is Send, ApplyOps is Accept.
LEMMA LogOpSends ==
  ASSUME TypeOK, LoadedInv, NEW c \in Conns, NEW o \in Ops, LogOp(c, o)
  PROVE  Durable!Send(o)
<1>1. /\ conn[c].pc = "open" /\ author' = [author EXCEPT ![o] = c]
      /\ UNCHANGED <<disk, docs, task, crashes>>
      /\ wal' = [wal EXCEPT ![conn[c].page] = @ \cup {o}]
  BY DEF LogOp, Receive
<1>2. SentOps' = SentOps \cup {o}
  <2>1. author \in [Ops -> Conns \cup {NotSent, Recovered}]
    BY DEF TypeOK
  <2>. QED BY <1>1, <2>1, NamesAssumption DEF SentOps
<1>3. \A q \in Pages : ~docs[q].in => wal'[q] = wal[q]
  <2>1. docs[conn[c].page].in /\ wal \in [Pages -> SUBSET Ops]
    BY <1>1 DEF LoadedInv, TypeOK
  <2>. QED BY <1>1, <2>1
<1>4. SeenOps' = SeenOps /\ SavedOps' = SavedOps /\ DueOps' = DueOps
  BY <1>1, <1>3, SameSeen, SameSaved, SameDue
<1>. QED BY <1>1, <1>2, <1>4 DEF Durable!Send

LEMMA ApplyOpsAccepts ==
  ASSUME TypeOK, FreshInv, GrowInv, LoadedInv, NEW c \in Conns, ApplyOps(c)
  PROVE  conn[c].page \in Pages /\ conn[c].op \in Ops
           /\ Durable!Accept(conn[c].page, conn[c].op)
<1>. DEFINE p == conn[c].page
            o == conn[c].op
            t == Apply(docs[p].doc, o)
            U == docs[p].contrib \cup {c}
            e == [docs[p] EXCEPT !.doc = t, !.contrib = U]
<1>1. /\ p \in Pages /\ o \in Ops /\ docs[p] \in Entry /\ docs[p].in
      /\ docs \in [Pages -> Entry] /\ conn[c].pc = "logged"
  BY DEF ApplyOps, TypeOK, LoadedInv
<1>2. Updated(p, Touched(e)) /\ UNCHANGED <<disk, wal, task, author, crashes>>
  BY DEF ApplyOps, inputs
<1>3. t \in Content /\ U \in SUBSET Conns /\ docs[p].doc \in Content
  BY <1>1, EntryFields, ApplyType
<1>4. Touched(e).in /\ Touched(e).doc = t
  <2>. HIDE DEF p, t, U
  <2>1. e \in Entry
    BY <1>1, <1>3, DocUpdate
  <2>2. docs[p] \in Entry
    BY <1>1
  <2>3. e.in = docs[p].in /\ e.doc = t
    BY <1>3, <2>2, DocFields
  <2>. HIDE DEF e
  <2>. QED BY <1>1, <2>1, <2>3, TouchedFields
<1>5. Shown(t) \cap Ops = (Shown(docs[p].doc) \cap Ops) \cup {o}
  BY <1>1, <1>3, ApplyShown
<1>6. o \in SentOps
  BY <1>1 DEF FreshInv, Fresh, SentOps
<1>. HIDE DEF p, o, t, e
<1>7. SeenOps' = [SeenOps EXCEPT ![p] = @ \cup {o}]
  <2>1. docs'[p].in /\ docs'[p].doc = t /\ \A q \in Pages \ {p} : docs'[q] = docs[q]
    BY <1>1, <1>2, <1>4, UpdatedOthers
  <2>2. \A q \in Pages :
          q = p => SeenBy(q) = Shown(docs[p].doc) /\ SeenBy(q)' = Shown(t)
    BY <1>1, <2>1 DEF SeenBy
  <2>3. \A q \in Pages \ {p} : SeenBy(q)' = SeenBy(q)
    BY <1>2, <2>1 DEF SeenBy
  <2>4. SeenOps'[p] = SeenOps[p] \cup {o}
    BY <1>1, <1>5, <2>2 DEF SeenOps
  <2>5. \A q \in Pages \ {p} : SeenOps'[q] = SeenOps[q]
    BY <2>3 DEF SeenOps
  <2>. QED BY <2>4, <2>5 DEF SeenOps
<1>8. SentOps' = SentOps /\ SavedOps' = SavedOps
  BY <1>2, SentSame, SameSaved
<1>10. Durable!CatchUp
  <2>1. \A q \in Pages : SeenOps[q] \subseteq SeenOps'[q]
    BY <1>1, <1>7 DEF SeenOps
  <2>2. ASSUME NEW q \in Pages PROVE DueOps'[q] = DueOps[q] \/ DueOps'[q] = SeenOps'[q]
    BY <1>2 DEF DueOps, Due, SeenOps
  <2>. QED BY <2>1, <2>2, CatchesUp
<1>9. Durable!Accept(p, o)
  BY <1>2, <1>6, <1>7, <1>8, <1>10 DEF Durable!Accept
<1>. QED BY <1>1, <1>9 DEF p, o

\* FlushWrite is Save.
LEMMA FlushWriteSaves ==
  ASSUME TypeOK, GrowInv, LoadedInv, FlushWrite
  PROVE  task.page \in Pages /\ Durable!Save(task.page)
<1>. DEFINE p == task.page
<1>1. /\ p \in Pages /\ task.pc = "write" /\ task \in TaskState
      /\ disk \in [Pages -> Content] /\ docs[p].in
  BY DEF FlushWrite, At, TypeOK, JobPcs, GrowInv
<1>2. disk' = [disk EXCEPT ![p] = task.snap] /\ UNCHANGED <<wal, docs, author, crashes>>
  BY DEF FlushWrite, inputs
<1>3. DueOps[p] = Shown(task.snap) \cap Ops
  BY <1>1 DEF DueOps, Due
<1>4. SavedOps' = [SavedOps EXCEPT ![p] = DueOps[p]]
  <2>1. disk'[p] = task.snap /\ \A q \in Pages \ {p} : disk'[q] = disk[q]
    BY <1>1, <1>2
  <2>. QED BY <1>1, <1>3, <2>1 DEF SavedOps
<1>5. \A q \in Pages : ~docs[q].in => disk'[q] = disk[q]
  BY <1>1, <1>2
<1>6. SeenOps' = SeenOps /\ SentOps' = SentOps
  BY <1>2, <1>5, SameSeen, SentSame
<1>7. task'.pc # "write"
  BY <1>1, GotoFields DEF FlushWrite
<1>8. DueOps' = SeenOps'
  <2>1. \A q \in Pages : Due(q)' = SeenBy(q)'
    BY <1>7 DEF Due
  <2>. QED BY <2>1 DEF DueOps, SeenOps
<1>9. Durable!CatchUp
  BY <1>6, <1>8, CatchesUp
<1>10. Durable!Save(p)
  <2>. HIDE DEF p
  <2>. QED BY <1>2, <1>4, <1>6, <1>9 DEF Durable!Save
<1>. QED BY <1>1, <1>10

\* FlushWriteFails is SaveFails.
LEMMA FlushWriteFailsSaves ==
  ASSUME TypeOK, GrowInv, LoadedInv, FlushWriteFails
  PROVE  task.page \in Pages /\ Durable!SaveFails(task.page, SavedOps'[task.page])
<1>. DEFINE p == task.page
<1>1. /\ p \in Pages /\ task.pc = "write" /\ task \in TaskState /\ docs[p].in
      /\ disk[p] \in Content /\ disk'[p] \in Content /\ task.snap \in Content
      /\ \A q \in Pages \ {p} : disk'[q] = disk[q]
      /\ disk'[p] = disk[p] \/ Within(disk'[p], task.snap)
  BY FailFiles DEF TypeOK, GrowInv, Within
<1>2. UNCHANGED <<wal, author, crashes>>
  BY DEF FlushWriteFails, inputs
<1>3. DueOps[p] = Shown(task.snap) \cap Ops
  BY <1>1 DEF DueOps, Due
<1>4. SavedOps'[p] \subseteq DueOps[p]
  <2>1. CASE disk'[p] = disk[p]
    <3>1. SavedOps'[p] = SavedOps[p]
      BY <1>1, <2>1 DEF SavedOps
    <3>. QED BY <1>1, <3>1, DueBounds
  <2>2. CASE Within(disk'[p], task.snap)
    <3>1. Shown(disk'[p]) \subseteq Shown(task.snap)
      BY <1>1, <2>2, WithinShown
    <3>2. SavedOps'[p] = Shown(disk'[p]) \cap Ops
      BY <1>1 DEF SavedOps
    <3>. QED BY <1>3, <3>1, <3>2
  <2>. QED BY <1>1, <2>1, <2>2
<1>5. SavedOps' = [SavedOps EXCEPT ![p] = SavedOps'[p]]
  BY <1>1 DEF SavedOps
<1>6. \A q \in Pages : ~docs[q].in => disk'[q] = disk[q] /\ wal'[q] = wal[q]
  BY <1>1, <1>2
<1>7. SeenOps' = SeenOps /\ SentOps' = SentOps
  BY <1>2, <1>6, FailTexts, SameSeen, SentSame DEF SameTexts
<1>8. task'.pc # "write"
  <2>1. Return.pc # "write"
    BY WalkFields DEF Return
  <2>. QED BY <1>1, <2>1, GotoFields DEF FlushWriteFails
<1>9. DueOps' = SeenOps'
  <2>1. \A q \in Pages : Due(q)' = SeenBy(q)'
    BY <1>8 DEF Due
  <2>. QED BY <2>1 DEF DueOps, SeenOps
<1>10. Durable!CatchUp
  BY <1>7, <1>9, CatchesUp
<1>11. Durable!SaveFails(p, SavedOps'[p])
  <2>. HIDE DEF p
  <2>. QED BY <1>2, <1>4, <1>5, <1>7, <1>10 DEF Durable!SaveFails
<1>. QED BY <1>1, <1>11

\* Crash is Restart.
LEMMA CrashRestarts ==
  ASSUME TypeOK, FreshInv, GrowInv, Crash
  PROVE  SeenOps' \in [Pages -> SUBSET Ops] /\ Durable!Restart(SeenOps')
<1>1. /\ crashes' = crashes + 1 /\ disk' = disk /\ wal' = wal
      /\ \A p \in Pages : ~docs'[p].in
      /\ author' = [o \in Ops |-> IF author[o] = NotSent THEN NotSent ELSE Recovered]
  BY DEF Crash, Stop, Unloaded
<1>2. SentOps' = SentOps
  BY <1>1 DEF SentOps, NotSent, Recovered
<1>3. SavedOps' = SavedOps
  BY <1>1, SameSaved
<1>4. ASSUME NEW p \in Pages
      PROVE  SavedOps[p] \subseteq SeenOps'[p] /\ SeenOps'[p] \subseteq SentOps
  <2>1. SeenOps'[p] = Shown(Replay(disk[p], wal[p])) \cap Ops
    BY <1>1 DEF SeenOps, SeenBy
  <2>2. disk[p] \in Content
    BY DEF TypeOK
  <2>3. SavedOps[p] \subseteq SeenOps'[p]
    BY <2>1, <2>2, ReplayShown DEF SavedOps
  <2>4. \A o \in Ops \ SentOps : o \notin Shown(disk[p]) /\ o \notin wal[p]
    BY DEF FreshInv, Fresh, SentOps, Shown
  <2>5. SeenOps'[p] \subseteq SentOps
    BY <2>1, <2>2, <2>4, ReplayShown
  <2>. QED BY <2>3, <2>5
<1>5. SeenOps' \in [Pages -> SUBSET Ops]
  BY DEF SeenOps
<1>6. DueOps' = SeenOps'
  <2>1. task'.pc = "replay"
    BY WalkFields DEF Crash, Stop
  <2>2. \A q \in Pages : Due(q)' = SeenBy(q)'
    BY <2>1 DEF Due
  <2>. QED BY <2>2 DEF DueOps, SeenOps
<1>. QED BY <1>1, <1>2, <1>3, <1>4, <1>5, <1>6 DEF Durable!Restart

LEMMA DurableInit == Init => Durable!Init
<1>. SUFFICES ASSUME Init PROVE Durable!Init
  OBVIOUS
<1>1. SentOps = {} /\ crashes = 0
  BY DEF Init, SentOps
<1>2. Shown(Blank) = {} /\ Shown(Replay(Blank, {})) = {}
  BY DEF Shown, Replay, Blank
<1>3. \A p \in Pages : disk[p] = Blank /\ wal[p] = {} /\ ~docs[p].in
  BY DEF Init, Unloaded
<1>4. SavedOps = [p \in Pages |-> {}]
  BY <1>2, <1>3 DEF SavedOps
<1>5. SeenOps = [p \in Pages |-> {}]
  BY <1>2, <1>3 DEF SeenOps, SeenBy
<1>6. DueOps = SeenOps
  BY DueIsSeen, WalkFields DEF Init
<1>. QED BY <1>1, <1>4, <1>5, <1>6 DEF Durable!Init

LEMMA DurableStep ==
  ASSUME RoomForAll, TypeOK, FreshInv, GrowInv, LoadedInv, [CoreNext]_vars
  PROVE  [Durable!Next]_(Durable!vars)
<1>. USE DEF inputs
<1>. DEFINE Good == [Durable!Next]_(Durable!vars)
<1>1. /\ docs \in [Pages -> Entry] /\ disk \in [Pages -> Content]
      /\ task \in TaskState /\ (task.pc \in JobPcs => task.page \in Pages)
  BY DEF TypeOK
<1>2. ASSUME DurableStutter PROVE Good
  BY <1>2, StutterVars
<1>3. ASSUME SeenOps' = SeenOps, disk' = disk, UNCHANGED inputs,
             \/ task' = task
             \/ task.pc # "write" /\ task'.pc # "write"
             \/ DueOps' = DueOps
      PROVE  Good
  BY <1>2, <1>3, SameSaved, SentSame, SameDue DEF DurableStutter
<1>. SUFFICES Good
  OBVIOUS
<1>. HIDE DEF Good
<1>4. ASSUME NEW c \in Conns, NEW p \in Pages, Load(c, p) PROVE Good
  <2>1. CASE docs[p].in /\ UNCHANGED <<docs, disk>>
    BY <1>3, <1>4, <2>1, SameSeen DEF Load
  <2>2. CASE LoadOrGet(p, NewEntry(disk[p]))
    <3>1. /\ ~docs[p].in /\ docs'[p] = NewEntry(disk[p]) /\ disk' = disk
          /\ \A q \in Pages \ {p} : docs'[q] = docs[q]
      BY <1>1, <2>2, LoadWithRoom
    <3>2. docs'[p].in /\ docs'[p].doc = disk[p]
      BY <3>1, NewEntryFields
    <3>3. wal' = wal /\ wal[p] = {} /\ UNCHANGED inputs /\ task' = task
      BY <1>4, <3>1 DEF Load, LoadedInv
    <3>4. Shown(Replay(disk[p], wal[p])) = Shown(disk[p])
      BY <1>1, <3>3, ReplayShown
    <3>5. \A q \in Pages : SeenBy(q)' = SeenBy(q)
      BY <3>1, <3>2, <3>3, <3>4 DEF SeenBy
    <3>6. SeenOps' = SeenOps
      BY <3>5 DEF SeenOps
    <3>. QED BY <1>3, <3>1, <3>3, <3>6
  <2>. QED BY <1>4, <2>1, <2>2 DEF Load
<1>5. ASSUME NEW c \in Conns, Connect(c) \/ Disconnect(c) PROVE Good
  BY <1>3, <1>5, ConnectTexts, SameSeen DEF Connect, Disconnect, SameTexts
<1>6. ASSUME NEW c \in Conns, RecordEdit(c) PROVE Good
  <2>. DEFINE p == conn[c].page
  <2>1. /\ p \in Pages /\ docs[p] \in Entry /\ Updated(p, Touched(docs[p]))
        /\ UNCHANGED <<disk, wal, task, inputs>>
    BY <1>6 DEF RecordEdit, TypeOK
  <2>. HIDE DEF p
  <2>2. Touched(docs[p]).in = docs[p].in /\ Touched(docs[p]).doc = docs[p].doc
    BY <2>1, TouchedFields
  <2>3. \A q \in Pages : docs'[q].in = docs[q].in /\ docs'[q].doc = docs[q].doc
    BY <1>1, <2>1, <2>2, UpdatedOthers
  <2>. QED BY <1>3, <2>1, <2>3, SameSeen
<1>7. ASSUME NEW c \in Conns, NEW o \in Ops, LogOp(c, o) PROVE Good
  BY <1>7, LogOpSends DEF Good, Durable!Next
<1>8. ASSUME NEW c \in Conns, ApplyOps(c) PROVE Good
  BY <1>8, ApplyOpsAccepts DEF Good, Durable!Next
<1>9. ASSUME NEW p \in Pages, FlushSerialize(p) PROVE Good
  <2>1. task' = Job("write", p, docs[p].doc, docs[p].gen, {})
    BY <1>9 DEF FlushSerialize
  <2>2. task'.pc = "write" /\ task'.page = p /\ task'.snap = docs[p].doc
    BY <2>1, TaskFields
  <2>3. /\ task.pc # "write" /\ docs[p].in
        /\ UNCHANGED <<disk, wal, docs, inputs>>
    BY <1>9 DEF FlushSerialize, At
  <2>4. SeenOps' = SeenOps
    BY <2>3, SameSeen
  <2>5. \A q \in Pages : Due(q)' = Due(q)
    BY <2>2, <2>3 DEF Due, SeenBy
  <2>6. DueOps' = DueOps
    BY <2>5 DEF DueOps
  <2>. QED BY <1>3, <2>3, <2>4, <2>6
<1>10. CASE FlushWrite
  BY <1>10, FlushWriteSaves DEF Good, Durable!Next
<1>15. CASE FlushWriteFails
  <2>1. SavedOps'[task.page] \in SUBSET Ops
    BY <1>15, FailFiles DEF SavedOps
  <2>. QED BY <1>15, <2>1, FlushWriteFailsSaves DEF Good, Durable!Next
<1>11. CASE FlushMark \/ FlushTruncate \/ FlushCommit \/ FlushReindexFails \/ RecoverDiscard
  <2>7. FlushMark \/ FlushTruncate \/ FlushCommit \/ FlushFails \/ RecoverDiscard
    BY <1>11 DEF FlushFails
  <2>1. disk' = disk /\ UNCHANGED inputs
    BY <1>11 DEF FlushMark, FlushTruncate, FlushCommit, FlushReindexFails, RecoverDiscard
  <2>8. task.pc # "write" /\ task'.pc # "write"
    <3>1. Return.pc # "write"
      BY WalkFields DEF Return
    <3>. QED
      BY <1>1, <1>11, <3>1, GotoFields
      DEF FlushMark, FlushTruncate, FlushCommit, FlushReindexFails, RecoverDiscard, At
  <2>2. docs[task.page].in
    BY <2>7, PipelineTexts DEF LoadedInv
  <2>3. \A q \in Pages : ~docs[q].in => wal'[q] = wal[q]
    BY <2>2, <2>7, PipelineTexts
  <2>4. \A q \in Pages : docs'[q].in = docs[q].in /\ docs'[q].doc = docs[q].doc
    BY <2>7, PipelineTexts
  <2>5. \A q \in Pages : ~docs[q].in => disk'[q] = disk[q] /\ wal'[q] = wal[q]
    BY <2>1, <2>3
  <2>6. SeenOps' = SeenOps
    BY <2>4, <2>5, SameSeen
  <2>. QED BY <1>3, <2>1, <2>6, <2>8
<1>12. ASSUME NEW p \in Pages, RecoverReplay(p) PROVE Good
  <2>. DEFINE t == Replay(disk[p], wal[p])
              g == Cardinality(wal[p])
              e == [NewEntry(t) EXCEPT !.dirty = TRUE, !.gen = g]
  <2>1. LoadOrGet(p, e) /\ UNCHANGED <<wal, inputs>> /\ task.pc # "write"
    BY <1>12 DEF RecoverReplay, At
  <2>6. task'.pc = "write" /\ task'.page = p /\ task'.snap = t
    <3>1. task' = Job("write", p, t, g, task.todo \ {p})
      BY <1>12 DEF RecoverReplay
    <3>. HIDE DEF t, g
    <3>. QED BY <3>1, TaskFields
  <2>2. e.in = TRUE /\ e.doc = t
    <3>. HIDE DEF t, g
    <3>. QED BY DEF NewEntry, Unloaded
  <2>. HIDE DEF e
  <2>3. /\ ~docs[p].in /\ docs'[p] = e /\ disk' = disk
        /\ \A q \in Pages \ {p} : docs'[q] = docs[q]
    BY <1>1, <2>1, LoadWithRoom
  <2>4. \A q \in Pages : SeenBy(q)' = SeenBy(q)
    BY <2>1, <2>2, <2>3 DEF SeenBy
  <2>5. SeenOps' = SeenOps
    BY <2>4 DEF SeenOps
  <2>7. \A q \in Pages : Due(q)' = Due(q)
    BY <2>1, <2>2, <2>3, <2>4, <2>6 DEF Due, SeenBy
  <2>8. DueOps' = DueOps
    BY <2>7 DEF DueOps
  <2>. QED BY <1>3, <2>1, <2>3, <2>5, <2>8
<1>13. CASE Serve \/ UNCHANGED vars
  <2>1. UNCHANGED <<docs, disk, wal, author, spent, crashes>>
    BY <1>13 DEF Serve, vars
  <2>2. SeenOps' = SeenOps
    BY <2>1, SameSeen
  <2>3. task' = task \/ (task.pc # "write" /\ task'.pc # "write")
    BY <1>13, WalkFields DEF Serve, At, vars
  <2>. QED BY <1>3, <2>1, <2>2, <2>3
<1>14. CASE Crash
  BY <1>14, CrashRestarts DEF Good, Durable!Next
<1>. QED
  BY <1>4, <1>5, <1>6, <1>7, <1>8, <1>9, <1>10, <1>11, <1>12, <1>13, <1>14, <1>15
  DEF CoreNext, Handler, Client, Flush, FlushFails, Recovery

\* As long as the store has room for every page, the core implements
\* DurablePages: a write that succeeds leaves in the file every op that was
\* seen when it began, also those an earlier write had failed to keep; and no
\* flush, failing write, load or recovery, in whatever order with the edits of
\* the clients, takes an edit from an editor.  Only a crash does.
THEOREM CoreIsDurable ==
  ASSUME RoomForAll PROVE CoreSpec => ImplementsDurablePages
<1>. DEFINE Inv == FlushInv /\ GrowInv /\ LogsInv /\ LoadedInv
<1>1. Init => Inv
  <2>1. Init => GrowInv
    BY DEF Init, GrowInv, Unloaded, Walk, Idle
  <2>. QED BY <2>1, FlushInvInit, LogsInit, LoadedInit
<1>2. TypeOK /\ TypeOK' /\ Inv /\ [CoreNext]_vars => Inv'
  <2>1. CoreNext => EditNext
    BY DEF EditNext
  <2>. QED
    BY <2>1, FlushInvStep, GrowStep, FreshStep, LogStep, AloneStep, LoadedStep DEF LogsInv
<1>3. TypeOK /\ Inv /\ [CoreNext]_vars => [Durable!Next]_(Durable!vars)
  BY DurableStep DEF LogsInv
<1>4. Init => Durable!Init
  BY DurableInit
<1>. HIDE DEF Inv
<1>. QED
  BY <1>1, <1>2, <1>3, <1>4, CoreTypes, PTL
  DEF CoreSpec, ImplementsDurablePages, Durable!Spec

\* The file of a page never shows an edit that an editor of the page would not
\* be shown, nor one that no client sent, a crash at any moment included.
THEOREM FilesShowSeenEdits ==
  ASSUME RoomForAll PROVE CoreSpec => []Durable!SavedWasSeen
<1>1. TypeOK /\ GrowInv /\ LogsInv => Durable!SavedWasSeen
  BY SeenWasSent, DueBounds DEF LogsInv, Durable!SavedWasSeen
<1>2. Init => FlushInv /\ GrowInv /\ LogsInv
  BY FlushInvInit, LogsInit DEF Init, GrowInv, Unloaded, Walk, Idle
<1>3. TypeOK /\ TypeOK' /\ FlushInv /\ GrowInv /\ LogsInv /\ [CoreNext]_vars
        => (FlushInv /\ GrowInv /\ LogsInv)'
  <2>1. CoreNext => EditNext
    BY DEF EditNext
  <2>. QED BY <2>1, FlushInvStep, GrowStep, FreshStep, LogStep, AloneStep DEF LogsInv
<1>. QED BY <1>1, <1>2, <1>3, CoreTypes, PTL DEF CoreSpec
=============================================================================
