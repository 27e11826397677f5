--------------------------- MODULE CrdtCountProofs ---------------------------
(***************************************************************************)
(* Client counts, for the whole module: both evictions, loads that fail,   *)
(* damaged logs and crashes included.                                      *)
(***************************************************************************)
EXTENDS CrdtFlushProofs

-----------------------------------------------------------------------------
(* The bound is inductive together with UnloadedHaveNone: a page that is   *)
(* not in the store counts no client.                                      *)

UnloadedHaveNone == \A p \in Pages : docs[p].in \/ docs[p].count = 0

CountInv == CountBoundedByConnections /\ UnloadedHaveNone

(* Every step but Connect and Disconnect keeps the count of an entry or    *)
(* sets it to zero, and changes no connection's place.                     *)

CountsKept ==
  \A p \in Pages :
    \/ docs'[p].count = 0
    \/ docs'[p].count = docs[p].count /\ docs'[p].in = docs[p].in

PlacesKept == \A p \in Pages : Connected(p)' = Connected(p)

LEMMA ConnectedFinite ==
  ASSUME NEW p
  PROVE  IsFiniteSet(Connected(p)) /\ Cardinality(Connected(p)) \in Nat
<1>1. Connected(p) \subseteq Conns
  BY DEF Connected
<1>2. IsFiniteSet(Connected(p))
  BY <1>1, SetsAssumption, FS_Subset
<1>. QED BY <1>2, FS_CardinalityType

LEMMA KeptKeepsBound ==
  ASSUME CountInv, CountsKept, PlacesKept
  PROVE  CountInv'
<1>. SUFFICES ASSUME NEW p \in Pages
              PROVE  /\ docs'[p].count <= Cardinality(Connected(p)')
                     /\ docs'[p].in \/ docs'[p].count = 0
  BY DEF CountInv, CountBoundedByConnections, UnloadedHaveNone
<1>1. Cardinality(Connected(p)) \in Nat
  BY ConnectedFinite
<1>2. Connected(p)' = Connected(p)
  BY DEF PlacesKept
<1>3. docs[p].count <= Cardinality(Connected(p)) /\ (docs[p].in \/ docs[p].count = 0)
  BY DEF CountInv, CountBoundedByConnections, UnloadedHaveNone
<1>4. \/ docs'[p].count = 0
      \/ docs'[p].count = docs[p].count /\ docs'[p].in = docs[p].in
  BY DEF CountsKept
<1>. QED BY <1>1, <1>2, <1>3, <1>4

LEMMA SamePlaces ==
  ASSUME conn' = conn PROVE PlacesKept
  BY DEF PlacesKept, Connected

LEMMA SameCounts ==
  ASSUME docs' = docs PROVE CountsKept
  BY DEF CountsKept

LEMMA UpdatedCounts ==
  ASSUME TypeOK, NEW p \in Pages, NEW e, Updated(p, e), e.count = docs[p].count,
         e.in = docs[p].in
  PROVE  CountsKept
  BY UpdatedOthers DEF TypeOK, CountsKept

LEMMA LoadCounts ==
  ASSUME TypeOK, NEW p \in Pages, NEW e, LoadOrGet(p, e), e.count = 0
  PROVE  CountsKept
<1>1. docs \in [Pages -> Entry]
  BY DEF TypeOK
<1>2. CASE docs' = [docs EXCEPT ![p] = e]
  BY <1>1, <1>2 DEF CountsKept
<1>3. ASSUME NEW q \in Victims, docs' = [docs EXCEPT ![q] = Unloaded, ![p] = e]
      PROVE  CountsKept
  BY <1>1, <1>3 DEF CountsKept, Unloaded
<1>. QED BY <1>2, <1>3 DEF LoadOrGet

SameCount(e, n) == n.count = e.count /\ n.in = e.in

\* The updates of an entry that leave its count alone.
LEMMA OtherUpdates ==
  \A e \in Entry :
    /\ SameCount(e, Touched(e))
    /\ \A t, U : SameCount(e, Touched([e EXCEPT !.doc = t, !.contrib = U]))
    /\ \A b : SameCount(e, [e EXCEPT !.dirty = b, !.failed = FALSE])
    /\ SameCount(e, [e EXCEPT !.failed = TRUE])
    /\ SameCount(e, [e EXCEPT !.contrib = {}])
  BY DEF Entry, Touched, SameCount

LEMMA NewEntryCount ==
  \A t, b, g : NewEntry(t).count = 0
                 /\ [NewEntry(t) EXCEPT !.dirty = b, !.gen = g].count = 0
  BY DEF NewEntry, Unloaded

-----------------------------------------------------------------------------
LEMMA CountsInit == Init => CountInv
<1>. SUFFICES ASSUME Init, NEW p \in Pages
              PROVE  docs[p].count = 0 /\ docs[p].count <= Cardinality(Connected(p))
  BY DEF CountInv, CountBoundedByConnections, UnloadedHaveNone
<1>1. docs[p].count = 0
  BY DEF Init, Unloaded
<1>. QED BY <1>1, ConnectedFinite

\* Connecting adds one to the count, if the page is loaded, and the
\* connection to those of the page in any case.
LEMMA ConnectKeepsBound ==
  ASSUME TypeOK, CountInv, NEW c \in Conns, Connect(c)
  PROVE  CountInv'
<1>. SUFFICES ASSUME NEW q \in Pages
              PROVE  /\ docs'[q].count <= Cardinality(Connected(q)')
                     /\ docs'[q].in \/ docs'[q].count = 0
  BY DEF CountInv, CountBoundedByConnections, UnloadedHaveNone
<1>. DEFINE p == conn[c].page
            e == [docs[p] EXCEPT !.count = @ + 1, !.gone = FALSE]
<1>1. /\ docs \in [Pages -> Entry] /\ conn \in [Conns -> ConnState]
      /\ p \in Pages /\ conn[c].pc = "loaded" /\ docs[p] \in Entry
  BY DEF TypeOK, Connect
<1>2. /\ docs[q].count <= Cardinality(Connected(q)) /\ docs[q].count \in Nat
      /\ Cardinality(Connected(q)) \in Nat
      /\ docs[q].in \/ docs[q].count = 0
  BY <1>1, ConnectedFinite, EntryFields
  DEF CountInv, CountBoundedByConnections, UnloadedHaveNone
<1>3. conn' = [conn EXCEPT ![c].pc = "open"] /\ Updated(p, e)
  BY DEF Connect
<1>4. e.count = docs[p].count + 1 /\ e.in = docs[p].in
  BY <1>1 DEF Entry
<1>5. /\ conn'[c].pc = "open" /\ conn'[c].page = p
      /\ \A d \in Conns \ {c} : conn'[d] = conn[d]
  BY <1>1, <1>3 DEF ConnState
<1>. HIDE DEF e
<1>6. CASE q # p
  <2>1. docs'[q] = docs[q]
    BY <1>1, <1>3, <1>6, UpdatedOthers
  <2>2. Connected(q)' = Connected(q)
    BY <1>1, <1>5, <1>6 DEF Connected
  <2>. QED BY <1>2, <2>1, <2>2
<1>7. CASE q = p
  <2>1. \/ docs'[q] = docs[q]
        \/ docs[q].in /\ docs'[q].in /\ docs'[q].count = docs[q].count + 1
    BY <1>1, <1>3, <1>4, <1>7, UpdatedOthers
  <2>2. Connected(q)' = Connected(q) \cup {c} /\ c \notin Connected(q)
    BY <1>1, <1>5, <1>7 DEF Connected
  <2>3. Cardinality(Connected(q)') = Cardinality(Connected(q)) + 1
    BY <2>2, ConnectedFinite, FS_AddElement
  <2>. QED BY <1>2, <2>1, <2>3
<1>. QED BY <1>6, <1>7

\* Disconnecting takes one from the count unless it is zero, which it is when
\* the document was loaded again after the connection opened.
LEMMA DisconnectKeepsBound ==
  ASSUME TypeOK, CountInv, NEW c \in Conns, Disconnect(c)
  PROVE  CountInv'
<1>. SUFFICES ASSUME NEW q \in Pages
              PROVE  /\ docs'[q].count <= Cardinality(Connected(q)')
                     /\ docs'[q].in \/ docs'[q].count = 0
  BY DEF CountInv, CountBoundedByConnections, UnloadedHaveNone
<1>. DEFINE p == conn[c].page
            n == IF docs[p].count = 0 THEN 0 ELSE docs[p].count - 1
            e == [docs[p] EXCEPT !.count = n, !.gone = IF n = 0 THEN TRUE ELSE @]
<1>1. /\ docs \in [Pages -> Entry] /\ conn \in [Conns -> ConnState]
      /\ p \in Pages /\ conn[c].pc = "open" /\ docs[p] \in Entry
  BY DEF TypeOK, Disconnect
<1>2. /\ docs[q].count <= Cardinality(Connected(q)) /\ docs[q].count \in Nat
      /\ Cardinality(Connected(q)) \in Nat
      /\ docs[q].in \/ docs[q].count = 0
  BY <1>1, ConnectedFinite, EntryFields
  DEF CountInv, CountBoundedByConnections, UnloadedHaveNone
<1>3. conn' = [conn EXCEPT ![c] = Off] /\ Updated(p, e)
  BY DEF Disconnect
<1>4. e.count = n /\ e.in = docs[p].in
  BY <1>1 DEF Entry
<1>5. conn'[c].pc = "off" /\ \A d \in Conns \ {c} : conn'[d] = conn[d]
  BY <1>1, <1>3 DEF Off
<1>. HIDE DEF e
<1>6. CASE q # p
  <2>1. docs'[q] = docs[q]
    BY <1>1, <1>3, <1>6, UpdatedOthers
  <2>2. Connected(q)' = Connected(q)
    BY <1>1, <1>5, <1>6 DEF Connected
  <2>. QED BY <1>2, <2>1, <2>2
<1>7. CASE q = p
  <2>1. Connected(q)' = Connected(q) \ {c} /\ c \in Connected(q)
    BY <1>1, <1>5, <1>7 DEF Connected
  <2>2. Cardinality(Connected(q)') = Cardinality(Connected(q)) - 1
    BY <2>1, ConnectedFinite, FS_RemoveElement
  <2>3. Cardinality(Connected(q)) # 0
    BY <2>1, ConnectedFinite, FS_EmptySet
  <2>4. CASE docs[p].in
    <3>1. docs'[q].count = n /\ docs'[q].in
      BY <1>1, <1>3, <1>4, <1>7, <2>4, UpdatedOthers
    <3>. QED BY <1>2, <1>7, <2>2, <2>3, <3>1
  <2>5. CASE ~docs[p].in
    <3>1. docs' = docs
      BY <1>3, <2>5 DEF Updated
    <3>. QED BY <1>2, <1>7, <2>2, <2>3, <2>5, <3>1
  <2>. QED BY <2>4, <2>5
<1>. QED BY <1>6, <1>7

-----------------------------------------------------------------------------
(* The other actions, in the order of Next. *)

LEMMA MessagesKeep ==
  ASSUME TypeOK, NEW c \in Conns,
         \/ ApplyOps(c) \/ RecordEdit(c)
         \/ \E o \in Ops : LogOp(c, o) \/ LogOpFails(c, o)
         \/ \E b \in Bodies : ApplySync(c, b)
  PROVE  CountsKept /\ PlacesKept
<1>. USE DEF inputs
<1>. DEFINE p == conn[c].page
<1>1. conn \in [Conns -> ConnState] /\ docs \in [Pages -> Entry]
  BY DEF TypeOK
<1>2. p \in Pages /\ docs[p] \in Entry
  BY DEF TypeOK, ApplyOps, RecordEdit, LogOp, LogOpFails, Receive, ApplySync
<1>3. PlacesKept
  <2>1. \A d \in Conns : conn'[d].page = conn[d].page
                           /\ (conn'[d].pc \in {"off", "loaded"}
                                 <=> conn[d].pc \in {"off", "loaded"})
    <3>1. CASE ApplyOps(c) \/ RecordEdit(c)
      BY <1>1, <3>1 DEF ConnState, ApplyOps, RecordEdit
    <3>2. CASE \E o \in Ops : Receive(c, o)
      BY <1>1, <3>2 DEF ConnState, Receive
    <3>3. CASE conn' = conn
      BY <3>3
    <3>. QED BY <3>1, <3>2, <3>3 DEF LogOp, LogOpFails, ApplySync
  <2>. QED BY <2>1 DEF PlacesKept, Connected
<1>4. CountsKept
  <2>1. CASE docs' = docs
    BY <2>1, SameCounts
  <2>2. CASE RecordEdit(c)
    <3>1. Updated(p, Touched(docs[p]))
      BY <2>2 DEF RecordEdit
    <3>. HIDE DEF p
    <3>. QED BY <1>2, <3>1, OtherUpdates, UpdatedCounts DEF SameCount
  <2>3. ASSUME NEW t, Updated(p, Touched([docs[p] EXCEPT !.doc = t,
                                             !.contrib = docs[p].contrib \cup {c}]))
        PROVE  CountsKept
    <3>. DEFINE U == docs[p].contrib \cup {c}
    <3>1. Updated(p, Touched([docs[p] EXCEPT !.doc = t, !.contrib = U]))
      BY <2>3
    <3>. HIDE DEF p, U
    <3>2. SameCount(docs[p], Touched([docs[p] EXCEPT !.doc = t, !.contrib = U]))
      BY <1>2, OtherUpdates
    <3>. QED BY <1>2, <3>1, <3>2, UpdatedCounts DEF SameCount
  <2>4. CASE ApplyOps(c)
    <3>1. Updated(p, Touched([docs[p] EXCEPT !.doc = Apply(docs[p].doc, conn[c].op),
                                             !.contrib = docs[p].contrib \cup {c}]))
      BY <2>4 DEF ApplyOps
    <3>. QED BY <2>3, <3>1
  <2>5. ASSUME NEW b \in Bodies, ApplySync(c, b) PROVE CountsKept
    <3>1. Updated(p, Touched([docs[p] EXCEPT !.doc = Whole(b),
                                             !.contrib = docs[p].contrib \cup {c}]))
      BY <2>5 DEF ApplySync
    <3>. QED BY <2>3, <3>1
  <2>. QED BY <2>1, <2>2, <2>4, <2>5 DEF LogOp, LogOpFails
<1>. QED BY <1>3, <1>4

LEMMA LoadsKeep ==
  ASSUME TypeOK, NEW c \in Conns, NEW p \in Pages, Load(c, p) \/ LoadFails(c, p)
  PROVE  CountsKept /\ PlacesKept
<1>. USE DEF inputs
<1>1. CountsKept
  <2>1. Unloaded.count = 0 /\ NewEntry(disk[p]).count = 0
    BY NewEntryCount DEF Unloaded
  <2>. QED BY <2>1, LoadCounts, SameCounts DEF Load, LoadFails, EvictLruFails
<1>2. PlacesKept
  <2>1. conn \in [Conns -> ConnState]
    BY DEF TypeOK
  <2>2. /\ conn[c].pc = "off"
        /\ \A d \in Conns :
             conn'[d] = conn[d] \/ (d = c /\ conn'[d].pc \in {"off", "loaded"})
    <3>1. CASE Load(c, p)
      BY <2>1, <3>1 DEF Load
    <3>2. CASE LoadFails(c, p)
      BY <3>2 DEF LoadFails
    <3>. QED BY <3>1, <3>2
  <2>. QED BY <2>2 DEF PlacesKept, Connected
<1>. QED BY <1>1, <1>2

LEMMA TaskKeeps ==
  ASSUME TypeOK, Flush \/ FlushFails \/ Eviction \/ Recovery \/ TruncateFails
  PROVE  CountsKept /\ PlacesKept
<1>. USE DEF inputs
<1>1. PlacesKept
  BY SamePlaces
  DEF Flush, FlushFails, Eviction, Recovery, TruncateFails, FlushSerialize, FlushWrite,
      FlushMark, FlushTruncate, FlushCommit, FlushWriteFails, FlushReindexFails,
      EvictScan, Evict, EvictWrite, EvictTruncate, EvictWriteFails, RecoverReplay,
      RecoverDiscard, Serve
<1>2. docs \in [Pages -> Entry] /\ (task.pc \in JobPcs => task.page \in Pages)
  BY DEF TypeOK
<1>3. CASE docs' = docs
  BY <1>1, <1>3, SameCounts
<1>4. CASE FlushWriteFails
  <2>1. task.page \in Pages /\ docs[task.page] \in Entry
    BY <1>2, <1>4 DEF FlushWriteFails, At, JobPcs
  <2>2. SameCount(docs[task.page], [docs[task.page] EXCEPT !.failed = TRUE])
    BY <2>1, OtherUpdates
  <2>. QED BY <1>1, <1>4, <2>1, <2>2, UpdatedCounts DEF FlushWriteFails, SameCount
<1>5. CASE FlushMark
  <2>. DEFINE p == task.page
              b == docs[p].dirty /\ docs[p].gen # task.gen
  <2>1. p \in Pages /\ docs[p] \in Entry
    BY <1>2, <1>5 DEF FlushMark, At, JobPcs
  <2>2. Updated(p, [docs[p] EXCEPT !.dirty = b, !.failed = FALSE])
    BY <1>5 DEF FlushMark
  <2>. HIDE DEF p, b
  <2>3. SameCount(docs[p], [docs[p] EXCEPT !.dirty = b, !.failed = FALSE])
    BY <2>1, OtherUpdates
  <2>. QED BY <1>1, <2>1, <2>2, <2>3, UpdatedCounts DEF SameCount
<1>6. CASE FlushCommit
  BY <1>1, <1>2, <1>6 DEF FlushCommit, At, JobPcs, CountsKept, Entry
<1>7. ASSUME NEW p \in Pages, Evict(p) PROVE CountsKept
  BY <1>2, <1>7 DEF Evict, CountsKept, Unloaded
<1>8. ASSUME NEW p \in Pages, RecoverReplay(p) PROVE CountsKept
  <2>. DEFINE t == Replay(disk[p], wal[p])
              g == Cardinality(wal[p])
  <2>1. LoadOrGet(p, [NewEntry(t) EXCEPT !.dirty = TRUE, !.gen = g])
    BY <1>8 DEF RecoverReplay
  <2>. HIDE DEF t, g
  <2>. QED BY <2>1, LoadCounts, NewEntryCount
<1>9. \/ docs' = docs \/ FlushWriteFails \/ FlushMark \/ FlushCommit
      \/ \E p \in Pages : Evict(p) \/ RecoverReplay(p)
  BY DEF Flush, FlushFails, Eviction, Recovery, TruncateFails, FlushSerialize, FlushWrite,
         FlushTruncate, FlushReindexFails, EvictScan, EvictWrite, EvictTruncate,
         EvictWriteFails, RecoverDiscard, Serve
<1>. QED BY <1>1, <1>3, <1>4, <1>5, <1>6, <1>7, <1>8, <1>9

LEMMA DamagedLogsKeep ==
  ASSUME TypeOK, NEW p \in Pages, RecoverPartly(p) \/ RecoverSkip(p)
  PROVE  CountsKept /\ PlacesKept
<1>. USE DEF inputs
<1>1. PlacesKept
  BY SamePlaces DEF RecoverPartly, RecoverSkip
<1>2. CASE RecoverSkip(p)
  <2>1. Unloaded.count = 0
    BY DEF Unloaded
  <2>. QED BY <1>1, <1>2, <2>1, LoadCounts, SameCounts DEF RecoverSkip, EvictLruFails
<1>3. CASE RecoverPartly(p)
  <2>1. PICK S : LoadOrGet(p, [NewEntry(Replay(disk[p], S))
                                 EXCEPT !.dirty = (S # {}), !.gen = Cardinality(S)])
    BY <1>3 DEF RecoverPartly
  <2>. DEFINE t == Replay(disk[p], S)
              b == S # {}
              g == Cardinality(S)
  <2>2. LoadOrGet(p, [NewEntry(t) EXCEPT !.dirty = b, !.gen = g])
    BY <2>1
  <2>. HIDE DEF t, b, g
  <2>. QED BY <1>1, <2>2, LoadCounts, NewEntryCount
<1>. QED BY <1>2, <1>3

LEMMA StopKeepsBound ==
  ASSUME Stop PROVE CountInv'
<1>. SUFFICES ASSUME NEW p \in Pages
              PROVE  docs'[p].count = 0 /\ docs'[p].count <= Cardinality(Connected(p)')
  BY DEF CountInv, CountBoundedByConnections, UnloadedHaveNone
<1>1. docs'[p].count = 0
  BY DEF Stop, Unloaded
<1>2. Connected(p)' = {}
  BY DEF Stop, Connected, Off
<1>. QED BY <1>1, <1>2, FS_EmptySet

LEMMA CountsStep ==
  ASSUME TypeOK, CountInv, [Next]_vars
  PROVE  CountInv'
<1>1. ASSUME NEW c \in Conns, Connect(c) PROVE CountInv'
  BY <1>1, ConnectKeepsBound
<1>2. ASSUME NEW c \in Conns, Disconnect(c) PROVE CountInv'
  BY <1>2, DisconnectKeepsBound
<1>3. ASSUME NEW c \in Conns,
             \/ ApplyOps(c) \/ RecordEdit(c)
             \/ \E o \in Ops : LogOp(c, o) \/ LogOpFails(c, o)
             \/ \E b \in Bodies : ApplySync(c, b)
      PROVE  CountInv'
  BY <1>3, MessagesKeep, KeptKeepsBound
<1>4. ASSUME NEW c \in Conns, NEW p \in Pages, Load(c, p) \/ LoadFails(c, p)
      PROVE  CountInv'
  BY <1>4, LoadsKeep, KeptKeepsBound
<1>5. CASE Flush \/ FlushFails \/ Eviction \/ Recovery \/ TruncateFails
  BY <1>5, TaskKeeps, KeptKeepsBound
<1>6. ASSUME NEW p \in Pages, RecoverPartly(p) \/ RecoverSkip(p) PROVE CountInv'
  BY <1>6, DamagedLogsKeep, KeptKeepsBound
<1>7. CASE Crash \/ TornCrash
  BY <1>7, StopKeepsBound DEF Crash, TornCrash
<1>8. CASE UNCHANGED vars
  BY <1>8, SameCounts, SamePlaces, KeptKeepsBound DEF vars
<1>. QED
  BY <1>1, <1>2, <1>3, <1>4, <1>5, <1>6, <1>7, <1>8
  DEF Next, CoreNext, Handler, Client

\* Whatever is evicted and loaded again under open connections, and whatever
\* fails or crashes, a document never counts more clients than it has
\* connections: a document whose clients have all left can be evicted.
THEOREM CountsBounded == Spec => []CountBoundedByConnections
<1>1. Init => CountInv
  BY CountsInit
<1>2. TypeOK /\ CountInv /\ [Next]_vars => CountInv'
  BY CountsStep
<1>3. CountInv => CountBoundedByConnections
  BY DEF CountInv
<1>. QED BY <1>1, <1>2, <1>3, TypeCorrect, PTL DEF Spec

-----------------------------------------------------------------------------
(* The bound of the store.                                                 *)

AllActive == \A p \in Loaded : docs[p].count > 0

GrowthAllowed ==
  Cardinality(Loaded') > Cardinality(Loaded) /\ Cardinality(Loaded) >= MaxDocs => AllActive

LEMMA LoadedFinite ==
  /\ IsFiniteSet(Loaded) /\ Cardinality(Loaded) \in Nat
  /\ IsFiniteSet(Loaded') /\ Cardinality(Loaded') \in Nat
<1>1. Loaded \subseteq Pages /\ Loaded' \subseteq Pages
  BY DEF Loaded
<1>2. IsFiniteSet(Loaded) /\ IsFiniteSet(Loaded')
  BY <1>1, SetsAssumption, FS_Subset
<1>. QED BY <1>2, FS_CardinalityType

\* A step that loads no page, and one that puts a page in the place of another.
LEMMA NothingLoaded ==
  ASSUME Loaded' \subseteq Loaded PROVE GrowthAllowed
<1>1. Cardinality(Loaded') <= Cardinality(Loaded)
  BY LoadedFinite, FS_Subset
<1>. QED BY <1>1, LoadedFinite DEF GrowthAllowed

LEMMA OneReplaced ==
  ASSUME NEW q \in Loaded, NEW p, Loaded' \subseteq (Loaded \ {q}) \cup {p}
  PROVE  GrowthAllowed
<1>. DEFINE S == Loaded \ {q}
            T == S \cup {p}
<1>1. IsFiniteSet(S) /\ Cardinality(S) = Cardinality(Loaded) - 1
  BY LoadedFinite, FS_RemoveElement
<1>2. IsFiniteSet(T) /\ Cardinality(T) = IF p \in S THEN Cardinality(S) ELSE Cardinality(S) + 1
  BY <1>1, FS_AddElement
<1>3. Cardinality(Loaded') <= Cardinality(T)
  BY <1>2, FS_Subset
<1>4. Cardinality(S) \in Nat /\ Cardinality(T) \in Nat
  BY <1>1, <1>2, FS_CardinalityType
<1>. HIDE DEF S, T
<1>5. Cardinality(Loaded') <= Cardinality(Loaded)
  BY <1>1, <1>2, <1>3, <1>4, LoadedFinite
<1>. QED BY <1>5, LoadedFinite DEF GrowthAllowed

LEMMA LoadOrGetGrowth ==
  ASSUME TypeOK, NEW p \in Pages, NEW e, LoadOrGet(p, e)
  PROVE  GrowthAllowed
<1>1. docs \in [Pages -> Entry] /\ \A q \in Pages : docs[q].count \in Nat
  BY EntryFields DEF TypeOK
<1>2. CASE Victims = {}
  <2>1. CASE Cardinality(Loaded) < MaxDocs
    BY <2>1, LoadedFinite, BoundsAssumption DEF GrowthAllowed
  <2>2. CASE ~(Cardinality(Loaded) < MaxDocs)
    <3>1. \A q \in Loaded : docs[q].count # 0
      BY <1>2, <2>2 DEF Victims
    <3>2. AllActive
      BY <1>1, <3>1 DEF AllActive, Loaded
    <3>. QED BY <3>2 DEF GrowthAllowed
  <2>. QED BY <2>1, <2>2
<1>3. ASSUME NEW q \in Victims, docs' = [docs EXCEPT ![q] = Unloaded, ![p] = e]
      PROVE  GrowthAllowed
  <2>1. q \in Loaded /\ q \in Pages
    BY <1>3 DEF Victims, Loaded
  <2>2. Loaded' \subseteq (Loaded \ {q}) \cup {p}
    BY <1>1, <1>3, <2>1 DEF Loaded, Unloaded
  <2>. QED BY <2>1, <2>2, OneReplaced
<1>. QED BY <1>2, <1>3 DEF LoadOrGet

LEMMA UpdateLoads ==
  ASSUME TypeOK, NEW p \in Pages, NEW e, Updated(p, e)
  PROVE  Loaded' \subseteq Loaded
  BY UpdatedOthers DEF TypeOK, Loaded

LEMMA GrowthStep ==
  ASSUME TypeOK, [Next]_vars PROVE GrowthAllowed
<1>. USE DEF inputs
<1>1. /\ docs \in [Pages -> Entry] /\ conn \in [Conns -> ConnState]
      /\ \A c \in Conns : conn[c].pc # "off" => conn[c].page \in Pages
      /\ task.pc \in JobPcs => task.page \in Pages
  BY DEF TypeOK
<1>2. CASE docs' = docs
  BY <1>2, NothingLoaded DEF Loaded
<1>3. ASSUME NEW c \in Conns, NEW p \in Pages, Load(c, p) \/ LoadFails(c, p)
      PROVE  GrowthAllowed
  BY <1>2, <1>3, LoadOrGetGrowth DEF Load, LoadFails, EvictLruFails
<1>4. ASSUME NEW p \in Pages, RecoverReplay(p) \/ RecoverPartly(p) \/ RecoverSkip(p)
      PROVE  GrowthAllowed
  BY <1>2, <1>4, LoadOrGetGrowth
  DEF RecoverReplay, RecoverPartly, RecoverSkip, EvictLruFails
<1>5. ASSUME NEW c \in Conns,
             \/ Connect(c) \/ Disconnect(c) \/ ApplyOps(c) \/ RecordEdit(c)
             \/ \E b \in Bodies : ApplySync(c, b)
      PROVE  GrowthAllowed
  <2>1. conn[c].page \in Pages /\ \E e : Updated(conn[c].page, e)
    BY <1>1, <1>5 DEF Connect, Disconnect, ApplyOps, RecordEdit, ApplySync
  <2>. QED BY <2>1, UpdateLoads, NothingLoaded
<1>6. CASE FlushWriteFails \/ FlushMark
  <2>1. task.page \in Pages /\ \E e : Updated(task.page, e)
    BY <1>1, <1>6 DEF FlushWriteFails, FlushMark, At, JobPcs
  <2>. QED BY <2>1, UpdateLoads, NothingLoaded
<1>7. CASE FlushCommit
  <2>1. task.page \in Pages /\ docs' = [docs EXCEPT ![task.page].contrib = {}]
    BY <1>1, <1>7 DEF FlushCommit, At, JobPcs
  <2>2. \A q \in Pages : docs'[q].in = docs[q].in
    BY <1>1, <2>1 DEF Entry
  <2>. QED BY <2>2, NothingLoaded DEF Loaded
<1>8. ASSUME NEW p \in Pages, Evict(p) PROVE GrowthAllowed
  <2>1. Loaded' \subseteq Loaded
    BY <1>1, <1>8 DEF Evict, Loaded, Unloaded
  <2>. QED BY <2>1, NothingLoaded
<1>9. CASE Crash \/ TornCrash
  <2>1. Loaded' = {}
    <3>1. \A p \in Pages : ~docs'[p].in
      <4>1. Stop
        BY <1>9 DEF Crash, TornCrash
      <4>. QED BY <4>1 DEF Stop, Unloaded
    <3>. QED BY <3>1 DEF Loaded
  <2>. QED BY <2>1, NothingLoaded
<1>10. \/ docs' = docs
       \/ \E c \in Conns, p \in Pages : Load(c, p) \/ LoadFails(c, p)
       \/ \E p \in Pages : RecoverReplay(p) \/ RecoverPartly(p) \/ RecoverSkip(p)
       \/ \E c \in Conns :
            \/ Connect(c) \/ Disconnect(c) \/ ApplyOps(c) \/ RecordEdit(c)
            \/ \E b \in Bodies : ApplySync(c, b)
       \/ FlushWriteFails \/ FlushMark \/ FlushCommit
       \/ \E p \in Pages : Evict(p)
       \/ Crash \/ TornCrash
  BY DEF Next, CoreNext, Handler, Client, LogOp, LogOpFails, Flush, FlushFails, Eviction,
         Recovery, FlushSerialize, FlushWrite, FlushTruncate, FlushReindexFails, EvictScan,
         EvictWrite, EvictTruncate, EvictWriteFails, RecoverDiscard, Serve,
         TruncateFails, vars
<1>. QED BY <1>2, <1>3, <1>4, <1>5, <1>6, <1>7, <1>8, <1>9, <1>10

\* However loads, evictions and replays follow each other, the store grows
\* over MaxDocs only by a page that finds every loaded document with a client:
\* evict_lru never leaves a document without one behind.
THEOREM StoreGrowsOnlyWhenBusy == Spec => GrowsOnlyWhenAllActive
<1>1. TypeOK /\ [Next]_vars =>
        [Cardinality(Loaded') > Cardinality(Loaded) /\ Cardinality(Loaded) >= MaxDocs
           => \A p \in Loaded : docs[p].count > 0]_vars
  BY GrowthStep DEF GrowthAllowed, AllActive
<1>. QED BY <1>1, TypeCorrect, PTL DEF Spec, GrowsOnlyWhenAllActive
=============================================================================
