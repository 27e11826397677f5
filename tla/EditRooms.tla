----------------------------- MODULE EditRooms -----------------------------
(***************************************************************************)
(* The editing room of one page (web/ws.rs): connections join it, take the *)
(* document as it is, and then receive what the others write, through a    *)
(* broadcast channel that drops the oldest messages of a slow receiver.    *)
(* The hub keeps the room, removes it when nobody receives in it, and      *)
(* makes a new one for the next connection.  The watcher merges edits of   *)
(* other programs into the document and announces them in the room.        *)
(*                                                                         *)
(* The document is the set of ops applied to it: what an op does to the    *)
(* text, the log and the files are in CrdtDocStore.  Left out: presence,   *)
(* and pushes of a whole document, which no client of the repository sends.*)
(***************************************************************************)
EXTENDS Naturals, Sequences, Functions

CONSTANTS
  Conns,     \* connections to the page
  Users,     \* users; those of a server without accounts are all the same
  User,      \* the user of a connection
  Ops,       \* messages with operations, and merges of external edits
  MaxRooms,  \* bound on the rooms made for the page
  RingCap,   \* capacity of the broadcast channel (256 in the code)
  OutCap,    \* capacity of the outbound channel (64), and the message in hand
  Disk, Nobody

ASSUME RoomsAssumption ==
  /\ User \in [Conns -> Users]
  /\ MaxRooms \in Nat /\ RingCap \in Nat \ {0} /\ OutCap \in Nat \ {0}
  /\ Disk \notin Conns /\ Nobody \notin Conns /\ Disk # Nobody

VARIABLES
  hub,     \* the room that WsHub has for the page
  rooms,   \* number of rooms made so far
  doc,     \* the ops applied to the document
  by,      \* the connection that sent an op, or the disk
  pc,      \* where the handler of a connection is
  room,    \* the room that the handler holds
  op,      \* the op that the handler has applied, and not yet broadcast
  sub,     \* the room in which the connection has a receiver
  ring,    \* what the receiver has not read
  missed,  \* the ring dropped something, and the receiver does not know
  out,     \* outbound messages
  snap,    \* the document that the client got first
  seen,    \* the ops, or the warning, that it received
  merge,   \* the watcher's reconciliation of the page
  stray,   \* history: ops broadcast in a room that is not the hub's
  late     \* history: connections whose room was removed before they subscribed

roomVars == <<hub, rooms>>
connVars == <<pc, room, op>>
rxVars   == <<sub, ring, missed>>
cliVars  == <<out, snap, seen>>
editVars == <<roomVars, doc, by, connVars, rxVars, cliVars, merge, stray, late>>

NoRoom == 0
Rooms  == 1..MaxRooms
Lag    == "lagged"
NoOp   == "no op"

ASSUME MarksAssumption == Lag \notin Ops /\ NoOp \notin Ops

Pcs == {"closed", "loaded", "entering", "subscribed", "syncing", "open", "applied",
        "leaving"}

\* A connection that has the document and receives what follows.
Live(c) == pc[c] \in {"syncing", "open", "applied"}

EditTypeOK ==
  /\ hub \in 0..rooms /\ rooms \in 0..MaxRooms
  /\ doc \in SUBSET Ops /\ stray \in SUBSET Ops /\ late \in SUBSET Conns
  /\ by \in [Ops -> Conns \cup {Disk, Nobody}]
  /\ pc \in [Conns -> Pcs]
  /\ room \in [Conns -> 0..rooms] /\ sub \in [Conns -> 0..rooms]
  /\ op \in [Conns -> Ops \cup {NoOp}]
  /\ ring \in [Conns -> Seq(Ops)]
  /\ missed \in [Conns -> BOOLEAN]
  /\ out \in [Conns -> Seq(Ops \cup {Lag})]
  /\ snap \in [Conns -> SUBSET Ops] /\ seen \in [Conns -> SUBSET (Ops \cup {Lag})]
  /\ merge \in [op : Ops \cup {NoOp}, room : 0..rooms]
  /\ \A c \in Conns : Len(ring[c]) <= RingCap /\ Len(out[c]) <= OutCap

EditInit ==
  /\ hub = NoRoom /\ rooms = 0
  /\ doc = {} /\ by = [o \in Ops |-> Nobody]
  /\ pc = [c \in Conns |-> "closed"]
  /\ room = [c \in Conns |-> NoRoom] /\ sub = [c \in Conns |-> NoRoom]
  /\ op = [c \in Conns |-> NoOp]
  /\ ring = [c \in Conns |-> <<>>] /\ missed = [c \in Conns |-> FALSE]
  /\ out = [c \in Conns |-> <<>>]
  /\ snap = [c \in Conns |-> {}] /\ seen = [c \in Conns |-> {}]
  /\ merge = [op |-> NoOp, room |-> NoRoom]
  /\ stray = {} /\ late = {}

Goto(c, l) == pc' = [pc EXCEPT ![c] = l]

-----------------------------------------------------------------------------
(* The hub. *)

Receivers(r) == {c \in Conns : sub[c] = r}

\* WsHub::room: the room of the page, or a new one.
Room(r) ==
  IF hub # NoRoom
  THEN r = hub /\ UNCHANGED roomVars
  ELSE rooms < MaxRooms /\ rooms' = rooms + 1 /\ r = rooms' /\ hub' = r

\* The hub forgets the room, and those who are about to subscribe do not know.
Forget ==
  /\ hub' = NoRoom /\ UNCHANGED rooms
  /\ late' = late \cup {c \in Conns : pc[c] = "entering" /\ room[c] = hub}

\* Broken variant: whoever leaves takes the room along.
RemoveAnyway == IF hub # NoRoom THEN Forget ELSE UNCHANGED <<roomVars, late>>

\* WsHub::remove_if_empty.
RemoveIfEmpty ==
  IF hub # NoRoom /\ Receivers(hub) = {} THEN Forget ELSE UNCHANGED <<roomVars, late>>

\* At the limit of rooms, a connection to another page drops the empty ones.
EvictRoom ==
  /\ hub # NoRoom /\ Receivers(hub) = {}
  /\ Forget
  /\ UNCHANGED <<doc, by, connVars, rxVars, cliVars, merge, stray>>

\* Broken variant: a slow receiver holds on to everything.
PublishUnbounded(r, o) ==
  /\ ring' = [c \in Conns |-> IF sub[c] = r THEN Append(ring[c], o) ELSE ring[c]]
  /\ UNCHANGED missed

\* broadcast::Sender::send: every receiver of the room gets the message, and one
\* whose ring is full loses its oldest.
Publish(r, o) ==
  /\ ring' = [c \in Conns |->
       IF sub[c] # r THEN ring[c]
       ELSE IF Len(ring[c]) < RingCap THEN Append(ring[c], o)
       ELSE Append(Tail(ring[c]), o)]
  /\ missed' = [c \in Conns |-> missed[c] \/ (sub[c] = r /\ Len(ring[c]) >= RingCap)]

-----------------------------------------------------------------------------
(* handle_socket: a connection joins, and leaves. *)

\* The document is loaded, and the connection counted.
Connect(c) ==
  /\ pc[c] = "closed" /\ sub[c] = NoRoom
  /\ Goto(c, "loaded")
  /\ UNCHANGED <<roomVars, doc, by, room, op, rxVars, cliVars, merge, stray, late>>

EnterRoom(c) ==
  /\ pc[c] = "loaded" /\ Goto(c, "entering")
  /\ \E r \in Rooms : Room(r) /\ room' = [room EXCEPT ![c] = r]
  /\ UNCHANGED <<doc, by, op, rxVars, cliVars, merge, stray, late>>

Subscribe(c) ==
  /\ pc[c] = "entering" /\ Goto(c, "subscribed")
  /\ sub' = [sub EXCEPT ![c] = room[c]]
  /\ UNCHANGED <<roomVars, doc, by, room, op, ring, missed, cliVars, merge, stray, late>>

\* Broken variant: the copy of the room is sent, which nobody has filled.
SnapshotOfRoom(c) ==
  /\ pc[c] = "subscribed" /\ Goto(c, "syncing")
  /\ UNCHANGED <<roomVars, doc, by, room, op, rxVars, cliVars, merge, stray, late>>

Snapshot(c) ==
  /\ pc[c] = "subscribed" /\ Goto(c, "syncing")
  /\ snap' = [snap EXCEPT ![c] = doc]
  /\ UNCHANGED <<roomVars, doc, by, room, op, rxVars, out, seen, merge, stray, late>>

SyncSent(c) ==
  /\ pc[c] = "syncing" /\ Goto(c, "open")
  /\ UNCHANGED <<roomVars, doc, by, room, op, rxVars, cliVars, merge, stray, late>>

Unsubscribe(c) ==
  /\ sub' = [sub EXCEPT ![c] = NoRoom] /\ ring' = [ring EXCEPT ![c] = <<>>]
  /\ missed' = [missed EXCEPT ![c] = FALSE] /\ late' = late \ {c}

\* The client is gone, with what it had and what was to be sent to it.
Forgotten(c) ==
  /\ out' = [out EXCEPT ![c] = <<>>]
  /\ snap' = [snap EXCEPT ![c] = {}] /\ seen' = [seen EXCEPT ![c] = {}]

\* The receiver goes; the room is not looked at.
SyncFails(c) ==
  /\ pc[c] = "syncing" /\ Goto(c, "closed")
  /\ Unsubscribe(c) /\ Forgotten(c)
  /\ room' = [room EXCEPT ![c] = NoRoom]
  /\ UNCHANGED <<roomVars, doc, by, op, merge, stray>>

\* The client closes, or a message cannot be sent; the relay is aborted.
Leave(c) ==
  /\ pc[c] = "open" /\ Goto(c, "leaving")
  /\ Forgotten(c)
  /\ UNCHANGED <<roomVars, doc, by, room, op, rxVars, merge, stray, late>>

\* An aborted task ends when the runtime gets to it, and drops its receiver.
RelayDropped(c) ==
  /\ pc[c] \in {"leaving", "closed"} /\ sub[c] # NoRoom
  /\ Unsubscribe(c)
  /\ UNCHANGED <<roomVars, doc, by, connVars, cliVars, merge, stray>>

Close(c) ==
  /\ pc[c] = "leaving" /\ Goto(c, "closed")
  /\ RemoveIfEmpty
  /\ room' = [room EXCEPT ![c] = NoRoom]
  /\ UNCHANGED <<doc, by, op, rxVars, cliVars, merge, stray>>

-----------------------------------------------------------------------------
(* process_client_msg: a client sends operations.  A message over the limit  *)
(* of 100 in a second, or one that cannot be parsed, changes nothing.        *)

Fresh(o) == by[o] = Nobody

\* Applied to the document and recorded, or refused by it; broadcast anyway.
Apply(c, o) ==
  /\ pc[c] = "open" /\ Fresh(o) /\ Goto(c, "applied")
  /\ by' = [by EXCEPT ![o] = c]
  /\ op' = [op EXCEPT ![c] = o]
  /\ doc' \in {doc, doc \cup {o}}
  /\ UNCHANGED <<roomVars, room, rxVars, cliVars, merge, stray, late>>

Broadcast(c) ==
  /\ pc[c] = "applied" /\ Goto(c, "open")
  /\ Publish(room[c], op[c])
  /\ stray' = IF room[c] = hub THEN stray ELSE stray \cup {op[c]}
  /\ op' = [op EXCEPT ![c] = NoOp]
  /\ UNCHANGED <<roomVars, doc, by, room, sub, cliVars, merge, late>>

-----------------------------------------------------------------------------
(* The relay task and the outbound channel. *)

Relaying(c) == pc[c] \in {"open", "applied"} /\ sub[c] # NoRoom

Own(c, o) == by[o] \in Conns /\ User[by[o]] = User[c]

Relay(c) ==
  /\ Relaying(c) /\ ~missed[c] /\ ring[c] # <<>>
  /\ Len(out[c]) < OutCap
  /\ ring' = [ring EXCEPT ![c] = Tail(@)]
  /\ out' = IF Own(c, Head(ring[c])) THEN out
            ELSE [out EXCEPT ![c] = Append(@, Head(ring[c]))]
  /\ UNCHANGED <<roomVars, doc, by, connVars, sub, missed, snap, seen, merge, stray, late>>

\* Broken variant: the relay goes on without a word.
RelayOn(c) ==
  /\ Relaying(c) /\ missed[c]
  /\ Len(out[c]) < OutCap
  /\ missed' = [missed EXCEPT ![c] = FALSE]
  /\ UNCHANGED <<roomVars, doc, by, connVars, sub, ring, cliVars, merge, stray, late>>

\* "lagged by n messages; some edits may be missing".
RelayLagged(c) ==
  /\ Relaying(c) /\ missed[c]
  /\ Len(out[c]) < OutCap
  /\ missed' = [missed EXCEPT ![c] = FALSE]
  /\ out' = [out EXCEPT ![c] = Append(@, Lag)]
  /\ UNCHANGED <<roomVars, doc, by, connVars, sub, ring, snap, seen, merge, stray, late>>

Deliver(c) ==
  /\ pc[c] = "open" /\ out[c] # <<>>
  /\ out' = [out EXCEPT ![c] = Tail(@)]
  /\ seen' = [seen EXCEPT ![c] = @ \cup {Head(out[c])}]
  /\ UNCHANGED <<roomVars, doc, by, connVars, rxVars, snap, merge, stray, late>>

-----------------------------------------------------------------------------
(* reconcile_external_edits: the watcher merges, finds the room, announces. *)

Merge(o) ==
  /\ merge.op = NoOp /\ Fresh(o)
  /\ by' = [by EXCEPT ![o] = Disk]
  /\ doc' = doc \cup {o}
  /\ merge' = [merge EXCEPT !.op = o]
  /\ UNCHANGED <<roomVars, connVars, rxVars, cliVars, stray, late>>

MergeRoom ==
  /\ merge.op # NoOp /\ merge.room = NoRoom
  /\ \E r \in Rooms : Room(r) /\ merge' = [merge EXCEPT !.room = r]
  /\ UNCHANGED <<doc, by, connVars, rxVars, cliVars, stray, late>>

MergeSend ==
  /\ merge.op # NoOp /\ merge.room # NoRoom
  /\ Publish(merge.room, merge.op)
  /\ merge' = [op |-> NoOp, room |-> NoRoom]
  /\ UNCHANGED <<roomVars, doc, by, connVars, sub, cliVars, stray, late>>

-----------------------------------------------------------------------------
\* What a client or a program outside the server chooses to do.
Outside(c) == Connect(c) \/ Leave(c) \/ \E o \in Ops : Apply(c, o)

Handler(c) ==
  \/ EnterRoom(c) \/ Subscribe(c) \/ Snapshot(c) \/ SyncSent(c) \/ SyncFails(c)
  \/ Broadcast(c) \/ Close(c)

RelayTask(c) == Relay(c) \/ RelayLagged(c) \/ RelayDropped(c)

Watcher == MergeRoom \/ MergeSend

EditNext ==
  \/ \E c \in Conns : Outside(c) \/ Handler(c) \/ RelayTask(c) \/ Deliver(c)
  \/ (\E o \in Ops : Merge(o)) \/ Watcher \/ EvictRoom

EditSpec == EditInit /\ [][EditNext]_editVars

\* The runtime polls every task; a client that stays reads what it is sent.
EditLiveSpec ==
  /\ EditSpec
  /\ \A c \in Conns :
       WF_editVars(Handler(c)) /\ WF_editVars(RelayTask(c)) /\ WF_editVars(Deliver(c))
  /\ WF_editVars(Watcher)

-----------------------------------------------------------------------------
(* Properties. *)

\* Whoever receives does so in the room of the hub, where the next one to join
\* will be; only a connection that was late may be elsewhere.
OneRoom == \A c \in Conns : sub[c] \in {NoRoom, hub} \/ c \in late

Has(c, o) == o \in snap[c] \cup seen[c]

OnTheWay(c, o) ==
  \/ o \in Range(ring[c]) \cup Range(out[c])
  \/ \E d \in Conns : pc[d] = "applied" /\ op[d] = o
  \/ merge.op = o

\* The ring dropped something that this client has not got.
Lost(c) == missed[c] \/ Lag \in Range(out[c]) \cup seen[c]

\* Subscribing before the document is taken, and taking it after: whatever was
\* applied to the document is in the client's first copy, or was received, or is
\* on its way, unless the ring dropped something, or one of the two had entered
\* a room that was removed before it subscribed to it.
NothingUnseen ==
  \A c \in Conns, o \in doc \ stray :
    Live(c) /\ c \notin late /\ ~Lost(c) /\ ~Own(c, o)
      => Has(c, o) \/ OnTheWay(c, o)

\* What was applied reaches every member, or the member is told that some edits
\* may be missing.
OpReaches(c, o) ==
  (o \in doc /\ Live(c) /\ c \notin late /\ ~Own(c, o))
    ~> (Has(c, o) \/ Lag \in seen[c] \/ ~Live(c) \/ o \in stray)
=============================================================================
