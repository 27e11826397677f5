---------------------------- MODULE RoomsProofs ----------------------------
(* Theorems about EditRooms, for every value of its constants. *)
EXTENDS EditRooms, TLAPS

USE RoomsAssumption, MarksAssumption

-----------------------------------------------------------------------------
(* What a queue holds. *)

LEMMA AppendHolds ==
  ASSUME NEW S, NEW s \in Seq(S), NEW x \in S
  PROVE  /\ Append(s, x) \in Seq(S) /\ Len(Append(s, x)) = Len(s) + 1
         /\ Range(Append(s, x)) = Range(s) \cup {x}
<1>1. /\ Append(s, x) \in Seq(S) /\ Len(Append(s, x)) = Len(s) + 1
      /\ \A i \in 1..Len(s) : Append(s, x)[i] = s[i]
      /\ Append(s, x)[Len(s) + 1] = x
  OBVIOUS
<1>2. /\ DOMAIN Append(s, x) = 1..(Len(s) + 1) /\ DOMAIN s = 1..Len(s)
      /\ Len(s) \in Nat
  BY <1>1
<1>. QED BY <1>1, <1>2 DEF Range

LEMMA TailHolds ==
  ASSUME NEW S, NEW s \in Seq(S), s # <<>>
  PROVE  /\ Tail(s) \in Seq(S) /\ Len(Tail(s)) = Len(s) - 1 /\ Len(s) \in Nat \ {0}
         /\ Head(s) \in S
         /\ Range(s) = {Head(s)} \cup Range(Tail(s))
<1>1. /\ Tail(s) \in Seq(S) /\ Len(Tail(s)) = Len(s) - 1 /\ Len(s) \in Nat \ {0}
      /\ Head(s) \in S /\ Head(s) = s[1]
      /\ \A i \in 1..Len(Tail(s)) : Tail(s)[i] = s[i + 1]
  OBVIOUS
<1>2. DOMAIN Tail(s) = 1..(Len(s) - 1) /\ DOMAIN s = 1..Len(s)
  BY <1>1
<1>3. ASSUME NEW i \in 1..Len(s), i # 1 PROVE s[i] \in Range(Tail(s))
  <2>1. i - 1 \in 1..(Len(s) - 1) /\ Tail(s)[i - 1] = s[i]
    BY <1>1, <1>3
  <2>. QED BY <2>1, <1>2 DEF Range
<1>4. Range(s) \subseteq {Head(s)} \cup Range(Tail(s))
  BY <1>1, <1>2, <1>3 DEF Range
<1>5. Range(Tail(s)) \subseteq Range(s) /\ Head(s) \in Range(s)
  BY <1>1, <1>2 DEF Range
<1>. QED BY <1>1, <1>4, <1>5

-----------------------------------------------------------------------------
(* Types. *)

\* The room that a handler holds, and that its receiver is in.
Placed ==
  \A c \in Conns :
    /\ pc[c] = "applied" => op[c] \in Ops
    /\ pc[c] = "entering" => room[c] # NoRoom
    /\ pc[c] \in {"subscribed", "syncing", "open", "applied"}
         => sub[c] = room[c] /\ room[c] # NoRoom

TypeInv == EditTypeOK /\ Placed

LEMMA TypeInit == EditInit => TypeInv
  BY DEF EditInit, TypeInv, EditTypeOK, Placed, NoRoom, Pcs

LEMMA RoomType ==
  ASSUME TypeInv, NEW r \in Rooms, Room(r)
  PROVE  /\ hub' \in 0..rooms' /\ rooms' \in 0..MaxRooms /\ r \in 0..rooms'
         /\ r # NoRoom /\ 0..rooms \subseteq 0..rooms' /\ r = hub'
  BY DEF TypeInv, EditTypeOK, Room, Rooms, NoRoom, roomVars

LEMMA PublishType ==
  ASSUME TypeInv, NEW r, NEW o \in Ops, Publish(r, o)
  PROVE  /\ ring' \in [Conns -> Seq(Ops)] /\ missed' \in [Conns -> BOOLEAN]
         /\ \A c \in Conns : Len(ring'[c]) <= RingCap
<1>1. ASSUME NEW c \in Conns
      PROVE  ring'[c] \in Seq(Ops) /\ Len(ring'[c]) <= RingCap
  <2>1. ring[c] \in Seq(Ops) /\ Len(ring[c]) <= RingCap /\ Len(ring[c]) \in Nat
    BY DEF TypeInv, EditTypeOK
  <2>2. CASE sub[c] # r
    BY <2>1, <2>2 DEF Publish
  <2>3. CASE sub[c] = r /\ Len(ring[c]) < RingCap
    BY <2>1, <2>3, AppendHolds DEF Publish
  <2>4. CASE sub[c] = r /\ ~(Len(ring[c]) < RingCap)
    <3>1. ring[c] # <<>>
      BY <2>1, <2>4
    <3>2. Tail(ring[c]) \in Seq(Ops) /\ Len(Tail(ring[c])) = Len(ring[c]) - 1
      BY <2>1, <3>1, TailHolds
    <3>3. /\ Append(Tail(ring[c]), o) \in Seq(Ops)
          /\ Len(Append(Tail(ring[c]), o)) = Len(ring[c]) - 1 + 1
      BY <3>2, AppendHolds
    <3>4. ring'[c] = Append(Tail(ring[c]), o)
      BY <2>4 DEF Publish
    <3>. QED BY <2>1, <3>3, <3>4
  <2>. QED BY <2>2, <2>3, <2>4
<1>. QED BY <1>1 DEF Publish, TypeInv, EditTypeOK

LEMMA TypeNext == TypeInv /\ [EditNext]_editVars => TypeInv'
<1>. SUFFICES ASSUME TypeInv, [EditNext]_editVars PROVE TypeInv'
  OBVIOUS
<1>. USE DEF TypeInv, EditTypeOK, Placed, roomVars, connVars, rxVars, cliVars, Goto, Pcs,
             NoRoom
<1>1. ASSUME NEW c \in Conns, Outside(c) PROVE TypeInv'
  <2>1. CASE Connect(c) BY <2>1 DEF Connect
  <2>2. CASE Leave(c) BY <2>2 DEF Leave, Forgotten
  <2>3. ASSUME NEW o \in Ops, Apply(c, o) PROVE TypeInv'
    BY <2>3 DEF Apply
  <2>. QED BY <1>1, <2>1, <2>2, <2>3 DEF Outside
<1>2. ASSUME NEW c \in Conns, Handler(c) PROVE TypeInv'
  <2>1. CASE EnterRoom(c)
    <3>1. PICK r \in Rooms : Room(r) /\ room' = [room EXCEPT ![c] = r]
      BY <2>1 DEF EnterRoom
    <3>. QED BY <2>1, <3>1, RoomType DEF EnterRoom
  <2>2. CASE Subscribe(c) BY <2>2 DEF Subscribe
  <2>3. CASE Snapshot(c) BY <2>3 DEF Snapshot
  <2>4. CASE SyncSent(c) BY <2>4 DEF SyncSent
  <2>5. CASE SyncFails(c) BY <2>5 DEF SyncFails, Unsubscribe, Forgotten
  <2>6. CASE Broadcast(c) BY <2>6, PublishType DEF Broadcast
  <2>7. CASE Close(c) BY <2>7 DEF Close, RemoveIfEmpty, Forget
  <2>. QED BY <1>2, <2>1, <2>2, <2>3, <2>4, <2>5, <2>6, <2>7 DEF Handler
<1>3. ASSUME NEW c \in Conns, RelayTask(c) PROVE TypeInv'
  <2>r. ring[c] \in Seq(Ops) /\ out[c] \in Seq(Ops \cup {Lag})
    OBVIOUS
  <2>1. CASE Relay(c)
    <3>1. /\ Tail(ring[c]) \in Seq(Ops) /\ Len(Tail(ring[c])) = Len(ring[c]) - 1
          /\ Len(ring[c]) \in Nat /\ Head(ring[c]) \in Ops \cup {Lag}
      BY <2>1, <2>r, TailHolds DEF Relay
    <3>2. /\ Append(out[c], Head(ring[c])) \in Seq(Ops \cup {Lag})
          /\ Len(Append(out[c], Head(ring[c]))) = Len(out[c]) + 1
      BY <2>r, <3>1, AppendHolds
    <3>3. Len(out[c]) \in Nat
      BY <2>r
    <3>. QED BY <2>1, <3>1, <3>2, <3>3 DEF Relay
  <2>2. CASE RelayLagged(c)
    <3>1. /\ Append(out[c], Lag) \in Seq(Ops \cup {Lag})
          /\ Len(Append(out[c], Lag)) = Len(out[c]) + 1 /\ Len(out[c]) \in Nat
      BY <2>r, AppendHolds
    <3>. QED BY <2>2, <3>1 DEF RelayLagged
  <2>3. CASE RelayDropped(c) BY <2>3 DEF RelayDropped, Unsubscribe
  <2>. QED BY <1>3, <2>1, <2>2, <2>3 DEF RelayTask
<1>4. ASSUME NEW c \in Conns, Deliver(c) PROVE TypeInv'
  <2>1. /\ Tail(out[c]) \in Seq(Ops \cup {Lag}) /\ Len(Tail(out[c])) = Len(out[c]) - 1
        /\ Len(out[c]) \in Nat /\ Head(out[c]) \in Ops \cup {Lag}
    BY <1>4, TailHolds DEF Deliver
  <2>. QED BY <1>4, <2>1 DEF Deliver
<1>5. ASSUME NEW o \in Ops, Merge(o) PROVE TypeInv'
  BY <1>5 DEF Merge
<1>6. CASE Watcher
  <2>1. CASE MergeRoom
    <3>1. PICK r \in Rooms : Room(r) /\ merge' = [merge EXCEPT !.room = r]
      BY <2>1 DEF MergeRoom
    <3>. QED BY <2>1, <3>1, RoomType DEF MergeRoom
  <2>2. CASE MergeSend
    <3>1. merge.op \in Ops
      BY <2>2 DEF MergeSend
    <3>. QED BY <2>2, <3>1, PublishType DEF MergeSend
  <2>. QED BY <1>6, <2>1, <2>2 DEF Watcher
<1>7. CASE EvictRoom BY <1>7 DEF EvictRoom, Forget
<1>8. CASE UNCHANGED editVars BY <1>8 DEF editVars
<1>. QED BY <1>1, <1>2, <1>3, <1>4, <1>5, <1>6, <1>7, <1>8 DEF EditNext

\* Every state has its type: no ring and no outbound channel holds more than it
\* has room for.
THEOREM EditTypeCorrect == EditSpec => []EditTypeOK
<1>1. TypeInv => EditTypeOK
  BY DEF TypeInv
<1>. QED BY <1>1, TypeInit, TypeNext, PTL DEF EditSpec

-----------------------------------------------------------------------------
(* One room. *)

\* The hub drops a room before somebody subscribes to it only if that is noted.
RoomInv ==
  /\ OneRoom
  /\ \A c \in Conns : pc[c] = "entering" => room[c] = hub \/ c \in late

LEMMA RoomInvNext == TypeInv /\ RoomInv /\ [EditNext]_editVars => RoomInv'
<1>. SUFFICES ASSUME TypeInv, RoomInv, [EditNext]_editVars PROVE RoomInv'
  OBVIOUS
<1>. USE DEF TypeInv, EditTypeOK, Placed, RoomInv, OneRoom, roomVars, connVars, rxVars,
             cliVars, Goto
<1>f. ASSUME hub # NoRoom, Receivers(hub) = {}, Forget, UNCHANGED sub,
             UNCHANGED room \/ pc' # pc,
             \A d \in Conns : pc'[d] = "entering" => pc[d] = "entering" /\ room'[d] = room[d]
      PROVE  RoomInv'
  BY <1>f DEF Forget, Receivers
<1>1. ASSUME NEW c \in Conns, Outside(c) PROVE RoomInv'
  BY <1>1 DEF Outside, Connect, Leave, Apply
<1>2. ASSUME NEW c \in Conns, Handler(c) PROVE RoomInv'
  <2>1. CASE EnterRoom(c)
    <3>1. PICK r \in Rooms : Room(r) /\ room' = [room EXCEPT ![c] = r]
      BY <2>1 DEF EnterRoom
    <3>2. r = hub' /\ (hub' = hub \/ hub = NoRoom)
      BY <3>1 DEF Room
    <3>. QED BY <2>1, <3>1, <3>2 DEF EnterRoom
  <2>2. CASE Subscribe(c) BY <2>2 DEF Subscribe
  <2>3. CASE Snapshot(c) \/ SyncSent(c) BY <2>3 DEF Snapshot, SyncSent
  <2>4. CASE SyncFails(c) BY <2>4 DEF SyncFails, Unsubscribe
  <2>5. CASE Broadcast(c) BY <2>5 DEF Broadcast
  <2>6. CASE Close(c)
    <3>1. \A d \in Conns : pc'[d] = "entering" => pc[d] = "entering" /\ room'[d] = room[d]
      BY <2>6 DEF Close
    <3>2. CASE hub # NoRoom /\ Receivers(hub) = {}
      BY <2>6, <3>1, <3>2, <1>f DEF Close, RemoveIfEmpty
    <3>3. CASE ~(hub # NoRoom /\ Receivers(hub) = {})
      BY <2>6, <3>1, <3>3 DEF Close, RemoveIfEmpty
    <3>. QED BY <3>2, <3>3
  <2>. QED BY <1>2, <2>1, <2>2, <2>3, <2>4, <2>5, <2>6 DEF Handler
<1>3. ASSUME NEW c \in Conns, RelayTask(c) PROVE RoomInv'
  BY <1>3 DEF RelayTask, Relay, RelayLagged, RelayDropped, Unsubscribe
<1>4. ASSUME NEW c \in Conns, Deliver(c) PROVE RoomInv'
  BY <1>4 DEF Deliver
<1>5. ASSUME NEW o \in Ops, Merge(o) PROVE RoomInv'
  BY <1>5 DEF Merge
<1>6. CASE Watcher
  <2>1. CASE MergeRoom
    <3>1. hub' = hub \/ hub = NoRoom
      BY <2>1 DEF MergeRoom, Room
    <3>. QED BY <2>1, <3>1 DEF MergeRoom
  <2>2. CASE MergeSend BY <2>2 DEF MergeSend
  <2>. QED BY <1>6, <2>1, <2>2 DEF Watcher
<1>7. CASE EvictRoom BY <1>7, <1>f DEF EvictRoom
<1>8. CASE UNCHANGED editVars BY <1>8 DEF editVars
<1>. QED BY <1>1, <1>2, <1>3, <1>4, <1>5, <1>6, <1>7, <1>8 DEF EditNext

\* Whoever receives is in the room of the hub, or was late.
THEOREM MembersShareTheRoom == EditSpec => []OneRoom
<1>1. EditInit => RoomInv
  BY DEF EditInit, RoomInv, OneRoom
<1>2. RoomInv => OneRoom
  BY DEF RoomInv
<1>. QED BY <1>1, <1>2, TypeInit, TypeNext, RoomInvNext, PTL DEF EditSpec

-----------------------------------------------------------------------------
(* What is on its way. *)

\* The merge that the watcher is about to announce: if the room it found is not
\* the hub's any more, nobody is left who joined before the merge.
MergeInv ==
  /\ merge.op # NoOp => merge.op \in doc
  /\ merge.room # NoRoom => merge.op # NoOp
  /\ merge.room \notin {NoRoom, hub} =>
       \A c \in Conns : Live(c) /\ c \notin late => merge.op \in snap[c]

LEMMA PublishHolds ==
  ASSUME TypeInv, NEW r, NEW o \in Ops, Publish(r, o), NEW c \in Conns, ~missed'[c]
  PROVE  /\ ~missed[c]
         /\ Range(ring'[c]) = IF sub[c] = r THEN Range(ring[c]) \cup {o}
                              ELSE Range(ring[c])
<1>1. ring[c] \in Seq(Ops)
  BY DEF TypeInv, EditTypeOK
<1>2. ~missed[c] /\ ~(sub[c] = r /\ Len(ring[c]) >= RingCap)
  BY DEF Publish, TypeInv, EditTypeOK
<1>3. CASE sub[c] = r
  <2>1. ring'[c] = Append(ring[c], o)
    BY <1>1, <1>2, <1>3 DEF Publish
  <2>. QED BY <1>1, <1>2, <1>3, <2>1, AppendHolds
<1>4. CASE sub[c] # r
  BY <1>2, <1>4 DEF Publish
<1>. QED BY <1>3, <1>4

\* A live connection that was not late is in the room of the hub, so that the
\* hub does not drop that room.
LEMMA LiveInHub ==
  ASSUME TypeInv, RoomInv, NEW c \in Conns, Live(c), c \notin late
  PROVE  sub[c] = hub /\ sub[c] = room[c] /\ Receivers(hub) # {} /\ hub # NoRoom
  BY DEF TypeInv, Placed, RoomInv, OneRoom, Live, Receivers, EditTypeOK

LEMMA MergeInvNext ==
  TypeInv /\ RoomInv /\ MergeInv /\ [EditNext]_editVars => MergeInv'
<1>. SUFFICES ASSUME TypeInv, RoomInv, MergeInv, [EditNext]_editVars PROVE MergeInv'
  OBVIOUS
<1>. USE DEF MergeInv, roomVars, connVars, rxVars, cliVars, Goto, Live
<1>t. /\ pc \in [Conns -> Pcs] /\ snap \in [Conns -> SUBSET Ops]
      /\ merge \in [op : Ops \cup {NoOp}, room : 0..rooms]
      /\ hub \in 0..rooms /\ rooms \in 0..MaxRooms /\ late \in SUBSET Conns
  BY DEF TypeInv, EditTypeOK
\* When the hub drops its room, nobody is live who was not late.
<1>f. ASSUME hub # NoRoom, Receivers(hub) = {}, Forget, UNCHANGED <<doc, merge>>,
             \A d \in Conns : Live(d)' => Live(d)
      PROVE  MergeInv'
  <2>1. late \subseteq late'
    BY <1>f DEF Forget
  <2>2. \A d \in Conns : Live(d) => d \in late
    BY <1>f, LiveInHub
  <2>. QED BY <1>f, <1>t, <2>1, <2>2
<1>1. ASSUME NEW c \in Conns, Outside(c) PROVE MergeInv'
  <2>1. CASE Connect(c) BY <1>t, <2>1 DEF Connect
  <2>2. CASE Leave(c) BY <1>t, <2>2 DEF Leave, Forgotten
  <2>3. ASSUME NEW o \in Ops, Apply(c, o) PROVE MergeInv'
    BY <1>t, <2>3 DEF Apply
  <2>. QED BY <1>1, <2>1, <2>2, <2>3 DEF Outside
<1>2. ASSUME NEW c \in Conns, Handler(c) PROVE MergeInv'
  <2>1. CASE EnterRoom(c)
    <3>1. hub' = hub \/ hub = NoRoom
      BY <2>1 DEF EnterRoom, Room
    <3>2. hub = NoRoom => \A d \in Conns : Live(d) => d \in late
      BY LiveInHub
    <3>. QED BY <1>t, <2>1, <3>1, <3>2 DEF EnterRoom
  <2>2. CASE Subscribe(c) BY <1>t, <2>2 DEF Subscribe
  <2>3. CASE Snapshot(c) BY <1>t, <2>3 DEF Snapshot, NoRoom
  <2>4. CASE SyncSent(c) BY <1>t, <2>4 DEF SyncSent
  <2>5. CASE SyncFails(c) BY <1>t, <2>5 DEF SyncFails, Unsubscribe, Forgotten
  <2>6. CASE Broadcast(c) BY <1>t, <2>6 DEF Broadcast
  <2>7. CASE Close(c)
    <3>1. UNCHANGED <<doc, merge, snap>> /\ \A d \in Conns : Live(d)' => Live(d)
      BY <1>t, <2>7 DEF Close
    <3>2. CASE hub # NoRoom /\ Receivers(hub) = {}
      BY <2>7, <3>1, <3>2, <1>f DEF Close, RemoveIfEmpty
    <3>3. CASE ~(hub # NoRoom /\ Receivers(hub) = {})
      BY <1>t, <2>7, <3>1, <3>3 DEF Close, RemoveIfEmpty
    <3>. QED BY <3>2, <3>3
  <2>. QED BY <1>2, <2>1, <2>2, <2>3, <2>4, <2>5, <2>6, <2>7 DEF Handler
<1>3. ASSUME NEW c \in Conns, RelayTask(c) PROVE MergeInv'
  <2>1. CASE Relay(c) \/ RelayLagged(c) BY <1>t, <2>1 DEF Relay, RelayLagged
  <2>2. CASE RelayDropped(c) BY <1>t, <2>2 DEF RelayDropped, Unsubscribe
  <2>. QED BY <1>3, <2>1, <2>2 DEF RelayTask
<1>4. ASSUME NEW c \in Conns, Deliver(c) PROVE MergeInv'
  BY <1>t, <1>4 DEF Deliver
<1>5. ASSUME NEW o \in Ops, Merge(o) PROVE MergeInv'
  BY <1>t, <1>5 DEF Merge, NoRoom
<1>6. CASE Watcher
  <2>1. CASE MergeRoom
    BY <1>t, <2>1 DEF MergeRoom, Room
  <2>2. CASE MergeSend
    BY <1>t, <2>2 DEF MergeSend
  <2>. QED BY <1>6, <2>1, <2>2 DEF Watcher
<1>7. CASE EvictRoom
  <2>1. \A d \in Conns : Live(d)' => Live(d)
    BY <1>7 DEF EvictRoom
  <2>. QED BY <1>7, <2>1, <1>f DEF EvictRoom
<1>8. CASE UNCHANGED editVars BY <1>8 DEF editVars
<1>. QED BY <1>1, <1>2, <1>3, <1>4, <1>5, <1>6, <1>7, <1>8 DEF EditNext

\* An op applied to the document is somewhere for each live connection, after any
\* step.  The goal has the parts of NothingUnseen for one connection and one op.
LEMMA UnseenNext ==
  ASSUME TypeInv, TypeInv', RoomInv, MergeInv, NothingUnseen, [EditNext]_editVars,
         NEW c \in Conns, NEW o \in Ops, o \in doc', o \notin stray',
         Live(c)', c \notin late', ~Lost(c)', ~Own(c, o)'
  PROVE  Has(c, o)' \/ OnTheWay(c, o)'
<1>. USE DEF roomVars, connVars, rxVars, cliVars, Goto
<1>t. /\ pc \in [Conns -> Pcs] /\ snap \in [Conns -> SUBSET Ops]
      /\ op \in [Conns -> Ops \cup {NoOp}]
      /\ seen \in [Conns -> SUBSET (Ops \cup {Lag})]
      /\ ring \in [Conns -> Seq(Ops)] /\ out \in [Conns -> Seq(Ops \cup {Lag})]
      /\ missed \in [Conns -> BOOLEAN] /\ sub \in [Conns -> 0..rooms]
      /\ by \in [Ops -> Conns \cup {Disk, Nobody}]
      /\ merge \in [op : Ops \cup {NoOp}, room : 0..rooms]
      /\ doc \in SUBSET Ops
  BY DEF TypeInv, EditTypeOK
<1>o. out[c] \in Seq(Ops \cup {Lag})
  BY <1>t
<1>b. ASSUME o \in doc, o \notin stray, Live(c), c \notin late, ~Lost(c), ~Own(c, o)
      PROVE  Has(c, o) \/ OnTheWay(c, o)
  BY <1>b DEF NothingUnseen
\* A step that takes nothing away from the connection c.
<1>k. ASSUME o \in doc, o \notin stray, Live(c), c \notin late, ~Lost(c), ~Own(c, o),
             Range(ring[c]) \subseteq Range(ring'[c]), Range(out[c]) \subseteq Range(out'[c]),
             snap[c] \subseteq snap'[c], seen[c] \subseteq seen'[c],
             \A d \in Conns : pc[d] = "applied" => pc'[d] = "applied" /\ op'[d] = op[d],
             merge.op # NoOp => merge'.op = merge.op
      PROVE  Has(c, o)' \/ OnTheWay(c, o)'
  <2>1. o # NoOp
    BY MarksAssumption
  <2>. QED BY <1>b, <1>k, <2>1 DEF Has, OnTheWay
<1>1. ASSUME NEW d \in Conns, Outside(d) PROVE Has(c, o)' \/ OnTheWay(c, o)'
  <2>1. CASE Connect(d)
    BY <1>t, <1>k, <2>1 DEF Connect, Live, Lost, Own
  <2>2. CASE Leave(d)
    BY <1>t, <1>k, <2>2 DEF Leave, Forgotten, Live, Lost, Own
  <2>3. ASSUME NEW p \in Ops, Apply(d, p) PROVE Has(c, o)' \/ OnTheWay(c, o)'
    <3>1. CASE p = o
      BY <1>t, <2>3, <3>1 DEF Apply, OnTheWay
    <3>2. CASE p # o
      BY <1>t, <1>k, <2>3, <3>2 DEF Apply, Live, Lost, Own
    <3>. QED BY <3>1, <3>2
  <2>. QED BY <1>1, <2>1, <2>2, <2>3 DEF Outside
<1>2. ASSUME NEW d \in Conns, Handler(d) PROVE Has(c, o)' \/ OnTheWay(c, o)'
  <2>1. CASE EnterRoom(d)
    BY <1>t, <1>k, <2>1 DEF EnterRoom, Live, Lost, Own
  <2>2. CASE Subscribe(d)
    BY <1>t, <1>k, <2>2 DEF Subscribe, Live, Lost, Own
  <2>3. CASE Snapshot(d)
    <3>1. CASE d = c
      BY <1>t, <2>3, <3>1 DEF Snapshot, Has
    <3>2. CASE d # c
      BY <1>t, <1>k, <2>3, <3>2 DEF Snapshot, Live, Lost, Own
    <3>. QED BY <3>1, <3>2
  <2>4. CASE SyncSent(d)
    BY <1>t, <1>k, <2>4 DEF SyncSent, Live, Lost, Own
  <2>5. CASE SyncFails(d)
    BY <1>t, <1>k, <2>5 DEF SyncFails, Unsubscribe, Forgotten, Live, Lost, Own
  <2>6. CASE Broadcast(d)
    <3>1. op[d] \in Ops /\ Publish(room[d], op[d]) /\ ~missed'[c]
      BY <2>6 DEF Broadcast, TypeInv, Placed, Lost
    <3>2. /\ ~missed[c]
          /\ Range(ring'[c]) = IF sub[c] = room[d] THEN Range(ring[c]) \cup {op[d]}
                               ELSE Range(ring[c])
      BY <3>1, PublishHolds
    <3>3. Live(c) /\ c \notin late
      BY <1>t, <2>6 DEF Broadcast, Live
    <3>4. sub[c] = hub
      BY <3>3, LiveInHub
    <3>5. CASE o = op[d]
      <4>1. room[d] = hub
        BY <2>6, <3>5 DEF Broadcast
      <4>. QED BY <3>2, <3>4, <3>5, <4>1 DEF OnTheWay
    <3>6. CASE o # op[d]
      <4>1. Has(c, o) \/ OnTheWay(c, o)
        BY <1>b, <1>t, <2>6, <3>2, <3>3 DEF Broadcast, Lost, Own
      <4>2. \A e \in Conns : pc[e] = "applied" /\ op[e] = o
                               => pc'[e] = "applied" /\ op'[e] = o
        BY <1>t, <2>6, <3>6 DEF Broadcast
      <4>3. Range(ring[c]) \subseteq Range(ring'[c])
        BY <3>2
      <4>. QED BY <2>6, <4>1, <4>2, <4>3 DEF Broadcast, Has, OnTheWay
    <3>. QED BY <3>5, <3>6
  <2>7. CASE Close(d)
    <3>1. late \subseteq late' /\ UNCHANGED <<doc, by, op, rxVars, cliVars, merge, stray>>
      BY <2>7 DEF Close, RemoveIfEmpty, Forget
    <3>2. \A e \in Conns : (Live(e)' => Live(e)) /\ (pc[e] = "applied" => pc'[e] = "applied")
      BY <1>t, <2>7 DEF Close, Live
    <3>. QED BY <1>t, <1>k, <3>1, <3>2 DEF Lost, Own
  <2>. QED BY <1>2, <2>1, <2>2, <2>3, <2>4, <2>5, <2>6, <2>7 DEF Handler
<1>3. ASSUME NEW d \in Conns, RelayTask(d) PROVE Has(c, o)' \/ OnTheWay(c, o)'
  <2>1. CASE Relay(d)
    <3>1. CASE d = c
      <4>1. /\ Range(ring[c]) = {Head(ring[c])} \cup Range(Tail(ring[c]))
            /\ Head(ring[c]) \in Ops \cup {Lag} /\ ring'[c] = Tail(ring[c])
        BY <1>t, <2>1, <3>1, TailHolds DEF Relay
      <4>2. Range(Append(out[c], Head(ring[c]))) = Range(out[c]) \cup {Head(ring[c])}
        BY <1>o, <4>1, AppendHolds
      <4>3. out'[c] = IF Own(c, Head(ring[c])) THEN out[c]
                      ELSE Append(out[c], Head(ring[c]))
        BY <1>t, <2>1, <3>1 DEF Relay
      <4>4. ~Own(c, o) /\ Live(c) /\ o \in doc /\ o \notin stray /\ c \notin late
        BY <2>1 DEF Relay, Own, Live
      <4>5. Range(out[c]) \subseteq Range(out'[c])
        BY <4>2, <4>3
      <4>6. ~Lost(c)
        BY <2>1, <4>5 DEF Relay, Lost
      <4>7. o \in Range(ring[c]) => o \in Range(ring'[c]) \cup Range(out'[c])
        BY <4>1, <4>2, <4>3, <4>4
      <4>. QED BY <1>b, <2>1, <4>4, <4>5, <4>6, <4>7 DEF Relay, Has, OnTheWay
    <3>2. CASE d # c
      BY <1>t, <1>k, <2>1, <3>2 DEF Relay, Live, Lost, Own
    <3>. QED BY <3>1, <3>2
  <2>2. CASE RelayLagged(d)
    <3>1. CASE d = c
      <4>1. Range(Append(out[c], Lag)) = Range(out[c]) \cup {Lag}
        BY <1>o, AppendHolds
      <4>. QED BY <1>t, <2>2, <3>1, <4>1 DEF RelayLagged, Lost
    <3>2. CASE d # c
      BY <1>t, <1>k, <2>2, <3>2 DEF RelayLagged, Live, Lost, Own
    <3>. QED BY <3>1, <3>2
  <2>3. CASE RelayDropped(d)
    BY <1>t, <1>k, <2>3 DEF RelayDropped, Unsubscribe, Live, Lost, Own
  <2>. QED BY <1>3, <2>1, <2>2, <2>3 DEF RelayTask
<1>4. ASSUME NEW d \in Conns, Deliver(d) PROVE Has(c, o)' \/ OnTheWay(c, o)'
  <2>1. CASE d = c
    <3>1. /\ Range(out[c]) = {Head(out[c])} \cup Range(Tail(out[c]))
          /\ out'[c] = Tail(out[c]) /\ seen'[c] = seen[c] \cup {Head(out[c])}
      BY <1>t, <1>4, <2>1, TailHolds DEF Deliver
    <3>2. ~Lost(c)
      BY <1>4, <3>1 DEF Deliver, Lost
    <3>3. Has(c, o) \/ OnTheWay(c, o)
      BY <1>b, <1>4, <3>2 DEF Deliver, Live, Own
    <3>. QED BY <1>4, <3>1, <3>3 DEF Deliver, Has, OnTheWay
  <2>2. CASE d # c
    BY <1>t, <1>k, <1>4, <2>2 DEF Deliver, Live, Lost, Own
  <2>. QED BY <2>1, <2>2
<1>5. ASSUME NEW p \in Ops, Merge(p) PROVE Has(c, o)' \/ OnTheWay(c, o)'
  <2>1. CASE p = o
    BY <1>t, <1>5, <2>1 DEF Merge, OnTheWay
  <2>2. CASE p # o
    BY <1>t, <1>k, <1>5, <2>2 DEF Merge, Live, Lost, Own
  <2>. QED BY <2>1, <2>2
<1>6. CASE Watcher
  <2>1. CASE MergeRoom
    BY <1>t, <1>k, <2>1 DEF MergeRoom, Live, Lost, Own
  <2>2. CASE MergeSend
    <3>1. merge.op \in Ops /\ Publish(merge.room, merge.op) /\ ~missed'[c]
      BY <1>t, <2>2 DEF MergeSend, Lost
    <3>2. /\ ~missed[c]
          /\ Range(ring'[c]) = IF sub[c] = merge.room THEN Range(ring[c]) \cup {merge.op}
                               ELSE Range(ring[c])
      BY <3>1, PublishHolds
    <3>3. Live(c) /\ c \notin late
      BY <2>2 DEF MergeSend, Live
    <3>4. sub[c] = hub
      BY <3>3, LiveInHub
    <3>5. CASE o = merge.op
      <4>1. CASE merge.room = hub
        BY <3>2, <3>4, <3>5, <4>1 DEF OnTheWay
      <4>2. CASE merge.room # hub
        BY <2>2, <3>3, <3>5, <4>2 DEF MergeSend, MergeInv, Has
      <4>. QED BY <4>1, <4>2
    <3>6. CASE o # merge.op
      <4>1. Has(c, o) \/ OnTheWay(c, o)
        BY <1>b, <2>2, <3>2, <3>3 DEF MergeSend, Lost, Own
      <4>2. Range(ring[c]) \subseteq Range(ring'[c])
        BY <3>2
      <4>. QED BY <2>2, <3>6, <4>1, <4>2 DEF MergeSend, Has, OnTheWay
    <3>. QED BY <3>5, <3>6
  <2>. QED BY <1>6, <2>1, <2>2 DEF Watcher
<1>7. CASE EvictRoom
  BY <1>t, <1>k, <1>7 DEF EvictRoom, Forget, Live, Lost, Own
<1>8. CASE UNCHANGED editVars
  BY <1>t, <1>k, <1>8 DEF editVars, Live, Lost, Own
<1>. QED BY <1>1, <1>2, <1>3, <1>4, <1>5, <1>6, <1>7, <1>8 DEF EditNext

\* Whatever was applied to the document is in the client's first copy, or was
\* received, or is on its way, or the client is told that it may have missed it.
THEOREM NothingGoesUnseen == EditSpec => []NothingUnseen
<1>1. EditInit => NothingUnseen /\ MergeInv
  BY DEF EditInit, NothingUnseen, MergeInv, NoRoom
<1>2. EditInit => RoomInv
  BY DEF EditInit, RoomInv, OneRoom
<1>3. TypeInv /\ TypeInv' /\ RoomInv /\ MergeInv /\ NothingUnseen /\ [EditNext]_editVars
        => NothingUnseen'
  <2>. SUFFICES ASSUME TypeInv, TypeInv', RoomInv, MergeInv, NothingUnseen,
                       [EditNext]_editVars
                PROVE  NothingUnseen'
    OBVIOUS
  <2>1. doc' \in SUBSET Ops
    BY DEF TypeInv, EditTypeOK
  <2>. QED BY <2>1, UnseenNext DEF NothingUnseen
<1>. QED BY <1>1, <1>2, <1>3, TypeInit, TypeNext, RoomInvNext, MergeInvNext, PTL
       DEF EditSpec
=============================================================================
