----------------------------- MODULE HookProofs -----------------------------
(* Theorems about HookProcess, for every value of its constants. *)
EXTENDS HookProcess, SequenceTheorems, TLAPS

USE HookAssumption

-----------------------------------------------------------------------------
(* Bounded sequences. *)

LEMMA BoundedAppend ==
  ASSUME NEW S, NEW n \in Nat, NEW s \in Bounded(S, n), NEW x \in S, Len(s) < n
  PROVE  Append(s, x) \in Bounded(S, n)
  BY DEF Bounded

LEMMA BoundedTail ==
  ASSUME NEW S, NEW n \in Nat, NEW s \in Bounded(S, n), s # <<>>
  PROVE  /\ Tail(s) \in Bounded(S, n) /\ Head(s) \in S
         /\ Len(Tail(s)) = Len(s) - 1
         /\ \A i \in 1..Len(Tail(s)) : Tail(s)[i] = s[i + 1]
  BY DEF Bounded

LEMMA BoundedEmpty ==
  ASSUME NEW S, NEW n \in Nat PROVE <<>> \in Bounded(S, n)
  BY DEF Bounded

LEMMA NoLineIsNoLine == NoLine \notin Lines
  BY DEF NoLine, Lines, Kinds

-----------------------------------------------------------------------------
(* Types. *)

\* In the middle of an exchange there is a request.
Asking == host \in {"send", "sendbig", "await"} => call \in Requests

LEMMA TypeInit == HookInit => HookTypeOK /\ Asking
<1>. SUFFICES ASSUME HookInit PROVE HookTypeOK /\ Asking
  OBVIOUS
<1>1. /\ inPipe \in Bounded(Requests \cup {Bye}, PipeCap)
      /\ outPipe \in Bounded(Lines, OutCap)
      /\ chan \in Bounded(Lines, ChanCap)
  BY BoundedEmpty DEF HookInit
<1>2. answers \in [Requests -> Requests \cup {Bye, NoRequest}]
  BY DEF HookInit
<1>3. /\ call \in 0..MaxCalls /\ extras \in 0..MaxExtras
      /\ asked \in Requests \cup {Bye, NoRequest} /\ hand \in Lines \cup {NoLine}
      /\ Asking
  BY DEF HookInit, Asking
<1>. QED
  BY <1>1, <1>2, <1>3 DEF HookInit, HookTypeOK

LEMMA TypeNext == HookTypeOK /\ Asking /\ [HookNext]_vars => HookTypeOK' /\ Asking'
<1>. SUFFICES ASSUME HookTypeOK, Asking, [HookNext]_vars PROVE HookTypeOK' /\ Asking'
  OBVIOUS
<1>. USE DEF HookTypeOK, Asking, hostVars, childVars
<1>e. <<>> \in Bounded(Requests \cup {Bye}, PipeCap)
  BY BoundedEmpty
<1>1. CASE Owner
  <2>1. CASE Spawn BY <2>1 DEF Spawn
  <2>2. CASE SpawnFails BY <2>2 DEF SpawnFails
  <2>3. CASE Call BY <2>3 DEF Call, Requests
  <2>4. CASE CallTooLarge BY <2>4 DEF CallTooLarge
  <2>5. CASE Shutdown BY <2>5 DEF Shutdown
  <2>6. CASE ShutdownDead BY <2>6 DEF ShutdownDead
  <2>7. CASE DropDead BY <2>7 DEF DropDead
  <2>. QED BY <1>1, <2>1, <2>2, <2>3, <2>4, <2>5, <2>6, <2>7 DEF Owner
<1>2. CASE Host
  <2>t. ASSUME chan # <<>>, chan' = Tail(chan)
        PROVE  chan' \in Bounded(Lines, ChanCap) /\ Head(chan) \in Lines
    BY <2>t, BoundedTail
  <2>1. CASE Greeting BY <2>1, <2>t DEF Greeting
  <2>2. CASE BadGreeting BY <2>2, <2>t, <1>e DEF BadGreeting, KillAndReap, Ended
  <2>3. CASE NoGreeting BY <2>3, <1>e DEF NoGreeting, KillAndReap, Ended
  <2>4. CASE Send
    <3>1. call \in Requests
      BY <2>4 DEF Send, Requests
    <3>2. inPipe' \in Bounded(Requests \cup {Bye}, PipeCap)
      BY <2>4, <3>1, BoundedAppend DEF Send
    <3>. QED BY <2>4, <3>2 DEF Send
  <2>5. CASE SendFails BY <2>5 DEF SendFails
  <2>6. CASE Receive
    <3>1. Head(chan).of \in Requests \cup {Bye, NoRequest}
      BY <2>6, <2>t DEF Receive, Lines
    <3>. QED BY <2>6, <2>t, <3>1 DEF Receive
  <2>7. CASE ReceiveBad BY <2>7, <2>t, <1>e DEF ReceiveBad, KillAndReap, Ended
  <2>8. CASE ReceiveNothing BY <2>8, <1>e DEF ReceiveNothing, KillAndReap, Ended
  <2>9. CASE Reap BY <2>9, <1>e DEF Reap, Ended
  <2>10. CASE SayBye
    <3>1. inPipe' \in Bounded(Requests \cup {Bye}, PipeCap)
      BY <2>10, BoundedAppend DEF SayBye
    <3>. QED BY <2>10, <3>1 DEF SayBye
  <2>11. CASE Grace BY <2>11, <1>e DEF Grace, KillAndReap, Ended
  <2>12. CASE DropReaps BY <2>12, <1>e DEF DropReaps, KillAndReap, Ended
  <2>13. CASE Join BY <2>13 DEF Join
  <2>. QED
    BY <1>2, <2>1, <2>2, <2>3, <2>4, <2>5, <2>6, <2>7, <2>8, <2>9, <2>10, <2>11,
       <2>12, <2>13 DEF Host
<1>3. CASE Pump
  <2>1. CASE PumpReads BY <2>1, BoundedTail DEF PumpReads
  <2>2. CASE PumpSends
    <3>1. chan' \in Bounded(Lines, ChanCap)
      BY <2>2, BoundedAppend DEF PumpSends
    <3>. QED BY <2>2, <3>1 DEF PumpSends
  <2>3. CASE PumpGivesUp BY <2>3 DEF PumpGivesUp
  <2>4. CASE PumpEof BY <2>4 DEF PumpEof
  <2>. QED BY <1>3, <2>1, <2>2, <2>3, <2>4 DEF Pump
<1>4. CASE Hook
  <2>w. ASSUME NEW n \in Requests \cup {Bye, NoRequest}, NEW k \in Kinds,
               Write([of |-> n, kind |-> k])
        PROVE  outPipe' \in Bounded(Lines, OutCap)
    <3>1. [of |-> n, kind |-> k] \in Lines
      BY DEF Lines
    <3>. QED BY <2>w, <3>1, BoundedAppend DEF Write
  <2>1. CASE Greets BY <2>1, <2>w DEF Greets
  <2>2. CASE Reads BY <2>2, BoundedTail DEF Reads
  <2>3. CASE SendThrough BY <2>3 DEF SendThrough, Requests
  <2>4. CASE Answers BY <2>4, <2>w DEF Answers
  <2>5. CASE Chatters BY <2>5, <2>w DEF Chatters
  <2>6. CASE Deaf BY <2>6, <1>e DEF Deaf
  <2>7. CASE Exits BY <2>7, <1>e DEF Exits, Ended
  <2>. QED BY <1>4, <2>1, <2>2, <2>3, <2>4, <2>5, <2>6, <2>7 DEF Hook
<1>5. CASE UNCHANGED vars
  BY <1>5 DEF vars
<1>. QED BY <1>1, <1>2, <1>3, <1>4, <1>5 DEF HookNext

\* Every state of the specification has its type: the pipes and the channel
\* hold what they have room for.
THEOREM HookTypeCorrect == HookSpec => []HookTypeOK
<1>1. HookSpec => [](HookTypeOK /\ Asking)
  BY TypeInit, TypeNext, PTL DEF HookSpec
<1>. QED BY <1>1, PTL

-----------------------------------------------------------------------------
(* No orphans. *)

\* Before spawn there is no process, and after the kill there is none again.
Reaped ==
  /\ host = "start" => child = "none"
  /\ host \in {"join", "gone", "refused"} => child \in {"none", "reaped"}

LEMMA ReapedNext == Reaped /\ [HookNext]_vars => Reaped'
<1>. SUFFICES ASSUME Reaped, [HookNext]_vars PROVE Reaped'
  OBVIOUS
<1>. USE DEF Reaped, hostVars, childVars, KillAndReap, Ended
<1>1. CASE Owner
  BY <1>1 DEF Owner, Spawn, SpawnFails, Call, CallTooLarge, Shutdown, ShutdownDead, DropDead
<1>2. CASE Host
  BY <1>2 DEF Host, Greeting, BadGreeting, NoGreeting, Send, SendFails, Receive,
     ReceiveBad, ReceiveNothing, Reap, SayBye, Grace, DropReaps, Join
<1>3. CASE Pump
  BY <1>3 DEF Pump, PumpReads, PumpSends, PumpGivesUp, PumpEof
<1>4. CASE Hook
  BY <1>4 DEF Hook, Greets, Reads, SendThrough, Answers, Chatters, Deaf, Exits
<1>5. CASE UNCHANGED vars
  BY <1>5 DEF vars
<1>. QED BY <1>1, <1>2, <1>3, <1>4, <1>5 DEF HookNext

\* No process survives its handle, whether the handle was dropped or the hook
\* was refused at the handshake.
THEOREM HookLeavesNoOrphans == HookSpec => []NoOrphans
<1>1. HookInit => Reaped
  BY DEF HookInit, Reaped
<1>2. Reaped => NoOrphans
  BY DEF Reaped, NoOrphans
<1>. QED BY <1>1, <1>2, ReapedNext, PTL DEF HookSpec

-----------------------------------------------------------------------------
(* Answers match. *)

Held  == IF hand = NoLine THEN 0 ELSE 1
Owing == IF asked = NoRequest THEN 0 ELSE 1

\* Requests and lines on their way from the host to the host.
InFlight == Len(inPipe) + Owing + Len(outPipe) + Held + Len(chan)

\* All of them belong to request n.
OnlyOf(n) ==
  /\ \A i \in 1..Len(inPipe) : inPipe[i] = n
  /\ asked \in {n, NoRequest}
  /\ \A i \in 1..Len(outPipe) : outPipe[i].of = n
  /\ hand # NoLine => hand.of = n
  /\ \A i \in 1..Len(chan) : chan[i].of = n

\* While the hook writes one line for each request, nothing is on its way
\* between exchanges, and during one only what belongs to it.
Orderly ==
  extras = 0 =>
    /\ host = "start" => ~greeted /\ InFlight = 0
    /\ host = "hello" => /\ Len(inPipe) = 0 /\ asked = NoRequest
                         /\ InFlight <= 1 /\ (~greeted => InFlight = 0)
    /\ host \in {"idle", "send", "sendbig"} /\ ~dead => greeted /\ InFlight = 0
    /\ host = "await" => greeted /\ InFlight <= 1 /\ OnlyOf(call)
    /\ AnswersMatch

\* A hook that failed or was told to end is not used again.
Usable ==
  /\ host \in {"send", "sendbig", "await"} => ~dead
  /\ host \in {"bye", "grace", "reap"} => dead

HookInv == HookTypeOK /\ Asking /\ Usable /\ Reaped /\ Orderly

LEMMA Counts ==
  ASSUME HookTypeOK
  PROVE  /\ Len(inPipe) \in Nat /\ Len(outPipe) \in Nat /\ Len(chan) \in Nat
         /\ Held \in 0..1 /\ Owing \in 0..1
  BY DEF HookTypeOK, Bounded, Held, Owing

LEMMA UsableNext == Usable /\ [HookNext]_vars => Usable'
<1>. SUFFICES ASSUME Usable, [HookNext]_vars PROVE Usable'
  OBVIOUS
<1>. USE DEF Usable, hostVars, childVars
<1>1. CASE Owner
  BY <1>1 DEF Owner, Spawn, SpawnFails, Call, CallTooLarge, Shutdown, ShutdownDead, DropDead
<1>2. CASE Host
  BY <1>2 DEF Host, Greeting, BadGreeting, NoGreeting, Send, SendFails, Receive,
     ReceiveBad, ReceiveNothing, Reap, SayBye, Grace, DropReaps, Join
<1>3. CASE Pump
  BY <1>3 DEF Pump, PumpReads, PumpSends, PumpGivesUp, PumpEof
<1>4. CASE Hook
  BY <1>4 DEF Hook, Greets, Reads, SendThrough, Answers, Chatters, Deaf, Exits
<1>5. CASE UNCHANGED vars
  BY <1>5 DEF vars
<1>. QED BY <1>1, <1>2, <1>3, <1>4, <1>5 DEF HookNext

LEMMA OwnerOrderly == HookInv /\ Owner => Orderly'
<1>. SUFFICES ASSUME HookInv, Owner PROVE Orderly'
  OBVIOUS
<1>. USE DEF HookInv, Orderly, hostVars, childVars
<1>1. CASE Spawn
  <2>1. ASSUME extras = 0
        PROVE  Len(inPipe) = 0 /\ Owing = 0 /\ InFlight = 0 /\ ~greeted
    BY <1>1, <2>1, Counts DEF Spawn, InFlight
  <2>2. InFlight' = InFlight
    BY <1>1 DEF Spawn, InFlight, Held, Owing
  <2>3. Owing = 0 => asked = NoRequest
    BY DEF Owing
  <2>. QED BY <1>1, <2>1, <2>2, <2>3 DEF Spawn, AnswersMatch
<1>. USE DEF InFlight, Held, Owing, AnswersMatch
<1>2. CASE SpawnFails BY <1>2 DEF SpawnFails
<1>3. CASE Call BY <1>3 DEF Call
<1>4. CASE CallTooLarge BY <1>4 DEF CallTooLarge
<1>5. CASE Shutdown BY <1>5 DEF Shutdown
<1>6. CASE ShutdownDead BY <1>6 DEF ShutdownDead
<1>7. CASE DropDead BY <1>7 DEF DropDead
<1>. QED BY <1>1, <1>2, <1>3, <1>4, <1>5, <1>6, <1>7 DEF Owner

LEMMA HostOrderly == HookInv /\ Host => Orderly'
<1>. SUFFICES ASSUME HookInv, Host PROVE Orderly'
  OBVIOUS
<1>. USE DEF HookInv, Orderly, Usable, AnswersMatch, hostVars, childVars, KillAndReap, Ended
<1>1. CASE Greeting
  <2>1. Len(chan') = Len(chan) - 1 /\ Len(chan) \in Nat /\ Len(chan) >= 1
    BY <1>1, BoundedTail, Counts DEF Greeting, HookTypeOK, Bounded
  <2>. QED BY <1>1, <2>1, Counts DEF Greeting, InFlight, Held, Owing
<1>2. CASE BadGreeting BY <1>2 DEF BadGreeting
<1>3. CASE NoGreeting BY <1>3 DEF NoGreeting
<1>4. CASE Send
  <2>1. inPipe \in Seq(Requests \cup {Bye}) /\ call \in Requests
    BY <1>4 DEF Send, HookTypeOK, Bounded, Asking
  <2>2. /\ Len(inPipe') = Len(inPipe) + 1
        /\ \A i \in 1..Len(inPipe') :
             inPipe'[i] = IF i = Len(inPipe) + 1 THEN call ELSE inPipe[i]
    BY <1>4, <2>1 DEF Send
  <2>3. ASSUME extras = 0 PROVE InFlight = 0 /\ greeted
    BY <1>4, <2>3 DEF Send
  <2>4. ASSUME extras = 0 PROVE InFlight' = 1 /\ OnlyOf(call)'
    <3>1. /\ Len(inPipe) = 0 /\ Owing = 0 /\ Len(outPipe) = 0
          /\ Held = 0 /\ Len(chan) = 0
      BY <2>3, <2>4, Counts DEF InFlight
    <3>2. /\ asked' = NoRequest /\ hand' = NoLine /\ Len(outPipe') = 0
          /\ Len(chan') = 0 /\ Len(inPipe') = 1 /\ call' = call
      BY <1>4, <2>2, <3>1 DEF Send, Held, Owing
    <3>3. \A i \in 1..Len(inPipe') : inPipe'[i] = call'
      BY <2>2, <3>1, <3>2
    <3>4. OnlyOf(call)'
      BY <3>2, <3>3 DEF OnlyOf
    <3>. QED BY <3>2, <3>4 DEF InFlight, Held, Owing
  <2>. QED BY <1>4, <2>3, <2>4 DEF Send
<1>5. CASE SendFails BY <1>5 DEF SendFails
<1>6. CASE Receive
  <2>1. /\ Len(chan') = Len(chan) - 1 /\ Len(chan) \in Nat /\ Len(chan) >= 1
        /\ Head(chan) = chan[1]
    BY <1>6, BoundedTail, Counts DEF Receive, HookTypeOK, Bounded
  <2>2. ASSUME extras = 0 PROVE Head(chan).of = call
    BY <1>6, <2>1, <2>2 DEF Receive, OnlyOf
  <2>3. ASSUME extras = 0 PROVE InFlight' = 0
    <3>1. InFlight <= 1
      BY <1>6, <2>3 DEF Receive
    <3>2. Held' = Held /\ Owing' = Owing /\ inPipe' = inPipe /\ outPipe' = outPipe
      BY <1>6 DEF Receive, Held, Owing
    <3>. QED BY <2>1, <3>1, <3>2, Counts DEF InFlight
  <2>4. ASSUME extras = 0 PROVE AnswersMatch'
    BY <1>6, <2>2, <2>4 DEF Receive, HookTypeOK
  <2>. QED BY <1>6, <2>3, <2>4 DEF Receive
<1>7. CASE ReceiveBad BY <1>7 DEF ReceiveBad
<1>8. CASE ReceiveNothing BY <1>8 DEF ReceiveNothing
<1>9. CASE Reap BY <1>9 DEF Reap
<1>10. CASE SayBye BY <1>10 DEF SayBye
<1>11. CASE Grace BY <1>11 DEF Grace
<1>12. CASE DropReaps BY <1>12 DEF DropReaps
<1>13. CASE Join BY <1>13 DEF Join
<1>. QED
  BY <1>1, <1>2, <1>3, <1>4, <1>5, <1>6, <1>7, <1>8, <1>9, <1>10, <1>11, <1>12, <1>13
  DEF Host

\* A step of the pump or of the hook changes none of these; Orderly then follows
\* from what it does to InFlight and OnlyOf.
LEMMA OrderlyKept ==
  ASSUME HookInv, UNCHANGED hostVars, extras' = extras, greeted' = greeted,
         host = "hello" => Len(inPipe') = 0 /\ asked' = NoRequest,
         InFlight' <= InFlight, InFlight \in Nat, InFlight' \in Nat,
         OnlyOf(call) => OnlyOf(call)'
  PROVE  Orderly'
  BY DEF HookInv, Orderly, AnswersMatch, hostVars

LEMMA InFlightNat ==
  /\ HookTypeOK => InFlight \in Nat
  /\ HookTypeOK' => InFlight' \in Nat
<1>1. HookTypeOK => InFlight \in Nat
  <2>. SUFFICES ASSUME HookTypeOK PROVE InFlight \in Nat
    OBVIOUS
  <2>. QED BY Counts DEF InFlight
<1>2. HookTypeOK' => InFlight' \in Nat
  <2>. SUFFICES ASSUME HookTypeOK' PROVE InFlight' \in Nat
    OBVIOUS
  <2>1. /\ Len(inPipe') \in Nat /\ Len(outPipe') \in Nat /\ Len(chan') \in Nat
        /\ Held' \in 0..1 /\ Owing' \in 0..1
    BY DEF HookTypeOK, Bounded, Held, Owing
  <2>2. InFlight' = Len(inPipe') + Owing' + Len(outPipe') + Held' + Len(chan')
    BY DEF InFlight
  <2>. QED BY <2>1, <2>2
<1>. QED BY <1>1, <1>2

LEMMA PumpOrderly == HookInv /\ HookTypeOK' /\ Pump => Orderly'
<1>. SUFFICES ASSUME HookInv, HookTypeOK', Pump PROVE Orderly'
  OBVIOUS
<1>0. /\ HookTypeOK /\ InFlight \in Nat /\ InFlight' \in Nat
      /\ Len(inPipe) \in Nat /\ Len(outPipe) \in Nat /\ Len(chan) \in Nat
      /\ Held \in 0..1 /\ Owing \in 0..1
  <2>1. InFlight' \in Nat
    BY InFlightNat
  <2>. QED BY <2>1, Counts, InFlightNat DEF HookInv
<1>1. ASSUME extras = 0, host = "hello" PROVE Len(inPipe) = 0 /\ asked = NoRequest
  BY <1>1 DEF HookInv, Orderly
<1>2. CASE PumpReads
  <2>1. /\ Len(outPipe') = Len(outPipe) - 1 /\ Head(outPipe) = outPipe[1]
        /\ Len(outPipe) >= 1
        /\ \A i \in 1..Len(outPipe') : outPipe'[i] = outPipe[i + 1]
    BY <1>0, <1>2, BoundedTail DEF PumpReads, HookTypeOK, Bounded
  <2>2. Held = 0 /\ Held' <= 1 /\ Held' \in Nat /\ Owing' = Owing
    BY <1>2 DEF PumpReads, Held, Owing, childVars
  <2>3. InFlight' <= InFlight
    BY <1>0, <1>2, <2>1, <2>2 DEF PumpReads, InFlight, childVars
  <2>4. OnlyOf(call) => OnlyOf(call)'
    BY <1>0, <1>2, <2>1 DEF PumpReads, OnlyOf, childVars, hostVars
  <2>. QED
    BY <1>0, <1>1, <1>2, <2>3, <2>4, OrderlyKept DEF PumpReads, childVars, Orderly
<1>3. CASE PumpSends
  <2>1. /\ Len(chan') = Len(chan) + 1
        /\ \A i \in 1..Len(chan') :
             chan'[i] = IF i = Len(chan) + 1 THEN hand ELSE chan[i]
    BY <1>0, <1>3 DEF PumpSends, HookTypeOK, Bounded
  <2>2. Held = 1 /\ Held' = 0 /\ Owing' = Owing
    BY <1>3 DEF PumpSends, Held, Owing, childVars
  <2>3. InFlight' <= InFlight
    BY <1>0, <1>3, <2>1, <2>2 DEF PumpSends, InFlight, childVars
  <2>4. OnlyOf(call) => OnlyOf(call)'
    BY <1>0, <1>3, <2>1 DEF PumpSends, OnlyOf, childVars, hostVars
  <2>. QED
    BY <1>0, <1>1, <1>3, <2>3, <2>4, OrderlyKept DEF PumpSends, childVars, Orderly
<1>4. CASE PumpGivesUp
  <2>1. Held = 1 /\ Held' = 0 /\ Owing' = Owing
    BY <1>4 DEF PumpGivesUp, Held, Owing, childVars
  <2>2. InFlight' <= InFlight
    BY <1>0, <1>4, <2>1 DEF PumpGivesUp, InFlight, childVars
  <2>3. OnlyOf(call) => OnlyOf(call)'
    BY <1>4 DEF PumpGivesUp, OnlyOf, childVars, hostVars
  <2>. QED
    BY <1>0, <1>1, <1>4, <2>2, <2>3, OrderlyKept DEF PumpGivesUp, childVars, Orderly
<1>5. CASE PumpEof
  <2>1. InFlight' = InFlight /\ (OnlyOf(call) => OnlyOf(call)')
    BY <1>5 DEF PumpEof, InFlight, Held, Owing, OnlyOf, childVars, hostVars
  <2>. QED
    BY <1>0, <1>1, <1>5, <2>1, OrderlyKept DEF PumpEof, childVars, Orderly
<1>. QED BY <1>2, <1>3, <1>4, <1>5 DEF Pump

LEMMA HookOrderly == HookInv /\ HookTypeOK' /\ Hook => Orderly'
<1>. SUFFICES ASSUME HookInv, HookTypeOK', Hook PROVE Orderly'
  OBVIOUS
<1>0. /\ HookTypeOK /\ InFlight \in Nat /\ InFlight' \in Nat
      /\ Len(inPipe) \in Nat /\ Len(outPipe) \in Nat /\ Len(chan) \in Nat
      /\ Held \in 0..1 /\ Owing \in 0..1
  <2>1. InFlight' \in Nat
    BY InFlightNat
  <2>. QED BY <2>1, Counts, InFlightNat DEF HookInv
<1>1. ASSUME extras = 0, host = "hello"
      PROVE  Len(inPipe) = 0 /\ asked = NoRequest
  BY <1>1 DEF HookInv, Orderly
<1>w. ASSUME NEW n \in Requests \cup {Bye, NoRequest}, NEW k \in Kinds,
             Write([of |-> n, kind |-> k])
      PROVE  /\ Len(outPipe') = Len(outPipe) + 1
             /\ \A i \in 1..Len(outPipe') :
                  outPipe'[i] = IF i = Len(outPipe) + 1
                                THEN [of |-> n, kind |-> k] ELSE outPipe[i]
  <2>1. [of |-> n, kind |-> k] \in Lines
    BY DEF Lines
  <2>. QED BY <1>w, <1>0, <2>1 DEF Write, HookTypeOK, Bounded
<1>2. CASE Greets
  <2>1. Len(outPipe') = Len(outPipe) + 1 /\ Held' = Held /\ Owing' = Owing
    BY <1>2, <1>w DEF Greets, Held, Owing
  <2>2. InFlight' = InFlight + 1
    BY <1>0, <1>2, <2>1 DEF Greets, InFlight
  <2>. QED
    BY <1>2, <1>0, <2>2
    DEF Greets, HookInv, Orderly, Reaped, Usable, AnswersMatch, hostVars
<1>3. CASE Reads
  <2>1. /\ Len(inPipe') = Len(inPipe) - 1 /\ Head(inPipe) = inPipe[1]
        /\ Len(inPipe) >= 1
        /\ \A i \in 1..Len(inPipe') : inPipe'[i] = inPipe[i + 1]
    BY <1>0, <1>3, BoundedTail DEF Reads, HookTypeOK, Bounded
  <2>2. Owing = 0 /\ Owing' <= 1 /\ Owing' \in Nat /\ Held' = Held
    BY <1>3 DEF Reads, Held, Owing
  <2>3. InFlight' <= InFlight
    BY <1>0, <1>3, <2>1, <2>2 DEF Reads, InFlight
  <2>4. OnlyOf(call) => OnlyOf(call)'
    BY <1>0, <1>3, <2>1 DEF Reads, OnlyOf, hostVars
  <2>5. extras = 0 => host # "hello"
    BY <1>1, <2>1
  <2>. QED BY <1>0, <1>3, <2>3, <2>4, <2>5, OrderlyKept DEF Reads, Orderly
<1>4. CASE SendThrough
  <2>1. call \in Requests
    BY <1>4 DEF SendThrough, HookInv, Asking
  <2>2. ASSUME extras = 0 PROVE greeted' /\ InFlight' <= 1 /\ OnlyOf(call)'
    <3>1. InFlight = 0 /\ greeted
      BY <1>4, <2>2 DEF SendThrough, HookInv, Orderly, Usable
    <3>2. Len(inPipe) = 0 /\ Len(outPipe) = 0 /\ Held = 0 /\ Len(chan) = 0
      BY <1>0, <3>1 DEF InFlight
    <3>3. /\ Len(inPipe') = 0 /\ Len(outPipe') = 0 /\ Len(chan') = 0
          /\ Held' = 0 /\ Owing' \in 0..1
      BY <1>4, <3>2 DEF SendThrough, Held, Owing
    <3>4. hand' = NoLine
      BY <3>3 DEF Held
    <3>5. OnlyOf(call)'
      BY <1>4, <3>3, <3>4 DEF SendThrough, OnlyOf
    <3>6. InFlight' = Len(inPipe') + Owing' + Len(outPipe') + Held' + Len(chan')
      BY DEF InFlight
    <3>7. greeted'
      BY <1>4, <3>1 DEF SendThrough
    <3>8. InFlight' <= 1
      <4>1. Owing' = 0 \/ Owing' = 1
        BY <3>3
      <4>2. CASE Owing' = 0
        BY <3>3, <3>6, <4>2
      <4>3. CASE Owing' = 1
        BY <3>3, <3>6, <4>3
      <4>. QED BY <4>1, <4>2, <4>3
    <3>. QED BY <3>5, <3>7, <3>8, Zenon
  <2>. QED BY <1>4, <2>2 DEF SendThrough, HookInv, Orderly, AnswersMatch
<1>5. CASE Answers
  <2>1. PICK k \in Kinds : Write([of |-> asked, kind |-> k])
    BY <1>5 DEF Answers
  <2>2. asked \in Requests \cup {Bye, NoRequest}
    BY <1>0 DEF HookTypeOK
  <2>3. /\ Len(outPipe') = Len(outPipe) + 1
        /\ \A i \in 1..Len(outPipe') :
             outPipe'[i] = IF i = Len(outPipe) + 1
                           THEN [of |-> asked, kind |-> k] ELSE outPipe[i]
    BY <2>1, <2>2, <1>w
  <2>4. Owing = 1 /\ Owing' = 0 /\ Held' = Held
    BY <1>5 DEF Answers, Held, Owing
  <2>5. InFlight' <= InFlight
    BY <1>0, <1>5, <2>3, <2>4 DEF Answers, InFlight
  <2>6. OnlyOf(call) => OnlyOf(call)'
    BY <1>0, <1>5, <2>3 DEF Answers, OnlyOf, hostVars
  <2>7. extras = 0 => host # "hello"
    BY <1>1, <1>5 DEF Answers
  <2>. QED BY <1>0, <1>5, <2>5, <2>6, <2>7, OrderlyKept DEF Answers, Orderly
<1>6. CASE Chatters
  <2>1. extras' # 0
    BY <1>0, <1>6 DEF Chatters, HookTypeOK
  <2>. QED BY <2>1 DEF Orderly
<1>7. CASE Deaf \/ Exits
  <2>1. /\ Len(inPipe') = 0 /\ inPipe' = <<>> /\ outPipe' = outPipe /\ chan' = chan
        /\ hand' = hand /\ Held' = Held /\ asked' \in {asked, NoRequest}
        /\ Owing' <= Owing /\ Owing' \in Nat
    BY <1>7 DEF Deaf, Exits, Ended, Held, Owing
  <2>2. InFlight' <= InFlight
    BY <1>0, <2>1 DEF InFlight
  <2>3. OnlyOf(call) => OnlyOf(call)'
    BY <1>7, <2>1 DEF Deaf, Exits, Ended, OnlyOf, hostVars
  <2>4. extras = 0 /\ host = "hello" => asked' = NoRequest
    BY <1>1, <2>1
  <2>. QED BY <1>0, <1>7, <2>1, <2>2, <2>3, <2>4, OrderlyKept
       DEF Deaf, Exits, Ended, Orderly
<1>. QED BY <1>2, <1>3, <1>4, <1>5, <1>6, <1>7 DEF Hook

LEMMA HookInvInit == HookInit => HookInv
<1>. SUFFICES ASSUME HookInit PROVE HookInv
  OBVIOUS
<1>1. HookTypeOK /\ Asking
  BY TypeInit
<1>2. Orderly
  BY DEF HookInit, Orderly, InFlight, Held, Owing, AnswersMatch
<1>. QED BY <1>1, <1>2 DEF HookInit, HookInv, Usable, Reaped

LEMMA HookInvNext == HookInv /\ [HookNext]_vars => HookInv'
<1>. SUFFICES ASSUME HookInv, [HookNext]_vars PROVE HookInv'
  OBVIOUS
<1>1. HookTypeOK' /\ Asking' /\ Usable' /\ Reaped'
  BY TypeNext, UsableNext, ReapedNext DEF HookInv
<1>2. Orderly'
  <2>1. CASE UNCHANGED vars
    BY <2>1 DEF vars, hostVars, childVars, HookInv, Orderly, InFlight, Held, Owing,
       OnlyOf, AnswersMatch
  <2>. QED
    BY <1>1, <2>1, OwnerOrderly, HostOrderly, PumpOrderly, HookOrderly DEF HookNext
<1>. QED BY <1>1, <1>2 DEF HookInv

\* While the hook writes one line for each request it reads, every answer is the
\* answer to its own request, whatever timed out before.
THEOREM AnswersMatchRequests == HookSpec => []AnswersMatch
<1>1. HookInv => AnswersMatch
  BY DEF HookInv, Orderly, AnswersMatch
<1>. QED BY <1>1, HookInvInit, HookInvNext, PTL DEF HookSpec

-----------------------------------------------------------------------------
(* The handle, as its owner sees it.  Each step of the model is a step of   *)
(* HookHandle or changes nothing that the owner sees.                       *)

\* A new handle is not spent, and one that is being dropped is.
SpentAtDrop ==
  /\ host \in {"start", "hello"} => ~dead
  /\ host \in {"drop", "join"} => dead

\* No reply was taken for a request that has none yet.
Unanswered ==
  \A n \in Requests :
    n > call \/ (n = call /\ host \in {"send", "sendbig", "await"}) => answers[n] = n

LEMMA SpentNext == Usable /\ SpentAtDrop /\ [HookNext]_vars => SpentAtDrop'
<1>. SUFFICES ASSUME Usable, SpentAtDrop, [HookNext]_vars PROVE SpentAtDrop'
  OBVIOUS
<1>. USE DEF Usable, SpentAtDrop, hostVars, childVars
<1>1. CASE Owner
  BY <1>1 DEF Owner, Spawn, SpawnFails, Call, CallTooLarge, Shutdown, ShutdownDead, DropDead
<1>2. CASE Host
  BY <1>2 DEF Host, Greeting, BadGreeting, NoGreeting, Send, SendFails, Receive,
     ReceiveBad, ReceiveNothing, Reap, SayBye, Grace, DropReaps, Join
<1>3. CASE Pump
  BY <1>3 DEF Pump, PumpReads, PumpSends, PumpGivesUp, PumpEof
<1>4. CASE Hook
  BY <1>4 DEF Hook, Greets, Reads, SendThrough, Answers, Chatters, Deaf, Exits
<1>5. CASE UNCHANGED vars
  BY <1>5 DEF vars
<1>. QED BY <1>1, <1>2, <1>3, <1>4, <1>5 DEF HookNext

LEMMA UnansweredNext == HookTypeOK /\ Unanswered /\ [HookNext]_vars => Unanswered'
<1>. SUFFICES ASSUME HookTypeOK, Unanswered, [HookNext]_vars PROVE Unanswered'
  OBVIOUS
<1>0. call \in Nat /\ \A n \in Requests : n \in Nat
  BY DEF HookTypeOK, Requests
<1>1. ASSUME answers' = answers,
             \/ /\ call' = call
                /\ host' \in {"send", "sendbig", "await"} => host \in {"send", "sendbig", "await"}
             \/ call' = call + 1
      PROVE  Unanswered'
  BY <1>0, <1>1 DEF Unanswered
<1>. USE DEF hostVars, childVars
<1>2. CASE Owner
  BY <1>1, <1>2 DEF Owner, Spawn, SpawnFails, Call, CallTooLarge, Shutdown, ShutdownDead, DropDead
<1>3. CASE Receive
  <2>1. ASSUME NEW n \in Requests, n > call PROVE answers'[n] = n
    BY <1>0, <1>3, <2>1 DEF Receive, Unanswered, HookTypeOK
  <2>. QED BY <1>3, <2>1 DEF Receive, Unanswered
<1>4. CASE Host /\ ~Receive
  BY <1>1, <1>4 DEF Host, Greeting, BadGreeting, NoGreeting, Send, SendFails,
     ReceiveBad, ReceiveNothing, Reap, SayBye, Grace, DropReaps, Join
<1>5. CASE Pump
  BY <1>1, <1>5 DEF Pump, PumpReads, PumpSends, PumpGivesUp, PumpEof
<1>6. CASE Hook
  BY <1>1, <1>6 DEF Hook, Greets, Reads, SendThrough, Answers, Chatters, Deaf, Exits
<1>7. CASE UNCHANGED vars
  BY <1>1, <1>7 DEF vars
<1>. QED BY <1>2, <1>3, <1>4, <1>5, <1>6, <1>7 DEF HookNext


HandleInv == HookInv /\ SpentAtDrop /\ Unanswered

LEMMA HandleInit == HookInit => Handle!Init
<1>. SUFFICES ASSUME HookInit PROVE Handle!Init
  OBVIOUS
<1>1. {n \in Requests : answers[n] # n} = {}
  BY DEF HookInit
<1>. QED BY <1>1 DEF HookInit, Handle!Init, Life

\* The steps of the owner.
LEMMA OwnerSimulates ==
  HandleInv /\ Owner => [Handle!Next]_(Handle!vars)
<1>. SUFFICES ASSUME HandleInv, Owner PROVE [Handle!Next]_(Handle!vars)
  OBVIOUS
<1>. USE DEF hostVars, childVars, Life
<1>0. Usable
  BY DEF HandleInv, HookInv
<1>1. CASE Spawn
  <2>1. Handle!Open
    BY <1>1 DEF Spawn, Handle!Open
  <2>. QED BY <2>1 DEF Handle!Next
<1>2. CASE SpawnFails
  <2>1. child # "running"
    BY <1>2 DEF SpawnFails, HandleInv, HookInv, Reaped
  <2>2. Handle!Close
    BY <1>2, <2>1 DEF SpawnFails, Handle!Close
  <2>. QED BY <2>2 DEF Handle!Next
<1>3. CASE Call
  <2>1. Handle!Ask
    BY <1>3 DEF Call, Handle!Ask
  <2>. QED BY <2>1 DEF Handle!Next
<1>4. CASE CallTooLarge
  <2>1. Handle!Refuse
    BY <1>4 DEF CallTooLarge, Handle!Refuse
  <2>. QED BY <2>1 DEF Handle!Next
<1>5. CASE Shutdown
  <2>1. Handle!Spend
    BY <1>5 DEF Shutdown, Handle!Spend
  <2>. QED BY <2>1 DEF Handle!Next
<1>6. CASE ShutdownDead \/ DropDead
  <2>1. UNCHANGED Handle!vars
    BY <1>6 DEF ShutdownDead, DropDead, Handle!vars
  <2>. QED BY <2>1
<1>. QED BY <1>1, <1>2, <1>3, <1>4, <1>5, <1>6 DEF Owner

\* A reply may be wrong only when the hook wrote a line that nobody asked for:
\* before, each request had its own.
LEMMA ReceiveReplies == HandleInv /\ Receive => Handle!Reply
<1>. SUFFICES ASSUME HandleInv, Receive PROVE Handle!Reply
  OBVIOUS
<1>. DEFINE wrong == {n \in Requests : answers[n] # n}
            later == {n \in Requests : answers'[n] # n}
<1>1. /\ call \in Requests
      /\ answers[call] = call
      /\ answers'[call] = Head(chan).of
      /\ \A n \in Requests : n # call => answers'[n] = answers[n]
  BY DEF Receive, HandleInv, HookInv, HookTypeOK, Asking, Unanswered
<1>2. later = wrong \/ later = wrong \cup {call}
  <2>1. CASE Head(chan).of = call
    BY <1>1, <2>1
  <2>2. CASE Head(chan).of # call
    BY <1>1, <2>2
  <2>. QED BY <2>1, <2>2
<1>3. extras = 0 => later = wrong
  <2>1. ASSUME extras = 0 PROVE later = {} /\ wrong = {}
    <3>1. HookInv'
      BY HookInvNext DEF HandleInv, HookNext, Host
    <3>2. extras' = 0
      BY <2>1 DEF Receive, childVars
    <3>3. \A n \in Requests : answers[n] = n /\ answers'[n] = n
      BY <2>1, <3>1, <3>2 DEF HandleInv, HookInv, Orderly, AnswersMatch
    <3>. QED BY <3>3
  <2>. QED BY <2>1
<1>4. Life = "open" /\ Life' = "open"
  BY DEF Receive, HandleInv, HookInv, Usable, Life
<1>. QED
  BY <1>2, <1>3, <1>4 DEF Receive, Handle!Reply, childVars

\* The steps of the host.
LEMMA HostSimulates ==
  HandleInv /\ Host => [Handle!Next]_(Handle!vars)
<1>. SUFFICES ASSUME HandleInv, Host PROVE [Handle!Next]_(Handle!vars)
  OBVIOUS
<1>. USE DEF hostVars, childVars, Life, KillAndReap, Ended
<1>0. Usable /\ SpentAtDrop /\ Reaped
  BY DEF HandleInv, HookInv
<1>1. CASE Greeting
  <2>1. Handle!Welcome
    BY <1>0, <1>1 DEF Greeting, Handle!Welcome, SpentAtDrop
  <2>. QED BY <2>1 DEF Handle!Next
<1>2. CASE BadGreeting \/ NoGreeting
  <2>1. Handle!Close
    BY <1>2 DEF BadGreeting, NoGreeting, Handle!Close
  <2>. QED BY <2>1 DEF Handle!Next
<1>3. CASE Send \/ Reap \/ SayBye
  <2>1. UNCHANGED Handle!vars
    BY <1>0, <1>3 DEF Send, Reap, SayBye, Handle!vars
  <2>. QED BY <2>1
<1>4. CASE SendFails
  <2>1. Handle!Spend
    BY <1>0, <1>4 DEF SendFails, Handle!Spend, Usable
  <2>. QED BY <2>1 DEF Handle!Next
<1>5. CASE Receive
  BY <1>5, ReceiveReplies DEF Handle!Next
<1>6. CASE ReceiveBad \/ ReceiveNothing
  <2>1. Life = "open" /\ Life' = "spent"
    BY <1>0, <1>6 DEF ReceiveBad, ReceiveNothing, Usable
  <2>2. host' = "idle" /\ child' = "reaped" /\ UNCHANGED <<call, answers, extras>>
    BY <1>6 DEF ReceiveBad, ReceiveNothing
  <2>3. /\ (child' = "running") = FALSE
        /\ (host' \in {"send", "sendbig", "await"}) = FALSE
        /\ UNCHANGED <<call, {n \in Requests : answers[n] # n}, extras = 0>>
    BY <2>2
  <2>. HIDE DEF Life
  <2>4. Handle!Spend
    BY <2>1, <2>3 DEF Handle!Spend
  <2>. QED BY <2>4 DEF Handle!Next
<1>7. CASE Grace \/ DropReaps
  <2>1. Life = "spent" /\ Life' = "spent"
    BY <1>0, <1>7 DEF Grace, DropReaps, Usable, SpentAtDrop
  <2>2. CASE child = "running"
    <3>1. Handle!Die
      BY <1>7, <2>1, <2>2 DEF Grace, DropReaps, Handle!Die
    <3>. QED BY <3>1 DEF Handle!Next
  <2>3. CASE child # "running"
    <3>1. UNCHANGED Handle!vars
      BY <1>7, <2>1, <2>3 DEF Grace, DropReaps, Handle!vars
    <3>. QED BY <3>1
  <2>. QED BY <2>2, <2>3
<1>8. CASE Join
  <2>1. Handle!Close
    BY <1>0, <1>8 DEF Join, SpentAtDrop, Reaped, Handle!Close
  <2>. QED BY <2>1 DEF Handle!Next
<1>. QED BY <1>1, <1>2, <1>3, <1>4, <1>5, <1>6, <1>7, <1>8 DEF Host

\* The pump is nothing to the owner.
LEMMA PumpSimulates == Pump => UNCHANGED Handle!vars
  BY DEF Pump, PumpReads, PumpSends, PumpGivesUp, PumpEof, Handle!vars, hostVars,
     childVars, Life

\* The steps of the hook.
LEMMA HookSimulates == HandleInv /\ Hook => [Handle!Next]_(Handle!vars)
<1>. SUFFICES ASSUME HandleInv, Hook PROVE [Handle!Next]_(Handle!vars)
  OBVIOUS
<1>. USE DEF hostVars, childVars, Life
<1>1. CASE Greets \/ Reads \/ Answers \/ Deaf
  <2>1. UNCHANGED Handle!vars
    BY <1>1 DEF Greets, Reads, Answers, Deaf, Handle!vars
  <2>. QED BY <2>1
<1>2. CASE SendThrough
  <2>1. UNCHANGED Handle!vars
    BY <1>2 DEF SendThrough, Handle!vars, HandleInv, HookInv, Usable
  <2>. QED BY <2>1
<1>3. CASE Chatters
  <2>1. extras \in Nat
    BY DEF HandleInv, HookInv, HookTypeOK
  <2>2. Handle!Misbehave
    BY <1>3, <2>1 DEF Chatters, Handle!Misbehave
  <2>. QED BY <2>2 DEF Handle!Next
<1>4. CASE Exits
  <2>1. Handle!Die
    BY <1>4 DEF Exits, Ended, Handle!Die
  <2>. QED BY <2>1 DEF Handle!Next
<1>. QED BY <1>1, <1>2, <1>3, <1>4 DEF Hook

\* Whatever happens on the pipes, in the pump and in the hook, the handle takes
\* one request at a time and none after a failure, a deadline or a shutdown; while
\* the hook writes one line for each request it gives each its own reply; and its
\* process is started once and has ended when the handle has.
THEOREM HandleKeepsItsPromise == HookSpec => ImplementsHookHandle
<1>1. HookInit => HandleInv /\ Handle!Init
  BY HookInvInit, HandleInit DEF HookInit, HandleInv, SpentAtDrop, Unanswered
<1>2. HandleInv /\ [HookNext]_vars => HandleInv'
  BY HookInvNext, SpentNext, UnansweredNext DEF HandleInv, HookInv
<1>3. HandleInv /\ [HookNext]_vars => [Handle!Next]_(Handle!vars)
  <2>. SUFFICES ASSUME HandleInv, [HookNext]_vars PROVE [Handle!Next]_(Handle!vars)
    OBVIOUS
  <2>1. CASE UNCHANGED vars
    BY <2>1 DEF vars, hostVars, childVars, Handle!vars, Life
  <2>. QED
    BY <2>1, OwnerSimulates, HostSimulates, PumpSimulates, HookSimulates DEF HookNext
<1>. QED
  BY <1>1, <1>2, <1>3, PTL DEF HookSpec, ImplementsHookHandle, Handle!Spec
=============================================================================
