---------------------------- MODULE HookProcess ----------------------------
(***************************************************************************)
(* One persistent hook (hooks/persistent.rs): the host that spawns it and  *)
(* exchanges messages with it, the thread that pumps its stdout into a     *)
(* bounded channel, and the hook itself, a program that may answer, answer *)
(* nonsense, write what nobody asked for, close its stdin, or exit, at any *)
(* moment.  Its stderr is drained by a thread that never blocks, and is    *)
(* left out; so are descendants of the hook that keep its pipes open.      *)
(* Deadlines are steps that may be taken whenever no line is there.        *)
(***************************************************************************)
EXTENDS Integers, Sequences

CONSTANTS
  MaxCalls,   \* bound on the requests of the host
  MaxExtras,  \* bound on the lines that answer no request
  ChanCap,    \* capacity of the channel (32 in the code)
  PipeCap,    \* messages that the pipe to the hook holds
  OutCap      \* lines that the pipe from the hook holds

ASSUME HookAssumption ==
  /\ MaxCalls \in Nat /\ MaxExtras \in Nat
  /\ ChanCap \in Nat \ {0} /\ PipeCap \in Nat \ {0} /\ OutCap \in Nat \ {0}

VARIABLES
  host,      \* where the thread is that owns the PersistentHook
  dead,      \* PersistentHook::dead
  dropping,  \* the host is in Drop
  call,      \* number of requests so far
  answers,   \* history: the request that the line returned for a request answers
  child,     \* the process of the hook
  ear,       \* the hook has its stdin open
  inPipe,    \* requests written to the hook, and not read
  greeted,   \* the hook wrote its first line
  asked,     \* the request that the hook read and did not answer
  extras,    \* number of lines that answer no request
  outPipe,   \* lines written by the hook, and not read
  pump,      \* the thread that reads the hook's stdout
  hand,      \* the line that the pump read and did not send
  chan       \* lines in the channel

hostVars  == <<host, dead, dropping, call, answers>>
childVars == <<child, ear, inPipe, greeted, asked, extras>>
vars      == <<hostVars, childVars, outPipe, pump, hand, chan>>

Bye       == 0                \* the shutdown message
NoRequest == -1
Requests  == 1..MaxCalls

\* "hello" is a good handshake, "answer" a result or a typed error, "junk" any
\* other line, "long" one over the limit.
Kinds  == {"hello", "answer", "junk", "long"}
Lines  == [of : Requests \cup {Bye, NoRequest}, kind : Kinds]
NoLine == [of |-> NoRequest, kind |-> "none"]

Bounded(S, n) == {s \in Seq(S) : Len(s) <= n}

HookTypeOK ==
  /\ host \in {"start", "hello", "idle", "send", "sendbig", "await", "bye", "grace",
               "reap", "drop", "join", "gone", "refused"}
  /\ dead \in BOOLEAN /\ dropping \in BOOLEAN
  /\ call \in 0..MaxCalls
  /\ answers \in [Requests -> Requests \cup {Bye, NoRequest}]
  /\ child \in {"none", "running", "exited", "reaped"}
  /\ ear \in BOOLEAN /\ greeted \in BOOLEAN
  /\ asked \in Requests \cup {Bye, NoRequest}
  /\ extras \in 0..MaxExtras
  /\ inPipe \in Bounded(Requests \cup {Bye}, PipeCap)
  /\ outPipe \in Bounded(Lines, OutCap)
  /\ chan \in Bounded(Lines, ChanCap)
  /\ hand \in Lines \cup {NoLine}
  /\ pump \in {"up", "down"}

HookInit ==
  /\ host = "start" /\ dead = FALSE /\ dropping = FALSE
  /\ call = 0 /\ answers = [n \in Requests |-> n]
  /\ child = "none" /\ ear = FALSE /\ inPipe = <<>>
  /\ greeted = FALSE /\ asked = NoRequest /\ extras = 0
  /\ outPipe = <<>> /\ pump = "down" /\ hand = NoLine /\ chan = <<>>

-----------------------------------------------------------------------------
(* The host: spawn and handshake. *)

Spawn ==
  /\ host = "start" /\ host' = "hello"
  /\ child' = "running" /\ ear' = TRUE /\ pump' = "up"
  /\ UNCHANGED <<dead, dropping, call, answers, inPipe, greeted, asked, extras,
                 outPipe, hand, chan>>

SpawnFails ==
  /\ host = "start" /\ host' = "refused"
  /\ UNCHANGED <<dead, dropping, call, answers, childVars, outPipe, pump, hand, chan>>

\* The process is gone; what it wrote stays in the pipe.
Ended(how) ==
  /\ child' = how /\ ear' = FALSE /\ inPipe' = <<>> /\ asked' = NoRequest
  /\ UNCHANGED <<greeted, extras>>

\* child.kill, then child.wait.
KillAndReap == Ended("reaped")

Greeting ==
  /\ host = "hello" /\ chan # <<>> /\ Head(chan).kind = "hello"
  /\ host' = "idle" /\ chan' = Tail(chan)
  /\ UNCHANGED <<dead, dropping, call, answers, childVars, outPipe, pump, hand>>

BadGreeting ==
  /\ host = "hello" /\ chan # <<>> /\ Head(chan).kind # "hello"
  /\ host' = "refused" /\ chan' = Tail(chan)
  /\ KillAndReap
  /\ UNCHANGED <<dead, dropping, call, answers, outPipe, pump, hand>>

\* Broken variant: the error is returned at once.
NoGreetingReturns ==
  /\ host = "hello" /\ chan = <<>>
  /\ host' = "refused"
  /\ UNCHANGED <<dead, dropping, call, answers, childVars, outPipe, pump, hand, chan>>

\* The handshake times out, or the pump is gone.
NoGreeting ==
  /\ host = "hello" /\ chan = <<>>
  /\ host' = "refused"
  /\ KillAndReap
  /\ UNCHANGED <<dead, dropping, call, answers, outPipe, pump, hand, chan>>

-----------------------------------------------------------------------------
(* The host: an exchange. *)

\* Broken variant: a hook that failed is used again.
CallAnyway ==
  /\ host = "idle" /\ call < MaxCalls
  /\ call' = call + 1
  /\ host' \in {"send", "sendbig"}
  /\ UNCHANGED <<dead, dropping, answers, childVars, outPipe, pump, hand, chan>>

\* A request fits in the pipe, or needs a hook that reads it ("sendbig").
Call ==
  /\ host = "idle" /\ ~dead /\ call < MaxCalls
  /\ call' = call + 1
  /\ host' \in {"send", "sendbig"}
  /\ UNCHANGED <<dead, dropping, answers, childVars, outPipe, pump, hand, chan>>

\* A request over the size limit, or one that cannot be serialised.
CallTooLarge ==
  /\ host = "idle" /\ ~dead /\ call < MaxCalls
  /\ call' = call + 1
  /\ dead' = TRUE
  /\ UNCHANGED <<host, dropping, answers, childVars, outPipe, pump, hand, chan>>

Send ==
  /\ host = "send" /\ ear /\ Len(inPipe) < PipeCap
  /\ inPipe' = Append(inPipe, call)
  /\ host' = "await"
  /\ UNCHANGED <<dead, dropping, call, answers, child, ear, greeted, asked, extras,
                 outPipe, pump, hand, chan>>

\* The hook reads while the host writes.
SendThrough ==
  /\ host = "sendbig" /\ ear /\ inPipe = <<>> /\ asked = NoRequest
  /\ asked' = call
  /\ host' = "await"
  /\ UNCHANGED <<dead, dropping, call, answers, child, ear, inPipe, greeted, extras,
                 outPipe, pump, hand, chan>>

\* Broken pipe.  The hook is marked dead, and not killed.
SendFails ==
  /\ host \in {"send", "sendbig"} /\ ~ear
  /\ host' = "idle" /\ dead' = TRUE
  /\ UNCHANGED <<dropping, call, answers, childVars, outPipe, pump, hand, chan>>

Receive ==
  /\ host = "await" /\ chan # <<>> /\ Head(chan).kind = "answer"
  /\ answers' = [answers EXCEPT ![call] = Head(chan).of]
  /\ host' = "idle" /\ chan' = Tail(chan)
  /\ UNCHANGED <<dead, dropping, call, childVars, outPipe, pump, hand>>

\* A line that is no response, or the pump's error.
ReceiveBad ==
  /\ host = "await" /\ chan # <<>> /\ Head(chan).kind # "answer"
  /\ host' = "idle" /\ dead' = TRUE /\ chan' = Tail(chan)
  /\ KillAndReap
  /\ UNCHANGED <<dropping, call, answers, outPipe, pump, hand>>

\* Broken variant: a hook that is late is used again.
ReceiveNothingYet ==
  /\ host = "await" /\ chan = <<>>
  /\ host' = "idle"
  /\ UNCHANGED <<dead, dropping, call, answers, childVars, outPipe, pump, hand, chan>>

\* The deadline passes, or the pump is gone.
ReceiveNothing ==
  /\ host = "await" /\ chan = <<>>
  /\ host' = "idle" /\ dead' = TRUE
  /\ KillAndReap
  /\ UNCHANGED <<dropping, call, answers, outPipe, pump, hand, chan>>

-----------------------------------------------------------------------------
(* The host: shutdown and Drop. *)

\* From the caller, or from Drop when the hook is not dead.
Shutdown ==
  /\ host = "idle" /\ ~dead
  /\ host' = "bye" /\ dead' = TRUE
  /\ dropping' \in BOOLEAN
  /\ UNCHANGED <<call, answers, childVars, outPipe, pump, hand, chan>>

\* A dead hook is waited for, and not killed.
ShutdownDead ==
  /\ host = "idle" /\ dead
  /\ host' = "reap"
  /\ UNCHANGED <<dead, dropping, call, answers, childVars, outPipe, pump, hand, chan>>

Reap ==
  /\ host = "reap" /\ child # "running"
  /\ host' = "idle"
  /\ Ended("reaped")
  /\ UNCHANGED <<dead, dropping, call, answers, outPipe, pump, hand, chan>>

\* The shutdown message; an error is ignored.  Then stdin is closed.
SayBye ==
  /\ host = "bye" /\ (ear => Len(inPipe) < PipeCap)
  /\ inPipe' = IF ear THEN Append(inPipe, Bye) ELSE inPipe
  /\ host' = "grace"
  /\ UNCHANGED <<dead, dropping, call, answers, child, ear, greeted, asked, extras,
                 outPipe, pump, hand, chan>>

\* Broken variant: the hook is waited for, and not killed.
GraceWithoutEnd ==
  /\ host = "grace" /\ child # "running"
  /\ host' = IF dropping THEN "drop" ELSE "idle"
  /\ KillAndReap
  /\ UNCHANGED <<dead, dropping, call, answers, outPipe, pump, hand, chan>>

\* The hook exits within the grace, or is killed after it.
Grace ==
  /\ host = "grace"
  /\ host' = IF dropping THEN "drop" ELSE "idle"
  /\ KillAndReap
  /\ UNCHANGED <<dead, dropping, call, answers, outPipe, pump, hand, chan>>

DropDead ==
  /\ host = "idle" /\ dead
  /\ host' = "drop" /\ dropping' = TRUE
  /\ UNCHANGED <<dead, call, answers, childVars, outPipe, pump, hand, chan>>

DropReaps ==
  /\ host = "drop" /\ host' = "join"
  /\ KillAndReap
  /\ UNCHANGED <<dead, dropping, call, answers, outPipe, pump, hand, chan>>

\* The pump is joined before the receiver of its channel is dropped.
Join ==
  /\ host = "join" /\ pump = "down"
  /\ host' = "gone"
  /\ UNCHANGED <<dead, dropping, call, answers, childVars, outPipe, pump, hand, chan>>

-----------------------------------------------------------------------------
(* The pump. *)

PumpReads ==
  /\ pump = "up" /\ hand = NoLine /\ outPipe # <<>>
  /\ hand' = Head(outPipe) /\ outPipe' = Tail(outPipe)
  /\ UNCHANGED <<hostVars, childVars, pump, chan>>

\* Broken variant: the receiver is leaked.
ListeningForever == TRUE

\* The receiver is dropped with the PersistentHook, or when spawn gives up.
Listening == host \notin {"gone", "refused"}

\* Broken variant: the channel has no bound.
PumpSendsUnbounded ==
  /\ hand # NoLine /\ Listening
  /\ chan' = Append(chan, hand) /\ hand' = NoLine
  /\ pump' = IF hand.kind = "long" THEN "down" ELSE pump
  /\ UNCHANGED <<hostVars, childVars, outPipe>>

\* A line over the limit is sent as an error, and ends the pump.
PumpSends ==
  /\ hand # NoLine /\ Listening /\ Len(chan) < ChanCap
  /\ chan' = Append(chan, hand) /\ hand' = NoLine
  /\ pump' = IF hand.kind = "long" THEN "down" ELSE pump
  /\ UNCHANGED <<hostVars, childVars, outPipe>>

PumpGivesUp ==
  /\ hand # NoLine /\ ~Listening
  /\ hand' = NoLine /\ pump' = "down"
  /\ UNCHANGED <<hostVars, childVars, outPipe, chan>>

PumpEof ==
  /\ pump = "up" /\ hand = NoLine /\ outPipe = <<>> /\ child # "running"
  /\ pump' = "down"
  /\ UNCHANGED <<hostVars, childVars, outPipe, hand, chan>>

-----------------------------------------------------------------------------
(* The hook. *)

Write(line) == Len(outPipe) < OutCap /\ outPipe' = Append(outPipe, line)

Greets ==
  /\ child = "running" /\ ~greeted /\ greeted' = TRUE
  /\ \E k \in Kinds : Write([of |-> NoRequest, kind |-> k])
  /\ UNCHANGED <<hostVars, child, ear, inPipe, asked, extras, pump, hand, chan>>

Reads ==
  /\ child = "running" /\ ear /\ asked = NoRequest /\ inPipe # <<>>
  /\ asked' = Head(inPipe) /\ inPipe' = Tail(inPipe)
  /\ UNCHANGED <<hostVars, child, ear, greeted, extras, outPipe, pump, hand, chan>>

Answers ==
  /\ child = "running" /\ greeted /\ asked # NoRequest /\ asked' = NoRequest
  /\ \E k \in Kinds : Write([of |-> asked, kind |-> k])
  /\ UNCHANGED <<hostVars, child, ear, inPipe, greeted, extras, pump, hand, chan>>

\* It writes a line that nobody asked for.
Chatters ==
  /\ child = "running" /\ greeted /\ extras < MaxExtras /\ extras' = extras + 1
  /\ \E k \in Kinds : Write([of |-> NoRequest, kind |-> k])
  /\ UNCHANGED <<hostVars, child, ear, inPipe, greeted, asked, pump, hand, chan>>

Deaf ==
  /\ child = "running" /\ ear
  /\ ear' = FALSE /\ inPipe' = <<>>
  /\ UNCHANGED <<hostVars, child, greeted, asked, extras, outPipe, pump, hand, chan>>

Exits ==
  /\ child = "running"
  /\ Ended("exited")
  /\ UNCHANGED <<hostVars, outPipe, pump, hand, chan>>

-----------------------------------------------------------------------------
\* What the owner of the hook chooses to do next.
Owner == Spawn \/ SpawnFails \/ Call \/ CallTooLarge \/ Shutdown \/ ShutdownDead \/ DropDead

\* What the host does in the middle of it.
Host ==
  \/ Greeting \/ BadGreeting \/ NoGreeting
  \/ Send \/ SendFails \/ Receive \/ ReceiveBad \/ ReceiveNothing
  \/ Reap \/ SayBye \/ Grace \/ DropReaps \/ Join

Pump == PumpReads \/ PumpSends \/ PumpGivesUp \/ PumpEof

Hook == Greets \/ Reads \/ SendThrough \/ Answers \/ Chatters \/ Deaf \/ Exits

HookNext == Owner \/ Host \/ Pump \/ Hook

HookSpec == HookInit /\ [][HookNext]_vars

\* The two threads run on; the hook and the owner do what they like.
HookLiveSpec == HookSpec /\ WF_vars(Host) /\ WF_vars(Pump)

-----------------------------------------------------------------------------
(* Properties. *)

\* "PersistentHook::drop guarantees zero orphans", and a hook that is refused
\* at the handshake leaves none: no process survives its handle.
NoOrphans == host \in {"gone", "refused"} => child \in {"none", "reaped"}

\* Messages carry no number, so that a line is taken for the answer to the last
\* request.  It is, for a hook that writes one line for each request: the answer
\* to a request that timed out is never taken for that to a later one.
AnswersMatch == extras = 0 => \A n \in Requests : answers[n] = n

\* What the owner of the handle sees of all this.
Life ==
  CASE host = "start" -> "new"
    [] host = "hello" -> "opening"
    [] host \in {"gone", "refused"} -> "over"
    [] OTHER -> IF dead THEN "spent" ELSE "open"

Handle == INSTANCE HookHandle WITH
  life <- Life, busy <- host \in {"send", "sendbig", "await"}, asked <- call,
  wrong <- {n \in Requests : answers[n] # n}, orderly <- extras = 0,
  alive <- child = "running"

\* One request at a time, none after a failure, a deadline or a shutdown; each
\* reply to its own request; a process that ends with its handle and is never
\* started again (PersistentHook, "dead instances always return an error").
ImplementsHookHandle == Handle!Spec

\* The waits that the host cannot end: it writes to a hook that does not read;
\* it waits for a hook that it marked dead and did not kill; it joins a pump
\* that waits for room in the channel which the host has stopped to empty.
Stuck ==
  \/ host \in {"send", "bye"} /\ Len(inPipe) = PipeCap
  \/ host = "sendbig" /\ ear
  \/ host = "reap" /\ child = "running"
  \/ host = "join" /\ hand # NoLine /\ Len(chan) = ChanCap

Resting == host \in {"start", "idle", "gone", "refused"}

\* spawn, an exchange, shutdown and drop return, unless one of those waits lasts.
OperationsReturn == ~Resting ~> (Resting \/ []Stuck)

\* "both threads exit cleanly": no pump survives its handle, not even that of a
\* hook refused at the handshake, which nobody joins.
PumpEnds == host \in {"gone", "refused"} ~> pump = "down"
=============================================================================
