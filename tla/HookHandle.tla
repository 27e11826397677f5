----------------------------- MODULE HookHandle -----------------------------
(***************************************************************************)
(* What a PersistentHook promises its owner, whatever the pipes, the pump  *)
(* and the hook do.  A handle takes one request at a time, from the        *)
(* handshake until something fails or the owner shuts it down; from then   *)
(* on it takes none.  As long as the hook writes one line for each         *)
(* request, each reply is to the request that was asked.  The process is   *)
(* started once, may end at any time, and has ended when the handle has.   *)
(***************************************************************************)
EXTENDS Naturals

VARIABLES
  life,     \* "new", "opening", "open", "spent" or "over"
  busy,     \* the owner waits for a reply
  asked,    \* number of requests made so far
  wrong,    \* requests that were given the reply to another one
  orderly,  \* the hook wrote no line that nobody asked for
  alive     \* its process runs

vars == <<life, busy, asked, wrong, orderly, alive>>

Init ==
  /\ life = "new" /\ ~busy /\ asked = 0 /\ wrong = {}
  /\ orderly = TRUE /\ alive = FALSE

Open ==
  /\ life = "new" /\ life' = "opening"
  /\ alive' = TRUE
  /\ UNCHANGED <<busy, asked, wrong, orderly>>

Welcome ==
  /\ life = "opening" /\ life' = "open"
  /\ UNCHANGED <<busy, asked, wrong, orderly, alive>>

Ask ==
  /\ life = "open" /\ ~busy
  /\ asked' = asked + 1 /\ busy' = TRUE
  /\ UNCHANGED <<life, wrong, orderly, alive>>

Reply ==
  /\ life = "open" /\ busy
  /\ busy' = FALSE
  /\ wrong' = wrong \/ (~orderly /\ wrong' = wrong \cup {asked})
  /\ UNCHANGED <<life, asked, orderly, alive>>

\* A request that cannot be written.
Refuse ==
  /\ life = "open" /\ ~busy /\ life' = "spent"
  /\ asked' = asked + 1
  /\ UNCHANGED <<busy, wrong, orderly, alive>>

\* A reply that is none, or does not come, or a shutdown.
Spend ==
  /\ life = "open" /\ life' = "spent"
  /\ busy' = FALSE
  /\ alive' = alive \/ alive' = FALSE
  /\ UNCHANGED <<asked, wrong, orderly>>

\* A handle that is open is not dropped before it is spent.
Close ==
  /\ life \in {"new", "opening", "spent"} /\ life' = "over"
  /\ alive' = FALSE
  /\ UNCHANGED <<busy, asked, wrong, orderly>>

Misbehave ==
  /\ alive
  /\ orderly' = FALSE
  /\ UNCHANGED <<life, busy, asked, wrong, alive>>

Die ==
  /\ alive /\ alive' = FALSE
  /\ UNCHANGED <<life, busy, asked, wrong, orderly>>

Next ==
  \/ Open \/ Welcome \/ Ask \/ Reply \/ Refuse \/ Spend \/ Close
  \/ Misbehave \/ Die

Spec == Init /\ [][Next]_vars
=============================================================================
