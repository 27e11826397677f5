---------------------------- MODULE DurablePages ----------------------------
(***************************************************************************)
(* What the editing core promises about a page, whatever its threads do.   *)
(* An editor sees some of the edits that were sent.  A write that succeeds *)
(* leaves every edit in the file that it was due to save; one that fails   *)
(* may leave any part of them.  What was due once, because it was seen or  *)
(* in the file, stays seen and due until a restart, so that the next write *)
(* that succeeds repairs the file.  A restart, and nothing else, may lose  *)
(* what the file lacks.                                                    *)
(***************************************************************************)
EXTENDS Naturals

CONSTANTS Pages, Edits

VARIABLES
  sent,   \* edits the server has received
  seen,   \* [Pages -> SUBSET Edits], what an editor of the page is shown
  due,    \* [Pages -> SUBSET Edits], what the next write of the page is to leave
  saved,  \* [Pages -> SUBSET Edits], what the file of the page shows
  restarts

vars == <<sent, seen, due, saved, restarts>>

Init ==
  /\ sent = {}
  /\ seen = [p \in Pages |-> {}]
  /\ due = [p \in Pages |-> {}]
  /\ saved = [p \in Pages |-> {}]
  /\ restarts = 0

\* What is due catches up with some of what is seen.
CatchUp ==
  /\ due' \in [Pages -> SUBSET Edits]
  /\ \A p \in Pages : due[p] \subseteq due'[p] /\ due'[p] \subseteq seen'[p]

Send(e) ==
  /\ sent' = sent \cup {e}
  /\ UNCHANGED <<seen, due, saved, restarts>>

Accept(p, e) ==
  /\ e \in sent
  /\ seen' = [seen EXCEPT ![p] = @ \cup {e}]
  /\ CatchUp
  /\ UNCHANGED <<sent, saved, restarts>>

Save(p) ==
  /\ saved' = [saved EXCEPT ![p] = due[p]]
  /\ CatchUp
  /\ UNCHANGED <<sent, seen, restarts>>

SaveFails(p, S) ==
  /\ S \subseteq due[p]
  /\ saved' = [saved EXCEPT ![p] = S]
  /\ CatchUp
  /\ UNCHANGED <<sent, seen, restarts>>

Restart(seen2) ==
  /\ \A p \in Pages : saved[p] \subseteq seen2[p] /\ seen2[p] \subseteq sent
  /\ seen' = seen2 /\ due' = seen2
  /\ restarts' = restarts + 1
  /\ UNCHANGED <<sent, saved>>

Next ==
  \/ \E e \in Edits : Send(e)
  \/ \E p \in Pages, e \in Edits : Accept(p, e)
  \/ \E p \in Pages : Save(p)
  \/ \E p \in Pages, S \in SUBSET Edits : SaveFails(p, S)
  \/ \E seen2 \in [Pages -> SUBSET Edits] : Restart(seen2)

Spec == Init /\ [][Next]_vars

\* The file never shows an edit that nobody sees, or that nobody sent.
SavedWasSeen ==
  \A p \in Pages :
    saved[p] \subseteq due[p] /\ due[p] \subseteq seen[p] /\ seen[p] \subseteq sent
=============================================================================
