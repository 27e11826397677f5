---------------------------- MODULE MCEditRooms ----------------------------
(* The instance of EditRooms for TLC: a connection of each of two users. *)
EXTENDS EditRooms

CONSTANTS c1, c2, alice, bob, o1, o2

MCUser == [c \in Conns |-> IF c = c2 THEN bob ELSE alice]
\* The two connections are alike, and so are the two ops.
OpReachesMember == OpReaches(c1, o1)
=============================================================================
