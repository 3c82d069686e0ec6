----------------------------- MODULE MCCoverage -----------------------------
(***************************************************************************)
(* Two sessions and three instants: a steady poller can be seen three      *)
(* times while the other session interleaves with it, the times of the     *)
(* file may go back, and two dissectors may report one request.            *)
(***************************************************************************)
EXTENDS Coverage

Yields(requests, responses) ==
  [requests |-> requests, responses |-> responses]

MCTime == 0 .. 2
MCSession == {0, 1}
MCKinds == {Yields(1, 0), Yields(0, 1), Yields(2, 0)}
MCMaxPackets == 4
=============================================================================
