---------------------------- MODULE TrafficTable ----------------------------
(***************************************************************************)
(* What the communication matrix promises about a capture, with no loop    *)
(* and no dictionary: in one step the capture yields a table with one row  *)
(* per pair of endpoints that exchanged payload.                           *)
(***************************************************************************)
EXTENDS Integers, Sequences, FiniteSets

CONSTANTS NoEndpoint, NoPayload

VARIABLES capture, table

NoTable == [ready |-> FALSE, rows |-> {}]

Ends(n) == {capture[n].src, capture[n].dst}
Tcp == {n \in DOMAIN capture : capture[n].tcp}
WithPayload == {n \in Tcp : capture[n].payload # NoPayload}

Earliest(S) == CHOOSE n \in S : \A m \in S : n <= m

\* The packets that begin a conversation, one per pair of endpoints.
Beginnings == {n \in WithPayload : \A m \in WithPayload :
                                     Ends(m) = Ends(n) => n <= m}

Openings(n) == {m \in Tcp : capture[m].flags = {"S"} /\ Ends(m) = Ends(n)}

\* The party observed to open the conversation that packet n begins.
Initiator(n) == IF Openings(n) = {} THEN NoEndpoint
                ELSE capture[Earliest(Openings(n))].src

\* The row runs from the initiator, or else from the first sender.
Source(n) == IF Openings(n) = {} THEN capture[n].src ELSE Initiator(n)
Target(n) == CHOOSE e \in Ends(n) : Ends(n) = {Source(n), e}

Row(n) == [session_id   |-> Cardinality({m \in Beginnings : m < n}),
           source       |-> Source(n),
           target       |-> Target(n),
           initiator    |-> Initiator(n),
           packet_count |-> Cardinality({m \in Tcp : Ends(m) = Ends(n)})]

Init == table = NoTable

Tabulate ==
  /\ table = NoTable
  /\ table' = [ready |-> TRUE, rows |-> {Row(n) : n \in Beginnings}]
  /\ UNCHANGED capture

Spec == Init /\ [][Tabulate]_<<capture, table>>
=============================================================================
