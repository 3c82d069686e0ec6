----------------------------- MODULE CommMatrix -----------------------------
(***************************************************************************)
(* The communication matrix: build_comm_matrix of src/wayside/flow.py, and *)
(* the two sections analyze derives beside it from the same packets, the   *)
(* conversations and the count of sessions without payload.                *)
(*                                                                         *)
(* Three loops after the dissectors have finished: over the segments, over *)
(* all packets, and over the sessions in the order they were met.          *)
(***************************************************************************)
EXTENDS Dissection, Functions

VARIABLES
  phase,           \* the loop of build_comm_matrix being run
  here,            \* the next element it visits
  order,           \* sessions in the order they are first met
  first_sender,    \* session -> endpoints of its first segment
  session_by_key,  \* session key -> identifier
  packet_counts,   \* session -> packets counted so far
  comm_matrix      \* the rows

matrixVars == <<phase, here, order, first_sender, session_by_key,
                packet_counts, comm_matrix>>
allMatrixVars == <<allDissectVars, matrixVars>>

NoPair == <<NoEndpoint, NoEndpoint>>

-----------------------------------------------------------------------------
MatrixInit ==
  /\ DissectInit
  /\ phase = "sessions"
  /\ here = 1
  /\ order = <<>>
  /\ first_sender = [id \in SessionId |-> NoPair]
  /\ session_by_key = [k \in Key |-> NoSession]
  /\ packet_counts = [id \in SessionId |-> 0]
  /\ comm_matrix = <<>>

EndPhase(from, to, len) ==
  /\ sorted
  /\ phase = from
  /\ here > len
  /\ phase' = to
  /\ here' = 1
  /\ UNCHANGED <<allDissectVars, order, first_sender, session_by_key,
                 packet_counts, comm_matrix>>

(***************************************************************************)
(* First pass: sessions and the first sender of payload.                   *)
(***************************************************************************)
MeetSession ==
  /\ sorted
  /\ phase = "sessions"
  /\ here <= Len(segments)
  /\ LET s  == segments[here]
         id == s.session_id
         new == first_sender[id] = NoPair
     IN  /\ session_by_key' = SetDefault(session_by_key, SegmentKey(s), id,
                                         NoSession)
         /\ order' = IF new THEN Append(order, id) ELSE order
         /\ first_sender' = SetDefault(first_sender, id,
                              <<FrameOf(s).src, FrameOf(s).dst>>, NoPair)
  /\ here' = here + 1
  /\ UNCHANGED <<allDissectVars, phase, packet_counts, comm_matrix>>

(***************************************************************************)
(* Second pass: every TCP packet of a session with payload counts, the     *)
(* empty ones included (assumption Z-33).                                  *)
(***************************************************************************)
CountsTruthyId(p) == p.tcp /\ session_by_key[PacketKey(p)] > 0   \* mutant
Counts(p) == p.tcp /\ session_by_key[PacketKey(p)] # NoSession

CountPacket ==
  /\ sorted
  /\ phase = "packets"
  /\ here <= Len(packets)
  /\ LET p == packets[here]
     IN  packet_counts' =
           IF Counts(p)
           THEN [packet_counts EXCEPT ![session_by_key[PacketKey(p)]] = @ + 1]
           ELSE packet_counts
  /\ here' = here + 1
  /\ UNCHANGED <<allDissectVars, phase, order, first_sender, session_by_key,
                 comm_matrix>>

(***************************************************************************)
(* The row of a session.  With an observed initiator the row runs from it, *)
(* and source and target are observations; otherwise they are inferred     *)
(* from the first sender and the initiator is not derivable.               *)
(***************************************************************************)
ProtocolsIn(list, id) ==
  {e.protocol : e \in {f \in Reported(list) : f.session_id = id}}

MixedLabel(id) ==                                             \* mutant
  ProtocolsIn(protocol_events, id) \cup ProtocolsIn(low_confidence_events, id)

\* High-confidence protocols, else low-confidence ones, else none ("tcp").
Label(id) ==
  IF ProtocolsIn(protocol_events, id) # {}
  THEN ProtocolsIn(protocol_events, id)
  ELSE ProtocolsIn(low_confidence_events, id)

FirstSenderParties(id) == first_sender[id]                    \* mutant
InitiatorFirstTarget(id) ==                                   \* mutant
  <<IF initiators[id] = NoEndpoint THEN first_sender[id][1]
    ELSE initiators[id],
    first_sender[id][2]>>

Parties(id) ==
  LET first == first_sender[id]
      init  == initiators[id]
  IN  IF init = NoEndpoint THEN first
      ELSE <<init, IF first[1] = init THEN first[2] ELSE first[1]>>

RowOf(id) ==
  [session_id   |-> id,
   source       |-> Parties(id)[1],
   target       |-> Parties(id)[2],
   provenance   |-> IF initiators[id] = NoEndpoint THEN "inferred"
                    ELSE "observed",
   initiator    |-> initiators[id],
   protocol     |-> Label(id),
   packet_count |-> packet_counts[id]]

AddRow ==
  /\ sorted
  /\ phase = "rows"
  /\ here <= Len(order)
  /\ comm_matrix' = Append(comm_matrix, RowOf(order[here]))
  /\ here' = here + 1
  /\ UNCHANGED <<allDissectVars, phase, order, first_sender, session_by_key,
                 packet_counts>>

MatrixNext ==
  \/ DissectNext /\ UNCHANGED matrixVars
  \/ MeetSession
  \/ EndPhase("sessions", "packets", Len(segments))
  \/ CountPacket
  \/ EndPhase("packets", "rows", Len(packets))
  \/ AddRow
  \/ EndPhase("rows", "built", Len(order))

MatrixSpec == MatrixInit /\ [][MatrixNext]_allMatrixVars

-----------------------------------------------------------------------------
(***************************************************************************)
(* The conversations section: one entry per session in the order of its    *)
(* first segment, counting segments.                                       *)
(***************************************************************************)
FirstSegments ==
  {i \in DOMAIN segments : \A j \in 1 .. i - 1 :
                             segments[j].session_id # segments[i].session_id}

Conversations ==
  {[session_id   |-> segments[i].session_id,
    endpoints    |-> {FrameOf(segments[i]).src, FrameOf(segments[i]).dst},
    packet_count |-> Cardinality({j \in DOMAIN segments :
                       segments[j].session_id = segments[i].session_id})]
     : i \in FirstSegments}

\* Keys of TCP packets that no segment has.
PayloadlessSessionKeys ==
  {PacketKey(packets[n]) : n \in {m \in DOMAIN packets : packets[m].tcp}}
    \ {SegmentKey(segments[i]) : i \in DOMAIN segments}

-----------------------------------------------------------------------------
Built == phase = "built"
Rows == Reported(comm_matrix)

\* Type invariant.
MatrixTypeOK ==
  /\ DissectTypeOK
  /\ phase \in {"sessions", "packets", "rows", "built"}
  /\ here \in 1 .. MaxPackets + 1
  /\ order \in Seq(SessionId)
  /\ first_sender \in [SessionId -> (Endpoint \X Endpoint) \cup {NoPair}]
  /\ session_by_key \in [Key -> SessionId \cup {NoSession}]
  /\ packet_counts \in [SessionId -> 0 .. MaxPackets]
  /\ comm_matrix \in Seq([session_id : SessionId,
                          source : Endpoint, target : Endpoint,
                          provenance : {"observed", "inferred"},
                          initiator : Endpoint \cup {NoEndpoint},
                          protocol : SUBSET Protocol,
                          packet_count : 1 .. MaxPackets])

(***************************************************************************)
(* Nothing vanishes without a trace (FLOW-03): every TCP packet of the     *)
(* capture is counted in exactly one row or belongs to a session counted   *)
(* as payloadless, and the two kinds of session are disjoint.              *)
(***************************************************************************)
EveryTcpPacketAccounted ==
  Built =>
    LET tcp     == {n \in DOMAIN packets : packets[n].tcp}
        silent  == {n \in tcp :
                      PacketKey(packets[n]) \in PayloadlessSessionKeys}
        counted == SumFunction([i \in DOMAIN comm_matrix |->
                                  comm_matrix[i].packet_count])
    IN  /\ counted + Cardinality(silent) = Cardinality(tcp)
        /\ \A r \in Rows : {r.source, r.target} \notin PayloadlessSessionKeys

(***************************************************************************)
(* The matrix and the conversations section describe the same sessions     *)
(* with the same endpoints; a row counts at least the segments of its      *)
(* conversation, and more when an empty packet opened it.                  *)
(***************************************************************************)
MatrixAgreesWithConversations ==
  Built =>
    /\ {r.session_id : r \in Rows} = {v.session_id : v \in Conversations}
    /\ \A r \in Rows : \E v \in Conversations :
         /\ v.session_id = r.session_id
         /\ v.endpoints = {r.source, r.target}
         /\ r.packet_count >= v.packet_count
         /\ (r.initiator # NoEndpoint
               /\ \A n \in OpeningPackets(v.endpoints) :
                    packets[n].payload = NoPayload)
              => r.packet_count > v.packet_count

(***************************************************************************)
(* The label of a row names every high-confidence protocol recognised in   *)
(* its session; a low-confidence recognition shows only where there is no  *)
(* other, and a row is unrecognised only if no dissector reported it.      *)
(***************************************************************************)
LabelKeepsConfidence ==
  Built =>
    \A r \in Rows :
      LET high == {e \in HighEvents : e.session_id = r.session_id}
          low  == {e \in LowEvents : e.session_id = r.session_id}
      IN  /\ \A e \in high : e.protocol \in r.protocol
          /\ high # {} => RtuOverTcp \notin r.protocol
          /\ r.protocol = {} => high \cup low = {}

(***************************************************************************)
(* The finished matrix, labels and provenance aside, is the table that     *)
(* TrafficTable promises.                                                  *)
(***************************************************************************)
Table == INSTANCE TrafficTable WITH
           capture <- packets,
           table <- [ready |-> Built,
                     rows |-> IF ~Built THEN {} ELSE
                       {[session_id |-> r.session_id, source |-> r.source,
                         target |-> r.target, initiator |-> r.initiator,
                         packet_count |-> r.packet_count] : r \in Rows}]

ImplementsTable == Table!Spec
=============================================================================
