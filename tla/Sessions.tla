------------------------------ MODULE Sessions ------------------------------
(***************************************************************************)
(* TCP session numbering and session initiators: decode_segments and       *)
(* find_session_initiators of src/wayside/decode.py.                        *)
(*                                                                         *)
(* The capture is a finite sequence of frames, fixed before the first      *)
(* step.  Three passes run one after the other, each visiting its          *)
(* sequence once and in order:                                             *)
(*   "decode"      packets -> segments; numbers a session at its first     *)
(*                 segment that carries payload;                           *)
(*   "numbering"   segments -> renumbered; rebuilds the same dictionary    *)
(*                 from the segments alone;                                *)
(*   "initiators"  packets -> initiators; the first connection-opening     *)
(*                 packet of a numbered session names its initiator.       *)
(* One step is one iteration of one loop.  A dictionary is a total         *)
(* function whose absent entries hold a sentinel.                          *)
(***************************************************************************)
EXTENDS Integers, Sequences

CONSTANTS
  Endpoint,     \* (ip, port) pairs
  NoEndpoint,   \* no entry in the dictionary of initiators
  NoPayload,    \* the empty TCP payload
  Frames,       \* the frames a capture may contain
  MaxPackets    \* bound on the length of a capture

(***************************************************************************)
(* A frame tells whether it has an IP and a TCP layer and, if so, its two  *)
(* endpoints, its SYN and ACK flags and its payload.  Modules that extend  *)
(* this one give frames further fields.                                    *)
(***************************************************************************)
ASSUME FrameAssumption ==
  /\ NoEndpoint \notin Endpoint
  /\ MaxPackets \in Nat
  /\ \A f \in Frames : /\ f.tcp \in BOOLEAN
                       /\ f.src \in Endpoint
                       /\ f.dst \in Endpoint
                       /\ f.flags \in SUBSET {"S", "A"}

VARIABLES
  packets,          \* the capture, as read_capture returned it
  pass,             \* the loop being run
  pos,              \* the next element of the sequence that loop visits
  segments,         \* result of decode_segments
  session_ids,      \* its dictionary: session key -> identifier
  next_session_id,  \* its counter
  renumbered,       \* the dictionary find_session_initiators rebuilds
  initiators        \* result of find_session_initiators

sessionVars == <<packets, pass, pos, segments, session_ids, next_session_id,
                 renumbered, initiators>>

NoSession == -1
SessionId == 0 .. MaxPackets - 1
Segment == [packet_number : 1 .. MaxPackets, session_id : SessionId]

(***************************************************************************)
(* The sorted pair of endpoints does not depend on the direction of the    *)
(* packet: it is the unordered pair.                                       *)
(***************************************************************************)
SplitSessionKey(src, dst) == {src}               \* mutant: forgets the peer
SessionKey(src, dst) == {src, dst}

Key == {{a, b} : a, b \in Endpoint}

PacketKey(p) == SessionKey(p.src, p.dst)

\* A segment copies the fields of its packet; here it refers to it.
FrameOf(s) == packets[s.packet_number]
SenderOnlyKey(s) == {FrameOf(s).src}       \* mutant: a second key builder
SegmentKey(s) == PacketKey(FrameOf(s))

(***************************************************************************)
(* A packet that opens a connection: SYN without ACK.                      *)
(***************************************************************************)
AnySynOpens(p) == p.tcp /\ "S" \in p.flags       \* mutant: counts SYN+ACK
Opens(p) == p.tcp /\ "S" \in p.flags /\ "A" \notin p.flags

HasPayload(p) == p.tcp /\ p.payload # NoPayload

\* Packets are numbered from 1, as packet viewers do.
ZeroBased(i) == i - 1                            \* mutant: a bare enumerate
PacketNumber(i) == i

\* The counter of decode_segments advances when a session is new to it.
CounterAlwaysAdvances(new) == next_session_id + 1   \* mutant
CounterAfter(new) == IF new THEN next_session_id + 1 ELSE next_session_id

-----------------------------------------------------------------------------
SessionInit ==
  /\ \E n \in 0 .. MaxPackets : packets \in [1 .. n -> Frames]
  /\ pass = "decode"
  /\ pos = 1
  /\ segments = <<>>
  /\ session_ids = [k \in Key |-> NoSession]
  /\ next_session_id = 0
  /\ renumbered = [k \in Key |-> NoSession]
  /\ initiators = [id \in SessionId |-> NoEndpoint]

\* The loop of pass `from` has visited everything: enter pass `to`.
EndPass(from, to, len) ==
  /\ pass = from
  /\ pos > len
  /\ pass' = to
  /\ pos' = 1
  /\ UNCHANGED <<packets, segments, session_ids, next_session_id, renumbered,
                 initiators>>

(***************************************************************************)
(* The loop of decode_segments: frames that are not TCP and packets with   *)
(* an empty payload are skipped but counted by packet_number.              *)
(***************************************************************************)
DecodeSkip ==
  /\ pass = "decode"
  /\ pos <= Len(packets)
  /\ ~HasPayload(packets[pos])
  /\ pos' = pos + 1
  /\ UNCHANGED <<packets, pass, segments, session_ids, next_session_id,
                 renumbered, initiators>>

DecodeSegment ==
  /\ pass = "decode"
  /\ pos <= Len(packets)
  /\ HasPayload(packets[pos])
  /\ LET key == PacketKey(packets[pos])
         new == session_ids[key] = NoSession
         id  == IF new THEN next_session_id ELSE session_ids[key]
     IN  /\ session_ids' = [session_ids EXCEPT ![key] = id]
         /\ next_session_id' = CounterAfter(new)
         /\ segments' = Append(segments,
                               [packet_number |-> PacketNumber(pos),
                                session_id |-> id])
  /\ pos' = pos + 1
  /\ UNCHANGED <<packets, pass, renumbered, initiators>>

(***************************************************************************)
(* dict.setdefault(key, value) on a dictionary whose absent entries hold   *)
(* `absent`.                                                               *)
(***************************************************************************)
SetDefault(d, key, value, absent) ==
  IF d[key] = absent THEN [d EXCEPT ![key] = value] ELSE d

Renumber ==
  /\ pass = "numbering"
  /\ pos <= Len(segments)
  /\ renumbered' = SetDefault(renumbered, SegmentKey(segments[pos]),
                              segments[pos].session_id, NoSession)
  /\ pos' = pos + 1
  /\ UNCHANGED <<packets, pass, segments, session_ids, next_session_id,
                 initiators>>

(***************************************************************************)
(* The packet loop of find_session_initiators.  An opening packet of a     *)
(* session without payload names nobody; of several opening packets of a   *)
(* numbered session the first in file order wins.                          *)
(***************************************************************************)
FindInitiator ==
  /\ pass = "initiators"
  /\ pos <= Len(packets)
  /\ LET p  == packets[pos]
         id == renumbered[PacketKey(p)]
     IN  initiators' = IF Opens(p) /\ id # NoSession
                       THEN SetDefault(initiators, id, p.src, NoEndpoint)
                       ELSE initiators
  /\ pos' = pos + 1
  /\ UNCHANGED <<packets, pass, segments, session_ids, next_session_id,
                 renumbered>>

SessionNext ==
  \/ DecodeSkip
  \/ DecodeSegment
  \/ EndPass("decode", "numbering", Len(packets))
  \/ Renumber
  \/ EndPass("numbering", "initiators", Len(segments))
  \/ FindInitiator
  \/ EndPass("initiators", "decoded", Len(packets))

SessionSpec == SessionInit /\ [][SessionNext]_sessionVars

-----------------------------------------------------------------------------
(***************************************************************************)
(* Type invariant.                                                         *)
(***************************************************************************)
SessionTypeOK ==
  /\ packets \in Seq(Frames)
  /\ Len(packets) <= MaxPackets
  /\ pass \in {"decode", "numbering", "initiators", "decoded"}
  /\ pos \in 1 .. MaxPackets + 1
  /\ segments \in Seq(Segment)
  /\ session_ids \in [Key -> SessionId \cup {NoSession}]
  /\ next_session_id \in 0 .. MaxPackets
  /\ renumbered \in [Key -> SessionId \cup {NoSession}]
  /\ initiators \in [SessionId -> Endpoint \cup {NoEndpoint}]

(***************************************************************************)
(* Two segments carry the same session identifier exactly when they run    *)
(* between the same two endpoints, whatever their directions: neither      *)
(* direction of a conversation is split off, no two conversations merge.   *)
(***************************************************************************)
Ends(s) == {FrameOf(s).src, FrameOf(s).dst}

SameSessionIffSameEndpoints ==
  \A i, j \in DOMAIN segments :
    segments[i].session_id = segments[j].session_id
      <=> Ends(segments[i]) = Ends(segments[j])

(***************************************************************************)
(* Identifiers are handed out in file order and without gaps: a segment    *)
(* carries an identifier only after every smaller one has been carried.    *)
(* The order of every section of analysis.json stands on this.             *)
(***************************************************************************)
NumberedInFileOrder ==
  \A i \in DOMAIN segments :
    \A id \in 0 .. segments[i].session_id - 1 :
      \E j \in 1 .. i - 1 : segments[j].session_id = id

(***************************************************************************)
(* "The numbering would drift from decode_segments" (docstring of          *)
(* find_session_initiators): the dictionary rebuilt from the segments is   *)
(* the one decode_segments numbered them with, so an initiator is filed    *)
(* under the session its opening packet belongs to.                        *)
(***************************************************************************)
NumberingNeverDrifts ==
  pass \in {"initiators", "decoded"} => renumbered = session_ids

(***************************************************************************)
(* The presence of an initiator is an observation of the opening packet    *)
(* (docstring of SessionInitiator): once the passes are over, the          *)
(* initiator of a session is the sender of the first packet between its    *)
(* endpoints that carries SYN without ACK, and it is absent exactly when   *)
(* the capture holds no such packet.  A SYN+ACK, a later SYN or the first  *)
(* sender of payload never stands in for it.                               *)
(***************************************************************************)
OpeningPackets(ends) ==
  {n \in DOMAIN packets : /\ packets[n].tcp
                          /\ packets[n].flags = {"S"}
                          /\ {packets[n].src, packets[n].dst} = ends}

InitiatorIsFirstOpener ==
  pass = "decoded" =>
    \A i \in DOMAIN segments :
      LET opener  == initiators[segments[i].session_id]
          opening == OpeningPackets(Ends(segments[i]))
      IN  IF opening = {}
          THEN opener = NoEndpoint
          ELSE \E n \in opening : /\ \A m \in opening : n <= m
                                  /\ opener = packets[n].src
=============================================================================
