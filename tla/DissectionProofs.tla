-------------------------- MODULE DissectionProofs --------------------------
(***************************************************************************)
(* Theorems about Sessions and about Dissection, which extends it: for     *)
(* every capture, every assignment of shapes to payloads and every order   *)
(* of the registry.                                                        *)
(***************************************************************************)
EXTENDS Dissection, DataLemmas, SequenceTheorems, TLAPS

(***************************************************************************)
(* First, the sessions.                                                    *)
(***************************************************************************)

(***************************************************************************)
(* Bounds the type invariant needs: no pass runs past its sequence, and    *)
(* the counter never outgrows the packets seen, so an identifier is always *)
(* a SessionId.                                                            *)
(***************************************************************************)
Bounds ==
  /\ pass \in {"decode", "initiators"} => pos <= Len(packets) + 1
  /\ pass = "numbering" => pos <= Len(segments) + 1
  /\ pass = "decode" => next_session_id < pos /\ Len(segments) < pos
  /\ next_session_id <= Len(packets)
  /\ Len(segments) <= Len(packets)
  /\ \A i \in 1 .. Len(segments) : segments[i].packet_number <= Len(packets)

TypeInv == SessionTypeOK /\ Bounds

-----------------------------------------------------------------------------
\* A capture of the initial states is a sequence of frames.
LEMMA InitialCapture ==
  ASSUME NEW n \in 0 .. MaxPackets, packets \in [1 .. n -> Frames]
  PROVE  packets \in Seq(Frames) /\ Len(packets) = n
  BY FrameAssumption

\* A key of a frame is a key.
LEMMA KeyType ==
  ASSUME NEW f \in Frames
  PROVE  PacketKey(f) \in Key
  BY FrameAssumption DEF PacketKey, SessionKey, Key

\* The initial state satisfies the type invariant.
LEMMA TypeInit == SessionInit => TypeInv
  <1> SUFFICES ASSUME SessionInit PROVE TypeInv
    OBVIOUS
  <1>1. packets \in Seq(Frames) /\ Len(packets) \in 0 .. MaxPackets
    BY InitialCapture DEF SessionInit
  <1> QED
    BY <1>1, FrameAssumption DEF SessionInit, TypeInv, SessionTypeOK, Bounds, Segment

\* Every step preserves the type invariant.
LEMMA TypeNext == TypeInv /\ [SessionNext]_sessionVars => TypeInv'
  <1> SUFFICES ASSUME TypeInv, [SessionNext]_sessionVars PROVE TypeInv'
    OBVIOUS
  <1> USE FrameAssumption DEF TypeInv, SessionTypeOK, Bounds
  <1>1. CASE DecodeSkip
    BY <1>1 DEF DecodeSkip
  <1>2. CASE DecodeSegment
    <2> DEFINE p   == packets[pos]
               key == PacketKey(p)
               new == session_ids[key] = NoSession
               id  == IF new THEN next_session_id ELSE session_ids[key]
               s   == [packet_number |-> pos, session_id |-> id]
    <2>1. p \in Frames /\ key \in Key
      BY <1>2, KeyType DEF PacketNumber, DecodeSegment
    <2>2. pos \in 1 .. Len(packets) /\ id \in SessionId
      BY <1>2, <2>1 DEF PacketNumber, DecodeSegment, SessionId, NoSession
    <2>3. s \in Segment
      BY <2>2 DEF Segment
    <2>4. /\ session_ids' \in [Key -> SessionId \cup {NoSession}]
          /\ segments' \in Seq(Segment)
          /\ Len(segments') = Len(segments) + 1
          /\ \A i \in 1 .. Len(segments') :
               segments'[i].packet_number <= Len(packets)
      BY <1>2, <2>1, <2>2, <2>3 DEF PacketNumber, DecodeSegment
    <2> QED
      BY <1>2, <2>2, <2>4 DEF PacketNumber, DecodeSegment, CounterAfter
  <1>3. CASE EndPass("decode", "numbering", Len(packets))
    BY <1>3 DEF EndPass
  <1>4. CASE Renumber
    <2> DEFINE s == segments[pos]
    <2>1. pos \in 1 .. Len(segments) /\ s \in Segment
      BY <1>4 DEF Renumber
    <2>2. s.packet_number \in 1 .. Len(packets) /\ s.session_id \in SessionId
      <3>1. PICK n \in Nat : n = s.packet_number
        BY <2>1 DEF Segment
      <3>2. s.packet_number >= 1 /\ s.packet_number <= Len(packets)
        BY <2>1 DEF Segment
      <3>3. s.session_id \in SessionId
        BY <2>1 DEF Segment
      <3> HIDE DEF s
      <3> QED
        BY <3>1, <3>2, <3>3
    <2>3. SegmentKey(s) \in Key
      BY <2>2, KeyType DEF SegmentKey, FrameOf
    <2>4. renumbered' \in [Key -> SessionId \cup {NoSession}]
      BY <1>4, <2>2, <2>3 DEF Renumber, SetDefault
    <2> QED
      BY <1>4, <2>1, <2>4 DEF Renumber
  <1>5. CASE EndPass("numbering", "initiators", Len(segments))
    BY <1>5 DEF EndPass
  <1>6. CASE FindInitiator
    <2> DEFINE p  == packets[pos]
               id == renumbered[PacketKey(p)]
    <2>1. p \in Frames /\ p.src \in Endpoint /\ PacketKey(p) \in Key
      BY <1>6, KeyType DEF FindInitiator
    <2>2. id \in SessionId \cup {NoSession}
      BY <2>1
    <2>3. initiators' \in [SessionId -> Endpoint \cup {NoEndpoint}]
      BY <1>6, <2>1, <2>2 DEF FindInitiator, SetDefault
    <2> QED
      BY <1>6, <2>3 DEF FindInitiator
  <1>7. CASE EndPass("initiators", "decoded", Len(packets))
    BY <1>7 DEF EndPass
  <1>8. CASE UNCHANGED sessionVars
    BY <1>8 DEF sessionVars
  <1> QED
    BY <1>1, <1>2, <1>3, <1>4, <1>5, <1>6, <1>7, <1>8 DEF SessionNext

(***************************************************************************)
(* Type correctness of decode_segments and find_session_initiators for     *)
(* every capture: in particular the counter of decode_segments never hands *)
(* out an identifier beyond the number of packets.                         *)
(***************************************************************************)
THEOREM SessionTypeCorrect == SessionSpec => []SessionTypeOK
  <1>1. TypeInv => SessionTypeOK
    BY DEF TypeInv
  <1> QED
    BY <1>1, TypeInit, TypeNext, PTL DEF SessionSpec

-----------------------------------------------------------------------------
(***************************************************************************)
(* The dictionary of decode_segments is injective, hands out only          *)
(* identifiers below the counter, and numbers exactly the keys of the      *)
(* segments, each segment carrying the number of its key.                  *)
(***************************************************************************)
Numbering ==
  /\ \A k \in Key : session_ids[k] < next_session_id
  /\ \A k, l \in Key : session_ids[k] = session_ids[l] /\ session_ids[k] # NoSession
                         => k = l
  /\ \A i \in 1 .. Len(segments) :
       session_ids[SegmentKey(segments[i])] = segments[i].session_id
  /\ \A k \in Key : session_ids[k] # NoSession
                      => \E i \in 1 .. Len(segments) : SegmentKey(segments[i]) = k

\* Only "decode" assigns identifiers: a step that leaves the capture, the
\* segments and the dictionary alone leaves Numbering alone.
LEMMA NumberingStable ==
  ASSUME Numbering,
         UNCHANGED <<packets, segments, session_ids, next_session_id>>
  PROVE  Numbering'
  BY DEF Numbering, SegmentKey, FrameOf

LEMMA NumberingInit == SessionInit => Numbering
  BY FrameAssumption DEF SessionInit, Numbering, NoSession

\* A segment in range refers to a frame of the capture.
LEMMA SegmentType ==
  ASSUME TypeInv, NEW i \in 1 .. Len(segments)
  PROVE  /\ segments[i] \in Segment
         /\ segments[i].packet_number \in 1 .. Len(packets)
         /\ segments[i].session_id \in SessionId
         /\ FrameOf(segments[i]) \in Frames
         /\ SegmentKey(segments[i]) \in Key
  <1>1. segments[i] \in Segment
    BY DEF TypeInv, SessionTypeOK
  <1>2. segments[i].packet_number \in 1 .. Len(packets)
    BY <1>1 DEF TypeInv, Bounds, Segment
  <1>3. FrameOf(segments[i]) \in Frames
    BY <1>2 DEF TypeInv, SessionTypeOK, FrameOf
  <1> QED
    BY <1>1, <1>2, <1>3, KeyType DEF SegmentKey, Segment

LEMMA NumberingNext ==
  TypeInv /\ Numbering /\ [SessionNext]_sessionVars => Numbering'
  <1> SUFFICES ASSUME TypeInv, Numbering, [SessionNext]_sessionVars
               PROVE  Numbering'
    OBVIOUS
  <1>1. CASE DecodeSegment
    <2> DEFINE p   == packets[pos]
               key == PacketKey(p)
               new == session_ids[key] = NoSession
               id  == IF new THEN next_session_id ELSE session_ids[key]
               s   == [packet_number |-> pos, session_id |-> id]
    <2>1. p \in Frames /\ key \in Key /\ pos \in 1 .. Len(packets)
      BY <1>1, KeyType DEF PacketNumber, DecodeSegment, TypeInv, SessionTypeOK
    <2>2. /\ session_ids' = [session_ids EXCEPT ![key] = id]
          /\ next_session_id' = IF new THEN next_session_id + 1
                                       ELSE next_session_id
          /\ segments' = Append(segments, s)
          /\ packets' = packets
      BY <1>1 DEF PacketNumber, DecodeSegment, CounterAfter
    <2>3. next_session_id \in Nat /\ session_ids \in [Key -> SessionId \cup {NoSession}]
      BY DEF TypeInv, SessionTypeOK
    <2>4. id < next_session_id' /\ id # NoSession /\ next_session_id <= next_session_id'
      BY <2>1, <2>2, <2>3 DEF Numbering, NoSession, SessionId
    <2>5. \A k \in Key : session_ids'[k] < next_session_id'
      BY <2>1, <2>2, <2>3, <2>4 DEF Numbering, NoSession, SessionId
    <2>6. ASSUME NEW k \in Key, NEW l \in Key,
                 session_ids'[k] = session_ids'[l], session_ids'[k] # NoSession
          PROVE  k = l
      <3>1. CASE new
        BY <3>1, <2>1, <2>2, <2>3, <2>6 DEF Numbering, NoSession, SessionId
      <3>2. CASE ~new
        <4>1. session_ids' = session_ids
          BY <3>2, <2>1, <2>2, <2>3
        <4> QED
          BY <4>1, <2>6 DEF Numbering
      <3> QED
        BY <3>1, <3>2
    <2>7. segments \in Seq(Segment) /\ s \in Segment
      <3>1. id \in SessionId
        BY <1>1, <2>1, <2>3, FrameAssumption
        DEF PacketNumber, DecodeSegment, TypeInv, SessionTypeOK, Bounds, SessionId, NoSession
      <3> QED
        BY <3>1, <2>1, FrameAssumption DEF TypeInv, SessionTypeOK, Segment
    <2>8. /\ Len(segments') = Len(segments) + 1
          /\ \A i \in 1 .. Len(segments) : segments'[i] = segments[i]
          /\ segments'[Len(segments) + 1] = s
      BY <2>2, <2>7
    <2>9. \A i \in 1 .. Len(segments) : SegmentKey(segments[i])' = SegmentKey(segments[i])
      BY <2>2, <2>8 DEF FrameOf, SegmentKey
    <2>10. session_ids'[key] = id
      BY <2>1, <2>2, <2>3
    <2>11. ASSUME NEW k \in Key, session_ids[k] # NoSession
           PROVE  session_ids'[k] = session_ids[k]
      BY <2>2, <2>3, <2>11
    <2>12. ASSUME NEW i \in 1 .. Len(segments')
           PROVE  session_ids'[SegmentKey(segments[i])'] = segments'[i].session_id
      <3>1. CASE i = Len(segments) + 1
        <4>1. SegmentKey(segments[i])' = key /\ segments'[i].session_id = id
          BY <3>1, <2>2, <2>8 DEF FrameOf, SegmentKey
        <4> QED
          BY <4>1, <2>10
      <3>2. CASE i \in 1 .. Len(segments)
        <4>1. session_ids[SegmentKey(segments[i])] = segments[i].session_id
          BY <3>2 DEF Numbering
        <4>2. SegmentKey(segments[i]) \in Key /\ segments[i].session_id \in SessionId
          BY <3>2, SegmentType
        <4> QED
          BY <3>2, <4>1, <4>2, <2>8, <2>9, <2>11 DEF SessionId, NoSession
      <3> QED
        BY <3>1, <3>2, <2>7, <2>8
    <2>13. ASSUME NEW k \in Key, session_ids'[k] # NoSession
           PROVE  \E i \in 1 .. Len(segments') : SegmentKey(segments[i])' = k
      <3>1. CASE k = key
        <4>1. SegmentKey(segments[Len(segments)])' = key
          BY <2>2, <2>8 DEF FrameOf, SegmentKey
        <4>2. Len(segments') \in 1 .. Len(segments')
          BY <2>7, <2>8
        <4> QED
          BY <3>1, <4>1, <4>2
      <3>2. CASE k # key
        <4>1. session_ids[k] # NoSession
          BY <3>2, <2>2, <2>3, <2>13
        <4>2. PICK i \in 1 .. Len(segments) : SegmentKey(segments[i]) = k
          BY <4>1 DEF Numbering
        <4> QED
          BY <4>2, <2>7, <2>8, <2>9
      <3> QED
        BY <3>1, <3>2
    <2> QED
      BY <2>5, <2>6, <2>12, <2>13 DEF Numbering
  <1>2. CASE ~DecodeSegment
    <2>1. UNCHANGED <<packets, segments, session_ids, next_session_id>>
      BY <1>2 DEF SessionNext, sessionVars, DecodeSkip, EndPass, Renumber, FindInitiator
    <2> QED
      BY <2>1, NumberingStable
  <1> QED
    BY <1>1, <1>2

(***************************************************************************)
(* For every capture, two segments share an identifier exactly when they   *)
(* run between the same endpoints (decode_segments): the numbering is      *)
(* injective on keys and a key forgets the direction, nothing else.        *)
(***************************************************************************)
THEOREM SameSession == SessionSpec => []SameSessionIffSameEndpoints
  <1>1. ASSUME TypeInv, Numbering PROVE SameSessionIffSameEndpoints
    <2>1. DOMAIN segments = 1 .. Len(segments)
      BY <1>1 DEF TypeInv, SessionTypeOK
    <2>2. SUFFICES ASSUME NEW i \in 1 .. Len(segments),
                          NEW j \in 1 .. Len(segments)
                   PROVE  segments[i].session_id = segments[j].session_id
                            <=> Ends(segments[i]) = Ends(segments[j])
      BY <2>1 DEF SameSessionIffSameEndpoints
    <2>3. /\ SegmentKey(segments[i]) \in Key /\ SegmentKey(segments[j]) \in Key
          /\ segments[i].session_id # NoSession
      BY <1>1, SegmentType DEF SessionId, NoSession
    <2>4. /\ Ends(segments[i]) = SegmentKey(segments[i])
          /\ Ends(segments[j]) = SegmentKey(segments[j])
      BY DEF Ends, SegmentKey, PacketKey, SessionKey
    <2> QED
      BY <1>1, <2>3, <2>4 DEF Numbering
  <1>2. SessionInit => TypeInv /\ Numbering
    BY TypeInit, NumberingInit
  <1>3. TypeInv /\ Numbering /\ [SessionNext]_sessionVars => (TypeInv /\ Numbering)'
    BY TypeNext, NumberingNext
  <1> QED
    BY <1>1, <1>2, <1>3, PTL DEF SessionSpec

-----------------------------------------------------------------------------
(***************************************************************************)
(* Every identifier below the counter is carried by a segment; so the next *)
(* identifier is handed out only after all smaller ones have been carried. *)
(***************************************************************************)
Carried ==
  \A id \in 0 .. next_session_id - 1 :
    \E j \in 1 .. Len(segments) : segments[j].session_id = id

InOrder == Carried /\ NumberedInFileOrder

LEMMA InOrderInit == SessionInit => InOrder
  BY DEF SessionInit, InOrder, Carried, NumberedInFileOrder

LEMMA InOrderNext ==
  TypeInv /\ Numbering /\ InOrder /\ [SessionNext]_sessionVars => InOrder'
  <1> SUFFICES ASSUME TypeInv, Numbering, InOrder, [SessionNext]_sessionVars
               PROVE  InOrder'
    OBVIOUS
  <1>1. CASE DecodeSegment
    <2> DEFINE key == PacketKey(packets[pos])
               new == session_ids[key] = NoSession
    <2>1. PICK id : /\ id = IF new THEN next_session_id ELSE session_ids[key]
                    /\ next_session_id' = IF new THEN next_session_id + 1
                                                 ELSE next_session_id
                    /\ segments' = Append(segments, [packet_number |-> pos,
                                                     session_id |-> id])
      BY <1>1 DEF PacketNumber, DecodeSegment, CounterAfter
    <2>2. /\ next_session_id \in Nat /\ id \in Nat /\ Len(segments) \in Nat
          /\ id <= next_session_id /\ (~new => id < next_session_id)
      <3>1. key \in Key
        BY <1>1, KeyType DEF DecodeSegment, TypeInv, SessionTypeOK
      <3>2. next_session_id \in Nat /\ session_ids[key] \in SessionId \cup {NoSession}
        BY <3>1 DEF TypeInv, SessionTypeOK
      <3>3. session_ids[key] < next_session_id
        BY <3>1 DEF Numbering
      <3> QED
        BY <2>1, <3>2, <3>3 DEF SessionId, TypeInv, SessionTypeOK
    <2>3. /\ DOMAIN segments = 1 .. Len(segments)
          /\ DOMAIN segments' = 1 .. Len(segments) + 1
          /\ Len(segments') = Len(segments) + 1
          /\ \A i \in 1 .. Len(segments) : segments'[i] = segments[i]
          /\ segments'[Len(segments) + 1].session_id = id
      BY <2>1 DEF TypeInv, SessionTypeOK
    <2>4. \A k \in 0 .. next_session_id - 1 :
            \E j \in 1 .. Len(segments) : segments'[j].session_id = k
      BY <2>3 DEF InOrder, Carried
    <2>5. ASSUME NEW k \in 0 .. next_session_id' - 1
          PROVE  \E j \in 1 .. Len(segments') : segments'[j].session_id = k
      <3>1. k \in 0 .. next_session_id - 1 \/ k = id
        BY <2>1, <2>2
      <3>2. /\ Len(segments) + 1 \in 1 .. Len(segments')
            /\ \A j \in 1 .. Len(segments) : j \in 1 .. Len(segments')
        BY <2>2, <2>3
      <3> QED
        BY <2>3, <2>4, <3>1, <3>2
    <2>6. ASSUME NEW i \in 1 .. Len(segments) + 1,
                 NEW k \in 0 .. segments'[i].session_id - 1
          PROVE  \E j \in 1 .. i - 1 : segments'[j].session_id = k
      <3>1. CASE i = Len(segments) + 1
        <4>1. k \in 0 .. next_session_id - 1
          BY <2>2, <2>3, <3>1
        <4>2. 1 .. i - 1 = 1 .. Len(segments)
          BY <2>2, <3>1
        <4> QED
          BY <2>4, <4>1, <4>2
      <3>2. CASE i \in 1 .. Len(segments)
        <4>1. \E j \in 1 .. i - 1 : segments[j].session_id = k
          BY <2>3, <3>2 DEF InOrder, NumberedInFileOrder
        <4>2. \A j \in 1 .. i - 1 : j \in 1 .. Len(segments)
          BY <2>2, <3>2
        <4> QED
          BY <2>3, <4>1, <4>2
      <3> QED
        BY <2>2, <3>1, <3>2
    <2>7. Carried'
      BY <2>5 DEF Carried
    <2>8. NumberedInFileOrder'
      BY <2>3, <2>6 DEF NumberedInFileOrder
    <2> QED
      BY <2>7, <2>8 DEF InOrder
  <1>2. CASE ~DecodeSegment
    <2>1. UNCHANGED <<segments, next_session_id>>
      BY <1>2 DEF SessionNext, sessionVars, DecodeSkip, EndPass, Renumber, FindInitiator
    <2> QED
      BY <2>1 DEF InOrder, Carried, NumberedInFileOrder
  <1> QED
    BY <1>1, <1>2

(***************************************************************************)
(* For every capture, a segment carries an identifier only after every     *)
(* smaller one has been carried: session_id counts conversations in file   *)
(* order and leaves no gap (decode_segments).                              *)
(***************************************************************************)
THEOREM FileOrder == SessionSpec => []NumberedInFileOrder
  <1>1. InOrder => NumberedInFileOrder
    BY DEF InOrder
  <1>2. SessionInit => TypeInv /\ Numbering /\ InOrder
    BY TypeInit, NumberingInit, InOrderInit
  <1>3. TypeInv /\ Numbering /\ InOrder /\ [SessionNext]_sessionVars
          => (TypeInv /\ Numbering /\ InOrder)'
    BY TypeNext, NumberingNext, InOrderNext
  <1> QED
    BY <1>1, <1>2, <1>3, PTL DEF SessionSpec

-----------------------------------------------------------------------------
(***************************************************************************)
(* How far the rebuilt dictionary has got: it agrees with that of          *)
(* decode_segments on the keys of the segments visited so far.             *)
(***************************************************************************)
Rebuilt ==
  /\ pass = "decode" => renumbered = [k \in Key |-> NoSession]
  /\ pass = "numbering" =>
       \A k \in Key :
         renumbered[k] = IF \E i \in 1 .. pos - 1 : SegmentKey(segments[i]) = k
                         THEN session_ids[k] ELSE NoSession
  /\ pass \in {"initiators", "decoded"} => renumbered = session_ids

LEMMA RebuiltInit == SessionInit => Rebuilt
  BY DEF SessionInit, Rebuilt

LEMMA RebuiltNext ==
  TypeInv /\ Numbering /\ Rebuilt /\ [SessionNext]_sessionVars => Rebuilt'
  <1> SUFFICES ASSUME TypeInv, Numbering, Rebuilt, [SessionNext]_sessionVars
               PROVE  Rebuilt'
    OBVIOUS
  <1> USE DEF Rebuilt
  <1>1. CASE DecodeSkip
    BY <1>1 DEF DecodeSkip
  <1>2. CASE DecodeSegment
    BY <1>2 DEF PacketNumber, DecodeSegment
  <1>3. CASE EndPass("decode", "numbering", Len(packets))
    <2>1. pos' = 1 /\ pass' = "numbering" /\ renumbered' = [k \in Key |-> NoSession]
      BY <1>3 DEF EndPass
    <2> QED
      BY <2>1
  <1>4. CASE Renumber
    <2> DEFINE s == segments[pos]
               Seen(k, n) == \E i \in 1 .. n : SegmentKey(segments[i]) = k
    <2>1. pos \in 1 .. Len(segments) /\ SegmentKey(s) \in Key
      BY <1>4, SegmentType DEF Renumber, TypeInv, SessionTypeOK
    <2>2. /\ renumbered' = SetDefault(renumbered, SegmentKey(s), s.session_id, NoSession)
          /\ pos' = pos + 1 /\ pass' = "numbering" /\ pass = "numbering"
          /\ UNCHANGED <<packets, segments, session_ids>>
      BY <1>4 DEF Renumber
    <2>3. session_ids[SegmentKey(s)] = s.session_id
      BY <2>1 DEF Numbering
    <2>4. \A k \in Key : Seen(k, pos) <=> Seen(k, pos - 1) \/ k = SegmentKey(s)
      BY <2>1
    <2>5. ASSUME NEW k \in Key
          PROVE  renumbered'[k] = IF Seen(k, pos) THEN session_ids[k] ELSE NoSession
      BY <2>1, <2>2, <2>3, <2>4 DEF SetDefault, TypeInv, SessionTypeOK
    <2>6. \A k \in Key : (\E i \in 1 .. pos' - 1 : SegmentKey(segments[i])' = k) <=> Seen(k, pos)
      BY <2>1, <2>2 DEF SegmentKey, FrameOf
    <2> QED
      BY <2>2, <2>5, <2>6
  <1>5. CASE EndPass("numbering", "initiators", Len(segments))
    <2>1. /\ pos - 1 = Len(segments) /\ pass = "numbering" /\ pass' = "initiators"
          /\ UNCHANGED <<renumbered, session_ids>>
      BY <1>5 DEF EndPass, TypeInv, SessionTypeOK, Bounds
    <2>2. \A k \in Key : renumbered[k] = session_ids[k]
      BY <2>1 DEF Numbering
    <2> QED
      BY <2>1, <2>2 DEF TypeInv, SessionTypeOK
  <1>6. CASE FindInitiator
    BY <1>6 DEF FindInitiator
  <1>7. CASE EndPass("initiators", "decoded", Len(packets))
    BY <1>7 DEF EndPass
  <1>8. CASE UNCHANGED sessionVars
    BY <1>8 DEF sessionVars, SegmentKey, FrameOf
  <1> QED
    BY <1>1, <1>2, <1>3, <1>4, <1>5, <1>6, <1>7, <1>8 DEF SessionNext

(***************************************************************************)
(* For every capture, the dictionary find_session_initiators rebuilds from *)
(* the segments is the one decode_segments numbered them with.             *)
(***************************************************************************)
THEOREM NoDrift == SessionSpec => []NumberingNeverDrifts
  <1>1. Rebuilt => NumberingNeverDrifts
    BY DEF Rebuilt, NumberingNeverDrifts
  <1>2. SessionInit => TypeInv /\ Numbering /\ Rebuilt
    BY TypeInit, NumberingInit, RebuiltInit
  <1>3. TypeInv /\ Numbering /\ Rebuilt /\ [SessionNext]_sessionVars
          => (TypeInv /\ Numbering /\ Rebuilt)'
    BY TypeNext, NumberingNext, RebuiltNext
  <1> QED
    BY <1>1, <1>2, <1>3, PTL DEF SessionSpec

-----------------------------------------------------------------------------
(***************************************************************************)
(* Named(k, n): the initiator filed for key k is the sender of the first   *)
(* opening packet of k among the first n packets, if there is one.         *)
(***************************************************************************)
OpeningAmong(k, n) ==
  {m \in 1 .. n : Opens(packets[m]) /\ PacketKey(packets[m]) = k}

Named(k, n) ==
  IF OpeningAmong(k, n) = {}
  THEN initiators[session_ids[k]] = NoEndpoint
  ELSE \E m \in OpeningAmong(k, n) :
         /\ \A j \in OpeningAmong(k, n) : m <= j
         /\ initiators[session_ids[k]] = packets[m].src

FirstOpenersSoFar ==
  /\ pass \in {"decode", "numbering"} =>
       initiators = [id \in SessionId |-> NoEndpoint]
  /\ pass = "initiators" =>
       \A k \in Key : session_ids[k] # NoSession => Named(k, pos - 1)
  /\ pass = "decoded" =>
       \A k \in Key : session_ids[k] # NoSession => Named(k, Len(packets))

LEMMA FirstOpenersInit == SessionInit => FirstOpenersSoFar
  BY DEF SessionInit, FirstOpenersSoFar

\* Named speaks of these four variables only.
LEMMA NamedStable ==
  ASSUME UNCHANGED <<packets, session_ids, initiators>>, NEW k, NEW n
  PROVE  Named(k, n)' <=> Named(k, n)
  BY DEF Named, OpeningAmong, Opens, PacketKey

LEMMA FirstOpenersNext ==
  TypeInv /\ Numbering /\ Rebuilt /\ FirstOpenersSoFar /\ [SessionNext]_sessionVars
    => FirstOpenersSoFar'
  <1> SUFFICES ASSUME TypeInv, Numbering, Rebuilt, FirstOpenersSoFar,
                      [SessionNext]_sessionVars
               PROVE  FirstOpenersSoFar'
    OBVIOUS
  <1>1. CASE DecodeSkip
    BY <1>1 DEF DecodeSkip, FirstOpenersSoFar
  <1>2. CASE DecodeSegment
    BY <1>2 DEF PacketNumber, DecodeSegment, FirstOpenersSoFar
  <1>3. CASE EndPass("decode", "numbering", Len(packets))
    BY <1>3 DEF EndPass, FirstOpenersSoFar
  <1>4. CASE Renumber
    BY <1>4 DEF Renumber, FirstOpenersSoFar
  <1>5. CASE EndPass("numbering", "initiators", Len(segments))
    <2>1. /\ initiators = [id \in SessionId |-> NoEndpoint]
          /\ pass' = "initiators" /\ pos' = 1
          /\ UNCHANGED <<packets, session_ids, initiators>>
      BY <1>5 DEF EndPass, FirstOpenersSoFar
    <2>2. ASSUME NEW k \in Key, session_ids[k] # NoSession
          PROVE  Named(k, 0)
      BY <2>1, <2>2 DEF Named, OpeningAmong, TypeInv, SessionTypeOK
    <2> QED
      BY <2>1, <2>2, NamedStable DEF FirstOpenersSoFar
  <1>6. CASE FindInitiator
    <2> DEFINE p   == packets[pos]
               key == PacketKey(p)
               id  == session_ids[key]
    <2>1. pos \in 1 .. Len(packets) /\ p \in Frames /\ key \in Key /\ p.src \in Endpoint
      BY <1>6, KeyType, FrameAssumption DEF FindInitiator, TypeInv, SessionTypeOK
    <2>2. /\ pass = "initiators" /\ pass' = "initiators" /\ pos' = pos + 1
          /\ UNCHANGED <<packets, session_ids>>
          /\ initiators' = IF Opens(p) /\ id # NoSession
                           THEN SetDefault(initiators, id, p.src, NoEndpoint)
                           ELSE initiators
      BY <1>6 DEF FindInitiator, Rebuilt
    <2>3. SUFFICES ASSUME NEW k \in Key, session_ids[k] # NoSession
                   PROVE  Named(k, pos - 1)'
      BY <2>2 DEF FirstOpenersSoFar
    <2> DEFINE before == OpeningAmong(k, pos - 1)
               after  == OpeningAmong(k, pos)
    <2>4. OpeningAmong(k, pos - 1)' = after
      BY <2>1, <2>2 DEF OpeningAmong, Opens, PacketKey
    <2>5. after = before \cup (IF Opens(p) /\ key = k THEN {pos} ELSE {})
      BY <2>1 DEF OpeningAmong
    <2>6. Named(k, pos - 1)
      BY <2>2, <2>3 DEF FirstOpenersSoFar
    <2>7. session_ids[k] \in SessionId /\ session_ids'[k] = session_ids[k]
      BY <2>2, <2>3 DEF TypeInv, SessionTypeOK
    <2>8. \A m \in before : m \in 1 .. pos - 1 /\ packets[m].src \in Endpoint
      BY <2>1, FrameAssumption DEF OpeningAmong, TypeInv, SessionTypeOK
    <2>9. CASE Opens(p) /\ key = k /\ before = {}
      <3>1. initiators[id] = NoEndpoint /\ after = {pos}
        BY <2>5, <2>6, <2>9 DEF Named
      <3>2. initiators'[id] = p.src
        BY <2>2, <2>3, <2>7, <2>9, <3>1 DEF SetDefault, TypeInv, SessionTypeOK
      <3>3. initiators'[session_ids'[k]] = packets'[pos].src
        BY <2>2, <2>7, <2>9, <3>2
      <3>4. OpeningAmong(k, pos - 1)' = {pos} /\ pos <= pos
        BY <2>1, <2>4, <3>1
      <3> QED
        BY <3>3, <3>4 DEF Named
    <2>10. CASE Opens(p) /\ key = k /\ before # {}
      <3>1. PICK m \in before : /\ \A j \in before : m <= j
                                /\ initiators[id] = packets[m].src
        BY <2>6, <2>10 DEF Named
      <3>2. initiators[id] # NoEndpoint
        BY <2>8, <3>1, FrameAssumption
      <3>3. initiators' = initiators
        BY <2>2, <3>2 DEF SetDefault
      <3>4. m \in after /\ \A j \in after : m <= j
        BY <2>1, <2>5, <2>8, <3>1
      <3> QED
        BY <2>2, <2>4, <2>7, <2>10, <3>1, <3>3, <3>4 DEF Named
    <2>11. CASE ~(Opens(p) /\ key = k)
      <3>1. after = before
        BY <2>5, <2>11
      <3>2. initiators'[session_ids[k]] = initiators[session_ids[k]]
        <4>1. CASE Opens(p) /\ id # NoSession
          <5>1. id # session_ids[k]
            BY <2>1, <2>11, <4>1 DEF Numbering
          <5> QED
            BY <2>2, <2>7, <4>1, <5>1 DEF SetDefault, TypeInv, SessionTypeOK
        <4>2. CASE ~(Opens(p) /\ id # NoSession)
          BY <2>2, <4>2
        <4> QED
          BY <4>1, <4>2
      <3> QED
        BY <2>2, <2>4, <2>6, <2>7, <3>1, <3>2 DEF Named
    <2> QED
      BY <2>9, <2>10, <2>11
  <1>7. CASE EndPass("initiators", "decoded", Len(packets))
    <2>1. /\ pos - 1 = Len(packets) /\ pass = "initiators" /\ pass' = "decoded"
          /\ UNCHANGED <<packets, session_ids, initiators>>
      BY <1>7 DEF EndPass, TypeInv, SessionTypeOK, Bounds
    <2> QED
      BY <2>1, NamedStable DEF FirstOpenersSoFar
  <1>8. CASE UNCHANGED sessionVars
    <2>1. UNCHANGED <<packets, session_ids, initiators, pass, pos>>
      BY <1>8 DEF sessionVars
    <2> QED
      BY <2>1, NamedStable DEF FirstOpenersSoFar
  <1> QED
    BY <1>1, <1>2, <1>3, <1>4, <1>5, <1>6, <1>7, <1>8 DEF SessionNext

(***************************************************************************)
(* For every capture, the initiator published for a session is the sender  *)
(* of the first packet with SYN and without ACK between its endpoints, and *)
(* it is absent exactly when the capture holds no such packet              *)
(* (find_session_initiators).                                              *)
(***************************************************************************)
THEOREM InitiatorSound == SessionSpec => []InitiatorIsFirstOpener
  <1> DEFINE IInv == TypeInv /\ Numbering /\ Rebuilt /\ FirstOpenersSoFar
  <1>1. IInv => InitiatorIsFirstOpener
    <2>1. SUFFICES ASSUME IInv, pass = "decoded", NEW i \in DOMAIN segments
                   PROVE  LET opener  == initiators[segments[i].session_id]
                              opening == OpeningPackets(Ends(segments[i]))
                          IN  IF opening = {}
                              THEN opener = NoEndpoint
                              ELSE \E n \in opening :
                                     /\ \A m \in opening : n <= m
                                     /\ opener = packets[n].src
      BY DEF InitiatorIsFirstOpener
    <2>a. i \in 1 .. Len(segments)
      BY <2>1 DEF TypeInv, SessionTypeOK
    <2> DEFINE key == SegmentKey(segments[i])
    <2>2. key \in Key /\ key = Ends(segments[i])
      BY <2>1, <2>a, SegmentType DEF Ends, SegmentKey, PacketKey, SessionKey
    <2>3. session_ids[key] = segments[i].session_id /\ session_ids[key] # NoSession
      BY <2>1, <2>a, SegmentType DEF Numbering, SessionId, NoSession
    <2>4. OpeningPackets(key) = OpeningAmong(key, Len(packets))
      <3>1. DOMAIN packets = 1 .. Len(packets)
        BY <2>1 DEF TypeInv, SessionTypeOK
      <3>2. ASSUME NEW n \in 1 .. Len(packets)
            PROVE  Opens(packets[n]) <=> packets[n].tcp /\ packets[n].flags = {"S"}
        <4>1. packets[n].flags \in SUBSET {"S", "A"}
          BY <2>1, FrameAssumption DEF TypeInv, SessionTypeOK
        <4> QED
          BY <4>1 DEF Opens
      <3> QED
        BY <3>1, <3>2 DEF OpeningPackets, OpeningAmong, PacketKey, SessionKey
    <2>5. Named(key, Len(packets))
      BY <2>1, <2>2, <2>3 DEF FirstOpenersSoFar
    <2> QED
      BY <2>2, <2>3, <2>4, <2>5 DEF Named
  <1>2. SessionInit => IInv
    BY TypeInit, NumberingInit, RebuiltInit, FirstOpenersInit
  <1>3. IInv /\ [SessionNext]_sessionVars => IInv'
    BY TypeNext, NumberingNext, RebuiltNext, FirstOpenersNext
  <1> QED
    BY <1>1, <1>2, <1>3, PTL DEF SessionSpec

-----------------------------------------------------------------------------
(***************************************************************************)
(* What later passes rely on: the segments are exactly the packets that    *)
(* carry payload, in the order of the capture.                             *)
(***************************************************************************)
InCaptureOrder ==
  \A i, j \in 1 .. Len(segments) :
    i < j => segments[i].packet_number < segments[j].packet_number

Decoded ==
  /\ \A i \in 1 .. Len(segments) :
       /\ HasPayload(packets[segments[i].packet_number])
       /\ pass = "decode" => segments[i].packet_number < pos
  /\ InCaptureOrder
  /\ \A n \in 1 .. Len(packets) :
       HasPayload(packets[n]) /\ (pass = "decode" => n < pos)
         => \E i \in 1 .. Len(segments) : segments[i].packet_number = n

LEMMA DecodedInit == SessionInit => Decoded
  <1> SUFFICES ASSUME SessionInit PROVE Decoded
    OBVIOUS
  <1>1. pass = "decode" /\ pos = 1 /\ Len(segments) = 0
    BY DEF SessionInit
  <1>2. \A n \in 1 .. Len(packets) : ~(n < pos)
    BY <1>1, TypeInit DEF TypeInv, SessionTypeOK
  <1> QED
    BY <1>1, <1>2 DEF Decoded, InCaptureOrder

LEMMA DecodedNext == TypeInv /\ Decoded /\ [SessionNext]_sessionVars => Decoded'
  <1> SUFFICES ASSUME TypeInv, Decoded, [SessionNext]_sessionVars PROVE Decoded'
    OBVIOUS
  <1>t. /\ Len(segments) \in Nat /\ Len(packets) \in Nat /\ pos \in Nat
        /\ \A i \in 1 .. Len(segments) : segments[i].packet_number \in Nat
    BY SegmentType DEF TypeInv, SessionTypeOK
  <1>1. CASE DecodeSkip
    <2>1. /\ pass = "decode" /\ pos' = pos + 1 /\ ~HasPayload(packets[pos])
          /\ UNCHANGED <<packets, pass, segments>>
      BY <1>1 DEF DecodeSkip
    <2>2. \A n \in 1 .. Len(packets) : n < pos + 1 => n < pos \/ n = pos
      BY <1>t
    <2>3. \A n \in Nat : n < pos => n < pos + 1
      BY <1>t
    <2> QED
      BY <1>t, <2>1, <2>2, <2>3 DEF Decoded, InCaptureOrder, HasPayload
  <1>2. CASE DecodeSegment
    <2>1. PICK id : segments' = Append(segments, [packet_number |-> pos, session_id |-> id])
      BY <1>2 DEF DecodeSegment, PacketNumber
    <2>2. /\ pass = "decode" /\ pos' = pos + 1 /\ HasPayload(packets[pos])
          /\ UNCHANGED <<packets, pass>>
      BY <1>2 DEF DecodeSegment
    <2>3. /\ Len(segments') = Len(segments) + 1
          /\ \A i \in 1 .. Len(segments) : segments'[i] = segments[i]
          /\ segments'[Len(segments) + 1].packet_number = pos
      BY <2>1 DEF TypeInv, SessionTypeOK
    <2>4. /\ \A i \in 1 .. Len(segments') : i \in 1 .. Len(segments) \/ i = Len(segments) + 1
          /\ \A i \in 1 .. Len(segments) : i \in 1 .. Len(segments')
          /\ Len(segments) + 1 \in 1 .. Len(segments')
      BY <1>t, <2>3
    <2>5. \A i \in 1 .. Len(segments) : segments[i].packet_number < pos
      BY <2>2 DEF Decoded
    <2>6. ASSUME NEW i \in 1 .. Len(segments')
          PROVE  HasPayload(packets'[segments'[i].packet_number]) /\
                 segments'[i].packet_number < pos'
      BY <1>t, <2>2, <2>3, <2>4, <2>5 DEF Decoded, HasPayload
    <2>7. ASSUME NEW i \in 1 .. Len(segments'), NEW j \in 1 .. Len(segments'), i < j
          PROVE  segments'[i].packet_number < segments'[j].packet_number
      <3>1. i \in 1 .. Len(segments)
        BY <1>t, <2>4, <2>7
      <3> QED
        BY <2>3, <2>4, <2>5, <2>7, <3>1 DEF Decoded, InCaptureOrder
    <2>8. ASSUME NEW n \in 1 .. Len(packets), HasPayload(packets[n]), n < pos'
          PROVE  \E i \in 1 .. Len(segments') : segments'[i].packet_number = n
      <3>1. n < pos \/ n = pos
        BY <1>t, <2>2, <2>8
      <3> QED
        BY <2>2, <2>3, <2>4, <2>8, <3>1 DEF Decoded
    <2> QED
      BY <2>2, <2>6, <2>7, <2>8 DEF Decoded, InCaptureOrder, HasPayload
  <1>3. CASE EndPass("decode", "numbering", Len(packets))
    <2>1. \A n \in 1 .. Len(packets) : n < pos
      BY <1>t, <1>3 DEF EndPass
    <2> QED
      BY <1>3, <2>1 DEF EndPass, Decoded, InCaptureOrder, HasPayload
  <1>4. CASE ~(DecodeSkip \/ DecodeSegment \/ EndPass("decode", "numbering", Len(packets)))
    <2>1. /\ UNCHANGED <<packets, segments>>
          /\ pass' = "decode" => pass = "decode" /\ pos' = pos
      BY <1>4 DEF SessionNext, sessionVars, EndPass, Renumber, FindInitiator
    <2>2. pass = "decode" => pass' = "decode"
      BY <1>4 DEF SessionNext, sessionVars, EndPass, Renumber, FindInitiator
    <2> QED
      BY <2>1, <2>2 DEF Decoded, InCaptureOrder, HasPayload
  <1> QED
    BY <1>1, <1>2, <1>3, <1>4

(***************************************************************************)
(* Everything that is known of the sessions, as one inductive invariant,   *)
(* for the proofs about the components that read them.                     *)
(***************************************************************************)
SessionInv ==
  /\ TypeInv
  /\ Numbering
  /\ Rebuilt
  /\ FirstOpenersSoFar
  /\ InOrder
  /\ Decoded

LEMMA SessionInvInit == SessionInit => SessionInv
  BY TypeInit, NumberingInit, RebuiltInit, FirstOpenersInit, InOrderInit, DecodedInit
     DEF SessionInv

LEMMA SessionInvNext == SessionInv /\ [SessionNext]_sessionVars => SessionInv'
  BY TypeNext, NumberingNext, RebuiltNext, FirstOpenersNext, InOrderNext, DecodedNext
     DEF SessionInv

-----------------------------------------------------------------------------
(***************************************************************************)
(* Sorting.  A strict total order on the positions of a list arranges it   *)
(* without losing or repeating an element.                                 *)
(***************************************************************************)
StrictTotal(D, before) ==
  /\ \A i \in D : <<i, i>> \notin before
  /\ \A i, j, k \in D : <<i, j>> \in before /\ <<j, k>> \in before => <<i, k>> \in before
  /\ \A i, j \in D : i = j \/ <<i, j>> \in before \/ <<j, i>> \in before

Place(D, before, i) == Cardinality({j \in D : <<j, i>> \in before}) + 1

\* A place is a position, and what goes before has a smaller one.
LEMMA Places ==
  ASSUME NEW n \in Nat, NEW before, StrictTotal(1 .. n, before)
  PROVE  /\ \A i \in 1 .. n : Place(1 .. n, before, i) \in 1 .. n
         /\ \A i, j \in 1 .. n :
              <<i, j>> \in before => Place(1 .. n, before, i) < Place(1 .. n, before, j)
  <1> DEFINE D == 1 .. n
             Pred(i) == {j \in D : <<j, i>> \in before}
  <1>1. ASSUME NEW i \in D
        PROVE  IsFiniteSet(Pred(i)) /\ Cardinality(Pred(i)) \in 0 .. n - 1
    <2>1. IsFiniteSet(Pred(i)) /\ Cardinality(Pred(i)) \in 0 .. n
      BY FinitePositions
    <2>2. i \notin Pred(i) /\ Pred(i) \cup {i} \subseteq 1 .. n
      BY DEF StrictTotal
    <2>3. Cardinality(Pred(i) \cup {i}) = Cardinality(Pred(i)) + 1
      BY <2>1, <2>2, OneMore
    <2>4. Cardinality(Pred(i) \cup {i}) \in 0 .. n
      BY <2>2, FinitePositions
    <2> QED
      BY <2>1, <2>3, <2>4
  <1>2. ASSUME NEW i \in D, NEW j \in D, <<i, j>> \in before
        PROVE  Cardinality(Pred(i)) < Cardinality(Pred(j))
    <2>1. Pred(i) \cup {i} \subseteq Pred(j) /\ i \notin Pred(i)
      BY <1>2 DEF StrictTotal
    <2>2. Cardinality(Pred(i) \cup {i}) = Cardinality(Pred(i)) + 1
      BY <1>1, <2>1, OneMore
    <2>3. Cardinality(Pred(i) \cup {i}) <= Cardinality(Pred(j))
      BY <1>1, <2>1, FS_Subset
    <2> HIDE DEF Pred
    <2>4. Cardinality(Pred(i)) \in Int /\ Cardinality(Pred(j)) \in Int
      BY <1>1
    <2> QED
      BY <2>2, <2>3, <2>4
  <1>3. \A i \in D : Place(D, before, i) = Cardinality(Pred(i)) + 1
    BY DEF Place
  <1> HIDE DEF Pred
  <1>4. ASSUME NEW i \in D PROVE Place(D, before, i) \in 1 .. n
    <2>1. PICK k \in 0 .. n - 1 : Cardinality(Pred(i)) = k
      BY <1>1
    <2>2. Place(D, before, i) = k + 1
      BY <1>3, <2>1
    <2> QED
      BY <2>1, <2>2
  <1>5. ASSUME NEW i \in D, NEW j \in D, <<i, j>> \in before
        PROVE  Place(D, before, i) < Place(D, before, j)
    <2>1. Cardinality(Pred(i)) \in Nat /\ Cardinality(Pred(j)) \in Nat
      BY <1>1
    <2> QED
      BY <1>2, <1>3, <1>5, <2>1
  <1> QED
    BY <1>4, <1>5

(***************************************************************************)
(* A sort key is a strict weak order: it may fail to tell elements apart.  *)
(* With the position as the last resort, as in a stable sort, the order is *)
(* total.                                                                  *)
(***************************************************************************)
WeakOrder(D, less) ==
  /\ \A i, j \in D : <<i, j>> \in less => <<j, i>> \notin less
  /\ \A i, j, k \in D : <<i, j>> \in less /\ <<j, k>> \in less => <<i, k>> \in less
  /\ \A i, j, k \in D : <<i, k>> \in less => <<i, j>> \in less \/ <<j, k>> \in less

Stably(D, less) ==
  {p \in D \X D : \/ <<p[1], p[2]>> \in less
                  \/ p[1] < p[2] /\ <<p[2], p[1]>> \notin less}

LEMMA StableTotal ==
  ASSUME NEW n \in Nat, NEW less, WeakOrder(1 .. n, less)
  PROVE  StrictTotal(1 .. n, Stably(1 .. n, less))
  <1> DEFINE D == 1 .. n
             Less(i, j) == <<i, j>> \in less
             Before(i, j) == Less(i, j) \/ (i < j /\ ~Less(j, i))
  <1>1. \A i \in D : i \in Nat
    OBVIOUS
  <1>2. \A i, j \in D : <<i, j>> \in Stably(D, less) <=> Before(i, j)
    BY DEF Stably
  <1>3. \A i, j, k \in D : /\ Less(i, j) => ~Less(j, i)
                           /\ Less(i, j) /\ Less(j, k) => Less(i, k)
                           /\ Less(i, k) => Less(i, j) \/ Less(j, k)
    BY DEF WeakOrder
  <1> HIDE DEF Less, D
  <1>4. \A i \in D : ~Before(i, i)
    BY <1>1, <1>3
  <1>5. ASSUME NEW i \in D, NEW j \in D, NEW k \in D, Before(i, j), Before(j, k)
        PROVE  Before(i, k)
    <2>1. i \in Nat /\ j \in Nat /\ k \in Nat
      BY <1>1
    <2>2. /\ Less(i, j) /\ Less(j, k) => Less(i, k)
          /\ Less(i, j) => Less(i, k) \/ Less(k, j)
          /\ Less(j, k) => Less(j, i) \/ Less(i, k)
          /\ Less(k, i) => Less(k, j) \/ Less(j, i)
          /\ Less(k, j) => ~Less(j, k) /\ (Less(j, i) => ~Less(i, j))
      BY <1>3
    <2> QED
      BY <1>5, <2>1, <2>2
  <1>6. \A i, j \in D : i = j \/ Before(i, j) \/ Before(j, i)
    BY <1>1
  <1> HIDE DEF Before
  <1> QED
    BY <1>2, <1>4, <1>5, <1>6 DEF StrictTotal, D

\* The arranged list is the list read in another order of its positions.
Permutes(f, n) ==
  /\ f \in [1 .. n -> 1 .. n]
  /\ \A i \in 1 .. n : \E m \in 1 .. n : f[m] = i
  /\ \A l, m \in 1 .. n : f[l] = f[m] => l = m

LEMMA ArrangedPermutes ==
  ASSUME NEW S, NEW list \in Seq(S), NEW before, StrictTotal(DOMAIN list, before)
  PROVE  \E f : /\ Permutes(f, Len(list))
                /\ Arranged(list, before) = [m \in 1 .. Len(list) |-> list[f[m]]]
                /\ \A l, m \in 1 .. Len(list) : l < m => <<f[l], f[m]>> \in before
  <1>1. PICK n \in Nat : n = Len(list) /\ DOMAIN list = 1 .. n
    OBVIOUS
  <1> DEFINE D == 1 .. n
             P(i) == Place(D, before, i)
             place == [i \in D |-> P(i)]
             f == [m \in D |-> CHOOSE i \in D : P(i) = m]
  <1>2. /\ \A i \in D : P(i) \in D
        /\ \A i, j \in D : <<i, j>> \in before => P(i) < P(j)
    BY <1>1, Places
  <1> HIDE DEF P
  <1>3. ASSUME NEW i \in D, NEW j \in D, P(i) = P(j) PROVE i = j
    <2>1. P(i) \in Nat /\ P(j) \in Nat
      BY <1>2
    <2>2. <<i, j>> \notin before /\ <<j, i>> \notin before
      <3>1. PICK p \in Nat, q \in Nat : p = P(i) /\ q = P(j) /\ ~(p < q) /\ ~(q < p)
        BY <1>3, <2>1
      <3>2. ~(P(i) < P(j)) /\ ~(P(j) < P(i))
        BY <3>1
      <3> HIDE DEF D
      <3> QED
        BY <1>2, <3>2
    <2>3. i = j \/ <<i, j>> \in before \/ <<j, i>> \in before
      <3>1. D = DOMAIN list
        BY <1>1
      <3> HIDE DEF D
      <3> QED
        BY <3>1 DEF StrictTotal
    <2> QED
      BY <2>2, <2>3
  <1>4. \A m \in D : \E i \in D : P(i) = m
    <2>1. place \in Injection(D, D)
      BY <1>2, <1>3 DEF Injection, IsInjective
    <2>2. IsFiniteSet(D)
      BY FS_Interval
    <2>3. place \in Surjection(D, D)
      BY <2>1, <2>2, FS_Injection
    <2> QED
      BY <2>3 DEF Surjection
  <1>5. \A m \in D : f[m] \in D /\ P(f[m]) = m
    BY <1>4
  <1>6. Arranged(list, before) = [m \in D |-> list[f[m]]]
    BY <1>1 DEF Arranged, P, Place
  <1> HIDE DEF f
  <1>7. Permutes(f, n)
    <2>1. f = [m \in D |-> f[m]]
      BY DEF f
    <2>2. f \in [D -> D]
      BY <1>5, <2>1
    <2>3. \A i \in D : f[P(i)] = i
      BY <1>2, <1>3, <1>5
    <2>4. \A l, m \in D : f[l] = f[m] => l = m
      BY <1>5
    <2> QED
      BY <1>2, <2>2, <2>3, <2>4 DEF Permutes
  <1>8. ASSUME NEW l \in D, NEW m \in D, l < m
        PROVE  <<f[l], f[m]>> \in before
    <2>1. P(f[l]) = l /\ P(f[m]) = m /\ f[l] \in D /\ f[m] \in D
      BY <1>5
    <2>2. f[l] # f[m] /\ <<f[m], f[l]>> \notin before
      <3>1. l \in Int /\ m \in Int /\ ~(m < l) /\ l # m
        BY <1>8
      <3>2. <<f[m], f[l]>> \in before => P(f[m]) < P(f[l])
        BY <1>2, <2>1
      <3> QED
        BY <2>1, <3>1, <3>2
    <2>3. StrictTotal(D, before)
      BY <1>1
    <2>4. f[l] = f[m] \/ <<f[l], f[m]>> \in before \/ <<f[m], f[l]>> \in before
      BY <2>1, <2>3 DEF StrictTotal
    <2> QED
      BY <2>2, <2>4
  <1> QED
    BY <1>1, <1>6, <1>7, <1>8

-----------------------------------------------------------------------------
(***************************************************************************)
(* The sort key of run_dissectors.                                         *)
(***************************************************************************)
AnyEvent == Event("high") \cup Event("low")

\* The manifests are listed without repetition.
LEMMA Ranks ==
  /\ DOMAIN Discovered = 1 .. 5 /\ Len(Discovered) = 5
  /\ \A d \in Protocol : Rank(d) \in 1 .. 5 /\ Discovered[Rank(d)] = d
  <1>1. DOMAIN Discovered = 1 .. 5 /\ Len(Discovered) = 5
    BY DEF Discovered
  <1>2. ASSUME NEW d \in Protocol PROVE Rank(d) \in 1 .. 5 /\ Discovered[Rank(d)] = d
    <2>1. \E i \in DOMAIN Discovered : Discovered[i] = d
      BY DEF Protocol
    <2> HIDE DEF Discovered
    <2> QED
      BY <1>1, <2>1 DEF Rank
  <1> QED
    BY <1>1, <1>2

LEMMA EventFields ==
  ASSUME NEW e \in AnyEvent
  PROVE  /\ e.packet_number \in 1 .. MaxPackets /\ e.session_id \in SessionId
         /\ e.packet_number \in Nat /\ e.session_id \in Nat
         /\ e.protocol \in Protocol /\ Rank(e.protocol) \in Nat
  <1>1. /\ e.packet_number \in 1 .. MaxPackets /\ e.session_id \in SessionId
        /\ e.protocol \in Protocol
    BY DEF AnyEvent, Event
  <1> QED
    BY <1>1, Ranks, FrameAssumption DEF SessionId

\* The key is a strict weak order: what it cannot tell apart is alike.
LEMMA KeyOrders ==
  ASSUME NEW e \in AnyEvent, NEW f \in AnyEvent, NEW g \in AnyEvent
  PROVE  /\ ~Precedes(e, e)
         /\ Precedes(e, f) => ~Precedes(f, e)
         /\ Precedes(e, f) /\ Precedes(f, g) => Precedes(e, g)
         /\ Precedes(e, g) => Precedes(e, f) \/ Precedes(f, g)
  <1>1. /\ e.packet_number \in Nat /\ e.session_id \in Nat /\ Rank(e.protocol) \in Nat
        /\ f.packet_number \in Nat /\ f.session_id \in Nat /\ Rank(f.protocol) \in Nat
        /\ g.packet_number \in Nat /\ g.session_id \in Nat /\ Rank(g.protocol) \in Nat
    BY EventFields
  <1> QED
    BY <1>1 DEF Precedes

SortBefore(list) ==
  {p \in (DOMAIN list) \X (DOMAIN list) :
     \/ Precedes(list[p[1]], list[p[2]])
     \/ p[1] < p[2] /\ ~Precedes(list[p[2]], list[p[1]])}

LEMMA SortBeforeTotal ==
  ASSUME NEW list \in Seq(AnyEvent)
  PROVE  StrictTotal(DOMAIN list, SortBefore(list))
  <1>1. PICK n \in Nat : DOMAIN list = 1 .. n
    OBVIOUS
  <1> DEFINE less == {p \in (1 .. n) \X (1 .. n) : Precedes(list[p[1]], list[p[2]])}
  <1>2. \A i, j \in 1 .. n : <<i, j>> \in less <=> Precedes(list[i], list[j])
    OBVIOUS
  <1>3. \A i \in 1 .. n : list[i] \in AnyEvent
    BY <1>1
  <1> HIDE DEF less
  <1>4. WeakOrder(1 .. n, less)
    BY <1>2, <1>3, KeyOrders DEF WeakOrder
  <1>5. SortBefore(list) = Stably(1 .. n, less)
    BY <1>1, <1>2 DEF SortBefore, Stably
  <1> QED
    BY <1>1, <1>4, <1>5, StableTotal

\* Sorting a list of events permutes it, and no element of the result should
\* have come before an earlier one.
LEMMA SortingEvents ==
  ASSUME NEW list \in Seq(AnyEvent)
  PROVE  \E f : /\ Permutes(f, Len(list))
                /\ ListSort(list, Precedes) = [m \in 1 .. Len(list) |-> list[f[m]]]
                /\ \A l, m \in 1 .. Len(list) :
                     l < m => ~Precedes(list[f[m]], list[f[l]])
  <1>1. ListSort(list, Precedes) = Arranged(list, SortBefore(list))
    BY DEF ListSort, SortBefore
  <1>2. PICK f : /\ Permutes(f, Len(list))
                 /\ Arranged(list, SortBefore(list)) = [m \in 1 .. Len(list) |-> list[f[m]]]
                 /\ \A l, m \in 1 .. Len(list) : l < m => <<f[l], f[m]>> \in SortBefore(list)
    <2>1. PICK before : before = SortBefore(list)
      OBVIOUS
    <2>2. StrictTotal(DOMAIN list, before)
      BY <2>1, SortBeforeTotal
    <2>3. \E f : /\ Permutes(f, Len(list))
                 /\ Arranged(list, before) = [m \in 1 .. Len(list) |-> list[f[m]]]
                 /\ \A l, m \in 1 .. Len(list) : l < m => <<f[l], f[m]>> \in before
      BY <2>2, ArrangedPermutes
    <2> QED
      BY <2>1, <2>3
  <1>3. ASSUME NEW l \in 1 .. Len(list), NEW m \in 1 .. Len(list), l < m
        PROVE  ~Precedes(list[f[m]], list[f[l]])
    <2>0. DOMAIN list = 1 .. Len(list) /\ f \in [1 .. Len(list) -> 1 .. Len(list)]
      <3>1. Permutes(f, Len(list))
        BY <1>2
      <3>2. f \in [1 .. Len(list) -> 1 .. Len(list)]
        BY ONLY <3>1 DEF Permutes
      <3>3. DOMAIN list = 1 .. Len(list)
        BY ONLY list \in Seq(AnyEvent)
      <3> QED
        BY <3>2, <3>3
    <2>1. f[l] \in DOMAIN list /\ f[m] \in DOMAIN list
      <3>1. PICK D : D = 1 .. Len(list)
        OBVIOUS
      <3>2. f \in [D -> D] /\ l \in D /\ m \in D
        BY <2>0, <3>1
      <3>3. f[l] \in D /\ f[m] \in D
        BY ONLY <3>2
      <3> QED
        BY <2>0, <3>1, <3>3
    <2>2. list[f[l]] \in AnyEvent /\ list[f[m]] \in AnyEvent
      BY <2>1
    <2>3. \/ Precedes(list[f[l]], list[f[m]])
          \/ ~Precedes(list[f[m]], list[f[l]])
      BY <1>2, <1>3 DEF SortBefore
    <2> QED
      BY <2>2, <2>3, KeyOrders
  <1> QED
    BY <1>1, <1>2, <1>3

-----------------------------------------------------------------------------
(***************************************************************************)
(* The inductive invariant.  Before the sessions are decoded the           *)
(* dissectors have not begun; then every event stems from one segment that *)
(* one dissector has seen and recognised, every recognised segment that    *)
(* was seen has its event, and no two events of a list have the same       *)
(* packet and the same protocol.                                           *)
(***************************************************************************)
Stage ==
  /\ Len(dissectors) = 5 /\ turn \in 1 .. 6
  /\ at \in 1 .. Len(segments) + 1
  /\ pass # "decoded" =>
       /\ turn = 1 /\ at = 1 /\ ~sorted
       /\ session_clients = [id \in SessionId |-> NoEndpoint]
       /\ protocol_events = <<>> /\ low_confidence_events = <<>>
  /\ sorted => turn = 6
  /\ turn = 6 => at = 1

\* Dissector t has seen segment i.
HasSeen(t, i) == t < turn \/ (t = turn /\ i < at)

SegmentPayload(i) == FrameOf(segments[i]).payload

StemsFrom(e, t, i) ==
  /\ e.packet_number = segments[i].packet_number
  /\ e.session_id = segments[i].session_id
  /\ e.protocol = dissectors[t]
  /\ Recognises(e.protocol, SegmentPayload(i))

Events == HighEvents \cup LowEvents

Filed ==
  \A e \in Events :
    \E t \in 1 .. 5, i \in 1 .. Len(segments) : HasSeen(t, i) /\ StemsFrom(e, t, i)

Gated(d, payload) ==
  d = ModbusTcp /\ \E dir \in Direction : payload \in Unparsable[dir]

HasEvent(t, i) ==
  \E e \in Events : /\ e.packet_number = segments[i].packet_number
                    /\ e.protocol = dissectors[t]

MustReport(t, i) ==
  /\ Recognises(dissectors[t], SegmentPayload(i))
  /\ ~Gated(dissectors[t], SegmentPayload(i))

Complete ==
  \A t \in 1 .. 5 : \A i \in 1 .. Len(segments) :
    HasSeen(t, i) /\ MustReport(t, i) => HasEvent(t, i)

Alike(e, f) == e.packet_number = f.packet_number /\ e.protocol = f.protocol

NoRepetition(list) ==
  \A l, m \in 1 .. Len(list) : Alike(list[l], list[m]) => l = m

Ordered ==
  sorted => StrictlyOrdered(protocol_events) /\ StrictlyOrdered(low_confidence_events)

(***************************************************************************)
(* The dictionary of clients: an event of the dissector that is running is *)
(* a request exactly when the client of its session sent it, and the       *)
(* client is one of the two ends of the session.                           *)
(***************************************************************************)
ByClient(e, c) == e.direction = "request" <=> SenderOf(e) = c

Clients ==
  /\ \A e \in HighEvents :
       turn <= 5 /\ e.protocol = dissectors[turn] =>
         /\ session_clients[e.session_id] # NoEndpoint
         /\ ByClient(e, session_clients[e.session_id])
  /\ \A i \in 1 .. Len(segments) :
       session_clients[segments[i].session_id] # NoEndpoint =>
         session_clients[segments[i].session_id] \in SegmentKey(segments[i])

DissectInv ==
  /\ SessionInv
  /\ DissectTypeOK
  /\ Stage
  /\ Filed
  /\ Complete
  /\ NoRepetition(protocol_events)
  /\ NoRepetition(low_confidence_events)
  /\ Ordered
  /\ Clients
  /\ OneClientPerSessionAndProtocol

-----------------------------------------------------------------------------
(***************************************************************************)
(* Facts about orders of the registry, events and segments.                *)
(***************************************************************************)

\* The registry lists every dissector once.
LEMMA ListedOnce ==
  ASSUME NEW o \in Orders
  PROVE  /\ o \in [1 .. 5 -> Protocol] /\ Len(o) = 5
         /\ \A d \in Protocol : \E t \in 1 .. 5 : o[t] = d
         /\ \A t, u \in 1 .. 5 : o[t] = o[u] => t = u
  <1>1. o \in [1 .. 5 -> Protocol] /\ {o[t] : t \in 1 .. 5} = Protocol
    BY DissectionAssumption, Ranks
  <1>2. IsFiniteSet(1 .. 5) /\ Cardinality(1 .. 5) = 5
    <2>1. PICK n \in Nat : n = 5
      OBVIOUS
    <2>2. IsFiniteSet(1 .. n) /\ Cardinality(1 .. n) = n
      BY FS_Interval
    <2> QED
      BY <2>1, <2>2
  <1>3. Cardinality(Protocol) = 5
    <2>1. Discovered \in [1 .. 5 -> Protocol] /\ Protocol = {Discovered[i] : i \in 1 .. 5}
      BY Ranks DEF Protocol, Discovered
    <2>2. \A t, u \in 1 .. 5 : Discovered[t] = Discovered[u] => t = u
      BY DEF Discovered, ModbusTcp, RtuOverTcp
    <2> HIDE DEF Discovered
    <2>3. Discovered \in Surjection(1 .. 5, Protocol)
      BY <2>1 DEF Surjection
    <2>4. Discovered \in Injection(1 .. 5, Protocol)
      BY <2>1, <2>2 DEF Injection, IsInjective
    <2> QED
      BY <1>2, <2>3, <2>4, FS_Surjection
  <1>4. o \in Surjection(1 .. 5, Protocol)
    BY <1>1 DEF Surjection
  <1>5. o \in Injection(1 .. 5, Protocol)
    BY <1>2, <1>3, <1>4, FS_Surjection
  <1>6. Len(o) = 5
    BY <1>1
  <1> QED
    BY <1>1, <1>5, <1>6 DEF Injection, IsInjective

\* The protocols of the two lists are disjoint.
LEMMA Confidences ==
  /\ RtuOverTcp \in Protocol /\ ModbusTcp \in Protocol /\ ModbusTcp # RtuOverTcp
  /\ \A e \in Event("high") : e.protocol # RtuOverTcp /\ e.direction \in Direction
  /\ \A e \in Event("low") : e.protocol = RtuOverTcp
  BY DEF Event, Confidence, Protocol, Discovered, ModbusTcp, RtuOverTcp

LEMMA ReportedAppend ==
  ASSUME NEW S, NEW list \in Seq(S), NEW e
  PROVE  Reported(Append(list, e)) = Reported(list) \cup {e}
  <1>1. /\ Reported(list) = Range(list)
        /\ Reported(Append(list, e)) = Range(Append(list, e))
    BY DEF Reported, Range
  <1> QED
    BY <1>1, RangeAppend

LEMMA EventTypes ==
  ASSUME DissectTypeOK
  PROVE  /\ HighEvents \subseteq Event("high") /\ LowEvents \subseteq Event("low")
         /\ protocol_events \in Seq(AnyEvent) /\ low_confidence_events \in Seq(AnyEvent)
  BY DEF DissectTypeOK, HighEvents, LowEvents, Reported, AnyEvent

\* Segments with one identifier run between the same endpoints.
LEMMA SameKey ==
  ASSUME SessionInv, NEW i \in 1 .. Len(segments), NEW j \in 1 .. Len(segments),
         segments[i].session_id = segments[j].session_id
  PROVE  SegmentKey(segments[i]) = SegmentKey(segments[j])
  <1>1. /\ SegmentKey(segments[i]) \in Key /\ SegmentKey(segments[j]) \in Key
        /\ segments[i].session_id # NoSession
    BY SegmentType DEF SessionInv, SessionId, NoSession
  <1> QED
    BY <1>1 DEF SessionInv, Numbering

\* A packet is one segment.
LEMMA OneSegment ==
  ASSUME SessionInv, NEW i \in 1 .. Len(segments), NEW j \in 1 .. Len(segments),
         segments[i].packet_number = segments[j].packet_number
  PROVE  i = j
  <1>1. segments[i].packet_number \in Nat /\ segments[j].packet_number \in Nat
    BY SegmentType DEF SessionInv
  <1>2. i < j \/ j < i \/ i = j
    OBVIOUS
  <1> QED
    BY <1>1, <1>2 DEF SessionInv, Decoded, InCaptureOrder

\* The sender of an event is one of the two ends of its segment.
LEMMA SenderIsParty ==
  ASSUME SessionInv, NEW e, NEW t, NEW i \in 1 .. Len(segments), StemsFrom(e, t, i)
  PROVE  /\ SenderOf(e) \in SegmentKey(segments[i])
         /\ SenderOf(e) = FrameOf(segments[i]).src
         /\ PayloadOf(e) = SegmentPayload(i)
  BY DEF StemsFrom, SenderOf, PayloadOf, SegmentPayload, SegmentKey, FrameOf, PacketKey,
         SessionKey

\* Of two ends, those that are not the client are the same.
LEMMA TwoEnds ==
  ASSUME SessionInv, NEW i \in 1 .. Len(segments), NEW c \in SegmentKey(segments[i]),
         NEW x \in SegmentKey(segments[i]), NEW y \in SegmentKey(segments[i]),
         x # c, y # c
  PROVE  x = y
  BY DEF SegmentKey, PacketKey, SessionKey

-----------------------------------------------------------------------------
(***************************************************************************)
(* The invariant is inductive.                                             *)
(***************************************************************************)

\* As long as the sessions are being decoded nothing has been dissected.
NotBegun ==
  /\ dissectors \in Orders /\ turn = 1 /\ at = 1 /\ sorted = FALSE
  /\ session_clients = [id \in SessionId |-> NoEndpoint]
  /\ protocol_events = <<>> /\ low_confidence_events = <<>>

LEMMA NotBegunInv ==
  ASSUME SessionInv, NotBegun
  PROVE  DissectInv
  <1> USE DEF NotBegun
  <1>1. Events = {} /\ HighEvents = {}
    BY DEF Events, HighEvents, LowEvents, Reported
  <1>2. SessionTypeOK /\ Len(segments) \in Nat
    BY DEF SessionInv, TypeInv, SessionTypeOK
  <1>3. DissectTypeOK
    <2>1. 1 \in 1 .. 6 /\ 1 \in 1 .. MaxPackets + 1 /\ Len(Discovered) + 1 = 6
      BY Ranks, FrameAssumption
    <2>2. session_clients \in [SessionId -> Endpoint \cup {NoEndpoint}]
      OBVIOUS
    <2>3. protocol_events \in Seq(Event("high")) /\ low_confidence_events \in Seq(Event("low"))
      OBVIOUS
    <2> QED
      BY <1>2, <2>1, <2>2, <2>3 DEF DissectTypeOK
  <1>4. Stage
    BY <1>2, ListedOnce DEF Stage
  <1>5. \A t \in 1 .. 5 : \A i \in 1 .. Len(segments) : ~HasSeen(t, i)
    BY <1>2 DEF HasSeen
  <1>6. Filed /\ Complete
    BY <1>1, <1>5 DEF Filed, Complete
  <1>7. NoRepetition(protocol_events) /\ NoRepetition(low_confidence_events)
    BY DEF NoRepetition
  <1>8. Ordered
    BY DEF Ordered
  <1>9. Clients
    <2>1. \A i \in 1 .. Len(segments) : segments[i].session_id \in SessionId
      BY SegmentType DEF SessionInv
    <2> QED
      BY <1>1, <2>1 DEF Clients
  <1>10. OneClientPerSessionAndProtocol
    BY <1>1 DEF OneClientPerSessionAndProtocol
  <1> QED
    BY <1>3, <1>4, <1>6, <1>7, <1>8, <1>9, <1>10 DEF DissectInv

LEMMA DissectInvInit == DissectInit => DissectInv
  <1>1. DissectInit => SessionInv /\ NotBegun
    BY SessionInvInit DEF DissectInit, NotBegun
  <1> QED
    BY <1>1, NotBegunInv

\* The passes of the sessions end before the dissectors begin.
LEMMA DecodingKeepsInv ==
  ASSUME DissectInv, SessionNext, UNCHANGED dissectVars
  PROVE  DissectInv'
  <1>1. SessionInv'
    BY SessionInvNext DEF DissectInv
  <1>2. pass # "decoded"
    BY DEF SessionNext, DecodeSkip, DecodeSegment, EndPass, Renumber, FindInitiator
  <1>3. NotBegun
    BY <1>2 DEF DissectInv, DissectTypeOK, Stage, NotBegun
  <1>4. NotBegun'
    BY <1>3 DEF NotBegun, dissectVars
  <1> HIDE DEF NotBegun
  <1>5. (SessionInv /\ NotBegun => DissectInv)'
    BY NotBegunInv, PTL
  <1> QED
    BY <1>1, <1>4, <1>5

\* An event stems from a segment that was decoded and will not change.
LEMMA StemsStable ==
  ASSUME UNCHANGED <<packets, segments, dissectors>>, NEW e, NEW t, NEW i
  PROVE  /\ StemsFrom(e, t, i)' <=> StemsFrom(e, t, i)
         /\ SegmentPayload(i)' = SegmentPayload(i)
         /\ SegmentKey(segments[i])' = SegmentKey(segments[i])
         /\ SenderOf(e)' = SenderOf(e)
  BY DEF StemsFrom, SegmentPayload, FrameOf, SegmentKey, PacketKey, SenderOf

LEMMA ReportsStable ==
  ASSUME UNCHANGED <<packets, segments, dissectors>>
  PROVE  /\ \A t, i : MustReport(t, i)' <=> MustReport(t, i)
         /\ Events' = Events => \A t, i : HasEvent(t, i)' <=> HasEvent(t, i)
         /\ \A e : SenderOf(e)' = SenderOf(e)
         /\ \A e, c : ByClient(e, c)' <=> ByClient(e, c)
  BY DEF MustReport, HasEvent, SegmentPayload, FrameOf, SenderOf, ByClient

LEMMA OneClientKept ==
  ASSUME OneClientPerSessionAndProtocol, UNCHANGED <<packets, segments, dissectors>>,
         HighEvents' = HighEvents
  PROVE  OneClientPerSessionAndProtocol'
  <1>1. \A e : SenderOf(e)' = SenderOf(e)
    BY ReportsStable
  <1> QED
    BY <1>1 DEF OneClientPerSessionAndProtocol

\* Where the counters of the loop stand.
LEMMA Standing ==
  ASSUME DissectInv
  PROVE  /\ Len(segments) \in Nat /\ Len(segments) <= MaxPackets /\ MaxPackets \in Nat
         /\ at \in 1 .. Len(segments) + 1 /\ turn \in 1 .. 6
         /\ dissectors \in Orders /\ Len(dissectors) = 5
         /\ DOMAIN segments = 1 .. Len(segments)
         /\ \A i \in 1 .. Len(segments) : segments[i].session_id \in SessionId
  <1>1. TypeInv /\ segments \in Seq(Segment) /\ Len(packets) <= MaxPackets
        /\ packets \in Seq(Frames)
    BY DEF DissectInv, SessionInv, TypeInv, SessionTypeOK
  <1>2. Len(segments) <= Len(packets)
    BY <1>1 DEF TypeInv, Bounds
  <1>3. Len(segments) \in Nat /\ Len(packets) \in Nat /\ DOMAIN segments = 1 .. Len(segments)
    BY <1>1
  <1>4. Len(segments) <= MaxPackets
    BY <1>1, <1>2, <1>3, FrameAssumption
  <1>5. \A i \in 1 .. Len(segments) : segments[i].session_id \in SessionId
    BY <1>1, SegmentType
  <1>6. dissectors \in Orders
    BY DEF DissectInv, DissectTypeOK
  <1> QED
    BY <1>3, <1>4, <1>5, <1>6, FrameAssumption DEF DissectInv, Stage

\* Once the sessions are decoded they stay as they are.
LEMMA DecodedStays ==
  ASSUME SessionInv, UNCHANGED sessionVars
  PROVE  SessionInv'
  BY SessionInvNext

\* A dissector that does not recognise a segment goes on to the next.
LEMMA SkipKeepsInv ==
  ASSUME DissectInv, SkipSegment
  PROVE  DissectInv'
  <1>s. /\ Len(segments) \in Nat /\ Len(segments) <= MaxPackets /\ MaxPackets \in Nat
        /\ at \in 1 .. Len(segments) + 1 /\ turn \in 1 .. 6
        /\ dissectors \in Orders /\ Len(dissectors) = 5
    BY Standing
  <1> USE DEF DissectInv
  <1>0. /\ UNCHANGED <<packets, segments, dissectors, pass, turn, session_clients,
                       protocol_events, low_confidence_events, sorted>>
        /\ UNCHANGED sessionVars
        /\ at' = at + 1 /\ at <= Len(segments) /\ turn <= Len(dissectors)
        /\ pass = "decoded"
        /\ ~Recognises(dissectors[turn], SegmentPayload(at))
    BY DEF SkipSegment, Running, Recognised, SegmentPayload, sessionVars
  <1>1. SessionInv'
    BY <1>0, DecodedStays
  <1>2. /\ Len(segments) \in Nat /\ at \in 1 .. Len(segments) /\ turn \in 1 .. 5
        /\ Len(segments) <= MaxPackets /\ MaxPackets \in Nat
    BY <1>0, <1>s
  <1>3. DissectTypeOK'
    BY <1>0, <1>1, <1>2, FrameAssumption DEF DissectTypeOK, SessionInv, TypeInv
  <1>4. Stage'
    BY <1>0, <1>2 DEF Stage
  <1>5. Events' = Events /\ HighEvents' = HighEvents
    BY <1>0 DEF Events, HighEvents, LowEvents
  <1>6. \A t \in 1 .. 5 : \A i \in 1 .. Len(segments) :
          HasSeen(t, i)' <=> HasSeen(t, i) \/ (t = turn /\ i = at)
    BY <1>0, <1>2 DEF HasSeen
  <1>7. Filed'
    BY <1>0, <1>5, <1>6, StemsStable DEF Filed
  <1>8. Complete'
    <2>1. \A t, i : MustReport(t, i)' <=> MustReport(t, i)
      BY <1>0, ReportsStable
    <2>2. \A t, i : HasEvent(t, i)' <=> HasEvent(t, i)
      BY <1>0, <1>5, ReportsStable
    <2>3. \A t \in 1 .. 5 : \A i \in 1 .. Len(segments) :
            HasSeen(t, i)' /\ MustReport(t, i) => HasSeen(t, i)
      BY <1>0, <1>6 DEF MustReport
    <2> QED
      BY <1>0, <2>1, <2>2, <2>3 DEF Complete
  <1>9. NoRepetition(protocol_events)' /\ NoRepetition(low_confidence_events)' /\ Ordered'
    BY <1>0 DEF NoRepetition, Ordered
  <1>10. Clients'
    BY <1>0, <1>5, StemsStable, ReportsStable DEF Clients
  <1>11. OneClientPerSessionAndProtocol'
    BY <1>0, <1>5, OneClientKept
  <1> QED
    BY <1>1, <1>3, <1>4, <1>7, <1>8, <1>9, <1>10, <1>11

\* The next dissector starts at the first segment and knows no client.
LEMMA NextDissectorKeepsInv ==
  ASSUME DissectInv, NextDissector
  PROVE  DissectInv'
  <1>s. /\ Len(segments) \in Nat /\ Len(segments) <= MaxPackets /\ MaxPackets \in Nat
        /\ at \in 1 .. Len(segments) + 1 /\ turn \in 1 .. 6
        /\ dissectors \in Orders /\ Len(dissectors) = 5
    BY Standing
  <1> USE DEF DissectInv
  <1>0. /\ UNCHANGED <<packets, segments, dissectors, pass,
                       protocol_events, low_confidence_events, sorted>>
        /\ UNCHANGED sessionVars
        /\ at' = 1 /\ at > Len(segments) /\ turn' = turn + 1 /\ turn <= Len(dissectors)
        /\ pass = "decoded"
        /\ session_clients' = [id \in SessionId |-> NoEndpoint]
    BY DEF NextDissector, Rewound, sessionVars
  <1>1. SessionInv'
    BY <1>0, DecodedStays
  <1>2. /\ Len(segments) \in Nat /\ at = Len(segments) + 1 /\ turn \in 1 .. 5
        /\ dissectors \in Orders /\ ~sorted
    <2>1. turn \in 1 .. 5 /\ at = Len(segments) + 1 /\ Len(segments) \in Nat
          /\ dissectors \in Orders
      BY <1>0, <1>s
    <2> QED
      BY <2>1 DEF Stage
  <1>3. DissectTypeOK'
    BY <1>0, <1>1, <1>2, Ranks, FrameAssumption DEF DissectTypeOK, SessionInv, TypeInv
  <1>4. Stage'
    BY <1>0, <1>2 DEF Stage
  <1>5. Events' = Events /\ HighEvents' = HighEvents
    BY <1>0 DEF Events, HighEvents, LowEvents
  <1>6. \A t \in 1 .. 5 : \A i \in 1 .. Len(segments) : HasSeen(t, i)' <=> HasSeen(t, i)
    BY <1>0, <1>2 DEF HasSeen
  <1>7. Filed'
    BY <1>0, <1>5, <1>6, StemsStable DEF Filed
  <1>8. Complete'
    <2>1. \A t, i : MustReport(t, i)' <=> MustReport(t, i)
      BY <1>0, ReportsStable
    <2>2. \A t, i : HasEvent(t, i)' <=> HasEvent(t, i)
      BY <1>0, <1>5, ReportsStable
    <2>3. \A t \in 1 .. 5 : \A i \in 1 .. Len(segments) :
            HasSeen(t, i)' /\ MustReport(t, i) => HasSeen(t, i)
      BY <1>0, <1>6 DEF MustReport
    <2> QED
      BY <1>0, <2>1, <2>2, <2>3 DEF Complete
  <1>9. NoRepetition(protocol_events)' /\ NoRepetition(low_confidence_events)' /\ Ordered'
    BY <1>0 DEF NoRepetition, Ordered
  <1>10. Clients'
    <2>1. ASSUME NEW e \in HighEvents, turn + 1 <= 5, e.protocol = dissectors[turn + 1]
          PROVE  FALSE
      <3>1. PICK t \in 1 .. 5, i \in 1 .. Len(segments) : HasSeen(t, i) /\ StemsFrom(e, t, i)
        BY <2>1 DEF Filed, Events
      <3>2. dissectors[t] = dissectors[turn + 1] /\ t <= turn
        BY <1>2, <2>1, <3>1 DEF StemsFrom, HasSeen
      <3>3. t = turn + 1
        BY <1>2, <2>1, <3>2, ListedOnce
      <3> QED
        BY <1>2, <3>2, <3>3
    <2>2. \A i \in 1 .. Len(segments) : segments[i].session_id \in SessionId
      BY SegmentType DEF SessionInv
    <2> QED
      BY <1>0, <1>5, <2>1, <2>2 DEF Clients
  <1>11. OneClientPerSessionAndProtocol'
    BY <1>0, <1>5, OneClientKept
  <1> QED
    BY <1>1, <1>3, <1>4, <1>7, <1>8, <1>9, <1>10, <1>11

\* Sorting keeps the events, and orders them strictly: events that agree on
\* the packet agree on the session and differ in the protocol.
LEMMA SortedList ==
  ASSUME NEW S, S \subseteq AnyEvent, NEW list \in Seq(S), NoRepetition(list),
         \A e, f \in Reported(list) :
           e.packet_number = f.packet_number => e.session_id = f.session_id,
         NEW new, new = ListSort(list, Precedes)
  PROVE  /\ new \in Seq(S)
         /\ Reported(new) = Reported(list)
         /\ NoRepetition(new)
         /\ StrictlyOrdered(new)
  <1>1. list \in Seq(AnyEvent) /\ Len(list) \in Nat /\ DOMAIN list = 1 .. Len(list)
    OBVIOUS
  <1>2. PICK f : /\ Permutes(f, Len(list))
                 /\ new = [m \in 1 .. Len(list) |-> list[f[m]]]
                 /\ \A l, m \in 1 .. Len(list) : l < m => ~Precedes(list[f[m]], list[f[l]])
    BY <1>1, SortingEvents
  <1>3. /\ \A m \in 1 .. Len(list) : f[m] \in 1 .. Len(list)
        /\ \A i \in 1 .. Len(list) : \E m \in 1 .. Len(list) : f[m] = i
        /\ \A l, m \in 1 .. Len(list) : f[l] = f[m] => l = m
    BY <1>2 DEF Permutes
  <1>4. \A i \in 1 .. Len(list) : list[i] \in S
    BY <1>1
  <1>5. new \in [1 .. Len(list) -> S]
    BY <1>2, <1>3, <1>4
  <1>6. /\ new \in Seq(S) /\ Len(new) = Len(list) /\ DOMAIN new = 1 .. Len(list)
        /\ \A m \in 1 .. Len(list) : new[m] = list[f[m]]
    BY <1>1, <1>2, <1>5
  <1>7. Reported(new) = Reported(list)
    <2>1. ASSUME NEW i \in 1 .. Len(list) PROVE list[i] \in Reported(new)
      <3>1. PICK m \in 1 .. Len(list) : f[m] = i
        BY <1>3
      <3>2. new[m] = list[i] /\ m \in DOMAIN new
        BY <1>6, <3>1
      <3> QED
        BY <3>2 DEF Reported
    <2>2. ASSUME NEW m \in 1 .. Len(list) PROVE new[m] \in Reported(list)
      <3>1. new[m] = list[f[m]] /\ f[m] \in DOMAIN list
        BY <1>1, <1>3, <1>6
      <3> QED
        BY <3>1 DEF Reported
    <2> QED
      BY <1>1, <1>6, <2>1, <2>2 DEF Reported
  <1>8. NoRepetition(new)
    <2>1. ASSUME NEW l \in 1 .. Len(list), NEW m \in 1 .. Len(list), Alike(new[l], new[m])
          PROVE  l = m
      <3>1. Alike(list[f[l]], list[f[m]]) /\ f[l] \in 1 .. Len(list) /\ f[m] \in 1 .. Len(list)
        BY <1>3, <1>6, <2>1
      <3>2. f[l] = f[m]
        BY <3>1 DEF NoRepetition
      <3> QED
        BY <1>3, <3>2
    <2> QED
      BY <1>6, <2>1 DEF NoRepetition
  <1>9. ASSUME NEW l \in 1 .. Len(list) - 1
        PROVE  \/ new[l].packet_number < new[l + 1].packet_number
               \/ /\ new[l].packet_number = new[l + 1].packet_number
                  /\ Rank(new[l].protocol) < Rank(new[l + 1].protocol)
    <2>1. l \in 1 .. Len(list) /\ l + 1 \in 1 .. Len(list) /\ l < l + 1 /\ l # l + 1
      BY <1>1
    <2> DEFINE e == new[l]
               g == new[l + 1]
    <2>2. e \in S /\ g \in S /\ ~Precedes(g, e) /\ ~Alike(e, g)
      <3>1. ~Precedes(g, e)
        BY <1>2, <1>6, <2>1
      <3>2. ~Alike(e, g)
        BY <1>6, <1>8, <2>1 DEF NoRepetition
      <3>3. e \in S /\ g \in S
        BY <1>5, <2>1
      <3> QED
        BY <3>1, <3>2, <3>3
    <2>3. e.packet_number = g.packet_number => e.session_id = g.session_id
      <3>1. e \in Reported(new) /\ g \in Reported(new)
        BY <1>6, <2>1 DEF Reported
      <3> QED
        BY <1>7, <3>1
    <2> HIDE DEF e, g
    <2>4. /\ e.packet_number \in Nat /\ g.packet_number \in Nat
          /\ e.session_id \in Nat /\ g.session_id \in Nat
          /\ Rank(e.protocol) \in Nat /\ Rank(g.protocol) \in Nat
          /\ e.protocol \in Protocol /\ g.protocol \in Protocol
      BY <2>2, EventFields
    <2>5. e.packet_number = g.packet_number => Rank(e.protocol) # Rank(g.protocol)
      BY <2>2, <2>4, Ranks DEF Alike
    <2>6. \/ e.packet_number < g.packet_number
          \/ /\ e.packet_number = g.packet_number
             /\ Rank(e.protocol) < Rank(g.protocol)
      <3>1. ~(g.packet_number < e.packet_number)
        BY <2>2 DEF Precedes
      <3>2. e.packet_number = g.packet_number => ~(Rank(g.protocol) < Rank(e.protocol))
        BY <2>2, <2>3 DEF Precedes
      <3> QED
        BY <2>4, <2>5, <3>1, <3>2
    <2> QED
      BY <2>6 DEF e, g
  <1>10. StrictlyOrdered(new)
    BY <1>6, <1>9 DEF StrictlyOrdered
  <1> QED
    BY <1>6, <1>7, <1>8, <1>10

\* Events of one packet are of one session.
LEMMA PacketHasOneSession ==
  ASSUME SessionInv, Filed, NEW e \in Events, NEW f \in Events,
         e.packet_number = f.packet_number
  PROVE  e.session_id = f.session_id
  <1>1. PICK i \in 1 .. Len(segments) : /\ e.packet_number = segments[i].packet_number
                                        /\ e.session_id = segments[i].session_id
    BY DEF Filed, StemsFrom
  <1>2. PICK j \in 1 .. Len(segments) : /\ f.packet_number = segments[j].packet_number
                                        /\ f.session_id = segments[j].session_id
    BY DEF Filed, StemsFrom
  <1>3. i = j
    BY <1>1, <1>2, OneSegment
  <1> QED
    BY <1>1, <1>2, <1>3

\* Sorting the two lists.
LEMMA SortKeepsInv ==
  ASSUME DissectInv, SortEvents
  PROVE  DissectInv'
  <1>s. dissectors \in Orders /\ Len(dissectors) = 5 /\ turn \in 1 .. 6
    BY Standing
  <1>t. /\ protocol_events \in Seq(Event("high")) /\ low_confidence_events \in Seq(Event("low"))
        /\ Event("high") \subseteq AnyEvent /\ Event("low") \subseteq AnyEvent
    BY DEF DissectInv, DissectTypeOK, AnyEvent
  <1> USE DEF DissectInv
  <1>0. /\ UNCHANGED <<packets, segments, dissectors, pass, turn, at, session_clients>>
        /\ UNCHANGED sessionVars /\ sorted' = TRUE /\ turn > Len(dissectors)
        /\ pass = "decoded"
        /\ protocol_events' = ListSort(protocol_events, Precedes)
        /\ low_confidence_events' = ListSort(low_confidence_events, Precedes)
    BY DEF SortEvents, sessionVars
  <1>1. SessionInv'
    BY <1>0, DecodedStays
  <1>2. turn = 6
    BY <1>0, <1>s
  <1>3. \A e, f \in Events : e.packet_number = f.packet_number => e.session_id = f.session_id
    BY PacketHasOneSession
  <1>4. /\ protocol_events' \in Seq(Event("high"))
        /\ HighEvents' = HighEvents
        /\ NoRepetition(protocol_events')
        /\ StrictlyOrdered(protocol_events')
    <2>1. \A e, f \in Reported(protocol_events) :
            e.packet_number = f.packet_number => e.session_id = f.session_id
      BY <1>3 DEF Events, HighEvents
    <2> QED
      BY <1>0, <1>t, <2>1, SortedList DEF HighEvents
  <1>5. /\ low_confidence_events' \in Seq(Event("low"))
        /\ LowEvents' = LowEvents
        /\ NoRepetition(low_confidence_events')
        /\ StrictlyOrdered(low_confidence_events')
    <2>1. \A e, f \in Reported(low_confidence_events) :
            e.packet_number = f.packet_number => e.session_id = f.session_id
      BY <1>3 DEF Events, LowEvents
    <2> QED
      BY <1>0, <1>t, <2>1, SortedList DEF LowEvents
  <1>6. DissectTypeOK'
    BY <1>0, <1>1, <1>4, <1>5 DEF DissectTypeOK, SessionInv, TypeInv
  <1>7. Stage'
    BY <1>0, <1>2 DEF Stage
  <1>8. Events' = Events
    BY <1>4, <1>5 DEF Events
  <1>9. \A t, i : HasSeen(t, i)' <=> HasSeen(t, i)
    BY <1>0 DEF HasSeen
  <1>10. Filed'
    BY <1>0, <1>8, <1>9, StemsStable DEF Filed
  <1>11. Complete'
    BY <1>0, <1>8, <1>9, ReportsStable DEF Complete
  <1>12. NoRepetition(protocol_events)' /\ NoRepetition(low_confidence_events)'
    BY <1>4, <1>5 DEF NoRepetition
  <1>13. Ordered'
    BY <1>4, <1>5 DEF Ordered, StrictlyOrdered
  <1>14. Clients'
    BY <1>0, <1>4, StemsStable, ReportsStable DEF Clients
  <1>15. OneClientPerSessionAndProtocol'
    BY <1>0, <1>4, OneClientKept
  <1> QED
    BY <1>1, <1>6, <1>7, <1>10, <1>11, <1>12, <1>13, <1>14, <1>15

\* Among the events of the dissector that is running, those of one session
\* agree on who the client is.
Agreement ==
  \A f, g \in HighEvents :
    /\ f.session_id = g.session_id
    /\ f.protocol = dissectors[turn] /\ g.protocol = dissectors[turn]
    => (f.direction = g.direction <=> SenderOf(f) = SenderOf(g))

LEMMA ClientsAgree ==
  SessionInv /\ DissectTypeOK /\ Filed /\ Clients /\ turn <= 5 => Agreement
  <1> SUFFICES ASSUME SessionInv, DissectTypeOK, Filed, Clients, turn <= 5,
                      NEW f \in HighEvents, NEW g \in HighEvents,
                      f.session_id = g.session_id,
                      f.protocol = dissectors[turn], g.protocol = dissectors[turn]
               PROVE  f.direction = g.direction <=> SenderOf(f) = SenderOf(g)
    BY DEF Agreement
  <1> DEFINE c == session_clients[f.session_id]
  <1>1. PICK t \in 1 .. 5, i \in 1 .. Len(segments) : StemsFrom(f, t, i)
    BY DEF Filed, Events
  <1>2. PICK u \in 1 .. 5, j \in 1 .. Len(segments) : StemsFrom(g, u, j)
    BY DEF Filed, Events
  <1>3. SegmentKey(segments[i]) = SegmentKey(segments[j])
    BY <1>1, <1>2, SameKey DEF StemsFrom
  <1>4. SenderOf(f) \in SegmentKey(segments[i]) /\ SenderOf(g) \in SegmentKey(segments[i])
    BY <1>1, <1>2, <1>3, SenderIsParty
  <1>5. c # NoEndpoint /\ ByClient(f, c) /\ ByClient(g, c)
    BY DEF Clients
  <1>6. c \in SegmentKey(segments[i])
    BY <1>1, <1>5 DEF Clients, StemsFrom
  <1>7. f.direction \in Direction /\ g.direction \in Direction
    BY EventTypes, Confidences
  <1> HIDE DEF c
  <1>8. SenderOf(f) # c /\ SenderOf(g) # c => SenderOf(f) = SenderOf(g)
    <2>1. PICK x, y : x = SenderOf(f) /\ y = SenderOf(g)
      OBVIOUS
    <2>2. x \in SegmentKey(segments[i]) /\ y \in SegmentKey(segments[i])
      BY <1>4, <2>1
    <2>3. x # c /\ y # c => x = y
      BY <1>6, <2>2, TwoEnds
    <2> QED
      BY <2>1, <2>3
  <1>9. /\ f.direction = "request" <=> SenderOf(f) = c
        /\ g.direction = "request" <=> SenderOf(g) = c
    BY <1>5 DEF ByClient
  <1>10. f.direction = g.direction <=> (f.direction = "request" <=> g.direction = "request")
    BY <1>7 DEF Direction
  <1> QED
    BY <1>8, <1>9, <1>10

\* An event of the running dissector is of an earlier segment.
LEMMA NoEventYet ==
  ASSUME DissectInv, turn <= 5, at <= Len(segments),
         NEW f \in Events, f.protocol = dissectors[turn]
  PROVE  f.packet_number # segments[at].packet_number
  <1>1. PICK t \in 1 .. 5, i \in 1 .. Len(segments) : HasSeen(t, i) /\ StemsFrom(f, t, i)
    BY DEF DissectInv, Filed
  <1>2. turn \in 1 .. 5 /\ at \in 1 .. Len(segments) /\ dissectors \in Orders
    BY Standing
  <1>3. t = turn
    <2>1. dissectors[t] = dissectors[turn]
      BY <1>1 DEF StemsFrom
    <2> QED
      BY <1>2, <2>1, ListedOnce
  <1>4. i # at /\ i \in 1 .. Len(segments) /\ f.packet_number = segments[i].packet_number
    BY <1>1, <1>2, <1>3 DEF HasSeen, StemsFrom
  <1>5. SessionInv
    BY DEF DissectInv
  <1> QED
    BY <1>2, <1>4, <1>5, OneSegment

\* A list grows by an event that it does not hold yet.
LEMMA NoRepetitionAppend ==
  ASSUME NEW S, NEW list \in Seq(S), NoRepetition(list), NEW e,
         \A f \in Reported(list) : f.protocol = e.protocol => f.packet_number # e.packet_number
  PROVE  NoRepetition(Append(list, e))
  <1>1. /\ Len(list) \in Nat /\ Len(Append(list, e)) = Len(list) + 1
        /\ \A i \in 1 .. Len(list) : Append(list, e)[i] = list[i]
        /\ Append(list, e)[Len(list) + 1] = e
        /\ DOMAIN list = 1 .. Len(list)
    OBVIOUS
  <1>2. \A i \in 1 .. Len(list) + 1 : i \in 1 .. Len(list) \/ i = Len(list) + 1
    BY <1>1
  <1>3. \A i \in 1 .. Len(list) : ~Alike(list[i], e) /\ ~Alike(e, list[i])
    BY <1>1 DEF Reported, Alike
  <1> QED
    BY <1>1, <1>2, <1>3 DEF NoRepetition

\* A dissector that recognises a segment settles the client and files an
\* event, unless the ADU is rejected.
LEMMA DissectKeepsInv ==
  ASSUME DissectInv, DissectSegment
  PROVE  DissectInv'
  <1>s. /\ Len(segments) \in Nat /\ Len(segments) <= MaxPackets /\ MaxPackets \in Nat
        /\ at \in 1 .. Len(segments) + 1 /\ turn \in 1 .. 6
        /\ dissectors \in Orders /\ Len(dissectors) = 5
        /\ \A i \in 1 .. Len(segments) : segments[i].session_id \in SessionId
    BY Standing
  <1>y. \A f \in Events : turn <= 5 /\ at <= Len(segments) /\ f.protocol = dissectors[turn]
                          => f.packet_number # segments[at].packet_number
    BY NoEventYet
  <1> USE DEF DissectInv
  <1>0. /\ UNCHANGED <<packets, segments, dissectors, pass, turn, sorted>>
        /\ UNCHANGED sessionVars
        /\ at' = at + 1 /\ at \in 1 .. Len(segments) /\ turn \in 1 .. 5
        /\ pass = "decoded" /\ ~sorted
    <2>1. /\ UNCHANGED <<packets, segments, dissectors, pass, turn, sorted>>
          /\ UNCHANGED sessionVars
          /\ at' = at + 1 /\ at <= Len(segments) /\ turn <= Len(dissectors)
          /\ pass = "decoded"
      BY DEF DissectSegment, Running, sessionVars
    <2>2. turn \in 1 .. 5 /\ at \in 1 .. Len(segments)
      BY <1>s, <2>1
    <2>3. ~sorted
      BY <2>2 DEF Stage
    <2> QED
      BY <2>1, <2>2, <2>3
  <1>1. SessionInv'
    BY <1>0, DecodedStays
  <1>2. PICK d, s, c, e :
          /\ d = dissectors[turn] /\ s = segments[at] /\ c = ClientOf(s)
          /\ e = [packet_number |-> s.packet_number, session_id |-> s.session_id,
                  protocol |-> d, direction |-> DirectionOf(d, s)]
    OBVIOUS
  <1>3. /\ Recognises(d, SegmentPayload(at))
        /\ session_clients' = IF d = RtuOverTcp THEN session_clients
                              ELSE [session_clients EXCEPT ![s.session_id] = c]
        /\ protocol_events' = IF Confidence(d) = "high" /\ ~Rejected(d, s)
                              THEN Append(protocol_events, e) ELSE protocol_events
        /\ low_confidence_events' = IF Confidence(d) = "low" /\ ~Rejected(d, s)
                                    THEN Append(low_confidence_events, e)
                                    ELSE low_confidence_events
    BY <1>2 DEF DissectSegment, Recognised, SegmentPayload
  <1>4. /\ e.packet_number = s.packet_number /\ e.session_id = s.session_id
        /\ e.protocol = d /\ e.direction = DirectionOf(d, s)
    BY <1>2
  <1>5. /\ s.packet_number \in 1 .. MaxPackets /\ s.session_id \in SessionId
        /\ d \in Protocol /\ FrameOf(s).src \in Endpoint
    <2>1. s \in Segment /\ FrameOf(s) \in Frames
      BY <1>0, <1>2, SegmentType DEF SessionInv
    <2>2. d \in Protocol
      BY <1>0, <1>2, <1>s, ListedOnce
    <2> QED
      BY <2>1, <2>2, FrameAssumption DEF Segment
  <1>6. c \in Endpoint /\ c \in SegmentKey(s) /\ c # NoEndpoint
        /\ (session_clients[s.session_id] # NoEndpoint => c = session_clients[s.session_id])
    <2>1. FrameOf(s).src \in SegmentKey(s)
      BY DEF SegmentKey, PacketKey, SessionKey
    <2>2. session_clients[s.session_id] \in Endpoint \cup {NoEndpoint}
      BY <1>5 DEF DissectTypeOK
    <2>3. session_clients[s.session_id] # NoEndpoint
            => session_clients[s.session_id] \in SegmentKey(s)
      BY <1>0, <1>2 DEF Clients
    <2> QED
      BY <1>2, <1>5, <2>1, <2>2, <2>3, FrameAssumption DEF ClientOf
  <1>7. /\ d = RtuOverTcp => Confidence(d) = "low" /\ e \in Event("low")
        /\ d # RtuOverTcp => Confidence(d) = "high" /\ e \in Event("high")
    BY <1>2, <1>5 DEF Event, Confidence, DirectionOf, Direction
  <1>8. d # RtuOverTcp => ByClient(e, c)
    BY <1>2, <1>4 DEF ByClient, DirectionOf, SenderOf, FrameOf
  <1>9. Rejected(d, s) => Gated(d, SegmentPayload(at)) /\ d # RtuOverTcp
    BY <1>2, Confidences DEF Rejected, Gated, SegmentPayload, DirectionOf, Direction
  <1>10. \A f \in Events : f.protocol = d => f.packet_number # e.packet_number
    BY <1>0, <1>2, <1>4, <1>y
  <1>11. /\ protocol_events' \in Seq(Event("high"))
         /\ NoRepetition(protocol_events')
         /\ \/ HighEvents' = HighEvents /\ (d = RtuOverTcp \/ Rejected(d, s))
            \/ HighEvents' = HighEvents \cup {e} /\ d # RtuOverTcp
    <2>1. protocol_events \in Seq(Event("high")) /\ NoRepetition(protocol_events)
      BY DEF DissectTypeOK
    <2>2. CASE d # RtuOverTcp /\ ~Rejected(d, s)
      <3>1. protocol_events' = Append(protocol_events, e) /\ e \in Event("high")
        BY <1>3, <1>7, <2>2
      <3>2. protocol_events' \in Seq(Event("high"))
        BY <2>1, <3>1
      <3>3. HighEvents' = HighEvents \cup {e}
        BY <2>1, <3>1, ReportedAppend DEF HighEvents
      <3>4. NoRepetition(protocol_events')
        <4>1. \A f \in Reported(protocol_events) :
                f.protocol = e.protocol => f.packet_number # e.packet_number
          BY <1>4, <1>10 DEF Events, HighEvents
        <4> QED
          BY <2>1, <3>1, <4>1, NoRepetitionAppend
      <3> QED
        BY <2>2, <3>2, <3>3, <3>4
    <2>3. CASE d = RtuOverTcp \/ Rejected(d, s)
      <3>1. protocol_events' = protocol_events
        BY <1>3, <1>7, <2>3
      <3> QED
        BY <2>1, <2>3, <3>1 DEF HighEvents
    <2> QED
      BY <2>2, <2>3
  <1>12. /\ low_confidence_events' \in Seq(Event("low"))
         /\ NoRepetition(low_confidence_events')
         /\ \/ LowEvents' = LowEvents /\ d # RtuOverTcp
            \/ LowEvents' = LowEvents \cup {e} /\ d = RtuOverTcp
    <2>1. /\ low_confidence_events \in Seq(Event("low"))
          /\ NoRepetition(low_confidence_events)
      BY DEF DissectTypeOK
    <2>2. CASE d = RtuOverTcp
      <3>1. low_confidence_events' = Append(low_confidence_events, e) /\ e \in Event("low")
        BY <1>3, <1>7, <1>9, <2>2
      <3>2. low_confidence_events' \in Seq(Event("low"))
        BY <2>1, <3>1
      <3>3. LowEvents' = LowEvents \cup {e}
        BY <2>1, <3>1, ReportedAppend DEF LowEvents
      <3>4. NoRepetition(low_confidence_events')
        <4>1. \A f \in Reported(low_confidence_events) :
                f.protocol = e.protocol => f.packet_number # e.packet_number
          BY <1>4, <1>10 DEF Events, LowEvents
        <4> QED
          BY <2>1, <3>1, <4>1, NoRepetitionAppend
      <3> QED
        BY <2>2, <3>2, <3>3, <3>4
    <2>3. CASE d # RtuOverTcp
      <3>1. low_confidence_events' = low_confidence_events
        BY <1>3, <1>7, <2>3
      <3> QED
        BY <2>1, <2>3, <3>1 DEF LowEvents
    <2> QED
      BY <2>2, <2>3
  <1>13. /\ Events \subseteq Events' /\ Events' \subseteq Events \cup {e}
         /\ ~Gated(d, SegmentPayload(at)) => e \in Events'
    BY <1>9, <1>11, <1>12 DEF Events
  <1>14. \A t \in 1 .. 5 : \A i \in 1 .. Len(segments) :
           HasSeen(t, i)' <=> HasSeen(t, i) \/ (t = turn /\ i = at)
    BY <1>0 DEF HasSeen
  <1>15. session_clients' \in [SessionId -> Endpoint \cup {NoEndpoint}]
    BY <1>3, <1>5, <1>6 DEF DissectTypeOK
  <1>16. DissectTypeOK'
    <2>1. at' \in 1 .. MaxPackets + 1
      BY <1>0, <1>s
    <2> QED
      BY <1>0, <1>1, <1>11, <1>12, <1>15, <2>1 DEF DissectTypeOK, SessionInv, TypeInv
  <1>17. Stage'
    BY <1>0, <1>s DEF Stage
  <1>18. Filed'
    <2>1. StemsFrom(e, turn, at)
      BY <1>2, <1>3, <1>4 DEF StemsFrom
    <2>2. ASSUME NEW f \in Events'
          PROVE  \E t \in 1 .. 5, i \in 1 .. Len(segments) :
                   HasSeen(t, i)' /\ StemsFrom(f, t, i)
      BY <1>0, <1>13, <1>14, <2>1, <2>2 DEF Filed
    <2> QED
      BY <1>0, <2>2, StemsStable DEF Filed
  <1>19. Complete'
    <2>1. ASSUME NEW t \in 1 .. 5, NEW i \in 1 .. Len(segments),
                 HasSeen(t, i)', MustReport(t, i)
          PROVE  HasEvent(t, i)'
      <3>1. CASE HasSeen(t, i)
        <4>1. HasEvent(t, i)
          BY <2>1, <3>1 DEF Complete
        <4> QED
          BY <1>0, <1>13, <4>1 DEF HasEvent
      <3>2. CASE t = turn /\ i = at
        <4>1. e \in Events'
          BY <1>2, <1>13, <2>1, <3>2 DEF MustReport
        <4> QED
          BY <1>0, <1>2, <1>4, <3>2, <4>1 DEF HasEvent
      <3> QED
        BY <1>14, <2>1, <3>1, <3>2
    <2>2. \A t, i : MustReport(t, i)' <=> MustReport(t, i)
      BY <1>0, ReportsStable
    <2> QED
      BY <1>0, <2>1, <2>2 DEF Complete
  <1>20. NoRepetition(protocol_events)' /\ NoRepetition(low_confidence_events)' /\ Ordered'
    BY <1>0, <1>11, <1>12 DEF NoRepetition, Ordered
  <1>21. Clients'
    <2>1. ASSUME NEW f \in HighEvents', f.protocol = d
          PROVE  /\ session_clients'[f.session_id] # NoEndpoint
                 /\ ByClient(f, session_clients'[f.session_id])
      <3>1. d # RtuOverTcp
        <4>1. f \in Event("high")
          BY <1>11 DEF HighEvents, Reported
        <4> QED
          BY <2>1, <4>1, Confidences
      <3>2. session_clients' = [session_clients EXCEPT ![s.session_id] = c]
        BY <1>3, <3>1
      <3>3. CASE f = e
        <4>1. session_clients'[f.session_id] = c
          BY <1>4, <1>5, <3>2, <3>3 DEF DissectTypeOK
        <4> QED
          BY <1>6, <1>8, <3>1, <3>3, <4>1
      <3>4. CASE f \in HighEvents
        <4>1. /\ session_clients[f.session_id] # NoEndpoint
              /\ ByClient(f, session_clients[f.session_id])
          BY <1>0, <1>2, <2>1, <3>4 DEF Clients
        <4>2. f.session_id \in SessionId
          BY <3>4, EventTypes, EventFields DEF AnyEvent
        <4>3. session_clients'[f.session_id] = session_clients[f.session_id]
          BY <1>5, <1>6, <3>2, <4>1, <4>2 DEF DissectTypeOK
        <4> QED
          BY <4>1, <4>3
      <3> QED
        BY <1>11, <3>3, <3>4
    <2>2. ASSUME NEW i \in 1 .. Len(segments),
                 session_clients'[segments[i].session_id] # NoEndpoint
          PROVE  session_clients'[segments[i].session_id] \in SegmentKey(segments[i])
      <3>1. CASE segments[i].session_id = s.session_id /\ d # RtuOverTcp
        <4>1. SegmentKey(segments[i]) = SegmentKey(s)
          BY <1>0, <1>2, <3>1, SameKey
        <4>2. session_clients'[segments[i].session_id] = c
          BY <1>3, <1>5, <3>1 DEF DissectTypeOK
        <4> QED
          BY <1>6, <4>1, <4>2
      <3>2. CASE ~(segments[i].session_id = s.session_id /\ d # RtuOverTcp)
        <4>1. session_clients'[segments[i].session_id] = session_clients[segments[i].session_id]
          BY <1>3, <1>s, <3>2 DEF DissectTypeOK
        <4> QED
          BY <2>2, <4>1 DEF Clients
      <3> QED
        BY <3>1, <3>2
    <2> QED
      BY <1>0, <1>2, <2>1, <2>2, StemsStable, ReportsStable DEF Clients
  <1>22. OneClientPerSessionAndProtocol'
    <2>1. ASSUME NEW f \in HighEvents', NEW g \in HighEvents',
                 f.session_id = g.session_id, f.protocol = g.protocol
          PROVE  f.direction = g.direction <=> SenderOf(f)' = SenderOf(g)'
      <3>1. CASE f.protocol = d
        <4> HIDE DEF DissectInv
        <4>1. (SessionInv /\ DissectTypeOK /\ Filed /\ Clients /\ turn <= 5 => Agreement)'
          BY ClientsAgree, PTL
        <4>2. turn' <= 5 /\ dissectors'[turn'] = d
          BY <1>0, <1>2
        <4>3. Agreement'
          BY <1>1, <1>16, <1>18, <1>21, <4>1, <4>2
        <4> QED
          BY <2>1, <3>1, <4>2, <4>3 DEF Agreement
      <3>2. CASE f.protocol # d
        <4>1. f \in HighEvents /\ g \in HighEvents
          BY <1>4, <1>11, <2>1, <3>2
        <4>2. SenderOf(f)' = SenderOf(f) /\ SenderOf(g)' = SenderOf(g)
          BY <1>0, ReportsStable
        <4> QED
          BY <2>1, <4>1, <4>2 DEF OneClientPerSessionAndProtocol
      <3> QED
        BY <3>1, <3>2
    <2> QED
      BY <2>1 DEF OneClientPerSessionAndProtocol
  <1> QED
    BY <1>1, <1>16, <1>17, <1>18, <1>19, <1>20, <1>21, <1>22

\* A step of another component leaves the dissection as it is.
LEMMA StutterKeepsInv ==
  ASSUME DissectInv, UNCHANGED allDissectVars
  PROVE  DissectInv'
  <1>1. UNCHANGED sessionVars /\ UNCHANGED <<packets, pass, segments>>
        /\ UNCHANGED <<dissectors, turn, at, session_clients, protocol_events,
                       low_confidence_events, sorted>>
    BY DEF allDissectVars, dissectVars, sessionVars
  <1>2. SessionInv'
    BY <1>1, DecodedStays DEF DissectInv
  <1>3. Events' = Events /\ HighEvents' = HighEvents
    BY <1>1 DEF Events, HighEvents, LowEvents
  <1>4. \A t, i : HasSeen(t, i)' <=> HasSeen(t, i)
    BY <1>1 DEF HasSeen
  <1>5. DissectTypeOK'
    BY <1>1, <1>2 DEF DissectInv, DissectTypeOK, SessionInv, TypeInv
  <1>6. Stage'
    BY <1>1 DEF DissectInv, Stage
  <1>7. Filed'
    BY <1>1, <1>3, <1>4, StemsStable DEF DissectInv, Filed
  <1>8. Complete'
    BY <1>1, <1>3, <1>4, ReportsStable DEF DissectInv, Complete
  <1>9. NoRepetition(protocol_events)' /\ NoRepetition(low_confidence_events)' /\ Ordered'
    BY <1>1 DEF DissectInv, NoRepetition, Ordered
  <1>10. Clients'
    BY <1>1, <1>3, StemsStable, ReportsStable DEF DissectInv, Clients
  <1>11. OneClientPerSessionAndProtocol'
    BY <1>1, <1>3, OneClientKept DEF DissectInv
  <1> QED
    BY <1>2, <1>5, <1>6, <1>7, <1>8, <1>9, <1>10, <1>11 DEF DissectInv

LEMMA DissectInvNext == DissectInv /\ [DissectNext]_allDissectVars => DissectInv'
  BY DecodingKeepsInv, SkipKeepsInv, DissectKeepsInv, NextDissectorKeepsInv, SortKeepsInv,
     StutterKeepsInv DEF DissectNext

\* Once the events are sorted the dissection is over.
LEMMA DissectedOnce ==
  ASSUME DissectInv, sorted
  PROVE  ~DissectNext
  <1>1. dissectors \in Orders /\ Len(dissectors) = 5
    BY Standing
  <1>2. turn = 6 /\ pass = "decoded"
    BY DEF DissectInv, Stage
  <1>3. ~SessionNext
    BY <1>2 DEF SessionNext, DecodeSkip, DecodeSegment, EndPass, Renumber, FindInitiator
  <1>4. ~SkipSegment /\ ~DissectSegment /\ ~NextDissector /\ ~SortEvents
    BY <1>1, <1>2 DEF SkipSegment, DissectSegment, NextDissector, SortEvents, Running
  <1> QED
    BY <1>3, <1>4 DEF DissectNext

LEMMA DissectInvAlways == DissectSpec => []DissectInv
  <1>1. DissectInit => DissectInv
    BY DissectInvInit
  <1>2. DissectInv /\ [DissectNext]_allDissectVars => DissectInv'
    BY DissectInvNext
  <1> QED
    BY <1>1, <1>2, PTL DEF DissectSpec

-----------------------------------------------------------------------------
(***************************************************************************)
(* What the invariant says of the two event lists.                         *)
(***************************************************************************)

\* A tunnelled RTU frame is never an MBAP frame: what is filed with low
\* confidence was recognised by the RTU discriminator, which yields, and
\* what is filed as Modbus/TCP has the shape of MBAP.
LEMMA ExclusiveFromInv == DissectInv => ModbusRecognitionsExclusive
  <1> SUFFICES ASSUME DissectInv, NEW e \in LowEvents
               PROVE  /\ PayloadOf(e) \notin Shape[ModbusTcp]
                      /\ \A f \in HighEvents :
                           f.protocol = ModbusTcp => f.packet_number # e.packet_number
    BY DEF ModbusRecognitionsExclusive
  <1>0. SessionInv /\ DissectTypeOK /\ Filed
    BY DEF DissectInv
  <1>1. PICK t \in 1 .. 5, i \in 1 .. Len(segments) : StemsFrom(e, t, i)
    BY <1>0 DEF Filed, Events
  <1>2. e.protocol = RtuOverTcp
    BY <1>0, EventTypes, Confidences
  <1>3. PayloadOf(e) \notin Shape[ModbusTcp]
    <2>1. PayloadOf(e) = SegmentPayload(i)
      BY <1>0, <1>1, SenderIsParty
    <2> QED
      BY <1>1, <1>2, <2>1 DEF StemsFrom, Recognises, LooksLikeRtu
  <1>4. ASSUME NEW f \in HighEvents, f.protocol = ModbusTcp,
               f.packet_number = e.packet_number
        PROVE  FALSE
    <2>1. PICK u \in 1 .. 5, j \in 1 .. Len(segments) : StemsFrom(f, u, j)
      BY <1>0 DEF Filed, Events
    <2>2. PayloadOf(f) = SegmentPayload(j) /\ PayloadOf(f) = PayloadOf(e)
      BY <1>0, <1>4, <2>1, SenderIsParty DEF PayloadOf
    <2> QED
      BY <1>3, <1>4, <2>1, <2>2, Confidences DEF StemsFrom, Recognises
  <1> QED
    BY <1>3, <1>4

\* In two lists without repetition, of different protocols, an event is
\* known by its packet and its protocol.
LEMMA AtMostOneEvent ==
  ASSUME DissectInv, NEW e \in Events, NEW f \in Events, Alike(e, f)
  PROVE  e = f
  <1>0. /\ NoRepetition(protocol_events) /\ NoRepetition(low_confidence_events)
        /\ DissectTypeOK
    BY DEF DissectInv
  <1>1. /\ \A g \in HighEvents : g.protocol # RtuOverTcp
        /\ \A g \in LowEvents : g.protocol = RtuOverTcp
    BY <1>0, EventTypes, Confidences
  <1>2. CASE e \in HighEvents /\ f \in HighEvents
    <2>1. DOMAIN protocol_events = 1 .. Len(protocol_events)
      BY <1>0 DEF DissectTypeOK
    <2> QED
      BY <1>0, <1>2, <2>1 DEF HighEvents, Reported, NoRepetition
  <1>3. CASE e \in LowEvents /\ f \in LowEvents
    <2>1. DOMAIN low_confidence_events = 1 .. Len(low_confidence_events)
      BY <1>0 DEF DissectTypeOK
    <2> QED
      BY <1>0, <1>3, <2>1 DEF LowEvents, Reported, NoRepetition
  <1> QED
    BY <1>1, <1>2, <1>3 DEF Events, Alike

\* Once every dissector has seen every segment, each segment of a
\* dissector's shape has its event, and no other segment has one.
LEMMA ReportedFromInv == DissectInv => ReportedOnce
  <1> SUFFICES ASSUME DissectInv, sorted PROVE ReportedOnce
    BY DEF ReportedOnce
  <1>0. /\ SessionInv /\ DissectTypeOK /\ Filed /\ Complete /\ Ordered /\ Stage
        /\ dissectors \in Orders
    BY DEF DissectInv, DissectTypeOK
  <1>1. StrictlyOrdered(protocol_events) /\ StrictlyOrdered(low_confidence_events)
    BY <1>0 DEF Ordered
  <1>2. turn = 6 /\ DOMAIN segments = 1 .. Len(segments)
    BY <1>0, Standing DEF Stage
  <1>3. \A t \in 1 .. 5 : \A i \in 1 .. Len(segments) : HasSeen(t, i)
    BY <1>2 DEF HasSeen
  <1>4. ASSUME NEW i \in 1 .. Len(segments), NEW d \in Protocol,
               NEW seen, seen = {e \in Events : /\ e.packet_number = segments[i].packet_number
                                                /\ e.protocol = d}
        PROVE  IF Recognises(d, SegmentPayload(i))
               THEN Cardinality(seen) = 1 \/ (Gated(d, SegmentPayload(i)) /\ seen = {})
               ELSE seen = {}
    <2>1. PICK t \in 1 .. 5 : dissectors[t] = d
      BY <1>0, ListedOnce
    <2>2. ASSUME NEW e \in seen PROVE Recognises(d, SegmentPayload(i)) /\ seen = {e}
      <3>1. PICK u \in 1 .. 5, j \in 1 .. Len(segments) : StemsFrom(e, u, j)
        BY <1>0, <1>4 DEF Filed
      <3>2. i = j
        <4>1. segments[i].packet_number = segments[j].packet_number
          BY <1>4, <3>1 DEF StemsFrom
        <4> QED
          BY <1>0, <4>1, OneSegment
      <3>3. \A f \in seen : f = e
        BY <1>4, AtMostOneEvent DEF Alike
      <3> QED
        BY <1>4, <3>1, <3>2, <3>3 DEF StemsFrom
    <2>3. Recognises(d, SegmentPayload(i)) /\ ~Gated(d, SegmentPayload(i)) => seen # {}
      BY <1>0, <1>3, <1>4, <2>1 DEF Complete, MustReport, HasEvent
    <2>4. seen # {} => Recognises(d, SegmentPayload(i)) /\ Cardinality(seen) = 1
      BY <2>2, FS_Singleton
    <2> QED
      BY <2>3, <2>4
  <1>5. ASSUME NEW i \in DOMAIN segments, NEW d \in Protocol
        PROVE  LET payload == FrameOf(segments[i]).payload
                   seen    == {e \in HighEvents \cup LowEvents :
                                 /\ e.packet_number = segments[i].packet_number
                                 /\ e.protocol = d}
                   yields  == d = RtuOverTcp /\ payload \in Shape[ModbusTcp]
                   gated   == d = ModbusTcp /\ \E dir \in Direction :
                                                 payload \in Unparsable[dir]
               IN  IF payload \in Shape[d] /\ ~yields
                   THEN Cardinality(seen) = 1 \/ (gated /\ seen = {})
                   ELSE seen = {}
    <2> DEFINE S == {e \in Events : /\ e.packet_number = segments[i].packet_number
                                    /\ e.protocol = d}
    <2>1. IF Recognises(d, SegmentPayload(i))
          THEN Cardinality(S) = 1 \/ (Gated(d, SegmentPayload(i)) /\ S = {})
          ELSE S = {}
      <3>1. i \in 1 .. Len(segments)
        BY <1>2
      <3>2. PICK seen : seen = S
        OBVIOUS
      <3>3. seen = {e \in Events : /\ e.packet_number = segments[i].packet_number
                                   /\ e.protocol = d}
        BY <3>2
      <3> HIDE DEF S
      <3>4. IF Recognises(d, SegmentPayload(i))
            THEN Cardinality(seen) = 1 \/ (Gated(d, SegmentPayload(i)) /\ seen = {})
            ELSE seen = {}
        BY <1>4, <3>1, <3>3
      <3> QED
        BY <3>2, <3>4
    <2>2. Recognises(d, SegmentPayload(i))
            <=> /\ SegmentPayload(i) \in Shape[d]
                /\ ~(d = RtuOverTcp /\ SegmentPayload(i) \in Shape[ModbusTcp])
      BY DEF Recognises, LooksLikeRtu
    <2>3. S = {e \in HighEvents \cup LowEvents :
                 e.packet_number = segments[i].packet_number /\ e.protocol = d}
      BY DEF Events
    <2>4. Gated(d, SegmentPayload(i))
            <=> d = ModbusTcp /\ \E dir \in Direction : SegmentPayload(i) \in Unparsable[dir]
      BY DEF Gated
    <2>5. IF /\ SegmentPayload(i) \in Shape[d]
             /\ ~(d = RtuOverTcp /\ SegmentPayload(i) \in Shape[ModbusTcp])
          THEN \/ Cardinality(S) = 1
               \/ /\ d = ModbusTcp /\ \E dir \in Direction : SegmentPayload(i) \in Unparsable[dir]
                  /\ S = {}
          ELSE S = {}
      BY <2>1, <2>2, <2>4, Zenon
    <2> HIDE DEF S
    <2> QED
      BY <2>3, <2>5 DEF SegmentPayload
  <1> QED
    BY <1>1, <1>5 DEF ReportedOnce

-----------------------------------------------------------------------------
(***************************************************************************)
(* Type correctness: no dissector runs past the segments, every event      *)
(* names a packet, a session and a protocol of its list's confidence.      *)
(***************************************************************************)
THEOREM DissectTypeCorrect == DissectSpec => []DissectTypeOK
  <1>1. DissectInv => DissectTypeOK
    BY DEF DissectInv
  <1> QED
    BY <1>1, DissectInvAlways, PTL

(***************************************************************************)
(* Assumption Z-17: no payload that validates as MBAP is reported as a     *)
(* tunnelled RTU frame, in whatever order the registry lists the two.      *)
(***************************************************************************)
THEOREM ModbusIsNeverBoth == DissectSpec => []ModbusRecognitionsExclusive
  BY ExclusiveFromInv, DissectInvAlways, PTL

(***************************************************************************)
(* Within one session and one protocol one endpoint asks and its peer      *)
(* answers: the two are never both the client.                             *)
(***************************************************************************)
THEOREM OneClient == DissectSpec => []OneClientPerSessionAndProtocol
  <1>1. DissectInv => OneClientPerSessionAndProtocol
    BY DEF DissectInv
  <1> QED
    BY <1>1, DissectInvAlways, PTL

(***************************************************************************)
(* Every segment of a dissector's shape is reported by it exactly once,    *)
(* any other never, and the order of the registry does not show in the     *)
(* sorted lists.                                                           *)
(***************************************************************************)
THEOREM EverySegmentReportedOnce == DissectSpec => []ReportedOnce
  BY ReportedFromInv, DissectInvAlways, PTL
=============================================================================
