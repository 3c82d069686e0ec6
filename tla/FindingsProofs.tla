--------------------------- MODULE FindingsProofs ---------------------------
(***************************************************************************)
(* Theorems about CommMatrix and Findings, for every capture, every        *)
(* assignment of shapes to payloads, every order of the registry and every *)
(* installation: any number of check files and catalogue files, with any   *)
(* defects.  First the matrix, up to the theorem that its three loops      *)
(* compute the table TrafficTable promises; then the findings, which take  *)
(* their endpoints from it.                                                *)
(***************************************************************************)
EXTENDS Findings, DissectionProofs

-----------------------------------------------------------------------------
(***************************************************************************)
(* The inductive invariant.  How far the three loops are:                  *)
(***************************************************************************)
SegmentsMet == IF phase = "sessions" THEN here - 1 ELSE Len(segments)
PacketsSeen == IF phase = "sessions" THEN 0
               ELSE IF phase = "packets" THEN here - 1 ELSE Len(packets)
RowsAdded == IF phase = "rows" THEN here - 1
             ELSE IF phase = "built" THEN Len(order) ELSE 0

\* Nothing is built before the events are sorted.
MatrixNotBegun ==
  /\ phase = "sessions" /\ here = 1 /\ order = <<>>
  /\ first_sender = [id \in SessionId |-> NoPair]
  /\ session_by_key = [k \in Key |-> NoSession]
  /\ packet_counts = [id \in SessionId |-> 0]
  /\ comm_matrix = <<>>

Phased ==
  /\ ~sorted => MatrixNotBegun
  /\ phase = "sessions" => here <= Len(segments) + 1
  /\ phase = "packets" => here <= Len(packets) + 1
  /\ phase = "rows" => here <= Len(order) + 1

(***************************************************************************)
(* Sessions are met in the order of their identifiers, since they were     *)
(* numbered in file order; first_sender has those met so far.              *)
(***************************************************************************)
Listed ==
  /\ \A r \in 1 .. Len(order) : order[r] = r - 1
  /\ \A id \in SessionId : first_sender[id] # NoPair <=> id < Len(order)
  /\ \A i \in 1 .. SegmentsMet : segments[i].session_id < Len(order)

IsFirst(i) == \A j \in 1 .. i - 1 : segments[j].session_id # segments[i].session_id

Senders ==
  \A id \in SessionId :
    first_sender[id] # NoPair =>
      \E i \in 1 .. SegmentsMet :
        /\ segments[i].session_id = id
        /\ IsFirst(i)
        /\ first_sender[id] = <<FrameOf(segments[i]).src, FrameOf(segments[i]).dst>>

\* The dictionary of keys is the one of decode_segments, as far as met.
Keyed ==
  \A k \in Key :
    session_by_key[k] = IF \E i \in 1 .. SegmentsMet : SegmentKey(segments[i]) = k
                        THEN session_ids[k] ELSE NoSession

PacketsOf(id, n) ==
  {m \in 1 .. n : packets[m].tcp /\ session_ids[PacketKey(packets[m])] = id}

PacketsCounted ==
  \A id \in SessionId : packet_counts[id] = Cardinality(PacketsOf(id, PacketsSeen))

RowsInOrder ==
  /\ Len(comm_matrix) = RowsAdded
  /\ \A r \in 1 .. Len(comm_matrix) : comm_matrix[r] = RowOf(r - 1)

\* The packets of the first n sessions.
PacketsBelow(n) ==
  {m \in 1 .. Len(packets) :
     packets[m].tcp /\ session_ids[PacketKey(packets[m])] \in 0 .. n - 1}

Summed ==
  SumFunction([r \in DOMAIN comm_matrix |-> comm_matrix[r].packet_count])
    = Cardinality(PacketsBelow(Len(comm_matrix)))

MatrixInv ==
  /\ DissectInv
  /\ MatrixTypeOK
  /\ Phased
  /\ Listed
  /\ Senders
  /\ Keyed
  /\ PacketsCounted
  /\ RowsInOrder
  /\ Summed

-----------------------------------------------------------------------------
(***************************************************************************)
(* The invariant is inductive.                                             *)
(***************************************************************************)

\* The sequences the loops visit, and what the sessions of a sorted
\* analysis are.
LEMMA MatrixStanding ==
  ASSUME MatrixInv
  PROVE  /\ Len(segments) \in Nat /\ Len(packets) \in Nat /\ Len(order) \in Nat
         /\ MaxPackets \in Nat
         /\ Len(segments) <= Len(packets) /\ Len(packets) <= MaxPackets
         /\ Len(order) <= MaxPackets
         /\ here \in Nat \ {0} /\ SessionId = 0 .. MaxPackets - 1
         /\ SessionInv
         /\ sorted => pass = "decoded"
         /\ \A i \in 1 .. Len(segments) : /\ segments[i].session_id \in SessionId
                                          /\ segments[i].packet_number \in 1 .. Len(packets)
                                          /\ FrameOf(segments[i]) \in Frames
                                          /\ SegmentKey(segments[i]) \in Key
         /\ \A n \in 1 .. Len(packets) : packets[n] \in Frames /\ PacketKey(packets[n]) \in Key
  <1>1. DissectInv /\ MatrixTypeOK /\ SessionInv /\ TypeInv /\ DissectTypeOK /\ Stage
    BY DEF MatrixInv, DissectInv, SessionInv
  <1>2. packets \in Seq(Frames) /\ Len(packets) <= MaxPackets /\ segments \in Seq(Segment)
        /\ Len(segments) <= Len(packets)
    BY <1>1 DEF TypeInv, SessionTypeOK, Bounds
  <1>3. order \in Seq(SessionId) /\ here \in 1 .. MaxPackets + 1
    BY <1>1 DEF MatrixTypeOK
  <1>4. Len(order) <= MaxPackets
    <2>1. CASE Len(order) # 0
      <3>1. order[Len(order)] = Len(order) - 1 /\ order[Len(order)] \in SessionId
        BY <1>3, <2>1 DEF MatrixInv, Listed
      <3> QED
        BY <1>3, <3>1, FrameAssumption DEF SessionId
    <2> QED
      BY <2>1, FrameAssumption
  <1>5. \A n \in 1 .. Len(packets) : packets[n] \in Frames /\ PacketKey(packets[n]) \in Key
    BY <1>2, KeyType
  <1>6. \A i \in 1 .. Len(segments) : /\ segments[i].session_id \in SessionId
                                      /\ segments[i].packet_number \in 1 .. Len(packets)
                                      /\ FrameOf(segments[i]) \in Frames
                                      /\ SegmentKey(segments[i]) \in Key
    BY <1>1, SegmentType
  <1>7. sorted => pass = "decoded"
    BY <1>1 DEF Stage
  <1>8. /\ Len(segments) \in Nat /\ Len(packets) \in Nat /\ Len(order) \in Nat
        /\ MaxPackets \in Nat /\ here \in Nat \ {0}
    BY <1>2, <1>3, FrameAssumption
  <1> QED
    BY <1>1, <1>2, <1>4, <1>5, <1>6, <1>7, <1>8 DEF SessionId

\* Before anything is built the invariant is that of the dissection.
LEMMA MatrixNotBegunInv ==
  DissectInv /\ MatrixNotBegun => MatrixInv
  <1> SUFFICES ASSUME DissectInv, MatrixNotBegun PROVE MatrixInv
    OBVIOUS
  <1> USE DEF MatrixNotBegun
  <1>0. SegmentsMet = 0 /\ PacketsSeen = 0 /\ RowsAdded = 0
    BY DEF SegmentsMet, PacketsSeen, RowsAdded
  <1>1. DissectTypeOK /\ Len(segments) \in Nat /\ MaxPackets \in Nat
    BY Standing DEF DissectInv
  <1>2. MatrixTypeOK
    <2>1. 1 \in 1 .. MaxPackets + 1 /\ 0 \in 0 .. MaxPackets
      BY <1>1
    <2>2. packet_counts \in [SessionId -> 0 .. MaxPackets]
      BY <2>1
    <2>3. /\ first_sender \in [SessionId -> (Endpoint \X Endpoint) \cup {NoPair}]
          /\ session_by_key \in [Key -> SessionId \cup {NoSession}]
      OBVIOUS
    <2>4. order \in Seq(SessionId)
      OBVIOUS
    <2>5. comm_matrix \in Seq([session_id : SessionId,
                          source : Endpoint, target : Endpoint,
                          provenance : {"observed", "inferred"},
                          initiator : Endpoint \cup {NoEndpoint},
                          protocol : SUBSET Protocol,
                          packet_count : 1 .. MaxPackets])
      OBVIOUS
    <2> QED
      BY <1>1, <2>1, <2>2, <2>3, <2>4, <2>5 DEF MatrixTypeOK
  <1>3. Phased
    BY <1>1 DEF Phased
  <1>4. Listed
    <2>1. \A id \in SessionId : ~(id < 0)
      BY <1>1 DEF SessionId
    <2> QED
      BY <1>0, <2>1 DEF Listed
  <1>5. Senders
    BY DEF Senders
  <1>6. Keyed
    BY <1>0 DEF Keyed
  <1>7. PacketsCounted
    <2>1. \A id : PacketsOf(id, 0) = {}
      BY DEF PacketsOf
    <2> QED
      BY <1>0, <2>1, FS_EmptySet DEF PacketsCounted
  <1>8. RowsInOrder
    BY <1>0 DEF RowsInOrder
  <1>9. Summed
    <2>1. PacketsBelow(0) = {}
      BY DEF PacketsBelow
    <2>2. [r \in {} |-> comm_matrix[r].packet_count] \in [{} -> Int]
      OBVIOUS
    <2>3. SumFunction([r \in {} |-> comm_matrix[r].packet_count]) = 0
      BY <2>2, SumEmpty
    <2>4. DOMAIN comm_matrix = {} /\ Len(comm_matrix) = 0
      OBVIOUS
    <2> QED
      BY <2>1, <2>3, <2>4, FS_EmptySet DEF Summed
  <1> QED
    BY <1>2, <1>3, <1>4, <1>5, <1>6, <1>7, <1>8, <1>9 DEF MatrixInv

LEMMA MatrixInvInit == MatrixInit => MatrixInv
  BY DissectInvInit, MatrixNotBegunInv DEF MatrixInit, MatrixNotBegun

\* As long as the events are not sorted nothing is built.
LEMMA DissectingKeepsInv ==
  ASSUME MatrixInv, DissectNext, UNCHANGED matrixVars
  PROVE  MatrixInv'
  <1>1. DissectInv'
    BY DissectInvNext DEF MatrixInv
  <1>2. ~sorted
    BY DissectedOnce DEF MatrixInv
  <1>3. MatrixNotBegun'
    BY <1>2 DEF MatrixInv, Phased, MatrixNotBegun, matrixVars
  <1>4. (DissectInv /\ MatrixNotBegun => MatrixInv)'
    BY MatrixNotBegunInv, PTL
  <1> QED
    BY <1>1, <1>3, <1>4

\* After the first loop the dictionary of keys is complete.
LEMMA KeyedAll ==
  ASSUME MatrixInv, phase # "sessions"
  PROVE  \A k \in Key : session_by_key[k] = session_ids[k]
  <1>1. ASSUME NEW k \in Key PROVE session_by_key[k] = session_ids[k]
    <2>1. session_by_key[k] = IF \E i \in 1 .. Len(segments) : SegmentKey(segments[i]) = k
                              THEN session_ids[k] ELSE NoSession
      BY DEF MatrixInv, Keyed, SegmentsMet
    <2>2. session_ids[k] # NoSession
            => \E i \in 1 .. Len(segments) : SegmentKey(segments[i]) = k
      BY DEF MatrixInv, DissectInv, SessionInv, Numbering
    <2> QED
      BY <2>1, <2>2
  <1> QED
    BY <1>1

\* What the loops leave alone.
LEMMA MatrixStable ==
  ASSUME UNCHANGED allDissectVars
  PROVE  /\ UNCHANGED <<packets, segments, session_ids, initiators, sorted,
                        protocol_events, low_confidence_events>>
         /\ \A i : SegmentKey(segments[i])' = SegmentKey(segments[i])
         /\ \A i : FrameOf(segments[i])' = FrameOf(segments[i])
         /\ \A i : IsFirst(i)' <=> IsFirst(i)
         /\ \A id, n : PacketsOf(id, n)' = PacketsOf(id, n)
         /\ \A n : PacketsBelow(n)' = PacketsBelow(n)
  <1>1. UNCHANGED <<packets, segments, session_ids, initiators, sorted,
                    protocol_events, low_confidence_events>>
    BY DEF allDissectVars, sessionVars, dissectVars
  <1> QED
    BY <1>1 DEF SegmentKey, FrameOf, PacketKey, IsFirst, PacketsOf, PacketsBelow

\* The endpoints of a frame are not the sentinel.
LEMMA PairType ==
  ASSUME NEW f \in Frames
  PROVE  <<f.src, f.dst>> \in Endpoint \X Endpoint /\ <<f.src, f.dst>> # NoPair
  BY FrameAssumption DEF NoPair

\* A session that is met for the first time has the next identifier.
LEMMA NextIdentifier ==
  ASSUME MatrixInv, sorted, phase = "sessions", here <= Len(segments),
         first_sender[segments[here].session_id] = NoPair
  PROVE  segments[here].session_id = Len(order) /\ IsFirst(here)
  <1> DEFINE id == segments[here].session_id
  <1>0. /\ id \in SessionId /\ SessionId = 0 .. MaxPackets - 1 /\ MaxPackets \in Nat
        /\ Len(order) \in Nat /\ here \in 1 .. Len(segments) /\ Len(segments) \in Nat
    BY MatrixStanding
  <1>1. /\ ~(id < Len(order))
        /\ \A j \in 1 .. here - 1 : segments[j].session_id < Len(order)
    BY <1>0 DEF MatrixInv, Listed, SegmentsMet
  <1>2. NumberedInFileOrder /\ DOMAIN segments = 1 .. Len(segments)
    BY Standing DEF MatrixInv, DissectInv, SessionInv, InOrder
  <1>3. ~(Len(order) < id)
    <2>1. SUFFICES ASSUME Len(order) < id PROVE FALSE
      OBVIOUS
    <2>2. Len(order) \in 0 .. id - 1
      BY <1>0, <2>1
    <2>3. PICK j \in 1 .. here - 1 : segments[j].session_id = Len(order)
      BY <1>0, <1>2, <2>2 DEF NumberedInFileOrder
    <2> QED
      BY <1>0, <1>1, <2>3
  <1>4. id = Len(order)
    BY <1>0, <1>1, <1>3
  <1>5. \A j \in 1 .. here - 1 : segments[j].session_id # id
    <2>1. \A j \in 1 .. here - 1 : segments[j].session_id \in Nat
      BY <1>0, MatrixStanding
    <2> QED
      BY <1>0, <1>1, <1>4, <2>1
  <1> QED
    BY <1>4, <1>5 DEF IsFirst

\* The first loop.
LEMMA MeetKeepsInv ==
  ASSUME MatrixInv, MeetSession
  PROVE  MatrixInv'
  <1>0. /\ UNCHANGED allDissectVars /\ UNCHANGED <<phase, packet_counts, comm_matrix>>
        /\ sorted /\ phase = "sessions" /\ here <= Len(segments) /\ here' = here + 1
    BY DEF MeetSession
  <1>s. /\ Len(segments) \in Nat /\ here \in 1 .. Len(segments) /\ MaxPackets \in Nat
        /\ here + 1 \in 1 .. MaxPackets + 1
        /\ Len(order) \in Nat /\ SessionId = 0 .. MaxPackets - 1
        /\ \A i \in 1 .. Len(segments) : segments[i].session_id \in SessionId
    <2>1. /\ Len(segments) \in Nat /\ Len(packets) \in Nat /\ MaxPackets \in Nat
          /\ Len(segments) <= Len(packets) /\ Len(packets) <= MaxPackets
          /\ here \in Nat \ {0}
      BY MatrixStanding
    <2>2. here \in 1 .. Len(segments) /\ here + 1 \in 1 .. MaxPackets + 1
      BY <1>0, <2>1
    <2> QED
      BY <2>1, <2>2, MatrixStanding
  <1>t. MatrixTypeOK /\ DissectInv /\ Listed /\ Senders /\ Keyed /\ PacketsCounted
        /\ RowsInOrder /\ Summed /\ Phased
    BY DEF MatrixInv
  <1>u. /\ UNCHANGED <<packets, segments, session_ids, initiators, sorted,
                        protocol_events, low_confidence_events>>
        /\ \A i : SegmentKey(segments[i])' = SegmentKey(segments[i])
        /\ \A i : FrameOf(segments[i])' = FrameOf(segments[i])
        /\ \A i : IsFirst(i)' <=> IsFirst(i)
        /\ \A id, n : PacketsOf(id, n)' = PacketsOf(id, n)
        /\ \A n : PacketsBelow(n)' = PacketsBelow(n)
    BY <1>0, MatrixStable
  <1>1. PICK s, id, pair, key :
          /\ s = segments[here] /\ id = s.session_id /\ key = SegmentKey(s)
          /\ pair = <<FrameOf(s).src, FrameOf(s).dst>>
    OBVIOUS
  <1>2. /\ session_by_key' = IF session_by_key[key] = NoSession
                             THEN [session_by_key EXCEPT ![key] = id] ELSE session_by_key
        /\ order' = IF first_sender[id] = NoPair THEN Append(order, id) ELSE order
        /\ first_sender' = IF first_sender[id] = NoPair
                           THEN [first_sender EXCEPT ![id] = pair] ELSE first_sender
    BY <1>1 DEF MeetSession, SetDefault
  <1>3. /\ id \in SessionId /\ key \in Key /\ id # NoSession
        /\ pair \in Endpoint \X Endpoint /\ pair # NoPair
        /\ session_ids[key] = id
    <2>1. s.session_id \in SessionId /\ FrameOf(s) \in Frames /\ SegmentKey(s) \in Key
      BY <1>1, <1>s, MatrixStanding
    <2>2. session_ids[SegmentKey(segments[here])] = segments[here].session_id
      BY <1>s, <1>t DEF DissectInv, SessionInv, Numbering
    <2> QED
      BY <1>1, <1>s, <2>1, <2>2, PairType DEF NoSession
  <1>4. first_sender[id] = NoPair => id = Len(order) /\ IsFirst(here)
    BY <1>0, <1>1, NextIdentifier
  <1>5. /\ SegmentsMet = here - 1 /\ SegmentsMet' = here
        /\ PacketsSeen = 0 /\ PacketsSeen' = 0 /\ RowsAdded = 0 /\ RowsAdded' = 0
    BY <1>0, <1>s DEF SegmentsMet, PacketsSeen, RowsAdded
  <1>6. \A i \in 1 .. here : i \in 1 .. here - 1 \/ i = here
    BY <1>s
  <1>7. DissectInv'
    BY <1>0, <1>t, StutterKeepsInv
  <1>8. MatrixTypeOK'
    <2>1. order' \in Seq(SessionId)
      BY <1>2, <1>3, <1>t DEF MatrixTypeOK
    <2>2. first_sender' \in [SessionId -> (Endpoint \X Endpoint) \cup {NoPair}]
      BY <1>2, <1>3, <1>t DEF MatrixTypeOK
    <2>3. session_by_key' \in [Key -> SessionId \cup {NoSession}]
      BY <1>2, <1>3, <1>t DEF MatrixTypeOK
    <2> QED
      BY <1>0, <1>7, <1>s, <1>t, <2>1, <2>2, <2>3 DEF MatrixTypeOK, DissectInv
  <1>9. Phased'
    BY <1>0, <1>s, <1>u DEF Phased
  <1>10. Listed'
    <2>1. CASE first_sender[id] = NoPair
      <3>1. /\ Len(order') = Len(order) + 1
            /\ \A r \in 1 .. Len(order) : order'[r] = order[r]
            /\ order'[Len(order) + 1] = Len(order)
        BY <1>2, <1>4, <1>t, <2>1 DEF MatrixTypeOK
      <3>2. \A x \in SessionId : first_sender'[x] = IF x = id THEN pair ELSE first_sender[x]
        BY <1>2, <1>3, <1>t, <2>1 DEF MatrixTypeOK
      <3>3. \A r \in 1 .. Len(order) + 1 : order'[r] = r - 1
        <4>1. \A r \in 1 .. Len(order) + 1 : r \in 1 .. Len(order) \/ r = Len(order) + 1
          BY <1>s
        <4> QED
          BY <1>s, <1>t, <3>1, <4>1 DEF Listed
      <3>4. \A x \in SessionId : first_sender'[x] # NoPair <=> x < Len(order) + 1
        <4>1. \A x \in SessionId : x < Len(order) + 1 <=> x < Len(order) \/ x = Len(order)
          BY <1>s
        <4> QED
          BY <1>3, <1>4, <1>t, <2>1, <3>2, <4>1 DEF Listed
      <3>5. \A i \in 1 .. here : segments[i].session_id < Len(order) + 1
        <4>1. \A i \in 1 .. here - 1 : segments[i].session_id < Len(order)
          BY <1>5, <1>t DEF Listed
        <4>2. \A i \in 1 .. here : segments[i].session_id \in Nat
          BY <1>s
        <4>3. segments[here].session_id = Len(order)
          BY <1>1, <1>4, <2>1
        <4> QED
          BY <1>6, <1>s, <4>1, <4>2, <4>3
      <3> QED
        BY <1>5, <1>u, <3>1, <3>3, <3>4, <3>5 DEF Listed
    <2>2. CASE first_sender[id] # NoPair
      <3>1. id < Len(order)
        BY <1>3, <1>t, <2>2 DEF Listed
      <3> QED
        BY <1>1, <1>2, <1>5, <1>6, <1>t, <1>u, <2>2, <3>1 DEF Listed
    <2> QED
      BY <2>1, <2>2
  <1>11. Senders'
    <2>1. ASSUME NEW x \in SessionId, first_sender'[x] # NoPair
          PROVE  \E i \in 1 .. here :
                   /\ segments[i].session_id = x
                   /\ IsFirst(i)
                   /\ first_sender'[x] = <<FrameOf(segments[i]).src, FrameOf(segments[i]).dst>>
      <3>1. CASE x = id /\ first_sender[id] = NoPair
        <4>1. first_sender'[x] = pair
          BY <1>2, <1>3, <1>t, <3>1 DEF MatrixTypeOK
        <4> QED
          BY <1>1, <1>4, <1>s, <3>1, <4>1
      <3>2. CASE ~(x = id /\ first_sender[id] = NoPair)
        <4>1. first_sender'[x] = first_sender[x]
          BY <1>2, <1>3, <1>t, <3>2 DEF MatrixTypeOK
        <4>2. PICK i \in 1 .. here - 1 :
                /\ segments[i].session_id = x
                /\ IsFirst(i)
                /\ first_sender[x] = <<FrameOf(segments[i]).src, FrameOf(segments[i]).dst>>
          BY <1>5, <1>t, <2>1, <4>1 DEF Senders
        <4>3. i \in 1 .. here
          BY <1>s
        <4> QED
          BY <4>1, <4>2, <4>3
      <3> QED
        BY <3>1, <3>2
    <2> QED
      BY <1>5, <1>u, <2>1 DEF Senders
  <1>12. Keyed'
    <2>1. ASSUME NEW k \in Key
          PROVE  session_by_key'[k] = IF \E i \in 1 .. here : SegmentKey(segments[i]) = k
                                      THEN session_ids[k] ELSE NoSession
      <3>0. session_by_key[k] = IF \E i \in 1 .. here - 1 : SegmentKey(segments[i]) = k
                                THEN session_ids[k] ELSE NoSession
        BY <1>5, <1>t DEF Keyed
      <3>1. here \in 1 .. here /\ 1 .. here - 1 \subseteq 1 .. here
        BY <1>s
      <3>2. (\E i \in 1 .. here : SegmentKey(segments[i]) = k)
              <=> k = key \/ \E i \in 1 .. here - 1 : SegmentKey(segments[i]) = k
        BY <1>1, <1>6, <3>1
      <3>3. session_by_key'[k] = IF k = key /\ session_by_key[key] = NoSession THEN id
                                 ELSE session_by_key[k]
        BY <1>2, <1>3, <1>t DEF MatrixTypeOK
      <3> QED
        BY <1>3, <3>0, <3>2, <3>3
    <2> QED
      BY <1>5, <1>u, <2>1 DEF Keyed
  <1>13. PacketsCounted'
    BY <1>0, <1>5, <1>t, <1>u DEF PacketsCounted
  <1>14. RowsInOrder'
    <2>1. Len(comm_matrix) = 0
      BY <1>5, <1>t DEF RowsInOrder
    <2> QED
      BY <1>0, <1>5, <2>1 DEF RowsInOrder
  <1>15. Summed'
    BY <1>0, <1>t, <1>u DEF Summed
  <1> QED
    BY <1>7, <1>8, <1>9, <1>10, <1>11, <1>12, <1>13, <1>14, <1>15 DEF MatrixInv

\* A step that moves no loop forward keeps what the loops have found.
LEMMA SameProgress ==
  ASSUME MatrixInv, UNCHANGED allDissectVars,
         UNCHANGED <<order, first_sender, session_by_key, packet_counts, comm_matrix>>,
         SegmentsMet' = SegmentsMet, PacketsSeen' = PacketsSeen, RowsAdded' = RowsAdded,
         phase' \in {"sessions", "packets", "rows", "built"},
         here' \in 1 .. MaxPackets + 1, Phased'
  PROVE  MatrixInv'
  <1>1. MatrixTypeOK /\ DissectInv /\ Listed /\ Senders /\ Keyed /\ PacketsCounted
        /\ RowsInOrder /\ Summed
    BY DEF MatrixInv
  <1>2. DissectInv'
    BY <1>1, StutterKeepsInv
  <1>3. /\ UNCHANGED <<packets, segments, session_ids, initiators, sorted,
                        protocol_events, low_confidence_events>>
        /\ \A i : SegmentKey(segments[i])' = SegmentKey(segments[i])
        /\ \A i : FrameOf(segments[i])' = FrameOf(segments[i])
        /\ \A i : IsFirst(i)' <=> IsFirst(i)
        /\ \A id, n : PacketsOf(id, n)' = PacketsOf(id, n)
        /\ \A n : PacketsBelow(n)' = PacketsBelow(n)
    BY MatrixStable
  <1>4. MatrixTypeOK'
    BY <1>1, <1>2 DEF MatrixTypeOK, DissectInv
  <1>5. Listed' /\ Senders' /\ Keyed'
    BY <1>1, <1>3 DEF Listed, Senders, Keyed
  <1>6. PacketsCounted' /\ Summed'
    BY <1>1, <1>3 DEF PacketsCounted, Summed
  <1>7. RowsInOrder'
    BY <1>1, <1>3 DEF RowsInOrder, RowOf, Parties, Label, ProtocolsIn, Reported
  <1> QED
    BY <1>2, <1>4, <1>5, <1>6, <1>7 DEF MatrixInv

LEMMA MatrixStutterKeepsInv ==
  ASSUME MatrixInv, UNCHANGED allMatrixVars
  PROVE  MatrixInv'
  <1>1. /\ UNCHANGED allDissectVars
        /\ UNCHANGED <<phase, here, order, first_sender, session_by_key, packet_counts,
                       comm_matrix>>
    BY DEF allMatrixVars, matrixVars
  <1>2. UNCHANGED <<packets, segments, sorted>>
    BY <1>1, MatrixStable
  <1>3. Phased'
    BY <1>1, <1>2 DEF MatrixInv, Phased, MatrixNotBegun
  <1>4. SegmentsMet' = SegmentsMet /\ PacketsSeen' = PacketsSeen /\ RowsAdded' = RowsAdded
    BY <1>1, <1>2 DEF SegmentsMet, PacketsSeen, RowsAdded
  <1>5. phase \in {"sessions", "packets", "rows", "built"} /\ here \in 1 .. MaxPackets + 1
    BY DEF MatrixInv, MatrixTypeOK
  <1> QED
    BY <1>1, <1>3, <1>4, <1>5, SameProgress

LEMMA EndPhaseKeepsInv ==
  ASSUME MatrixInv,
         \/ EndPhase("sessions", "packets", Len(segments))
         \/ EndPhase("packets", "rows", Len(packets))
         \/ EndPhase("rows", "built", Len(order))
  PROVE  MatrixInv'
  <1>s. /\ Len(segments) \in Nat /\ Len(packets) \in Nat /\ Len(order) \in Nat
        /\ here \in Nat \ {0} /\ MaxPackets \in Nat
    BY MatrixStanding
  <1>p. Phased
    BY DEF MatrixInv
  <1>0. /\ UNCHANGED allDissectVars /\ sorted /\ here' = 1
        /\ UNCHANGED <<order, first_sender, session_by_key, packet_counts, comm_matrix>>
    BY DEF EndPhase
  <1>1. UNCHANGED <<packets, segments, sorted>>
    BY <1>0, MatrixStable
  <1>2. /\ SegmentsMet' = SegmentsMet /\ PacketsSeen' = PacketsSeen /\ RowsAdded' = RowsAdded
        /\ phase' \in {"packets", "rows", "built"}
    <2>1. CASE EndPhase("sessions", "packets", Len(segments))
      <3>1. phase = "sessions" /\ phase' = "packets" /\ here - 1 = Len(segments)
        BY <1>p, <1>s, <2>1 DEF EndPhase, Phased
      <3> QED
        BY <1>0, <1>1, <3>1 DEF SegmentsMet, PacketsSeen, RowsAdded
    <2>2. CASE EndPhase("packets", "rows", Len(packets))
      <3>1. phase = "packets" /\ phase' = "rows" /\ here - 1 = Len(packets)
        BY <1>p, <1>s, <2>2 DEF EndPhase, Phased
      <3> QED
        BY <1>0, <1>1, <3>1 DEF SegmentsMet, PacketsSeen, RowsAdded
    <2>3. CASE EndPhase("rows", "built", Len(order))
      <3>1. phase = "rows" /\ phase' = "built" /\ here - 1 = Len(order)
        BY <1>p, <1>s, <2>3 DEF EndPhase, Phased
      <3> QED
        BY <1>0, <1>1, <3>1 DEF SegmentsMet, PacketsSeen, RowsAdded
    <2> QED
      BY <2>1, <2>2, <2>3
  <1>3. here' \in 1 .. MaxPackets + 1
    BY <1>0, <1>s
  <1>4. Phased'
    BY <1>0, <1>1, <1>2, <1>s DEF Phased
  <1> QED
    BY <1>0, <1>2, <1>3, <1>4, SameProgress

\* The second loop: a packet that counts is one more of its session.
LEMMA CountKeepsInv ==
  ASSUME MatrixInv, CountPacket
  PROVE  MatrixInv'
  <1>0. /\ UNCHANGED allDissectVars
        /\ UNCHANGED <<phase, order, first_sender, session_by_key, comm_matrix>>
        /\ sorted /\ phase = "packets" /\ here <= Len(packets) /\ here' = here + 1
    BY DEF CountPacket
  <1>s. /\ Len(packets) \in Nat /\ here \in 1 .. Len(packets) /\ MaxPackets \in Nat
        /\ here + 1 \in 1 .. MaxPackets + 1 /\ Len(packets) <= MaxPackets
        /\ packets[here] \in Frames /\ PacketKey(packets[here]) \in Key
        /\ SessionId = 0 .. MaxPackets - 1
    <2>1. /\ Len(packets) \in Nat /\ MaxPackets \in Nat /\ Len(packets) <= MaxPackets
          /\ here \in Nat \ {0}
      BY MatrixStanding
    <2>2. here \in 1 .. Len(packets) /\ here + 1 \in 1 .. MaxPackets + 1
      BY <1>0, <2>1
    <2> QED
      BY <2>1, <2>2, MatrixStanding
  <1>t. MatrixTypeOK /\ DissectInv /\ Listed /\ Senders /\ Keyed /\ PacketsCounted
        /\ RowsInOrder /\ Summed /\ Phased
    BY DEF MatrixInv
  <1>u. /\ UNCHANGED <<packets, segments, session_ids, initiators, sorted,
                        protocol_events, low_confidence_events>>
        /\ \A i : SegmentKey(segments[i])' = SegmentKey(segments[i])
        /\ \A i : FrameOf(segments[i])' = FrameOf(segments[i])
        /\ \A i : IsFirst(i)' <=> IsFirst(i)
        /\ \A id, n : PacketsOf(id, n)' = PacketsOf(id, n)
        /\ \A n : PacketsBelow(n)' = PacketsBelow(n)
    BY <1>0, MatrixStable
  <1>1. PICK id : id = session_ids[PacketKey(packets[here])]
    OBVIOUS
  <1>2. id \in SessionId \cup {NoSession} /\ session_by_key[PacketKey(packets[here])] = id
    BY <1>0, <1>1, <1>s, <1>t, KeyedAll DEF DissectInv, SessionInv, TypeInv, SessionTypeOK
  <1>3. packet_counts' = IF packets[here].tcp /\ id # NoSession
                         THEN [packet_counts EXCEPT ![id] = @ + 1] ELSE packet_counts
    BY <1>2 DEF CountPacket, Counts
  <1>4. /\ SegmentsMet' = SegmentsMet /\ RowsAdded = 0 /\ RowsAdded' = 0
        /\ PacketsSeen = here - 1 /\ PacketsSeen' = here
    BY <1>0, <1>s, <1>u DEF SegmentsMet, RowsAdded, PacketsSeen
  <1>5. ASSUME NEW x \in SessionId
        PROVE  /\ packet_counts'[x] = Cardinality(PacketsOf(x, here))
               /\ packet_counts'[x] \in 0 .. MaxPackets
    <2>1. /\ packet_counts[x] = Cardinality(PacketsOf(x, here - 1))
          /\ IsFiniteSet(PacketsOf(x, here - 1))
      <3>1. here - 1 \in Nat /\ PacketsOf(x, here - 1) \subseteq 1 .. here - 1
        BY <1>s DEF PacketsOf
      <3> QED
        BY <1>4, <1>t, <3>1, FinitePositions DEF PacketsCounted
    <2>2. \A n \in 1 .. here : n \in 1 .. here - 1 \/ n = here
      BY <1>s
    <2>3. here \notin PacketsOf(x, here - 1) /\ 1 .. here - 1 \subseteq 1 .. here
      BY <1>s DEF PacketsOf
    <2>4. CASE packets[here].tcp /\ id = x
      <3>1. PacketsOf(x, here) = PacketsOf(x, here - 1) \cup {here}
        <4>1. here \in PacketsOf(x, here)
          <5>1. here \in 1 .. here /\ session_ids[PacketKey(packets[here])] = x
            BY <1>1, <1>s, <2>4
          <5> QED
            BY <2>4, <5>1 DEF PacketsOf
        <4>2. PacketsOf(x, here - 1) \subseteq PacketsOf(x, here)
          BY <2>3 DEF PacketsOf
        <4>3. PacketsOf(x, here) \subseteq PacketsOf(x, here - 1) \cup {here}
          BY <2>2 DEF PacketsOf
        <4> QED
          BY <4>1, <4>2, <4>3
      <3>2. Cardinality(PacketsOf(x, here)) = Cardinality(PacketsOf(x, here - 1)) + 1
        BY <2>1, <2>3, <3>1, OneMore
      <3>3. id # NoSession
        BY <1>s, <2>4 DEF NoSession
      <3>4. packet_counts'[x] = packet_counts[x] + 1
        BY <1>3, <1>t, <2>4, <3>3 DEF MatrixTypeOK
      <3>5. packet_counts'[x] = Cardinality(PacketsOf(x, here))
        BY <2>1, <3>2, <3>4
      <3>6. Cardinality(PacketsOf(x, here)) \in 0 .. here
        <4>1. PacketsOf(x, here) \subseteq 1 .. here /\ here \in Nat
          BY <1>s DEF PacketsOf
        <4> QED
          BY <4>1, FinitePositions
      <3> QED
        BY <1>s, <3>5, <3>6
    <2>5. CASE ~(packets[here].tcp /\ id = x)
      <3>1. PacketsOf(x, here) = PacketsOf(x, here - 1)
        BY <1>1, <2>2, <2>3, <2>5 DEF PacketsOf
      <3>2. packet_counts'[x] = packet_counts[x]
        BY <1>2, <1>3, <1>t, <2>5 DEF MatrixTypeOK
      <3> QED
        BY <1>t, <2>1, <3>1, <3>2 DEF MatrixTypeOK
    <2> QED
      BY <2>4, <2>5
  <1>6. DissectInv'
    BY <1>0, <1>t, StutterKeepsInv
  <1>7. MatrixTypeOK'
    <2>1. packet_counts' \in [SessionId -> 0 .. MaxPackets]
      <3>1. DOMAIN packet_counts' = SessionId
            /\ packet_counts' = [x \in SessionId |-> packet_counts'[x]]
        BY <1>3, <1>t DEF MatrixTypeOK
      <3> QED
        BY <1>5, <3>1
    <2> QED
      BY <1>0, <1>6, <1>s, <1>t, <2>1 DEF MatrixTypeOK, DissectInv
  <1>8. Phased'
    BY <1>0, <1>s, <1>u DEF Phased
  <1>9. Listed' /\ Senders' /\ Keyed'
    BY <1>0, <1>4, <1>t, <1>u DEF Listed, Senders, Keyed
  <1>10. PacketsCounted'
    BY <1>4, <1>5, <1>u DEF PacketsCounted
  <1>11. RowsInOrder'
    <2>1. Len(comm_matrix) = 0
      BY <1>4, <1>t DEF RowsInOrder
    <2> QED
      BY <1>0, <1>4, <2>1 DEF RowsInOrder
  <1>12. Summed'
    BY <1>0, <1>t, <1>u DEF Summed
  <1> QED
    BY <1>6, <1>7, <1>8, <1>9, <1>10, <1>11, <1>12 DEF MatrixInv

\* The segment that introduced a session.
LEMMA SessionBegins ==
  ASSUME MatrixInv, phase # "sessions", NEW id \in 0 .. Len(order) - 1
  PROVE  /\ id \in SessionId
         /\ first_sender[id] \in Endpoint \X Endpoint
         /\ \E i \in 1 .. Len(segments) :
              /\ segments[i].session_id = id
              /\ IsFirst(i)
              /\ first_sender[id] = <<FrameOf(segments[i]).src, FrameOf(segments[i]).dst>>
              /\ segments[i].packet_number \in PacketsOf(id, Len(packets))
  <1>1. id \in SessionId /\ id < Len(order)
    BY MatrixStanding
  <1>2. first_sender[id] # NoPair
    BY <1>1 DEF MatrixInv, Listed
  <1>3. first_sender[id] \in Endpoint \X Endpoint
    BY <1>1, <1>2 DEF MatrixInv, MatrixTypeOK
  <1>4. PICK i \in 1 .. Len(segments) :
          /\ segments[i].session_id = id
          /\ IsFirst(i)
          /\ first_sender[id] = <<FrameOf(segments[i]).src, FrameOf(segments[i]).dst>>
    BY <1>1, <1>2 DEF MatrixInv, Senders, SegmentsMet
  <1>5. segments[i].packet_number \in PacketsOf(id, Len(packets))
    <2>1. segments[i].packet_number \in 1 .. Len(packets)
      BY MatrixStanding
    <2>2. packets[segments[i].packet_number].tcp
      BY DEF MatrixInv, DissectInv, SessionInv, Decoded, HasPayload
    <2>3. session_ids[SegmentKey(segments[i])] = id
      BY <1>4 DEF MatrixInv, DissectInv, SessionInv, Numbering
    <2> QED
      BY <2>1, <2>2, <2>3 DEF PacketsOf, SegmentKey, FrameOf
  <1> QED
    BY <1>1, <1>3, <1>4, <1>5

Row == [session_id : SessionId, source : Endpoint, target : Endpoint,
        provenance : {"observed", "inferred"},
        initiator : Endpoint \cup {NoEndpoint},
        protocol : SUBSET Protocol, packet_count : 1 .. MaxPackets]

\* A row of a session that was met is well-formed.
LEMMA RowType ==
  ASSUME MatrixInv, phase \in {"rows", "built"}, NEW id \in 0 .. Len(order) - 1
  PROVE  /\ RowOf(id) \in Row
         /\ RowOf(id).packet_count = Cardinality(PacketsOf(id, Len(packets)))
  <1>1. /\ id \in SessionId /\ first_sender[id] \in Endpoint \X Endpoint
        /\ PacketsOf(id, Len(packets)) # {}
    BY SessionBegins
  <1>2. initiators[id] \in Endpoint \cup {NoEndpoint}
    BY <1>1 DEF MatrixInv, MatrixTypeOK, DissectTypeOK, SessionTypeOK
  <1>3. Parties(id)[1] \in Endpoint /\ Parties(id)[2] \in Endpoint
    BY <1>1, <1>2 DEF Parties
  <1>4. packet_counts[id] = Cardinality(PacketsOf(id, Len(packets)))
    BY <1>1 DEF MatrixInv, PacketsCounted, PacketsSeen
  <1>5. packet_counts[id] \in 1 .. MaxPackets
    <2>1. Len(packets) \in Nat /\ MaxPackets \in Nat /\ Len(packets) <= MaxPackets
      BY MatrixStanding
    <2>2. PacketsOf(id, Len(packets)) \subseteq 1 .. Len(packets)
      BY DEF PacketsOf
    <2>3. /\ IsFiniteSet(PacketsOf(id, Len(packets)))
          /\ Cardinality(PacketsOf(id, Len(packets))) \in 0 .. Len(packets)
      BY <2>1, <2>2, FinitePositions
    <2>4. Cardinality(PacketsOf(id, Len(packets))) # 0
      BY <1>1, <2>3, FS_EmptySet
    <2> QED
      BY <1>4, <2>1, <2>3, <2>4
  <1>6. Label(id) \subseteq Protocol
    <2>1. DissectTypeOK
      BY DEF MatrixInv, MatrixTypeOK
    <2>2. \A e \in HighEvents \cup LowEvents : e.protocol \in Protocol
      BY <2>1, EventTypes DEF Event
    <2> QED
      BY <2>2 DEF Label, ProtocolsIn, HighEvents, LowEvents
  <1> QED
    BY <1>1, <1>2, <1>3, <1>4, <1>5, <1>6 DEF RowOf, Row

\* The third loop: a row adds the packets of its session to the sum.
LEMMA AddRowKeepsInv ==
  ASSUME MatrixInv, AddRow
  PROVE  MatrixInv'
  <1>0. /\ UNCHANGED allDissectVars
        /\ UNCHANGED <<phase, order, first_sender, session_by_key, packet_counts>>
        /\ sorted /\ phase = "rows" /\ here <= Len(order) /\ here' = here + 1
        /\ comm_matrix' = Append(comm_matrix, RowOf(order[here]))
    BY DEF AddRow
  <1>t. MatrixTypeOK /\ DissectInv /\ Listed /\ Senders /\ Keyed /\ PacketsCounted
        /\ RowsInOrder /\ Summed /\ Phased
    BY DEF MatrixInv
  <1>u. /\ UNCHANGED <<packets, segments, session_ids, initiators, sorted,
                        protocol_events, low_confidence_events>>
        /\ \A i : SegmentKey(segments[i])' = SegmentKey(segments[i])
        /\ \A i : FrameOf(segments[i])' = FrameOf(segments[i])
        /\ \A i : IsFirst(i)' <=> IsFirst(i)
        /\ \A id, n : PacketsOf(id, n)' = PacketsOf(id, n)
        /\ \A n : PacketsBelow(n)' = PacketsBelow(n)
    BY <1>0, MatrixStable
  <1>s. /\ Len(order) \in Nat /\ here \in 1 .. Len(order) /\ MaxPackets \in Nat
        /\ here + 1 \in 1 .. MaxPackets + 1 /\ Len(packets) \in Nat
    <2>1. /\ Len(order) \in Nat /\ MaxPackets \in Nat /\ Len(order) <= MaxPackets
          /\ here \in Nat \ {0} /\ Len(packets) \in Nat
      BY MatrixStanding
    <2> QED
      BY <1>0, <2>1
  <1>1. PICK n \in Nat : n = here - 1 /\ n \in 0 .. Len(order) - 1 /\ here = n + 1
    BY <1>s
  <1>2. PICK row : row = RowOf(n)
    OBVIOUS
  <1>3. /\ row \in Row
        /\ row.packet_count = Cardinality(PacketsOf(n, Len(packets)))
    BY <1>0, <1>1, <1>2, RowType
  <1>4. comm_matrix' = Append(comm_matrix, row) /\ comm_matrix \in Seq(Row)
    <2>1. order[here] = n
      BY <1>1, <1>s, <1>t DEF Listed
    <2> QED
      BY <1>0, <1>2, <1>t, <2>1 DEF MatrixTypeOK, Row
  <1>5. /\ SegmentsMet' = SegmentsMet /\ PacketsSeen' = PacketsSeen
        /\ RowsAdded = n /\ RowsAdded' = n + 1
    BY <1>0, <1>1, <1>u DEF SegmentsMet, PacketsSeen, RowsAdded
  <1>6. Len(comm_matrix) = n /\ \A r \in 1 .. n : comm_matrix[r] = RowOf(r - 1)
    BY <1>5, <1>t DEF RowsInOrder
  <1>7. /\ comm_matrix' \in Seq(Row) /\ Len(comm_matrix') = n + 1
        /\ \A r \in 1 .. n : comm_matrix'[r] = comm_matrix[r]
        /\ comm_matrix'[n + 1] = row
        /\ DOMAIN comm_matrix' = 1 .. n + 1 /\ DOMAIN comm_matrix = 1 .. n
    BY <1>3, <1>4, <1>6
  <1>8. DissectInv'
    BY <1>0, <1>t, StutterKeepsInv
  <1>9. MatrixTypeOK'
    BY <1>0, <1>7, <1>8, <1>s, <1>t DEF MatrixTypeOK, DissectInv, Row
  <1>10. Phased'
    BY <1>0, <1>s, <1>u DEF Phased
  <1>11. Listed' /\ Senders' /\ Keyed'
    <2>1. Listed'
      BY <1>0, <1>5, <1>t, <1>u DEF Listed
    <2>2. Senders'
      BY <1>0, <1>5, <1>t, <1>u DEF Senders
    <2>3. Keyed'
      BY <1>0, <1>5, <1>t, <1>u DEF Keyed
    <2> QED
      BY <2>1, <2>2, <2>3
  <1>12. PacketsCounted'
    BY <1>0, <1>5, <1>t, <1>u DEF PacketsCounted
  <1>13. RowsInOrder'
    <2>1. \A id : RowOf(id)' = RowOf(id)
      BY <1>0, <1>u DEF RowOf, Parties, Label, ProtocolsIn, Reported
    <2>2. \A r \in 1 .. n + 1 : r \in 1 .. n \/ r = n + 1
      OBVIOUS
    <2>3. \A r \in 1 .. n + 1 : comm_matrix'[r] = RowOf(r - 1)
      BY <1>2, <1>6, <1>7, <2>2
    <2> QED
      BY <1>5, <1>7, <2>1, <2>3 DEF RowsInOrder
  <1>14. Summed'
    <2> DEFINE f == [r \in 1 .. n |-> comm_matrix[r].packet_count]
               g == [r \in 1 .. n + 1 |-> comm_matrix'[r].packet_count]
    <2>1. f \in [1 .. n -> Int]
      <3>1. \A r \in 1 .. n : comm_matrix[r] \in Row
        BY <1>4, <1>7
      <3>2. \A r \in 1 .. n : comm_matrix[r].packet_count \in Int
        BY <3>1 DEF Row
      <3> QED
        BY <3>2
    <2>2. g \in [1 .. n + 1 -> Int]
      <3>1. \A r \in 1 .. n + 1 : comm_matrix'[r] \in Row
        BY <1>7
      <3>2. \A r \in 1 .. n + 1 : comm_matrix'[r].packet_count \in Int
        BY <3>1 DEF Row
      <3> QED
        BY <3>2
    <2>3. \A r \in 1 .. n : g[r] = f[r]
      BY <1>7
    <2>4. g[n + 1] = Cardinality(PacketsOf(n, Len(packets)))
      BY <1>3, <1>7
    <2>5. SumFunction(f) = Cardinality(PacketsBelow(n))
      BY <1>6, <1>7, <1>t DEF Summed
    <2> HIDE DEF f, g
    <2>6. SumFunction(g) = SumFunction(f) + g[n + 1]
      BY <2>1, <2>2, <2>3, SumAppend
    <2>7. /\ PacketsBelow(n + 1) = PacketsBelow(n) \cup PacketsOf(n, Len(packets))
          /\ PacketsBelow(n) \cap PacketsOf(n, Len(packets)) = {}
      <3>1. \A m \in 1 .. Len(packets) :
              session_ids[PacketKey(packets[m])] \in SessionId \cup {NoSession}
        BY MatrixStanding DEF MatrixInv, DissectInv, SessionInv, TypeInv, SessionTypeOK
      <3>2. SessionId \cup {NoSession} \subseteq Int
        BY <1>s DEF SessionId, NoSession
      <3>3. \A m \in 1 .. Len(packets) :
              /\ session_ids[PacketKey(packets[m])] \in 0 .. (n + 1) - 1
                   <=> \/ session_ids[PacketKey(packets[m])] \in 0 .. n - 1
                       \/ session_ids[PacketKey(packets[m])] = n
              /\ ~(/\ session_ids[PacketKey(packets[m])] \in 0 .. n - 1
                   /\ session_ids[PacketKey(packets[m])] = n)
        BY <3>1, <3>2
      <3> QED
        BY <3>3 DEF PacketsBelow, PacketsOf
    <2>8. Cardinality(PacketsBelow(n + 1))
            = Cardinality(PacketsBelow(n)) + Cardinality(PacketsOf(n, Len(packets)))
      <3>1. /\ PacketsBelow(n) \subseteq 1 .. Len(packets)
            /\ PacketsOf(n, Len(packets)) \subseteq 1 .. Len(packets)
        BY DEF PacketsBelow, PacketsOf
      <3>2. /\ IsFiniteSet(PacketsBelow(n)) /\ IsFiniteSet(PacketsOf(n, Len(packets)))
            /\ Cardinality(PacketsBelow(n)) \in Nat
            /\ Cardinality(PacketsOf(n, Len(packets))) \in Nat
        BY <1>s, <3>1, FinitePositions
      <3>3. PICK A, B : A = PacketsBelow(n) /\ B = PacketsOf(n, Len(packets))
        OBVIOUS
      <3>4. Cardinality(A \cup B) = Cardinality(A) + Cardinality(B) - Cardinality(A \cap B)
        BY <3>2, <3>3, FS_Union
      <3>5. Cardinality(A \cap B) = 0
        BY <2>7, <3>3, FS_EmptySet
      <3>6. Cardinality(A) \in Nat /\ Cardinality(B) \in Nat
        BY <3>2, <3>3
      <3>7. Cardinality(A \cup B) = Cardinality(A) + Cardinality(B)
        BY <3>4, <3>5, <3>6
      <3>8. PacketsBelow(n + 1) = A \cup B
        BY <2>7, <3>3
      <3> QED
        BY <3>3, <3>7, <3>8
    <2>9. SumFunction(g) = Cardinality(PacketsBelow(n + 1))
      BY <2>4, <2>5, <2>6, <2>8
    <2> QED
      BY <1>7, <1>u, <2>9 DEF Summed, g
  <1> QED
    BY <1>8, <1>9, <1>10, <1>11, <1>12, <1>13, <1>14 DEF MatrixInv

LEMMA MatrixInvNext == MatrixInv /\ [MatrixNext]_allMatrixVars => MatrixInv'
  BY DissectingKeepsInv, MeetKeepsInv, CountKeepsInv, AddRowKeepsInv, EndPhaseKeepsInv,
     MatrixStutterKeepsInv DEF MatrixNext

LEMMA MatrixInvAlways == MatrixSpec => []MatrixInv
  <1>1. MatrixInit => MatrixInv
    BY MatrixInvInit
  <1>2. MatrixInv /\ [MatrixNext]_allMatrixVars => MatrixInv'
    BY MatrixInvNext
  <1> QED
    BY <1>1, <1>2, PTL DEF MatrixSpec

-----------------------------------------------------------------------------
(***************************************************************************)
(* What the invariant says of the finished matrix.                         *)
(***************************************************************************)

\* The rows are those of the sessions, one each.
LEMMA BuiltRows ==
  ASSUME MatrixInv, Built
  PROVE  /\ pass = "decoded" /\ Len(order) \in Nat
         /\ DOMAIN comm_matrix = 1 .. Len(order) /\ Len(comm_matrix) = Len(order)
         /\ \A r \in 1 .. Len(order) : comm_matrix[r] = RowOf(r - 1)
         /\ \A x \in Rows : \E id \in 0 .. Len(order) - 1 : x = RowOf(id)
         /\ \A id \in 0 .. Len(order) - 1 : RowOf(id) \in Rows
  <1>1. pass = "decoded" /\ Len(order) \in Nat
    <2>1. sorted
      BY DEF MatrixInv, Phased, MatrixNotBegun, Built
    <2> QED
      BY <2>1, MatrixStanding
  <1>2. /\ DOMAIN comm_matrix = 1 .. Len(order) /\ Len(comm_matrix) = Len(order)
        /\ \A r \in 1 .. Len(order) : comm_matrix[r] = RowOf(r - 1)
    <2>1. RowsInOrder /\ RowsAdded = Len(order) /\ comm_matrix \in Seq(Row)
      BY DEF MatrixInv, RowsAdded, Built, MatrixTypeOK, Row
    <2> QED
      BY <2>1 DEF RowsInOrder
  <1>3. ASSUME NEW x \in Rows PROVE \E id \in 0 .. Len(order) - 1 : x = RowOf(id)
    <2>1. PICK r \in 1 .. Len(order) : x = comm_matrix[r]
      BY <1>2 DEF Rows, Reported
    <2>2. r - 1 \in 0 .. Len(order) - 1
      BY <1>1
    <2> QED
      BY <1>2, <2>1, <2>2
  <1>4. ASSUME NEW id \in 0 .. Len(order) - 1 PROVE RowOf(id) \in Rows
    <2>1. id + 1 \in 1 .. Len(order) /\ (id + 1) - 1 = id
      BY <1>1
    <2>2. comm_matrix[id + 1] = RowOf(id)
      BY <1>2, <2>1
    <2> QED
      BY <1>2, <2>1, <2>2 DEF Rows, Reported
  <1> QED
    BY <1>1, <1>2, <1>3, <1>4

\* The numbered keys are those of the segments, and their sessions have rows.
LEMMA NumberedKeys ==
  ASSUME MatrixInv, Built, NEW k \in Key
  PROVE  /\ session_ids[k] \in 0 .. Len(order) - 1 <=> session_ids[k] # NoSession
         /\ session_ids[k] # NoSession
              <=> \E i \in 1 .. Len(segments) : SegmentKey(segments[i]) = k
  <1>1. Numbering
    BY DEF MatrixInv, DissectInv, SessionInv
  <1>2. ASSUME NEW i \in 1 .. Len(segments), SegmentKey(segments[i]) = k
        PROVE  session_ids[k] \in 0 .. Len(order) - 1
    <2>1. session_ids[k] = segments[i].session_id
      BY <1>1, <1>2 DEF Numbering
    <2>2. segments[i].session_id < Len(order)
      BY DEF MatrixInv, Listed, SegmentsMet, Built
    <2>3. segments[i].session_id \in Nat /\ Len(order) \in Nat
      BY MatrixStanding
    <2> QED
      BY <2>1, <2>2, <2>3
  <1>3. session_ids[k] # NoSession
          => \E i \in 1 .. Len(segments) : SegmentKey(segments[i]) = k
    BY <1>1 DEF Numbering
  <1>4. session_ids[k] \in 0 .. Len(order) - 1 => session_ids[k] # NoSession
    BY DEF NoSession
  <1> QED
    BY <1>2, <1>3, <1>4

\* A row runs between the two ends of its session, from the initiator if
\* there is one.
LEMMA RowEnds ==
  ASSUME MatrixInv, Built, NEW i \in 1 .. Len(segments),
         NEW id \in 0 .. Len(order) - 1, segments[i].session_id = id,
         first_sender[id] = <<FrameOf(segments[i]).src, FrameOf(segments[i]).dst>>
  PROVE  /\ {Parties(id)[1], Parties(id)[2]} = SegmentKey(segments[i])
         /\ session_ids[SegmentKey(segments[i])] = id
         /\ Named(SegmentKey(segments[i]), Len(packets))
  <1>1. /\ session_ids[SegmentKey(segments[i])] = id
        /\ SegmentKey(segments[i]) \in Key /\ id # NoSession
    BY MatrixStanding DEF MatrixInv, DissectInv, SessionInv, Numbering, NoSession
  <1>2. Named(SegmentKey(segments[i]), Len(packets))
    BY <1>1, BuiltRows DEF MatrixInv, DissectInv, SessionInv, FirstOpenersSoFar
  <1>3. initiators[id] # NoEndpoint => initiators[id] \in SegmentKey(segments[i])
    <2>1. SUFFICES ASSUME initiators[id] # NoEndpoint
                   PROVE  initiators[id] \in SegmentKey(segments[i])
      OBVIOUS
    <2>2. PICK m \in OpeningAmong(SegmentKey(segments[i]), Len(packets)) :
                initiators[id] = packets[m].src
      BY <1>1, <1>2, <2>1 DEF Named
    <2> QED
      BY <2>2 DEF OpeningAmong, PacketKey, SessionKey
  <1>4. SegmentKey(segments[i]) = {FrameOf(segments[i]).src, FrameOf(segments[i]).dst}
    BY DEF SegmentKey, PacketKey, SessionKey
  <1> QED
    BY <1>1, <1>2, <1>3, <1>4 DEF Parties

\* The rows count the packets of the numbered keys; every other TCP packet
\* is of a key no segment has.
LEMMA AccountedFromInv == MatrixInv => EveryTcpPacketAccounted
  <1> SUFFICES ASSUME MatrixInv, Built PROVE EveryTcpPacketAccounted
    BY DEF EveryTcpPacketAccounted
  <1> DEFINE tcp == {n \in DOMAIN packets : packets[n].tcp}
             silent == {n \in tcp : PacketKey(packets[n]) \in PayloadlessSessionKeys}
             counted == SumFunction([i \in DOMAIN comm_matrix |->
                                       comm_matrix[i].packet_count])
             N == Len(order)
  <1>1. Len(packets) \in Nat /\ DOMAIN packets = 1 .. Len(packets) /\ N \in Nat
        /\ DOMAIN segments = 1 .. Len(segments)
    <2>1. packets \in Seq(Frames) /\ segments \in Seq(Segment)
      BY DEF MatrixInv, MatrixTypeOK, DissectTypeOK, SessionTypeOK
    <2> QED
      BY <2>1, MatrixStanding
  <1>2. \A n \in tcp : PacketKey(packets[n]) \in PayloadlessSessionKeys
                         <=> ~(session_ids[PacketKey(packets[n])] \in 0 .. N - 1)
    <2>1. ASSUME NEW n \in tcp
          PROVE  PacketKey(packets[n]) \in PayloadlessSessionKeys
                   <=> ~(session_ids[PacketKey(packets[n])] \in 0 .. N - 1)
      <3>1. PacketKey(packets[n]) \in Key
        BY <1>1, MatrixStanding
      <3>2. session_ids[PacketKey(packets[n])] \in 0 .. N - 1
              <=> \E i \in 1 .. Len(segments) : SegmentKey(segments[i]) = PacketKey(packets[n])
        BY <3>1, NumberedKeys
      <3> QED
        BY <1>1, <3>2 DEF PayloadlessSessionKeys
    <2> QED
      BY <2>1
  <1>3. tcp = silent \cup PacketsBelow(N) /\ silent \cap PacketsBelow(N) = {}
    <2>1. PacketsBelow(N) = {n \in tcp : session_ids[PacketKey(packets[n])] \in 0 .. N - 1}
      BY <1>1 DEF PacketsBelow
    <2> QED
      BY <1>2, <2>1
  <1>4. counted = Cardinality(PacketsBelow(N))
    BY BuiltRows DEF MatrixInv, Summed
  <1>5. PICK A, B : A = silent /\ B = PacketsBelow(N)
    OBVIOUS
  <1>6. /\ IsFiniteSet(A) /\ IsFiniteSet(B)
        /\ Cardinality(A) \in Nat /\ Cardinality(B) \in Nat
    <2>1. A \subseteq 1 .. Len(packets) /\ B \subseteq 1 .. Len(packets)
      BY <1>1, <1>5 DEF PacketsBelow
    <2>2. /\ IsFiniteSet(A) /\ Cardinality(A) \in 0 .. Len(packets)
          /\ IsFiniteSet(B) /\ Cardinality(B) \in 0 .. Len(packets)
      <3>1. \A n \in Nat : A \subseteq 1 .. n => IsFiniteSet(A) /\ Cardinality(A) \in 0 .. n
        BY FinitePositions
      <3>2. \A n \in Nat : B \subseteq 1 .. n => IsFiniteSet(B) /\ Cardinality(B) \in 0 .. n
        BY FinitePositions
      <3> QED
        BY <1>1, <2>1, <3>1, <3>2
    <2> QED
      BY <1>1, <2>2
  <1>7. tcp = A \cup B /\ A \cap B = {} /\ counted = Cardinality(B)
    BY <1>3, <1>4, <1>5
  <1> HIDE DEF tcp, counted
  <1>8. counted + Cardinality(silent) = Cardinality(tcp)
    <2>1. Cardinality(A \cup B) = Cardinality(A) + Cardinality(B) - Cardinality(A \cap B)
      BY <1>6, FS_Union
    <2>2. Cardinality(A \cap B) = 0
      BY <1>7, FS_EmptySet
    <2>3. Cardinality(A \cup B) = Cardinality(B) + Cardinality(A)
      BY <1>6, <2>1, <2>2
    <2> QED
      BY <1>5, <1>7, <2>3
  <1>9. \A x \in Rows : {x.source, x.target} \notin PayloadlessSessionKeys
    <2>1. ASSUME NEW x \in Rows PROVE {x.source, x.target} \notin PayloadlessSessionKeys
      <3>1. PICK id \in 0 .. N - 1 : x = RowOf(id)
        BY BuiltRows
      <3>2. PICK i \in 1 .. Len(segments) :
              /\ segments[i].session_id = id
              /\ first_sender[id] = <<FrameOf(segments[i]).src, FrameOf(segments[i]).dst>>
        BY SessionBegins DEF Built
      <3>3. {x.source, x.target} = SegmentKey(segments[i])
        BY <3>1, <3>2, RowEnds DEF RowOf
      <3> QED
        BY <1>1, <3>3 DEF PayloadlessSessionKeys
    <2> QED
      BY <2>1
  <1> QED
    BY <1>8, <1>9 DEF EveryTcpPacketAccounted, tcp, counted

\* High-confidence events never name RTU-over-TCP, low-confidence ones
\* nothing else.
LEMMA LabelFromInv == MatrixInv => LabelKeepsConfidence
  <1> SUFFICES ASSUME MatrixInv, Built, NEW x \in Rows
               PROVE  LET high == {e \in HighEvents : e.session_id = x.session_id}
                          low  == {e \in LowEvents : e.session_id = x.session_id}
                      IN  /\ \A e \in high : e.protocol \in x.protocol
                          /\ high # {} => RtuOverTcp \notin x.protocol
                          /\ x.protocol = {} => high \cup low = {}
    BY DEF LabelKeepsConfidence
  <1>1. PICK id \in 0 .. Len(order) - 1 : x = RowOf(id)
    BY BuiltRows
  <1>2. x.session_id = id /\ x.protocol = Label(id)
    BY <1>1 DEF RowOf
  <1>3. \A e \in HighEvents : e.protocol # RtuOverTcp
    BY EventTypes, Confidences DEF MatrixInv, MatrixTypeOK
  <1>4. /\ \A e \in HighEvents :
             e.session_id = id => e.protocol \in ProtocolsIn(protocol_events, id)
        /\ \A e \in LowEvents :
             e.session_id = id => e.protocol \in ProtocolsIn(low_confidence_events, id)
        /\ \A q \in ProtocolsIn(protocol_events, id) : q # RtuOverTcp
    BY <1>3 DEF ProtocolsIn, HighEvents, LowEvents
  <1>5. /\ \A e \in HighEvents : e.session_id = id => e.protocol \in Label(id)
        /\ \A e \in HighEvents : e.session_id = id => RtuOverTcp \notin Label(id)
        /\ \A e \in HighEvents \cup LowEvents : e.session_id = id => Label(id) # {}
    BY <1>4 DEF Label
  <1> QED
    BY <1>2, <1>5

\* SYN without ACK, said in the two ways of the source and of the property.
LEMMA OpensIsSyn ==
  ASSUME NEW f \in Frames
  PROVE  Opens(f) <=> f.tcp /\ f.flags = {"S"}
  <1>1. f.flags \in SUBSET {"S", "A"} /\ "S" # "A"
    BY FrameAssumption
  <1> QED
    BY <1>1 DEF Opens

SegmentsOf(id) == {j \in 1 .. Len(segments) : segments[j].session_id = id}

\* The segments of a session are among its packets; a packet without payload
\* is not among the segments.
LEMMA SegmentsAmongPackets ==
  ASSUME MatrixInv, NEW id \in SessionId
  PROVE  /\ Cardinality(SegmentsOf(id)) \in Nat
         /\ Cardinality(PacketsOf(id, Len(packets))) \in Nat
         /\ Cardinality(SegmentsOf(id)) <= Cardinality(PacketsOf(id, Len(packets)))
         /\ \A m \in PacketsOf(id, Len(packets)) :
              packets[m].payload = NoPayload =>
                Cardinality(SegmentsOf(id)) < Cardinality(PacketsOf(id, Len(packets)))
  <1>0. /\ Len(packets) \in Nat /\ SessionInv /\ Len(segments) \in Nat
        /\ \A j \in 1 .. Len(segments) : segments[j].packet_number \in 1 .. Len(packets)
    BY MatrixStanding
  <1>1. PICK S, P : S = SegmentsOf(id) /\ P = PacketsOf(id, Len(packets))
    OBVIOUS
  <1>2. /\ IsFiniteSet(P) /\ Cardinality(P) \in Nat
        /\ IsFiniteSet(S) /\ Cardinality(S) \in Nat
    <2>1. P \subseteq 1 .. Len(packets) /\ S \subseteq 1 .. Len(segments)
      BY <1>1 DEF PacketsOf, SegmentsOf
    <2>2. IsFiniteSet(P) /\ Cardinality(P) \in 0 .. Len(packets)
      BY <1>0, <2>1, FinitePositions
    <2>3. IsFiniteSet(S) /\ Cardinality(S) \in 0 .. Len(segments)
      BY <1>0, <2>1, FinitePositions
    <2> QED
      BY <1>0, <2>2, <2>3
  <1> DEFINE f == [j \in S |-> segments[j].packet_number]
  <1>3. \A j \in S : /\ segments[j].packet_number \in P
                     /\ packets[segments[j].packet_number].payload # NoPayload
    <2>1. ASSUME NEW j \in S
          PROVE  /\ segments[j].packet_number \in P
                 /\ packets[segments[j].packet_number].payload # NoPayload
      <3>1. j \in 1 .. Len(segments) /\ segments[j].session_id = id
        BY <1>1 DEF SegmentsOf
      <3>2. HasPayload(packets[segments[j].packet_number])
        BY <1>0, <3>1 DEF SessionInv, Decoded
      <3>3. session_ids[SegmentKey(segments[j])] = id
        BY <1>0, <3>1 DEF SessionInv, Numbering
      <3> QED
        BY <1>0, <1>1, <3>1, <3>2, <3>3 DEF PacketsOf, HasPayload, SegmentKey, FrameOf
    <2> QED
      BY <2>1
  <1>4. \A i, j \in S : f[i] = f[j] => i = j
    <2>1. S \subseteq 1 .. Len(segments)
      BY <1>1 DEF SegmentsOf
    <2> QED
      BY <1>0, <2>1, OneSegment
  <1>5. Cardinality(S) <= Cardinality(P)
    <2>1. f \in Injection(S, P)
      BY <1>3, <1>4 DEF Injection, IsInjective
    <2> QED
      BY <1>2, <2>1, FS_Injection
  <1>6. ASSUME NEW m \in P, packets[m].payload = NoPayload
        PROVE  Cardinality(S) < Cardinality(P)
    <2>1. f \in Injection(S, P \ {m})
      BY <1>3, <1>4, <1>6 DEF Injection, IsInjective
    <2>2. IsFiniteSet(P \ {m}) /\ Cardinality(P \ {m}) = Cardinality(P) - 1
      BY <1>2, Removed
    <2>3. Cardinality(S) <= Cardinality(P \ {m})
      BY <2>1, <2>2, FS_Injection
    <2> QED
      BY <1>2, <2>2, <2>3
  <1> QED
    BY <1>1, <1>2, <1>5, <1>6

\* The sessions with rows are those with a first segment.
LEMMA SessionsOfRows ==
  ASSUME MatrixInv, Built
  PROVE  /\ {x.session_id : x \in Rows} = 0 .. Len(order) - 1
         /\ {v.session_id : v \in Conversations} = 0 .. Len(order) - 1
         /\ FirstSegments = {i \in 1 .. Len(segments) : IsFirst(i)}
  <1>1. FirstSegments = {i \in 1 .. Len(segments) : IsFirst(i)}
    <2>1. DOMAIN segments = 1 .. Len(segments)
      BY Standing DEF MatrixInv
    <2> QED
      BY <2>1 DEF FirstSegments, IsFirst
  <1>2. \A id : RowOf(id).session_id = id
    BY DEF RowOf
  <1>3. {x.session_id : x \in Rows} = 0 .. Len(order) - 1
    <2>1. \A x \in Rows : x.session_id \in 0 .. Len(order) - 1
      BY <1>2, BuiltRows
    <2>2. \A id \in 0 .. Len(order) - 1 : \E x \in Rows : x.session_id = id
      BY <1>2, BuiltRows
    <2> QED
      BY <2>1, <2>2
  <1>4. /\ \A v \in Conversations : \E i \in FirstSegments : v.session_id = segments[i].session_id
        /\ \A i \in FirstSegments : \E v \in Conversations : v.session_id = segments[i].session_id
    <2> DEFINE entry(i) ==
          [session_id   |-> segments[i].session_id,
           endpoints    |-> {FrameOf(segments[i]).src, FrameOf(segments[i]).dst},
           packet_count |-> Cardinality({j \in DOMAIN segments :
                              segments[j].session_id = segments[i].session_id})]
    <2>1. Conversations = {entry(i) : i \in FirstSegments}
      BY DEF Conversations
    <2>2. \A i : entry(i).session_id = segments[i].session_id
      OBVIOUS
    <2> HIDE DEF entry
    <2> QED
      BY <2>1, <2>2
  <1>5. \A i \in FirstSegments : segments[i].session_id \in 0 .. Len(order) - 1
    <2>1. ASSUME NEW i \in 1 .. Len(segments)
          PROVE  segments[i].session_id \in 0 .. Len(order) - 1
      <3>1. segments[i].session_id < Len(order)
        BY DEF MatrixInv, Listed, SegmentsMet, Built
      <3>2. segments[i].session_id \in Nat /\ Len(order) \in Nat
        BY MatrixStanding
      <3> QED
        BY <3>1, <3>2
    <2> QED
      BY <1>1, <2>1
  <1>6. \A id \in 0 .. Len(order) - 1 : \E i \in FirstSegments : segments[i].session_id = id
    BY <1>1, SessionBegins DEF Built
  <1>7. {v.session_id : v \in Conversations} = 0 .. Len(order) - 1
    <2>1. \A v \in Conversations : v.session_id \in 0 .. Len(order) - 1
      BY <1>4, <1>5
    <2>2. \A id \in 0 .. Len(order) - 1 : \E v \in Conversations : v.session_id = id
      BY <1>4, <1>6
    <2> QED
      BY <2>1, <2>2
  <1> QED
    BY <1>1, <1>3, <1>7

LEMMA ConversationsFromInv == MatrixInv => MatrixAgreesWithConversations
  <1> SUFFICES ASSUME MatrixInv, Built
               PROVE  /\ {x.session_id : x \in Rows} = {v.session_id : v \in Conversations}
                      /\ \A x \in Rows : \E v \in Conversations :
                           /\ v.session_id = x.session_id
                           /\ v.endpoints = {x.source, x.target}
                           /\ x.packet_count >= v.packet_count
                           /\ (x.initiator # NoEndpoint
                                 /\ \A n \in OpeningPackets(v.endpoints) :
                                      packets[n].payload = NoPayload)
                                => x.packet_count > v.packet_count
    BY DEF MatrixAgreesWithConversations
  <1>1. {x.session_id : x \in Rows} = {v.session_id : v \in Conversations}
    BY SessionsOfRows
  <1>2. ASSUME NEW x \in Rows
        PROVE  \E v \in Conversations :
                 /\ v.session_id = x.session_id
                 /\ v.endpoints = {x.source, x.target}
                 /\ x.packet_count >= v.packet_count
                 /\ (x.initiator # NoEndpoint
                       /\ \A n \in OpeningPackets(v.endpoints) :
                            packets[n].payload = NoPayload)
                      => x.packet_count > v.packet_count
    <2>1. PICK id \in 0 .. Len(order) - 1 : x = RowOf(id)
      BY BuiltRows
    <2>2. PICK i \in 1 .. Len(segments) :
            /\ segments[i].session_id = id
            /\ IsFirst(i)
            /\ first_sender[id] = <<FrameOf(segments[i]).src, FrameOf(segments[i]).dst>>
            /\ id \in SessionId
      BY SessionBegins DEF Built
    <2> DEFINE ends == {FrameOf(segments[i]).src, FrameOf(segments[i]).dst}
    <2>3. PICK v : v = [session_id |-> id, endpoints |-> ends,
                        packet_count |-> Cardinality(SegmentsOf(id))]
      OBVIOUS
    <2>4. v \in Conversations
      <3>1. i \in FirstSegments /\ DOMAIN segments = 1 .. Len(segments)
        BY <2>2, SessionsOfRows, Standing DEF MatrixInv
      <3> QED
        BY <2>2, <2>3, <3>1 DEF Conversations, SegmentsOf
    <2>5. ends = SegmentKey(segments[i])
      BY DEF SegmentKey, PacketKey, SessionKey
    <2>6. /\ {Parties(id)[1], Parties(id)[2]} = SegmentKey(segments[i])
          /\ session_ids[SegmentKey(segments[i])] = id
          /\ Named(SegmentKey(segments[i]), Len(packets))
      BY <2>2, RowEnds
    <2>7. /\ x.session_id = id /\ x.initiator = initiators[id]
          /\ {x.source, x.target} = ends
          /\ x.packet_count = Cardinality(PacketsOf(id, Len(packets)))
      BY <2>1, <2>5, <2>6, RowType DEF RowOf, Built
    <2>8. ASSUME x.initiator # NoEndpoint,
                 \A n \in OpeningPackets(ends) : packets[n].payload = NoPayload
          PROVE  Cardinality(SegmentsOf(id)) < Cardinality(PacketsOf(id, Len(packets)))
      <3>1. PICK m \in 1 .. Len(packets) :
              Opens(packets[m]) /\ PacketKey(packets[m]) = SegmentKey(segments[i])
        BY <2>6, <2>7, <2>8 DEF Named, OpeningAmong
      <3>2. packets[m] \in Frames /\ DOMAIN packets = 1 .. Len(packets)
        <4>1. packets \in Seq(Frames)
          BY DEF MatrixInv, MatrixTypeOK, DissectTypeOK, SessionTypeOK
        <4> QED
          BY <4>1
      <3>3. packets[m].tcp /\ packets[m].flags = {"S"}
        BY <3>1, <3>2, OpensIsSyn
      <3>4. {packets[m].src, packets[m].dst} = ends
        BY <2>5, <3>1 DEF PacketKey, SessionKey
      <3>5. packets[m].payload = NoPayload
        BY <2>8, <3>2, <3>3, <3>4 DEF OpeningPackets
      <3>6. m \in PacketsOf(id, Len(packets))
        BY <2>6, <3>1, <3>3 DEF PacketsOf
      <3> QED
        BY <2>2, <3>5, <3>6, SegmentsAmongPackets
    <2>9. /\ Cardinality(SegmentsOf(id)) \in Nat
          /\ Cardinality(PacketsOf(id, Len(packets))) \in Nat
          /\ Cardinality(SegmentsOf(id)) <= Cardinality(PacketsOf(id, Len(packets)))
      BY <2>2, SegmentsAmongPackets
    <2>10. /\ v.session_id = id /\ v.endpoints = ends
           /\ v.packet_count = Cardinality(SegmentsOf(id))
      BY <2>3
    <2> HIDE DEF ends
    <2>11. x.packet_count >= v.packet_count
      BY <2>7, <2>9, <2>10
    <2>12. (x.initiator # NoEndpoint
              /\ \A n \in OpeningPackets(ends) : packets[n].payload = NoPayload)
             => x.packet_count > v.packet_count
      BY <2>7, <2>8, <2>9, <2>10
    <2> QED
      BY <2>4, <2>7, <2>10, <2>11, <2>12
  <1> QED
    BY <1>1, <1>2

-----------------------------------------------------------------------------
(***************************************************************************)
(* The finished matrix is the table TrafficTable promises.                 *)
(***************************************************************************)
At(i) == segments[i].packet_number

\* The packets with payload are the segments, in the same order and with the
\* same ends.
LEMMA PayloadIsSegment ==
  ASSUME MatrixInv, Built
  PROVE  /\ \A n : n \in Table!WithPayload <=> \E i \in 1 .. Len(segments) : At(i) = n
         /\ \A i, j \in 1 .. Len(segments) :
              Table!Ends(At(i)) = Table!Ends(At(j))
                <=> segments[i].session_id = segments[j].session_id
         /\ \A i, j \in 1 .. Len(segments) : At(i) <= At(j) <=> i <= j
         /\ \A i \in 1 .. Len(segments) :
              At(i) \in Nat /\ Table!Ends(At(i)) = SegmentKey(segments[i])
  <1>0. /\ SessionInv /\ pass = "decoded" /\ Len(segments) \in Nat
        /\ DOMAIN packets = 1 .. Len(packets)
        /\ \A i \in 1 .. Len(segments) : /\ At(i) \in 1 .. Len(packets)
                                         /\ segments[i].session_id \in SessionId
                                         /\ SegmentKey(segments[i]) \in Key
    <2>1. packets \in Seq(Frames)
      BY DEF MatrixInv, MatrixTypeOK, DissectTypeOK, SessionTypeOK
    <2> QED
      BY <2>1, MatrixStanding, BuiltRows DEF At
  <1>1. \A i : Table!Ends(At(i)) = SegmentKey(segments[i])
    BY DEF Table!Ends, At, SegmentKey, FrameOf, PacketKey, SessionKey
  <1>2. ASSUME NEW n
        PROVE  n \in Table!WithPayload <=> \E i \in 1 .. Len(segments) : At(i) = n
    <2>1. n \in Table!WithPayload <=> n \in 1 .. Len(packets) /\ HasPayload(packets[n])
      BY <1>0 DEF Table!WithPayload, Table!Tcp, HasPayload
    <2>2. n \in 1 .. Len(packets) /\ HasPayload(packets[n])
            => \E i \in 1 .. Len(segments) : At(i) = n
      BY <1>0 DEF SessionInv, Decoded, At
    <2>3. \A i \in 1 .. Len(segments) : At(i) \in 1 .. Len(packets) /\ HasPayload(packets[At(i)])
      BY <1>0 DEF SessionInv, Decoded, At
    <2> QED
      BY <2>1, <2>2, <2>3
  <1>3. \A i, j \in 1 .. Len(segments) :
          SegmentKey(segments[i]) = SegmentKey(segments[j])
            <=> segments[i].session_id = segments[j].session_id
    BY <1>0, SameKey DEF SessionInv, Numbering
  <1>4. \A i, j \in 1 .. Len(segments) : At(i) <= At(j) <=> i <= j
    <2>1. \A i, j \in 1 .. Len(segments) : i < j => At(i) < At(j)
      BY <1>0 DEF SessionInv, Decoded, InCaptureOrder, At
    <2>2. ASSUME NEW i \in 1 .. Len(segments), NEW j \in 1 .. Len(segments)
          PROVE  At(i) <= At(j) <=> i <= j
      <3>1. At(i) \in Nat /\ At(j) \in Nat
        BY <1>0
      <3>2. i < j \/ j < i \/ i = j
        OBVIOUS
      <3> QED
        BY <2>1, <3>1, <3>2
    <2> QED
      BY <2>2
  <1>5. \A i \in 1 .. Len(segments) : At(i) \in Nat
    BY <1>0
  <1> QED
    BY <1>1, <1>2, <1>3, <1>4, <1>5

\* A conversation begins at the packet of its first segment.
LEMMA BeginningIsFirst ==
  ASSUME MatrixInv, Built
  PROVE  /\ \A n \in Table!Beginnings :
              \E i \in 1 .. Len(segments) : IsFirst(i) /\ At(i) = n
         /\ \A i \in 1 .. Len(segments) : IsFirst(i) => At(i) \in Table!Beginnings
  <1>0. Len(segments) \in Nat
    BY MatrixStanding
  <1>1. ASSUME NEW i \in 1 .. Len(segments)
        PROVE  At(i) \in Table!Beginnings <=> IsFirst(i)
    <2>1. At(i) \in Table!Beginnings
            <=> \A j \in 1 .. Len(segments) :
                  segments[j].session_id = segments[i].session_id => i <= j
      <3>1. At(i) \in Table!Beginnings
              <=> \A m \in Table!WithPayload :
                    Table!Ends(m) = Table!Ends(At(i)) => At(i) <= m
        BY PayloadIsSegment DEF Table!Beginnings
      <3>2. (\A m \in Table!WithPayload :
               Table!Ends(m) = Table!Ends(At(i)) => At(i) <= m)
              <=> \A j \in 1 .. Len(segments) :
                    Table!Ends(At(j)) = Table!Ends(At(i)) => At(i) <= At(j)
        BY PayloadIsSegment
      <3> QED
        BY <3>1, <3>2, PayloadIsSegment
    <2>2. \A j \in 1 .. Len(segments) : j \in 1 .. i - 1 <=> ~(i <= j)
      BY <1>0
    <2>3. 1 .. i - 1 \subseteq 1 .. Len(segments)
      BY <1>0
    <2> QED
      BY <2>1, <2>2, <2>3 DEF IsFirst
  <1>2. \A n \in Table!Beginnings : \E i \in 1 .. Len(segments) : At(i) = n
    BY PayloadIsSegment DEF Table!Beginnings
  <1> QED
    BY <1>1, <1>2

\* The sessions that begin before a first segment are the smaller ones.
LEMMA EarlierAreSmaller ==
  ASSUME MatrixInv, Built,
         NEW i \in 1 .. Len(segments), IsFirst(i),
         NEW j \in 1 .. Len(segments), IsFirst(j)
  PROVE  /\ j < i <=> segments[j].session_id < segments[i].session_id
         /\ segments[j].session_id = segments[i].session_id => i = j
  <1>0. /\ Len(segments) \in Nat /\ DOMAIN segments = 1 .. Len(segments)
        /\ segments[i].session_id \in Nat /\ segments[j].session_id \in Nat
        /\ NumberedInFileOrder
    <2>1. NumberedInFileOrder /\ DissectInv
      BY DEF MatrixInv, DissectInv, SessionInv, InOrder
    <2> QED
      BY <2>1, MatrixStanding, Standing
  <1>1. ASSUME NEW k \in 1 .. Len(segments), IsFirst(k), NEW l \in 1 .. Len(segments),
               l < k, segments[k].session_id \in Nat, segments[l].session_id \in Nat
        PROVE  segments[l].session_id < segments[k].session_id
    <2>1. l \in 1 .. k - 1
      BY <1>0, <1>1
    <2>2. segments[l].session_id # segments[k].session_id
      BY <1>1, <2>1 DEF IsFirst
    <2>3. ASSUME segments[k].session_id < segments[l].session_id PROVE FALSE
      <3>1. segments[k].session_id \in 0 .. segments[l].session_id - 1
        BY <1>1, <2>3
      <3>2. PICK m \in 1 .. l - 1 : segments[m].session_id = segments[k].session_id
        BY <1>0, <3>1 DEF NumberedInFileOrder
      <3>3. m \in 1 .. k - 1
        BY <1>0, <1>1
      <3> QED
        BY <1>1, <3>2, <3>3 DEF IsFirst
    <2> QED
      BY <1>1, <2>2, <2>3
  <1>2. j < i => segments[j].session_id < segments[i].session_id
    BY <1>0, <1>1
  <1>3. i < j => segments[i].session_id < segments[j].session_id
    BY <1>0, <1>1
  <1>4. i < j \/ j < i \/ i = j
    OBVIOUS
  <1> QED
    BY <1>0, <1>2, <1>3, <1>4

\* An identifier counts the conversations that began earlier.
LEMMA IdentifierCounts ==
  ASSUME MatrixInv, Built, NEW i \in 1 .. Len(segments), IsFirst(i)
  PROVE  Cardinality({m \in Table!Beginnings : m < At(i)}) = segments[i].session_id
  <1>0. /\ Len(segments) \in Nat /\ Len(order) \in Nat
        /\ \A j \in 1 .. Len(segments) : /\ segments[j].session_id \in Nat
                                         /\ segments[j].session_id < Len(order)
                                         /\ At(j) \in Nat
    <2>1. \A j \in 1 .. Len(segments) : segments[j].session_id < Len(order)
      BY DEF MatrixInv, Listed, SegmentsMet, Built
    <2> QED
      BY <2>1, MatrixStanding, PayloadIsSegment
  <1>1. PICK id \in Nat : id = segments[i].session_id /\ id < Len(order)
    BY <1>0
  <1> DEFINE S == {m \in Table!Beginnings : m < At(i)}
             f == [m \in S |-> session_ids[PacketKey(packets[m])]]
  <1>2. \A j \in 1 .. Len(segments) :
          session_ids[PacketKey(packets[At(j)])] = segments[j].session_id
    BY DEF MatrixInv, DissectInv, SessionInv, Numbering, SegmentKey, FrameOf, At
  <1>3. \A j \in 1 .. Len(segments) :
          IsFirst(j) => (At(j) \in S <=> segments[j].session_id < id)
    <2>1. ASSUME NEW j \in 1 .. Len(segments), IsFirst(j)
          PROVE  At(j) \in S <=> segments[j].session_id < id
      <3>1. At(j) \in Table!Beginnings
        BY <2>1, BeginningIsFirst
      <3>2. At(j) < At(i) <=> j < i
        <4>1. At(i) <= At(j) <=> i <= j
          BY PayloadIsSegment
        <4> QED
          BY <1>0, <4>1
      <3> QED
        BY <1>1, <2>1, <3>1, <3>2, EarlierAreSmaller
    <2> QED
      BY <2>1
  <1>4. \A m \in S : \E j \in 1 .. Len(segments) : IsFirst(j) /\ At(j) = m
    BY BeginningIsFirst
  <1>5. f \in Injection(S, 0 .. id - 1)
    <2>1. \A m \in S : f[m] \in 0 .. id - 1
      BY <1>0, <1>1, <1>2, <1>3, <1>4
    <2>2. \A m, n \in S : f[m] = f[n] => m = n
      <3>1. ASSUME NEW m \in S, NEW n \in S, f[m] = f[n] PROVE m = n
        <4>1. PICK j \in 1 .. Len(segments) : IsFirst(j) /\ At(j) = m
          BY <1>4
        <4>2. PICK k \in 1 .. Len(segments) : IsFirst(k) /\ At(k) = n
          BY <1>4
        <4>3. segments[j].session_id = segments[k].session_id
          BY <1>2, <3>1, <4>1, <4>2
        <4> QED
          BY <4>1, <4>2, <4>3, EarlierAreSmaller
      <3> QED
        BY <3>1
    <2> QED
      BY <2>1, <2>2 DEF Injection, IsInjective
  <1>6. f \in Surjection(S, 0 .. id - 1)
    <2>1. ASSUME NEW t \in 0 .. id - 1 PROVE \E m \in S : f[m] = t
      <3>1. t \in 0 .. Len(order) - 1
        BY <1>0, <1>1
      <3>2. PICK j \in 1 .. Len(segments) : segments[j].session_id = t /\ IsFirst(j)
        BY <3>1, SessionBegins DEF Built
      <3>3. At(j) \in S
        BY <1>1, <1>3, <3>2
      <3> QED
        BY <1>2, <3>2, <3>3
    <2> QED
      BY <1>5, <2>1 DEF Injection, Surjection
  <1>7. IsFiniteSet(0 .. id - 1) /\ Cardinality(0 .. id - 1) = id
    <2>1. /\ IsFiniteSet(0 .. id - 1)
          /\ Cardinality(0 .. id - 1) = IF 0 > id - 1 THEN 0 ELSE (id - 1) - 0 + 1
      BY FS_Interval
    <2> QED
      BY <2>1
  <1> HIDE DEF S, f
  <1>8. Cardinality(S) = id
    BY <1>5, <1>6, <1>7, FS_Injection
  <1> QED
    BY <1>1, <1>8 DEF S

\* TrafficTable brings the same definition of Cardinality.
LEMMA SameCardinality ==
  ASSUME NEW S
  PROVE  Table!Cardinality(S) = Cardinality(S)
  BY DEF Table!Cardinality, Cardinality

Tabulated(x) ==
  [session_id |-> x.session_id, source |-> x.source, target |-> x.target,
   initiator |-> x.initiator, packet_count |-> x.packet_count]

\* The row of a session is the one promised for the packet it begins with.
LEMMA RowIsPromised ==
  ASSUME MatrixInv, Built, NEW i \in 1 .. Len(segments), IsFirst(i),
         NEW id \in 0 .. Len(order) - 1, segments[i].session_id = id,
         first_sender[id] = <<FrameOf(segments[i]).src, FrameOf(segments[i]).dst>>
  PROVE  Tabulated(RowOf(id)) = Table!Row(At(i))
  <1> DEFINE n == At(i)
             key == SegmentKey(segments[i])
  <1>0. /\ DOMAIN packets = 1 .. Len(packets)
        /\ \A m \in 1 .. Len(packets) : packets[m] \in Frames /\ PacketKey(packets[m]) \in Key
        /\ key \in Key /\ Table!Ends(n) = key /\ id # NoSession
        /\ session_ids[key] = id /\ Named(key, Len(packets))
        /\ {Parties(id)[1], Parties(id)[2]} = key
        /\ FrameOf(segments[i]) = packets[n]
    <2>1. packets \in Seq(Frames)
      BY DEF MatrixInv, MatrixTypeOK, DissectTypeOK, SessionTypeOK
    <2> QED
      <3>1. DOMAIN packets = 1 .. Len(packets)
        BY <2>1
      <3>2. /\ \A m \in 1 .. Len(packets) : packets[m] \in Frames /\ PacketKey(packets[m]) \in Key
            /\ key \in Key
        BY MatrixStanding
      <3>3. Table!Ends(n) = key
        BY PayloadIsSegment
      <3>4. /\ session_ids[key] = id /\ Named(key, Len(packets))
            /\ {Parties(id)[1], Parties(id)[2]} = key
        BY RowEnds
      <3>5. id # NoSession /\ FrameOf(segments[i]) = packets[n]
        BY DEF NoSession, FrameOf, At
      <3> QED
        BY <3>1, <3>2, <3>3, <3>4, <3>5
  <1>1. \A m : Table!Ends(m) = PacketKey(packets[m])
    BY DEF Table!Ends, PacketKey, SessionKey
  <1>2. Table!Openings(n) = OpeningAmong(key, Len(packets))
    <2>1. \A m \in 1 .. Len(packets) :
            Opens(packets[m]) <=> packets[m].tcp /\ packets[m].flags = {"S"}
      BY <1>0, OpensIsSyn
    <2> QED
      BY <1>0, <1>1, <2>1 DEF Table!Openings, Table!Tcp, OpeningAmong
  <1>3. Table!Initiator(n) = initiators[id]
    <2>1. CASE Table!Openings(n) = {}
      BY <1>0, <1>2, <2>1 DEF Table!Initiator, Named
    <2>2. CASE Table!Openings(n) # {}
      <3>1. PICK m \in Table!Openings(n) :
              /\ \A j \in Table!Openings(n) : m <= j
              /\ initiators[id] = packets[m].src
        BY <1>0, <1>2, <2>2 DEF Named
      <3>2. Table!Openings(n) \subseteq Nat
        BY <1>2 DEF OpeningAmong
      <3>3. \A l \in Table!Openings(n) : (\A j \in Table!Openings(n) : l <= j) => l = m
        BY <3>1, <3>2
      <3>4. Table!Earliest(Table!Openings(n)) = m
        BY <3>1, <3>3 DEF Table!Earliest
      <3> QED
        BY <2>2, <3>1, <3>4 DEF Table!Initiator
    <2> QED
      BY <2>1, <2>2
  <1>4. Table!Openings(n) = {} <=> initiators[id] = NoEndpoint
    <2>1. \A m \in OpeningAmong(key, Len(packets)) : packets[m].src # NoEndpoint
      BY <1>0, FrameAssumption DEF OpeningAmong
    <2> QED
      BY <1>0, <1>2, <2>1 DEF Named
  <1>5. Table!Source(n) = Parties(id)[1]
    BY <1>0, <1>3, <1>4 DEF Table!Source, Parties
  <1>6. Table!Target(n) = Parties(id)[2]
    <2>1. PICK s, t : s = Parties(id)[1] /\ t = Parties(id)[2] /\ key = {s, t}
      BY <1>0
    <2>2. Table!Target(n) = CHOOSE e \in {s, t} : {s, t} = {s, e}
      BY <1>0, <1>5, <2>1 DEF Table!Target
    <2>3. \A e \in {s, t} : {s, t} = {s, e} <=> e = t
      OBVIOUS
    <2> QED
      BY <2>1, <2>2, <2>3
  <1>7. {m \in Table!Tcp : Table!Ends(m) = Table!Ends(n)} = PacketsOf(id, Len(packets))
    <2>1. \A k \in Key : session_ids[k] = id <=> k = key
      BY <1>0 DEF MatrixInv, DissectInv, SessionInv, Numbering
    <2> QED
      BY <1>0, <1>1, <2>1 DEF Table!Tcp, PacketsOf
  <1>8. RowOf(id).packet_count = Cardinality(PacketsOf(id, Len(packets)))
    BY RowType DEF Built
  <1>9. Cardinality({m \in Table!Beginnings : m < n}) = id
    BY IdentifierCounts
  <1>10. /\ RowOf(id).session_id = id /\ RowOf(id).initiator = initiators[id]
         /\ RowOf(id).source = Parties(id)[1] /\ RowOf(id).target = Parties(id)[2]
    BY DEF RowOf
  <1>11. Tabulated(RowOf(id))
           = [session_id |-> id, source |-> Parties(id)[1], target |-> Parties(id)[2],
              initiator |-> initiators[id],
              packet_count |-> Cardinality(PacketsOf(id, Len(packets)))]
    BY <1>8, <1>10 DEF Tabulated
  <1>12. Table!Row(n)
           = [session_id |-> Cardinality({m \in Table!Beginnings : m < n}),
              source |-> Table!Source(n), target |-> Table!Target(n),
              initiator |-> Table!Initiator(n),
              packet_count |-> Cardinality({m \in Table!Tcp : Table!Ends(m) = Table!Ends(n)})]
    BY SameCardinality DEF Table!Row
  <1> QED
    BY <1>3, <1>5, <1>6, <1>7, <1>9, <1>11, <1>12

\* Rows and beginnings correspond.
FinishedTable ==
  {[session_id |-> x.session_id, source |-> x.source, target |-> x.target,
    initiator |-> x.initiator, packet_count |-> x.packet_count] : x \in Rows}

TableAsPromised == FinishedTable = {Table!Row(n) : n \in Table!Beginnings}

LEMMA TableFromInv == MatrixInv /\ Built => TableAsPromised
  <1> SUFFICES ASSUME MatrixInv, Built
               PROVE  FinishedTable = {Table!Row(n) : n \in Table!Beginnings}
    BY DEF TableAsPromised
  <1>1. FinishedTable = {Tabulated(x) : x \in Rows}
    BY DEF FinishedTable, Tabulated
  <1>2. ASSUME NEW x \in Rows PROVE \E n \in Table!Beginnings : Tabulated(x) = Table!Row(n)
    <2>1. PICK id \in 0 .. Len(order) - 1 : x = RowOf(id)
      BY BuiltRows
    <2>2. PICK i \in 1 .. Len(segments) :
            /\ segments[i].session_id = id
            /\ IsFirst(i)
            /\ first_sender[id] = <<FrameOf(segments[i]).src, FrameOf(segments[i]).dst>>
      BY SessionBegins DEF Built
    <2> QED
      BY <2>1, <2>2, RowIsPromised, BeginningIsFirst
  <1>3. ASSUME NEW n \in Table!Beginnings PROVE \E x \in Rows : Tabulated(x) = Table!Row(n)
    <2>1. PICK j \in 1 .. Len(segments) : IsFirst(j) /\ At(j) = n
      BY BeginningIsFirst
    <2>2. PICK id : id = segments[j].session_id
      OBVIOUS
    <2>3. id \in 0 .. Len(order) - 1
      <3>1. id < Len(order) /\ id \in Nat /\ Len(order) \in Nat
        BY <2>2, MatrixStanding DEF MatrixInv, Listed, SegmentsMet, Built
      <3> QED
        BY <3>1
    <2>4. PICK i \in 1 .. Len(segments) :
            /\ segments[i].session_id = id
            /\ IsFirst(i)
            /\ first_sender[id] = <<FrameOf(segments[i]).src, FrameOf(segments[i]).dst>>
      BY <2>3, SessionBegins DEF Built
    <2>5. i = j
      BY <2>1, <2>2, <2>4, EarlierAreSmaller
    <2>6. Tabulated(RowOf(id)) = Table!Row(n)
      BY <2>1, <2>3, <2>4, <2>5, RowIsPromised
    <2>7. RowOf(id) \in Rows
      BY <2>3, BuiltRows
    <2> QED
      BY <2>6, <2>7
  <1> HIDE DEF Rows
  <1> QED
    BY <1>1, <1>2, <1>3

\* What the table says depends on the capture only.
LEMMA PromiseStable ==
  ASSUME packets' = packets
  PROVE  /\ Table!Beginnings' = Table!Beginnings
         /\ \A n : Table!Row(n)' = Table!Row(n)
  <1>1. /\ \A n : Table!Ends(n)' = Table!Ends(n)
        /\ Table!Tcp' = Table!Tcp
    BY DEF Table!Ends, Table!Tcp
  <1>2. Table!WithPayload' = Table!WithPayload
    BY <1>1 DEF Table!WithPayload
  <1>3. Table!Beginnings' = Table!Beginnings
    BY <1>1, <1>2 DEF Table!Beginnings
  <1>4. \A n : Table!Openings(n)' = Table!Openings(n)
    BY <1>1 DEF Table!Openings
  <1>5. \A n : Table!Initiator(n)' = Table!Initiator(n)
    BY <1>4 DEF Table!Initiator
  <1>6. \A n : Table!Source(n)' = Table!Source(n)
    BY <1>4, <1>5 DEF Table!Source
  <1>7. \A n : Table!Target(n)' = Table!Target(n)
    BY <1>1, <1>6 DEF Table!Target
  <1>8. \A n : Table!Row(n)' = Table!Row(n)
    BY <1>1, <1>3, <1>5, <1>6, <1>7 DEF Table!Row
  <1> QED
    BY <1>3, <1>8

TableValue == [ready |-> Built, rows |-> IF ~Built THEN {} ELSE FinishedTable]

\* A step of the loops leaves the table alone or is the one that tabulates.
LEMMA TableStep ==
  ASSUME MatrixInv, MatrixInv', [MatrixNext]_allMatrixVars
  PROVE  \/ /\ TableValue = Table!NoTable
            /\ TableValue' = [ready |-> TRUE, rows |-> {Table!Row(n) : n \in Table!Beginnings}]
            /\ packets' = packets
         \/ TableValue' = TableValue /\ packets' = packets
  <1>1. packets' = packets
    <2>1. SessionNext => packets' = packets
      BY DEF SessionNext, DecodeSkip, DecodeSegment, EndPass, Renumber, FindInitiator
    <2>2. UNCHANGED sessionVars => packets' = packets
      BY DEF sessionVars
    <2>3. DissectNext => packets' = packets
      BY <2>1, <2>2
         DEF DissectNext, SkipSegment, DissectSegment, NextDissector, SortEvents
    <2>4. UNCHANGED allDissectVars => packets' = packets
      BY <2>2 DEF allDissectVars
    <2> QED
      BY <2>3, <2>4
         DEF MatrixNext, MeetSession, CountPacket, AddRow, EndPhase, allMatrixVars
  <1>2. CASE Built
    <2>1. sorted
      BY <1>2 DEF MatrixInv, Phased, MatrixNotBegun, Built
    <2>2. ~DissectNext
      BY <2>1, DissectedOnce DEF MatrixInv
    <2>3. UNCHANGED allMatrixVars
      BY <1>2, <2>2 DEF MatrixNext, MeetSession, CountPacket, AddRow, EndPhase, Built
    <2>4. UNCHANGED <<phase, comm_matrix>>
      BY <2>3 DEF allMatrixVars, matrixVars
    <2>5. TableValue' = TableValue
      BY <2>4 DEF TableValue, FinishedTable, Built, Rows, Reported
    <2> QED
      BY <1>1, <2>5
  <1>3. CASE ~Built /\ ~Built'
    <2>1. Built = FALSE /\ Built' = FALSE
      BY <1>3 DEF Built
    <2>2. TableValue = [ready |-> FALSE, rows |-> {}]
      BY <2>1 DEF TableValue
    <2>3. TableValue' = [ready |-> FALSE, rows |-> {}]
      BY <2>1 DEF TableValue
    <2> QED
      BY <1>1, <2>2, <2>3
  <1>4. CASE ~Built /\ Built'
    <2>1. (MatrixInv /\ Built => TableAsPromised)'
      BY TableFromInv, PTL
    <2>2. FinishedTable' = {Table!Row(n)' : n \in Table!Beginnings'}
      BY <1>4, <2>1 DEF TableAsPromised
    <2>3. FinishedTable' = {Table!Row(n) : n \in Table!Beginnings}
      BY <1>1, <2>2, PromiseStable
    <2>4. TableValue = Table!NoTable
      <3>1. Built = FALSE
        BY <1>4 DEF Built
      <3> QED
        BY <3>1 DEF TableValue, Table!NoTable
    <2>5. TableValue' = [ready |-> TRUE, rows |-> FinishedTable']
      BY <1>4 DEF TableValue
    <2> QED
      BY <1>1, <2>3, <2>4, <2>5
  <1> QED
    BY <1>2, <1>3, <1>4

-----------------------------------------------------------------------------
(***************************************************************************)
(* Type correctness: counters and rows stay within the capture, and no     *)
(* row counts zero packets.                                                *)
(***************************************************************************)
THEOREM MatrixTypeCorrect == MatrixSpec => []MatrixTypeOK
  <1>1. MatrixInv => MatrixTypeOK
    BY DEF MatrixInv
  <1> QED
    BY <1>1, MatrixInvAlways, PTL

(***************************************************************************)
(* Nothing vanishes (FLOW-03): the rows and the payloadless sessions       *)
(* account for every TCP packet, and no session is of both kinds.          *)
(***************************************************************************)
THEOREM NothingVanishes == MatrixSpec => []EveryTcpPacketAccounted
  BY AccountedFromInv, MatrixInvAlways, PTL

(***************************************************************************)
(* The matrix and the conversations section are about the same sessions,   *)
(* with the same ends and compatible counts.                               *)
(***************************************************************************)
THEOREM SectionsAgree == MatrixSpec => []MatrixAgreesWithConversations
  BY ConversationsFromInv, MatrixInvAlways, PTL

(***************************************************************************)
(* No low-confidence protocol is shown where there is a high-confidence    *)
(* one, and no recognition is dropped from a label.                        *)
(***************************************************************************)
THEOREM LabelsKeepConfidence == MatrixSpec => []LabelKeepsConfidence
  BY LabelFromInv, MatrixInvAlways, PTL

(***************************************************************************)
(* The three loops implement the one-step table: they show nothing until   *)
(* the last row is in, and then exactly the promised rows.                 *)
(***************************************************************************)
THEOREM MatrixImplementsTable == MatrixSpec => ImplementsTable
  <1>1. MatrixInit => Table!Init
    BY DEF MatrixInit, Table!Init, Table!NoTable, Built
  <1>2. MatrixInv /\ MatrixInv' /\ [MatrixNext]_allMatrixVars
          => [Table!Tabulate]_<<packets,
                [ready |-> Built,
                 rows |-> IF ~Built THEN {} ELSE
                   {[session_id |-> r.session_id, source |-> r.source,
                     target |-> r.target, initiator |-> r.initiator,
                     packet_count |-> r.packet_count] : r \in Rows}]>>
    BY TableStep DEF Table!Tabulate, TableValue, FinishedTable
  <1> QED
    BY <1>1, <1>2, MatrixInvAlways, PTL DEF MatrixSpec, ImplementsTable, Table!Spec

-----------------------------------------------------------------------------
(***************************************************************************)
(* The findings.                                                           *)
(***************************************************************************)

-----------------------------------------------------------------------------
(***************************************************************************)
(* Who the client of a session is.  DissectInv says that the events of a   *)
(* session and protocol agree on one; here it is the sender of the first   *)
(* segment of the session that has the shape of the protocol.              *)
(***************************************************************************)
FirstOfShape(d, i) ==
  /\ SegmentPayload(i) \in Shape[d]
  /\ \A j \in 1 .. i - 1 :
       segments[j].session_id = segments[i].session_id => SegmentPayload(j) \notin Shape[d]

KeepsClients == turn <= 5 /\ dissectors[turn] # RtuOverTcp

FirstSenders ==
  /\ KeepsClients =>
       /\ \A i \in 1 .. at - 1 :
            FirstOfShape(dissectors[turn], i) =>
              session_clients[segments[i].session_id] = FrameOf(segments[i]).src
       /\ \A i \in 1 .. at - 1 :
            SegmentPayload(i) \in Shape[dissectors[turn]] =>
              session_clients[segments[i].session_id] # NoEndpoint
       /\ \A id \in SessionId :
            session_clients[id] # NoEndpoint =>
              \E i \in 1 .. at - 1 : /\ segments[i].session_id = id
                                     /\ FirstOfShape(dissectors[turn], i)
  /\ \A e \in HighEvents :
       \E i \in 1 .. Len(segments) : /\ segments[i].session_id = e.session_id
                                     /\ FirstOfShape(e.protocol, i)
                                     /\ ByClient(e, FrameOf(segments[i]).src)

-----------------------------------------------------------------------------
(***************************************************************************)
(* The inductive invariant.  The findings are those of the checks that     *)
(* have run, each from an event its evaluator reports and each such event  *)
(* with its finding; the cleartext findings are counted, since two of them *)
(* may be equal.                                                           *)
(***************************************************************************)
Staged ==
  /\ stage = "discovery" => /\ checks = <<>> /\ catalogue = <<>> /\ check = 1
                            /\ findings = <<>> /\ resolved_findings = <<>>
  /\ stage # "discovery" => Built /\ checks \in CheckFiles /\ catalogue \in CatalogueFiles
  /\ stage = "checks" => resolved_findings = <<>>
  /\ stage # "discovery" =>
       \/ stage = "aborted" /\ ~ChecksLoad(checks)
            /\ findings = <<>> /\ resolved_findings = <<>> /\ check = 1
       \/ ChecksLoad(checks)
  /\ ChecksDone => check = Len(checks) + 1
  /\ stage = "published" => Len(resolved_findings) = Len(findings)
  /\ stage = "aborted" /\ ChecksLoad(checks) =>
       /\ check = Len(checks) + 1
       /\ Len(resolved_findings) < Len(findings)
       /\ ~Resolves

HasRun(c) == \E k \in 1 .. check - 1 : checks[k].id = c

Supported ==
  \A i \in DOMAIN findings :
    \E e \in HighEvents :
      /\ HasRun(findings[i].check_id)
      /\ Reports(findings[i].check_id, e)
      /\ findings[i] = FindingOf(findings[i].check_id, e)

AllFound ==
  \A c \in Check : \A e \in HighEvents :
    HasRun(c) /\ Reports(c, e) => \E i \in DOMAIN findings : findings[i] = FindingOf(c, e)

FirstUses == {n \in DOMAIN protocol_events : FirstCleartext(protocol_events[n])}
CleartextFindings == {i \in DOMAIN findings : findings[i].check_id = Cleartext}

CleartextCounted ==
  Cardinality(CleartextFindings) = IF HasRun(Cleartext) THEN Cardinality(FirstUses) ELSE 0

WellCited(f) ==
  /\ \A citation \in Range(CitationsOf(f.check_id)) : Resolvable(citation, catalogue)
  /\ SpecOf(f.check_id).severity \in ALLOWED_SEVERITIES

ResolvedSoFar ==
  /\ Len(resolved_findings) <= Len(findings)
  /\ \A i \in 1 .. Len(resolved_findings) :
       WellCited(findings[i]) /\ resolved_findings[i] = Resolution(findings[i])

FindingInv ==
  /\ MatrixInv
  /\ FirstSenders
  /\ FindingsTypeOK
  /\ Staged
  /\ Supported
  /\ AllFound
  /\ CleartextCounted
  /\ ResolvedSoFar

-----------------------------------------------------------------------------
(***************************************************************************)
(* Facts about lists and about the catalogue: what a loop collects, where  *)
(* an entry of the flattened catalogue comes from, and when it loads.      *)
(***************************************************************************)

\* What a loop collects: as many elements as it kept positions, each of one
\* of them and all of them.
LEMMA SelectedElements ==
  ASSUME NEW S, NEW list \in Seq(S), NEW kept \in SUBSET (DOMAIN list)
  PROVE  /\ Cardinality(kept) \in Nat
         /\ Selected(list, kept) \in Seq(S)
         /\ Len(Selected(list, kept)) = Cardinality(kept)
         /\ \A m \in 1 .. Cardinality(kept) :
              \E i \in kept : Selected(list, kept)[m] = list[i]
         /\ \A i \in kept :
              \E m \in 1 .. Cardinality(kept) : Selected(list, kept)[m] = list[i]
  <1>0. PICK n \in Nat : n = Len(list) /\ DOMAIN list = 1 .. n
    OBVIOUS
  <1>1. PICK c \in Nat : c = Cardinality(kept)
    BY <1>0, FinitePositions
  <1>2. IsFiniteSet(kept)
    BY <1>0, FinitePositions
  <1> DEFINE Before(i) == {j \in kept : j <= i}
             N(i) == Cardinality(Before(i))
             number == [i \in kept |-> N(i)]
             nth(m) == CHOOSE i \in kept : N(i) = m
  <1>3. ASSUME NEW i \in kept
        PROVE  /\ IsFiniteSet(Before(i)) /\ N(i) \in 1 .. c
    <2>1. Before(i) \subseteq kept /\ i \in Before(i)
      BY <1>0
    <2>2. IsFiniteSet(Before(i)) /\ N(i) <= c
      BY <1>1, <1>2, <2>1, FS_Subset
    <2>3. N(i) \in Nat \ {0}
      BY <2>1, <2>2, Removed
    <2> QED
      BY <2>2, <2>3
  <1>4. ASSUME NEW i \in kept, NEW j \in kept, i < j PROVE N(i) < N(j)
    <2>1. Before(i) \cup {j} \subseteq Before(j) /\ j \notin Before(i)
      BY <1>0, <1>4
    <2>2. Cardinality(Before(i) \cup {j}) = N(i) + 1
      BY <1>3, <2>1, OneMore
    <2>3. Cardinality(Before(i) \cup {j}) <= N(j)
      BY <1>3, <2>1, FS_Subset
    <2>4. PICK a \in 1 .. c, b \in 1 .. c : a = N(i) /\ b = N(j)
      BY <1>3
    <2> HIDE DEF Before
    <2> QED
      BY <2>2, <2>3, <2>4
  <1> HIDE DEF N
  <1>5. number \in Injection(kept, 1 .. c)
    <2>1. ASSUME NEW i \in kept, NEW j \in kept, N(i) = N(j) PROVE i = j
      <3>1. PICK a \in 1 .. c : a = N(i) /\ a = N(j)
        BY <1>3, <2>1
      <3>2. i \in Nat /\ j \in Nat
        BY <1>0
      <3>3. ~(a < a)
        OBVIOUS
      <3>4. ~(i < j) /\ ~(j < i)
        BY <1>4, <3>1, <3>3
      <3> QED
        BY <3>2, <3>4
    <2> QED
      BY <1>3, <2>1 DEF Injection, IsInjective
  <1>6. \A m \in 1 .. c : \E i \in kept : N(i) = m
    <2>1. IsFiniteSet(1 .. c) /\ Cardinality(1 .. c) = c
      BY FS_Interval
    <2>2. number \in Surjection(kept, 1 .. c)
      BY <1>1, <1>5, <2>1, FS_Injection
    <2> QED
      BY <2>2 DEF Surjection
  <1>7. \A m \in 1 .. c : nth(m) \in kept /\ N(nth(m)) = m
    BY <1>6
  <1>8. Selected(list, kept) = [m \in 1 .. c |-> list[nth(m)]]
    BY <1>1 DEF Selected, N
  <1>9. ASSUME NEW i \in kept PROVE nth(N(i)) = i
    <2>1. nth(N(i)) \in kept /\ N(nth(N(i))) = N(i)
      BY <1>3, <1>7
    <2> QED
      BY <1>5, <2>1 DEF Injection, IsInjective
  <1> HIDE DEF nth
  <1>10. \A m \in 1 .. c : list[nth(m)] \in S
    BY <1>0, <1>7
  <1> DEFINE taken == Selected(list, kept)
  <1>11. taken \in Seq(S) /\ Len(taken) = c
    BY <1>8, <1>10
  <1>12. \A m \in 1 .. c : taken[m] = list[nth(m)]
    BY <1>8
  <1>13. \A m \in 1 .. c : \E i \in kept : taken[m] = list[i]
    BY <1>7, <1>12
  <1>14. ASSUME NEW i \in kept PROVE \E m \in 1 .. c : taken[m] = list[i]
    <2>1. N(i) \in 1 .. c
      BY <1>3
    <2> QED
      BY <1>9, <1>12, <2>1
  <1> HIDE DEF taken
  <1> QED
    BY <1>1, <1>11, <1>13, <1>14 DEF taken

\* The places of the entries of the first k files.
PlacesIn(files, k) ==
  {q \in Nat \X Nat : q[1] \in 1 .. k /\ q[2] \in 1 .. Len(files[q[1]])}

\* `place` tells for every element of a list where in the files it stands:
\* every place once.
PlacedIn(files, k, list, place) ==
  /\ \A m \in 1 .. Len(list) : /\ place[m] \in PlacesIn(files, k)
                               /\ list[m] = files[place[m][1]][place[m][2]]
  /\ \A q \in PlacesIn(files, k) : \E m \in 1 .. Len(list) : place[m] = q
  /\ \A l, m \in 1 .. Len(list) : place[l] = place[m] => l = m

\* One more file is appended to the entries.
LEMMA OneFileMore ==
  ASSUME NEW S, NEW files \in Seq(Seq(S)), NEW k \in Nat, NEW h \in Nat, h = k + 1, h <= Len(files),
         NEW list \in Seq(S), NEW place, PlacedIn(files, k, list, place)
  PROVE  /\ list \o files[h] \in Seq(S)
         /\ \E further : PlacedIn(files, h, list \o files[h], further)
  <1>1. PICK n \in Nat, l \in Nat : n = Len(list) /\ l = Len(files[h])
    OBVIOUS
  <1> DEFINE longer == list \o files[h]
             further == [m \in 1 .. n + l |-> IF m <= n THEN place[m] ELSE <<h, m - n>>]
  <1>2. /\ longer \in Seq(S) /\ Len(longer) = n + l
        /\ \A m \in 1 .. n : longer[m] = list[m]
        /\ \A m \in 1 .. n + l : ~(m <= n) => longer[m] = files[h][m - n]
    BY <1>1
  <1> HIDE DEF longer
  <1>3. \A q : q \in PlacesIn(files, k) => q \in PlacesIn(files, h) /\ q[1] # h
    BY DEF PlacesIn
  <1>4. \A j \in 1 .. l : <<h, j>> \in PlacesIn(files, h)
    BY <1>1 DEF PlacesIn
  <1>5. ASSUME NEW q \in PlacesIn(files, h), q \notin PlacesIn(files, k)
        PROVE  q[2] \in 1 .. l /\ q = <<h, q[2]>>
    <2>1. q \in Nat \X Nat /\ q[1] \in 1 .. h /\ q[2] \in 1 .. Len(files[q[1]])
      BY DEF PlacesIn
    <2>2. q[1] \notin 1 .. k
      BY <1>5, <2>1 DEF PlacesIn
    <2>3. q[1] = h
      BY <2>1, <2>2
    <2> QED
      BY <1>1, <2>1, <2>3
  <1>6. ASSUME NEW m \in 1 .. n + l
        PROVE  /\ further[m] \in PlacesIn(files, h)
               /\ longer[m] = files[further[m][1]][further[m][2]]
    <2>1. CASE m <= n
      <3>1. m \in 1 .. n /\ further[m] = place[m]
        BY <2>1
      <3> QED
        BY <1>1, <1>2, <1>3, <3>1 DEF PlacedIn
    <2>2. CASE ~(m <= n)
      <3>1. m - n \in 1 .. l /\ further[m] = <<h, m - n>>
        BY <2>2
      <3> QED
        BY <1>2, <1>4, <2>2, <3>1
    <2> QED
      BY <2>1, <2>2
  <1>7. ASSUME NEW q \in PlacesIn(files, h)
        PROVE  \E m \in 1 .. n + l : further[m] = q
    <2>1. CASE q \in PlacesIn(files, k)
      <3>1. PICK m \in 1 .. n : place[m] = q
        BY <1>1, <2>1 DEF PlacedIn
      <3>2. m \in 1 .. n + l /\ further[m] = q
        BY <3>1
      <3> QED
        BY <3>2
    <2>2. CASE q \notin PlacesIn(files, k)
      <3>1. PICK j \in 1 .. l : q = <<h, j>>
        BY <1>5, <2>2
      <3>2. n + j \in 1 .. n + l /\ further[n + j] = q
        BY <3>1
      <3> QED
        BY <3>2
    <2> QED
      BY <2>1, <2>2
  <1>8. ASSUME NEW a \in 1 .. n + l, NEW b \in 1 .. n + l, further[a] = further[b]
        PROVE  a = b
    <2>1. \A m \in 1 .. n : place[m][1] # h
      BY <1>1, <1>3 DEF PlacedIn
    <2>2. CASE a <= n /\ b <= n
      <3>1. a \in 1 .. n /\ b \in 1 .. n /\ place[a] = place[b]
        BY <1>8, <2>2
      <3> QED
        BY <1>1, <3>1 DEF PlacedIn
    <2>3. CASE ~(a <= n) /\ ~(b <= n)
      <3>1. <<h, a - n>> = <<h, b - n>>
        BY <1>8, <2>3
      <3> QED
        BY <3>1
    <2>4. CASE a <= n /\ ~(b <= n)
      <3>1. place[a] = <<h, b - n>>
        BY <1>8, <2>4
      <3> QED
        BY <2>1, <2>4, <3>1
    <2>5. CASE ~(a <= n) /\ b <= n
      <3>1. place[b] = <<h, a - n>>
        BY <1>8, <2>5
      <3> QED
        BY <2>1, <2>5, <3>1
    <2> QED
      BY <2>2, <2>3, <2>4, <2>5
  <1>9. PlacedIn(files, h, longer, further)
    <2> HIDE DEF further
    <2> QED
      BY <1>2, <1>6, <1>7, <1>8 DEF PlacedIn
  <1> QED
    BY <1>2, <1>9 DEF longer

\* The entries are those of all files, each at one place.
LEMMA EntriesPlaced ==
  ASSUME NEW S, NEW files \in Seq(Seq(S))
  PROVE  /\ Entries(files) \in Seq(S)
         /\ \E place : PlacedIn(files, Len(files), Entries(files), place)
  <1>1. PICK n \in Nat : n = Len(files)
    OBVIOUS
  <1>2. CASE n = 0
    <2>1. files = <<>> /\ Entries(files) = <<>>
      <3>1. files = <<>>
        BY <1>1, <1>2, EmptySeq
      <3>2. Len(files) = 0
        BY <1>1, <1>2
      <3> QED
        BY <3>1, <3>2 DEF Entries, FlattenSeq
    <2>2. PlacedIn(files, Len(files), <<>>, <<>>)
      BY <1>1, <1>2, <2>1 DEF PlacedIn, PlacesIn
    <2>3. <<>> \in Seq(S)
      BY EmptySeq
    <2> QED
      BY <2>1, <2>2, <2>3
  <1>3. CASE n # 0
    <2> DEFINE parts == CHOOSE p : p = [i \in 1 .. n |-> IF i = 1 THEN files[i]
                                                         ELSE p[i - 1] \o files[i]]
    <2>1. Flattened(files, n, parts)
      BY FlattenExists DEF Flattened
    <2>2. Entries(files) = parts[n]
      BY <1>1, <1>3 DEF Entries, FlattenSeq
    <2> HIDE DEF parts
    <2>3. ASSUME NEW i \in 1 .. n
          PROVE  parts[i] = IF i = 1 THEN files[i] ELSE parts[i - 1] \o files[i]
      BY <2>1 DEF Flattened
    <2> DEFINE Done(k) == /\ parts[k] \in Seq(S)
                          /\ \E place : PlacedIn(files, k, parts[k], place)
               Reached == {k \in Nat : k + 1 <= n => Done(k + 1)}
    <2>4. 0 \in Reached
      <3>1. PlacedIn(files, 0, <<>>, <<>>) /\ <<>> \in Seq(S)
        BY DEF PlacedIn, PlacesIn
      <3>2. /\ <<>> \o files[1] \in Seq(S)
            /\ \E place : PlacedIn(files, 1, <<>> \o files[1], place)
        <4>1. 1 = 0 + 1 /\ 1 <= Len(files) /\ 0 \in Nat /\ 1 \in Nat
          BY <1>1, <1>3
        <4>2. PICK place : PlacedIn(files, 0, <<>>, place)
          BY <3>1
        <4> QED
          BY <3>1, <4>1, <4>2, OneFileMore
      <3>3. <<>> \o files[1] = files[1] /\ parts[1] = files[1]
        BY <1>1, <1>3, <2>3
      <3> QED
        BY <3>2, <3>3
    <2>5. ASSUME NEW k \in Nat, k \in Reached PROVE k + 1 \in Reached
      <3> SUFFICES ASSUME (k + 1) + 1 <= n PROVE Done((k + 1) + 1)
        OBVIOUS
      <3>1. parts[k + 1] \in Seq(S)
        BY <2>5
      <3>2. PICK place : PlacedIn(files, k + 1, parts[k + 1], place)
        BY <2>5
      <3>3. PICK a \in Nat, b \in Nat : a = k + 1 /\ b = a + 1 /\ b = (k + 1) + 1
        OBVIOUS
      <3>4. b \in 1 .. n /\ b # 1 /\ b - 1 = a
        BY <3>3
      <3>5. parts[b] = parts[a] \o files[b]
        BY <2>3, <3>4
      <3>6. parts[a] \in Seq(S) /\ PlacedIn(files, a, parts[a], place)
        BY <3>1, <3>2, <3>3
      <3>7. b <= Len(files)
        BY <1>1, <3>4
      <3>8. /\ parts[a] \o files[b] \in Seq(S)
            /\ \E further : PlacedIn(files, b, parts[a] \o files[b], further)
        BY <3>3, <3>6, <3>7, OneFileMore
      <3> QED
        BY <3>3, <3>5, <3>8
    <2> HIDE DEF Reached
    <2>6. n - 1 \in Reached
      BY <1>3, <2>4, <2>5, Induction
    <2>7. Done(n)
      BY <1>3, <2>6 DEF Reached
    <2> QED
      BY <1>1, <2>2, <2>7
  <1> QED
    BY <1>2, <1>3

\* Duplicates apart, the citations stay the same.
LEMMA DedupeKeeps ==
  ASSUME NEW standards \in Seq(STRING)
  PROVE  /\ Dedupe(standards) \in Seq(STRING)
         /\ Range(Dedupe(standards)) = Range(standards)
  <1>1. PICK n \in Nat : DOMAIN standards = 1 .. n /\ n = Len(standards)
    OBVIOUS
  <1> DEFINE kept == {i \in DOMAIN standards :
                        \A j \in 1 .. i - 1 : standards[j] # standards[i]}
             kepts == Selected(standards, kept)
  <1>2. /\ Cardinality(kept) \in Nat
        /\ kepts \in Seq(STRING) /\ Len(kepts) = Cardinality(kept)
        /\ \A m \in 1 .. Cardinality(kept) : \E i \in kept : kepts[m] = standards[i]
        /\ \A i \in kept : \E m \in 1 .. Cardinality(kept) : kepts[m] = standards[i]
    <2>1. kept \in SUBSET (DOMAIN standards)
      OBVIOUS
    <2> HIDE DEF kept
    <2> QED
      BY <2>1, SelectedElements
  <1>3. PICK c \in Nat : c = Cardinality(kept)
    BY <1>2
  <1>4. Dedupe(standards) = kepts
    BY DEF Dedupe
  <1>5. ASSUME NEW s \in Range(standards) PROVE \E i \in kept : standards[i] = s
    <2> DEFINE holders == {i \in 1 .. n : standards[i] = s}
    <2>1. PICK i \in holders : \A j \in holders : i <= j
      <3>1. holders \subseteq Nat /\ holders # {}
        BY <1>1 DEF Range
      <3> QED
        BY <3>1, Least
    <2>2. ASSUME NEW j \in 1 .. i - 1 PROVE standards[j] # s
      <3>1. j \in 1 .. n /\ ~(i <= j)
        BY <2>1
      <3> QED
        BY <2>1, <3>1
    <2> QED
      BY <1>1, <2>1, <2>2
  <1>6. kept \subseteq DOMAIN standards
    OBVIOUS
  <1> HIDE DEF kept, kepts
  <1>7. DOMAIN kepts = 1 .. c
    BY <1>2, <1>3
  <1>8. \A m \in 1 .. c : kepts[m] \in Range(standards)
    BY <1>2, <1>3, <1>6 DEF Range
  <1>9. \A s \in Range(standards) : \E m \in 1 .. c : kepts[m] = s
    BY <1>2, <1>3, <1>5
  <1>10. Range(kepts) \subseteq Range(standards)
    BY <1>7, <1>8 DEF Range
  <1>11. Range(standards) \subseteq Range(kepts)
    BY <1>7, <1>9 DEF Range
  <1> QED
    BY <1>2, <1>4, <1>10, <1>11

\* The place of an entry in the files and its position among all entries.
LEMMA EntryPlaces ==
  ASSUME NEW S, NEW files \in Seq(Seq(S))
  PROVE  /\ \A m \in DOMAIN Entries(files) :
              \E i \in DOMAIN files : \E j \in DOMAIN files[i] :
                Entries(files)[m] = files[i][j]
         /\ \A i \in DOMAIN files : \A j \in DOMAIN files[i] :
              \E m \in DOMAIN Entries(files) : Entries(files)[m] = files[i][j]
         /\ \A i, k \in DOMAIN files : \A j \in DOMAIN files[i], l \in DOMAIN files[k] :
              <<i, j>> # <<k, l>> =>
                \E m, n \in DOMAIN Entries(files) :
                  m # n /\ Entries(files)[m] = files[i][j] /\ Entries(files)[n] = files[k][l]
         /\ \A m, n \in DOMAIN Entries(files) :
              m # n =>
                \E i, k \in DOMAIN files : \E j \in DOMAIN files[i], l \in DOMAIN files[k] :
                  /\ <<i, j>> # <<k, l>>
                  /\ Entries(files)[m] = files[i][j] /\ Entries(files)[n] = files[k][l]
  <1>1. PICK list : list = Entries(files)
    OBVIOUS
  <1>2. PICK place : PlacedIn(files, Len(files), list, place)
    BY <1>1, EntriesPlaced
  <1>3. list \in Seq(S) /\ DOMAIN list = 1 .. Len(list) /\ DOMAIN files = 1 .. Len(files)
    BY <1>1, EntriesPlaced
  <1>4. \A i \in DOMAIN files : DOMAIN files[i] = 1 .. Len(files[i])
    <2>1. ASSUME NEW i \in DOMAIN files PROVE DOMAIN files[i] = 1 .. Len(files[i])
      <3>1. files[i] \in Seq(S)
        OBVIOUS
      <3> QED
        BY <3>1
    <2> QED
      BY <2>1
  <1>5. \A q \in PlacesIn(files, Len(files)) :
          q[1] \in DOMAIN files /\ q[2] \in DOMAIN files[q[1]] /\ q = <<q[1], q[2]>>
    BY <1>3, <1>4 DEF PlacesIn
  <1>6. \A i \in DOMAIN files : \A j \in DOMAIN files[i] :
          <<i, j>> \in PlacesIn(files, Len(files))
    BY <1>3, <1>4 DEF PlacesIn
  <1>7. \A m \in DOMAIN list :
          /\ place[m][1] \in DOMAIN files /\ place[m][2] \in DOMAIN files[place[m][1]]
          /\ place[m] = <<place[m][1], place[m][2]>>
          /\ list[m] = files[place[m][1]][place[m][2]]
    BY <1>2, <1>3, <1>5 DEF PlacedIn
  <1>8. \A i \in DOMAIN files : \A j \in DOMAIN files[i] :
          \E m \in DOMAIN list : place[m] = <<i, j>> /\ list[m] = files[i][j]
    <2>1. ASSUME NEW i \in DOMAIN files, NEW j \in DOMAIN files[i]
          PROVE  \E m \in DOMAIN list : place[m] = <<i, j>> /\ list[m] = files[i][j]
      <3>1. PICK m \in DOMAIN list : place[m] = <<i, j>>
        BY <1>2, <1>3, <1>6 DEF PlacedIn
      <3> QED
        BY <1>7, <3>1
    <2> QED
      BY <2>1
  <1>9. \A m, n \in DOMAIN list : place[m] = place[n] => m = n
    BY <1>2, <1>3 DEF PlacedIn
  <1>10. ASSUME NEW m \in DOMAIN list, NEW n \in DOMAIN list, m # n
         PROVE  \E i, k \in DOMAIN files : \E j \in DOMAIN files[i], l \in DOMAIN files[k] :
                  <<i, j>> # <<k, l>> /\ list[m] = files[i][j] /\ list[n] = files[k][l]
    <2>1. place[m] # place[n]
      BY <1>9, <1>10
    <2>2. <<place[m][1], place[m][2]>> # <<place[n][1], place[n][2]>>
      BY <1>7, <2>1
    <2> QED
      BY <1>7, <2>2
  <1>11. ASSUME NEW i \in DOMAIN files, NEW k \in DOMAIN files,
                NEW j \in DOMAIN files[i], NEW l \in DOMAIN files[k], <<i, j>> # <<k, l>>
         PROVE  \E m, n \in DOMAIN list :
                  m # n /\ list[m] = files[i][j] /\ list[n] = files[k][l]
    <2>1. PICK m \in DOMAIN list : place[m] = <<i, j>> /\ list[m] = files[i][j]
      BY <1>8
    <2>2. PICK n \in DOMAIN list : place[n] = <<k, l>> /\ list[n] = files[k][l]
      BY <1>8
    <2> QED
      BY <1>11, <2>1, <2>2
  <1> QED
    BY <1>1, <1>7, <1>8, <1>10, <1>11

\* The catalogue does not load exactly when a file has a defect.
LEMMA LoadsWithoutDefect ==
  ASSUME NEW files \in Seq(Seq(CatalogueEntry))
  PROVE  CatalogLoads(files) <=> ~Defect(files)
  <1>1. PICK list : list = Entries(files)
    OBVIOUS
  <1>2. ASSUME NEW e \in CatalogueEntry
        PROVE  ValidEntry(e) <=> ~(\/ ~e.complete \/ ~e.typed
                                   \/ e.clause_title_source = "other"
                                   \/ e.verified /\ e.clause_title_source = "own")
    BY DEF CatalogueEntry, ValidEntry, CLAUSE_TITLE_SOURCES
  <1>3. \A i \in DOMAIN files : \A j \in DOMAIN files[i] : files[i][j] \in CatalogueEntry
    <2>1. ASSUME NEW i \in DOMAIN files, NEW j \in DOMAIN files[i]
          PROVE  files[i][j] \in CatalogueEntry
      <3>1. files[i] \in Seq(CatalogueEntry)
        OBVIOUS
      <3> QED
        BY <3>1
    <2> QED
      BY <2>1
  <1>4. DOMAIN [m \in DOMAIN list |-> list[m].cites] = DOMAIN list
    OBVIOUS
  <1>5. CatalogLoads(files) <=>
          /\ \A m \in DOMAIN list : ValidEntry(list[m])
          /\ \A m, n \in DOMAIN list : list[m].cites = list[n].cites => m = n
    BY <1>1 DEF CatalogLoads, NoKeyTwice
  <1>6. ASSUME CatalogLoads(files), Defect(files) PROVE FALSE
    <2>0. PICK i \in DOMAIN files : \E j \in DOMAIN files[i] :
            \/ ~ValidEntry(files[i][j])
            \/ \E k \in DOMAIN files : \E l \in DOMAIN files[k] :
                 <<k, l>> # <<i, j>> /\ files[k][l].cites = files[i][j].cites
      BY <1>2, <1>3, <1>6 DEF Defect
    <2>1. PICK j \in DOMAIN files[i] :
            \/ ~ValidEntry(files[i][j])
            \/ \E k \in DOMAIN files : \E l \in DOMAIN files[k] :
                 <<k, l>> # <<i, j>> /\ files[k][l].cites = files[i][j].cites
      BY <2>0
    <2>2. CASE ~ValidEntry(files[i][j])
      BY <1>1, <1>5, <1>6, <2>2, EntryPlaces
    <2>3. CASE \E k \in DOMAIN files : \E l \in DOMAIN files[k] :
                 <<k, l>> # <<i, j>> /\ files[k][l].cites = files[i][j].cites
      <3>0. PICK k \in DOMAIN files : \E l \in DOMAIN files[k] :
              <<k, l>> # <<i, j>> /\ files[k][l].cites = files[i][j].cites
        BY <2>3
      <3>1. PICK l \in DOMAIN files[k] :
              <<k, l>> # <<i, j>> /\ files[k][l].cites = files[i][j].cites
        BY <3>0
      <3>2. PICK m \in DOMAIN list, n \in DOMAIN list :
              m # n /\ list[m] = files[k][l] /\ list[n] = files[i][j]
        BY <1>1, <3>1, EntryPlaces
      <3> QED
        BY <1>5, <1>6, <3>1, <3>2
    <2> QED
      BY <2>1, <2>2, <2>3
  <1>7. ASSUME ~CatalogLoads(files) PROVE Defect(files)
    <2>1. CASE \E m \in DOMAIN list : ~ValidEntry(list[m])
      <3>0. PICK i \in DOMAIN files : \E j \in DOMAIN files[i] : ~ValidEntry(files[i][j])
        BY <1>1, <2>1, EntryPlaces
      <3>1. PICK j \in DOMAIN files[i] : ~ValidEntry(files[i][j])
        BY <3>0
      <3> QED
        BY <1>2, <1>3, <3>1 DEF Defect
    <2>2. CASE \E m, n \in DOMAIN list : list[m].cites = list[n].cites /\ m # n
      <3>1. PICK m \in DOMAIN list, n \in DOMAIN list : list[m].cites = list[n].cites /\ m # n
        BY <2>2
      <3>2. PICK i \in DOMAIN files, k \in DOMAIN files :
              \E j \in DOMAIN files[i], l \in DOMAIN files[k] :
                <<i, j>> # <<k, l>> /\ list[m] = files[i][j] /\ list[n] = files[k][l]
        BY <1>1, <3>1, EntryPlaces
      <3>3. PICK j \in DOMAIN files[i], l \in DOMAIN files[k] :
              <<i, j>> # <<k, l>> /\ list[m] = files[i][j] /\ list[n] = files[k][l]
        BY <3>2
      <3>4. <<k, l>> # <<i, j>> /\ files[k][l].cites = files[i][j].cites
        BY <3>1, <3>3
      <3> QED
        BY <3>4 DEF Defect
    <2> QED
      BY <1>5, <1>7, <2>1, <2>2
  <1> QED
    BY <1>6, <1>7

\* What a citation resolves to is an entry of the catalogue for it, and a
\* citation that does not resolve has none or meets a defect.
LEMMA ResolvedEntry ==
  ASSUME catalogue \in Seq(Seq(CatalogueEntry)), NEW citation
  PROVE  /\ Resolvable(citation, catalogue) <=> ~Defect(catalogue) /\ InCatalogue(citation)
         /\ Resolvable(citation, catalogue) =>
              LET e == Resolve(citation, catalogue)
              IN  e \in CatalogueEntry /\ e.cites = citation
                  /\ (e.verified => e.clause_title_source = "copy")
  <1>1. PICK list : list = Entries(catalogue)
    OBVIOUS
  <1>2. list \in Seq(CatalogueEntry)
    BY <1>1, EntriesPlaced
  <1>3. (\E m \in DOMAIN list : list[m].cites = citation) <=> InCatalogue(citation)
    BY <1>1, EntryPlaces DEF InCatalogue
  <1>4. Resolvable(citation, catalogue) <=> ~Defect(catalogue) /\ InCatalogue(citation)
    BY <1>1, <1>3, LoadsWithoutDefect DEF Resolvable
  <1>5. ASSUME Resolvable(citation, catalogue)
        PROVE  LET e == Resolve(citation, catalogue)
               IN  e \in CatalogueEntry /\ e.cites = citation
                   /\ (e.verified => e.clause_title_source = "copy")
    <2> DEFINE m == CHOOSE n \in DOMAIN list : list[n].cites = citation
    <2>1. m \in DOMAIN list /\ list[m].cites = citation
      BY <1>1, <1>5 DEF Resolvable
    <2>2. Resolve(citation, catalogue) = list[m]
      BY <1>1 DEF Resolve
    <2> HIDE DEF m
    <2>3. list[m] \in CatalogueEntry
      BY <1>2, <2>1
    <2>4. ValidEntry(list[m])
      BY <1>1, <1>5, <2>1 DEF Resolvable, CatalogLoads
    <2> QED
      BY <2>1, <2>2, <2>3, <2>4 DEF ValidEntry
  <1> QED
    BY <1>4, <1>5

-----------------------------------------------------------------------------
(***************************************************************************)
(* Who the client is: no step of the sessions, the dissectors or the       *)
(* matrix disturbs it.                                                     *)
(***************************************************************************)

\* Shapes and senders are those of the capture.
LEMMA ShapesStable ==
  ASSUME UNCHANGED <<packets, segments>>
  PROVE  /\ \A d, i : FirstOfShape(d, i)' <=> FirstOfShape(d, i)
         /\ \A i : SegmentPayload(i)' = SegmentPayload(i)
         /\ \A i : FrameOf(segments[i])' = FrameOf(segments[i])
         /\ \A e, c : ByClient(e, c)' <=> ByClient(e, c)
  BY DEF FirstOfShape, SegmentPayload, FrameOf, ByClient, SenderOf

\* Before a dissector has seen a segment it knows no client.
LEMMA NoClientsYet ==
  ASSUME at = 1, session_clients = [id \in SessionId |-> NoEndpoint],
         \A e \in HighEvents :
           \E i \in 1 .. Len(segments) : /\ segments[i].session_id = e.session_id
                                         /\ FirstOfShape(e.protocol, i)
                                         /\ ByClient(e, FrameOf(segments[i]).src)
  PROVE  FirstSenders
  BY DEF FirstSenders

\* The initial state has no events.
LEMMA FirstSendersInit == MatrixInit => FirstSenders
  <1> SUFFICES ASSUME MatrixInit PROVE FirstSenders
    OBVIOUS
  <1>1. HighEvents = {}
    BY DEF MatrixInit, DissectInit, HighEvents, Reported
  <1> QED
    BY <1>1, NoClientsYet DEF MatrixInit, DissectInit

\* The other steps: the dictionary, the events and the segments stay, or the
\* dictionary is new.
LEMMA FirstSendersKept ==
  ASSUME FirstSenders, UNCHANGED <<packets, segments, dissectors, turn, at, session_clients>>,
         HighEvents' = HighEvents
  PROVE  FirstSenders'
  BY ShapesStable DEF FirstSenders, KeepsClients

\* The next dissector begins, or the events are sorted.
LEMMA FirstSendersAnew ==
  ASSUME FirstSenders, UNCHANGED <<packets, segments>>, HighEvents' = HighEvents,
         at' = 1, session_clients' = [id \in SessionId |-> NoEndpoint]
  PROVE  FirstSenders'
  BY ShapesStable DEF FirstSenders

\* A segment that is not recognised settles nobody.
LEMMA SkipKeepsSenders ==
  ASSUME DissectInv, FirstSenders, SkipSegment
  PROVE  FirstSenders'
  <1>0. /\ UNCHANGED <<packets, segments, dissectors, turn, session_clients, protocol_events>>
        /\ at' = at + 1
        /\ ~Recognises(dissectors[turn], SegmentPayload(at))
    BY DEF SkipSegment, Recognised, SegmentPayload, sessionVars
  <1>1. HighEvents' = HighEvents
    BY <1>0 DEF HighEvents
  <1>2. \A i \in 1 .. at' - 1 : i \in 1 .. at - 1 \/ i = at
    BY <1>0, Standing
  <1>3. 1 .. at - 1 \subseteq 1 .. at' - 1
    BY <1>0, Standing
  <1>4. KeepsClients => SegmentPayload(at) \notin Shape[dissectors[turn]]
    BY <1>0 DEF KeepsClients, Recognises
  <1>5. KeepsClients => ~FirstOfShape(dissectors[turn], at)
    BY <1>4 DEF FirstOfShape
  <1>6. KeepsClients' <=> KeepsClients
    BY <1>0 DEF KeepsClients
  <1>7. /\ \A e \in HighEvents :
             \E i \in 1 .. Len(segments) : /\ segments[i].session_id = e.session_id
                                           /\ FirstOfShape(e.protocol, i)
                                           /\ ByClient(e, FrameOf(segments[i]).src)
        /\ KeepsClients =>
             /\ \A i \in 1 .. at' - 1 :
                  FirstOfShape(dissectors[turn], i) =>
                    session_clients[segments[i].session_id] = FrameOf(segments[i]).src
             /\ \A i \in 1 .. at' - 1 :
                  SegmentPayload(i) \in Shape[dissectors[turn]] =>
                    session_clients[segments[i].session_id] # NoEndpoint
    BY <1>2, <1>4, <1>5 DEF FirstSenders
  <1>8. KeepsClients =>
          \A id \in SessionId :
            session_clients[id] # NoEndpoint =>
              \E i \in 1 .. at' - 1 : /\ segments[i].session_id = id
                                      /\ FirstOfShape(dissectors[turn], i)
    BY <1>3 DEF FirstSenders
  <1> QED
    BY <1>0, <1>1, <1>6, <1>7, <1>8, ShapesStable DEF FirstSenders

\* The first segment of the shape settles the client of its session.
LEMMA DissectKeepsSenders ==
  ASSUME DissectInv, FirstSenders, DissectSegment
  PROVE  FirstSenders'
  <1>s. /\ at \in 1 .. Len(segments) + 1 /\ turn \in 1 .. 6 /\ Len(segments) \in Nat
        /\ dissectors \in Orders /\ Len(dissectors) = 5
        /\ \A i \in 1 .. Len(segments) : segments[i].session_id \in SessionId
    BY Standing
  <1>0. /\ UNCHANGED <<packets, segments, dissectors, turn>>
        /\ at' = at + 1 /\ at \in 1 .. Len(segments) /\ turn \in 1 .. 5
    <2>1. /\ UNCHANGED <<packets, segments, dissectors, turn>>
          /\ at' = at + 1 /\ at <= Len(segments) /\ turn <= Len(dissectors)
      BY DEF DissectSegment, Running, sessionVars
    <2> QED
      BY <1>s, <2>1
  <1>2. PICK d, s, c, e :
          /\ d = dissectors[turn] /\ s = segments[at] /\ c = ClientOf(s)
          /\ e = [packet_number |-> s.packet_number, session_id |-> s.session_id,
                  protocol |-> d, direction |-> DirectionOf(d, s)]
    OBVIOUS
  <1>3. /\ Recognises(d, SegmentPayload(at))
        /\ session_clients' = IF d = RtuOverTcp THEN session_clients
                              ELSE [session_clients EXCEPT ![s.session_id] = c]
        /\ protocol_events' = IF Confidence(d) = "high" /\ ~Rejected(d, s)
                              THEN Append(protocol_events, e) ELSE protocol_events
    BY <1>2 DEF DissectSegment, Recognised, SegmentPayload
  <1>4. HighEvents' \subseteq HighEvents \cup {e} /\ (d = RtuOverTcp => HighEvents' = HighEvents)
    <2>1. protocol_events \in Seq(Event("high"))
      BY DEF DissectInv, DissectTypeOK
    <2>2. Reported(Append(protocol_events, e)) = HighEvents \cup {e}
      BY <2>1, ReportedAppend DEF HighEvents
    <2>3. d = RtuOverTcp => Confidence(d) # "high"
      BY DEF Confidence
    <2> QED
      BY <1>3, <2>2, <2>3 DEF HighEvents
  <1>k. KeepsClients' <=> d # RtuOverTcp
    BY <1>0, <1>2 DEF KeepsClients
  <1>5. CASE d = RtuOverTcp
    <2>1. \A f \in HighEvents :
            \E i \in 1 .. Len(segments) : /\ segments[i].session_id = f.session_id
                                          /\ FirstOfShape(f.protocol, i)
                                          /\ ByClient(f, FrameOf(segments[i]).src)
      BY DEF FirstSenders
    <2> QED
      BY <1>0, <1>4, <1>5, <1>k, <2>1, ShapesStable DEF FirstSenders
  <1>6. CASE d # RtuOverTcp
    <2> DEFINE id == s.session_id
    <2>1. /\ id \in SessionId
          /\ session_clients \in [SessionId -> Endpoint \cup {NoEndpoint}]
          /\ FrameOf(s).src \in Endpoint /\ FrameOf(s).src # NoEndpoint
      <3>1. FrameOf(s) \in Frames
        BY <1>0, <1>2, SegmentType DEF DissectInv, SessionInv
      <3> QED
        BY <1>0, <1>2, <1>s, <3>1, FrameAssumption DEF DissectInv, DissectTypeOK
    <2>2. /\ session_clients'[id] = c
          /\ \A other \in SessionId \ {id} : session_clients'[other] = session_clients[other]
      BY <1>3, <1>6, <2>1
    <2>3. SegmentPayload(at) \in Shape[d]
      BY <1>3, <1>6 DEF Recognises
    <2>4. /\ \A i \in 1 .. at - 1 :
               FirstOfShape(d, i) => session_clients[segments[i].session_id] = FrameOf(segments[i]).src
          /\ \A i \in 1 .. at - 1 :
               SegmentPayload(i) \in Shape[d] => session_clients[segments[i].session_id] # NoEndpoint
          /\ \A other \in SessionId :
               session_clients[other] # NoEndpoint =>
                 \E i \in 1 .. at - 1 : segments[i].session_id = other /\ FirstOfShape(d, i)
      BY <1>0, <1>2, <1>6 DEF FirstSenders, KeepsClients
    <2>5. 1 .. at - 1 \subseteq 1 .. Len(segments)
          /\ (\A i \in 1 .. at - 1 : i \in 1 .. at' - 1) /\ at \in 1 .. at' - 1
          /\ \A i \in 1 .. at' - 1 : i \in 1 .. at - 1 \/ i = at
      BY <1>0
    <2>6. CASE session_clients[id] = NoEndpoint
      <3>1. FirstOfShape(d, at)
        BY <1>2, <2>3, <2>4, <2>6 DEF FirstOfShape
      <3>2. c = FrameOf(s).src
        BY <1>2, <2>6 DEF ClientOf
      <3>3. \A i \in 1 .. at - 1 : FirstOfShape(d, i) => segments[i].session_id # id
        BY <2>4, <2>6 DEF FirstOfShape
      <3> QED
        <4>1. /\ c # NoEndpoint /\ FirstOfShape(d, at) /\ FrameOf(segments[at]).src = c
              /\ segments[at].session_id = id
          BY <1>2, <2>1, <3>1, <3>2
        <4>2. \A i \in 1 .. at' - 1 :
                FirstOfShape(d, i) => session_clients'[segments[i].session_id] = FrameOf(segments[i]).src
          BY <1>s, <2>2, <2>4, <2>5, <3>3, <4>1
        <4>3. \A i \in 1 .. at' - 1 :
               SegmentPayload(i) \in Shape[d] => session_clients'[segments[i].session_id] # NoEndpoint
          BY <1>s, <2>2, <2>4, <2>5, <4>1
        <4>4. \A other \in SessionId :
                session_clients'[other] # NoEndpoint =>
                  \E i \in 1 .. at' - 1 : segments[i].session_id = other /\ FirstOfShape(d, i)
          BY <2>2, <2>4, <2>5, <4>1
        <4>5. ByClient(e, FrameOf(segments[at]).src)
          BY <1>2, <1>6, <4>1 DEF ByClient, DirectionOf, SenderOf, FrameOf
        <4>6. \A f \in HighEvents' :
                \E i \in 1 .. Len(segments) : /\ segments[i].session_id = f.session_id
                                              /\ FirstOfShape(f.protocol, i)
                                              /\ ByClient(f, FrameOf(segments[i]).src)
          BY <1>0, <1>2, <1>4, <4>1, <4>5 DEF FirstSenders
        <4> QED
          BY <1>0, <1>2, <4>2, <4>3, <4>4, <4>6, ShapesStable DEF FirstSenders
    <2>7. CASE session_clients[id] # NoEndpoint
      <3>1. PICK i \in 1 .. at - 1 : segments[i].session_id = id /\ FirstOfShape(d, i)
        BY <2>1, <2>4, <2>7
      <3>2. ~FirstOfShape(d, at)
        BY <1>2, <3>1 DEF FirstOfShape
      <3>3. c = session_clients[id] /\ c = FrameOf(segments[i]).src
        BY <1>2, <2>4, <2>7, <3>1 DEF ClientOf
      <3>4. \A other \in SessionId : session_clients'[other] = session_clients[other]
        BY <2>2, <3>3
      <3> QED
        <4>2. \A j \in 1 .. at' - 1 :
                FirstOfShape(d, j) => session_clients'[segments[j].session_id] = FrameOf(segments[j]).src
          BY <1>s, <2>4, <2>5, <3>2, <3>4
        <4>3. \A j \in 1 .. at' - 1 :
               SegmentPayload(j) \in Shape[d] => session_clients'[segments[j].session_id] # NoEndpoint
          BY <1>0, <1>2, <1>s, <2>1, <2>4, <2>5, <2>7, <3>4
        <4>4. \A other \in SessionId :
                session_clients'[other] # NoEndpoint =>
                  \E j \in 1 .. at' - 1 : segments[j].session_id = other /\ FirstOfShape(d, j)
          BY <2>4, <2>5, <3>4
        <4>5. ByClient(e, FrameOf(segments[i]).src)
          BY <1>2, <1>6, <3>3 DEF ByClient, DirectionOf, SenderOf, FrameOf
        <4>6. \A f \in HighEvents' :
                \E j \in 1 .. Len(segments) : /\ segments[j].session_id = f.session_id
                                              /\ FirstOfShape(f.protocol, j)
                                              /\ ByClient(f, FrameOf(segments[j]).src)
          BY <1>2, <1>4, <2>5, <3>1, <4>5 DEF FirstSenders
        <4> QED
          BY <1>0, <1>2, <4>2, <4>3, <4>4, <4>6, ShapesStable DEF FirstSenders
    <2> QED
      BY <2>6, <2>7
  <1> QED
    BY <1>5, <1>6

\* No step of the stages before the checks disturbs FirstSenders.
LEMMA FirstSendersNext ==
  ASSUME MatrixInv, FirstSenders, [MatrixNext]_allMatrixVars
  PROVE  FirstSenders'
  <1>i. DissectInv
    BY DEF MatrixInv
  <1>1. CASE DissectNext
    <2>1. CASE SessionNext /\ UNCHANGED dissectVars
      <3>1. pass # "decoded"
        BY <2>1 DEF SessionNext, DecodeSkip, DecodeSegment, EndPass, Renumber, FindInitiator
      <3>2. /\ at' = 1 /\ session_clients' = [id \in SessionId |-> NoEndpoint]
            /\ protocol_events' = <<>>
        BY <1>i, <2>1, <3>1 DEF DissectInv, Stage, dissectVars
      <3>3. HighEvents' = {}
        BY <3>2 DEF HighEvents, Reported
      <3> QED
        BY <3>2, <3>3 DEF FirstSenders
    <2>2. CASE NextDissector
      <3>1. /\ UNCHANGED <<packets, segments, protocol_events>>
            /\ at' = 1 /\ session_clients' = [id \in SessionId |-> NoEndpoint]
        BY <2>2 DEF NextDissector, Rewound, sessionVars
      <3>2. HighEvents' = HighEvents
        BY <3>1 DEF HighEvents
      <3> QED
        BY <3>1, <3>2, FirstSendersAnew
    <2>3. CASE SortEvents
      <3>1. /\ UNCHANGED <<packets, segments, dissectors, turn, at, session_clients>>
            /\ protocol_events' = ListSort(protocol_events, Precedes)
        BY <2>3 DEF SortEvents, sessionVars
      <3>2. HighEvents' = HighEvents
        <4>1. /\ protocol_events \in Seq(Event("high")) /\ NoRepetition(protocol_events)
              /\ Event("high") \subseteq AnyEvent /\ SessionInv /\ Filed
          BY <1>i DEF DissectInv, DissectTypeOK, AnyEvent
        <4>2. \A e, f \in Reported(protocol_events) :
                e.packet_number = f.packet_number => e.session_id = f.session_id
          BY <4>1, PacketHasOneSession DEF Events, HighEvents
        <4> QED
          BY <3>1, <4>1, <4>2, SortedList DEF HighEvents
      <3> QED
        BY <3>1, <3>2, FirstSendersKept
    <2> QED
      BY <1>1, <1>i, <2>1, <2>2, <2>3, SkipKeepsSenders, DissectKeepsSenders DEF DissectNext
  <1>2. CASE UNCHANGED allDissectVars
    <2>1. UNCHANGED <<packets, segments, dissectors, turn, at, session_clients, protocol_events>>
      BY <1>2 DEF allDissectVars, dissectVars, sessionVars
    <2>2. HighEvents' = HighEvents
      BY <2>1 DEF HighEvents
    <2> QED
      BY <2>1, <2>2, FirstSendersKept
  <1> QED
    BY <1>1, <1>2 DEF MatrixNext, MeetSession, EndPhase, CountPacket, AddRow, allMatrixVars

-----------------------------------------------------------------------------
(***************************************************************************)
(* The invariant is inductive.                                             *)
(***************************************************************************)

\* What the lists and counters are.
LEMMA FindingStanding ==
  ASSUME FindingsTypeOK, stage # "discovery" => checks \in CheckFiles /\ catalogue \in CatalogueFiles,
         stage = "discovery" => checks = <<>> /\ catalogue = <<>>
  PROVE  /\ checks \in Seq(CheckRecord) /\ Len(checks) \in Nat /\ DOMAIN checks = 1 .. Len(checks)
         /\ catalogue \in Seq(Seq(CatalogueEntry))
         /\ check \in 1 .. Len(checks) + 1
         /\ findings \in Seq(Finding) /\ Len(findings) \in Nat
         /\ DOMAIN findings = 1 .. Len(findings)
         /\ \A i \in 1 .. Len(findings) : findings[i] \in Finding
         /\ Len(resolved_findings) \in Nat
         /\ protocol_events \in Seq(Event("high"))
         /\ DOMAIN protocol_events = 1 .. Len(protocol_events) /\ Len(protocol_events) \in Nat
         /\ HighEvents \subseteq Event("high")
  <1>0. <<>> \in Seq(CheckRecord) /\ <<>> \in Seq(Seq(CatalogueEntry))
    BY EmptySeq
  <1>1. checks \in Seq(CheckRecord)
    <2>1. \A files \in CheckFiles : files \in Seq(CheckRecord)
      BY FindingsAssumption
    <2> QED
      BY <1>0, <2>1, Zenon
  <1>2. catalogue \in Seq(Seq(CatalogueEntry))
    <2>1. CatalogueFiles \subseteq Seq(Seq(CatalogueEntry))
      BY FindingsAssumption
    <2> QED
      BY <1>0, <2>1, Zenon
  <1>3. findings \in Seq(Finding) /\ check \in 1 .. Len(checks) + 1
    BY DEF FindingsTypeOK
  <1>4. Len(resolved_findings) \in Nat
    <2>1. \E S : resolved_findings \in Seq(S)
      BY Zenon DEF FindingsTypeOK
    <2> QED
      BY <2>1
  <1>5. protocol_events \in Seq(Event("high"))
    <2>1. MatrixTypeOK
      BY DEF FindingsTypeOK
    <2>2. DissectTypeOK
      BY <2>1 DEF MatrixTypeOK
    <2> QED
      BY <2>2 DEF DissectTypeOK
  <1>6. HighEvents \subseteq Event("high")
    BY <1>5 DEF HighEvents, Reported
  <1> QED
    BY <1>1, <1>2, <1>3, <1>4, <1>5, <1>6

\* Every event is of a packet whose two ends the row of its session has.
LEMMA EventParties ==
  ASSUME MatrixInv, Built, NEW e \in Events
  PROVE  /\ \E i \in 1 .. Len(segments) :
              /\ e.packet_number = segments[i].packet_number
              /\ e.session_id = segments[i].session_id
              /\ {EndpointsOf(e.session_id)[1], EndpointsOf(e.session_id)[2]}
                   = SegmentKey(segments[i])
         /\ EndpointsOf(e.session_id)[1] \in Endpoint
         /\ EndpointsOf(e.session_id)[2] \in Endpoint
  <1>1. PICK i \in 1 .. Len(segments) : /\ e.packet_number = segments[i].packet_number
                                        /\ e.session_id = segments[i].session_id
    BY DEF MatrixInv, DissectInv, Filed, StemsFrom
  <1> DEFINE id == e.session_id
  <1>2. id \in 0 .. Len(order) - 1 /\ id \in SessionId
    <2>1. id < Len(order) /\ Len(order) \in Nat
      BY <1>1, BuiltRows DEF MatrixInv, Listed, SegmentsMet, Built
    <2>2. id \in Nat /\ id \in SessionId
      BY <1>1, MatrixStanding
    <2> QED
      BY <2>1, <2>2
  <1>3. PICK j \in 1 .. Len(segments) :
          /\ segments[j].session_id = id
          /\ first_sender[id] = <<FrameOf(segments[j]).src, FrameOf(segments[j]).dst>>
    <2>1. first_sender[id] # NoPair
      BY <1>2, BuiltRows DEF MatrixInv, Listed
    <2> QED
      BY <1>2, <2>1 DEF MatrixInv, Senders, SegmentsMet, Built
  <1>4. SegmentKey(segments[i]) = SegmentKey(segments[j])
    BY <1>1, <1>3, SameKey DEF MatrixInv, DissectInv
  <1>5. {Parties(id)[1], Parties(id)[2]} = SegmentKey(segments[i])
    BY <1>2, <1>3, <1>4, RowEnds
  <1>6. /\ RowOf(id) \in Rows /\ RowOf(id).session_id = id
        /\ RowOf(id).source = Parties(id)[1] /\ RowOf(id).target = Parties(id)[2]
    BY <1>2, BuiltRows DEF RowOf
  <1>7. \A r \in Rows : r.session_id = id => r = RowOf(id)
    BY BuiltRows DEF RowOf
  <1>8. EndpointsOf(id) = <<Parties(id)[1], Parties(id)[2]>>
    <2> DEFINE r == CHOOSE r \in Rows : RowOfSession(id, r)
    <2>1. r = RowOf(id)
      BY <1>6, <1>7 DEF RowOfSession
    <2>2. EndpointsOf(id) = <<r.source, r.target>>
      BY <1>6 DEF EndpointsOf, RowOfSession
    <2> HIDE DEF r
    <2> QED
      BY <1>6, <2>1, <2>2
  <1>9. Parties(id)[1] \in Endpoint /\ Parties(id)[2] \in Endpoint
    <2>1. RowOf(id) \in Row
      BY <1>2, RowType DEF Built
    <2> QED
      BY <1>6, <2>1 DEF Row
  <1> QED
    BY <1>1, <1>5, <1>8, <1>9

\* A finding has its type.
LEMMA FindingType ==
  ASSUME MatrixInv, Built, NEW c \in Check, NEW e \in HighEvents
  PROVE  FindingOf(c, e) \in Finding
  <1>1. EndpointsOf(e.session_id)[1] \in Endpoint /\ EndpointsOf(e.session_id)[2] \in Endpoint
    BY EventParties DEF Events
  <1>2. e.packet_number \in 1 .. MaxPackets /\ e.session_id \in SessionId
    <2>1. e \in AnyEvent
      BY EventTypes DEF MatrixInv, DissectInv, AnyEvent
    <2> QED
      BY <2>1, EventFields
  <1> QED
    BY <1>1, <1>2 DEF FindingOf, Finding

\* Nothing a finding is made from changes any more.
LEMMA FindingsStable ==
  ASSUME UNCHANGED allMatrixVars
  PROVE  /\ HighEvents' = HighEvents /\ protocol_events' = protocol_events
         /\ \A c, e : Reports(c, e)' <=> Reports(c, e)
         /\ \A c, e : FindingOf(c, e)' = FindingOf(c, e)
         /\ FirstUses' = FirstUses /\ Built' = Built
         /\ MatrixInv => MatrixInv'
         /\ MatrixInv /\ FirstSenders => FirstSenders'
  <1>1. UNCHANGED <<packets, protocol_events, comm_matrix, phase>>
    BY DEF allMatrixVars, matrixVars, allDissectVars, dissectVars, sessionVars
  <1>2. HighEvents' = HighEvents /\ Rows' = Rows /\ Built' = Built
    BY <1>1 DEF HighEvents, Rows, Built
  <1>3. \A e : /\ FirstCleartext(e)' <=> FirstCleartext(e)
               /\ FirstIndustrial(e)' <=> FirstIndustrial(e)
               /\ WriteRequest(e)' <=> WriteRequest(e)
    BY <1>1, <1>2 DEF FirstCleartext, FirstIndustrial, WriteRequest, IsWrite, PayloadOf
  <1>4. \A c, e : Reports(c, e)' <=> Reports(c, e)
    BY <1>3 DEF Reports
  <1>5. \A id : EndpointsOf(id)' = EndpointsOf(id)
    BY <1>2 DEF EndpointsOf
  <1>6. \A c, e : FindingOf(c, e)' = FindingOf(c, e)
    BY <1>5 DEF FindingOf
  <1>7. FirstUses' = FirstUses
    BY <1>1, <1>3 DEF FirstUses
  <1> QED
    BY <1>1, <1>2, <1>4, <1>6, <1>7, MatrixInvNext, FirstSendersNext

\* Before the checks are discovered nothing is found.
NothingFound ==
  /\ stage = "discovery" /\ checks = <<>> /\ catalogue = <<>> /\ check = 1
  /\ findings = <<>> /\ resolved_findings = <<>>

\* Then the invariant says nothing more than those of the earlier stages.
LEMMA Undiscovered == MatrixInv /\ FirstSenders /\ NothingFound => FindingInv
  <1> SUFFICES ASSUME MatrixInv, FirstSenders, NothingFound PROVE FindingInv
    OBVIOUS
  <1> USE DEF NothingFound
  <1>1. FindingsTypeOK
    <2>1. MatrixTypeOK
      BY DEF MatrixInv
    <2> QED
      BY <2>1 DEF FindingsTypeOK
  <1>2. \A c : ~HasRun(c)
    BY DEF HasRun
  <1>3. CleartextCounted
    <2>1. CleartextFindings = {}
      BY DEF CleartextFindings
    <2> QED
      BY <1>2, <2>1, FS_EmptySet DEF CleartextCounted
  <1>4. Staged
    BY DEF Staged, ChecksDone
  <1>5. Supported /\ AllFound
    BY <1>2 DEF Supported, AllFound
  <1>6. ResolvedSoFar
    BY DEF ResolvedSoFar
  <1> QED
    BY <1>1, <1>3, <1>4, <1>5, <1>6 DEF FindingInv

\* The invariant holds initially.
LEMMA FindingInvInit == FindingsInit => FindingInv
  BY MatrixInvInit, FirstSendersInit, Undiscovered DEF FindingsInit, NothingFound

\* Once the matrix is built nothing before it moves.
LEMMA BuiltOnce ==
  ASSUME MatrixInv, Built
  PROVE  ~MatrixNext
  <1>1. sorted
    BY DEF MatrixInv, Phased, MatrixNotBegun, Built
  <1>2. ~DissectNext
    BY <1>1, DissectedOnce DEF MatrixInv
  <1> QED
    BY <1>2 DEF MatrixNext, MeetSession, EndPhase, CountPacket, AddRow, Built

\* The stages before the checks keep the invariant.
LEMMA BuildingKeepsFindings ==
  ASSUME FindingInv, MatrixNext, UNCHANGED findingVars
  PROVE  FindingInv'
  <1>1. MatrixInv /\ FirstSenders /\ Staged
    BY DEF FindingInv
  <1>2. stage = "discovery"
    BY <1>1, BuiltOnce DEF Staged
  <1>3. MatrixInv' /\ FirstSenders'
    BY <1>1, MatrixInvNext, FirstSendersNext
  <1>4. (MatrixInv /\ FirstSenders /\ NothingFound => FindingInv)'
    BY Undiscovered, PTL
  <1>5. NothingFound'
    BY <1>1, <1>2 DEF Staged, findingVars, NothingFound
  <1> QED
    BY <1>3, <1>4, <1>5

\* The files are read: nothing has run and nothing is found.
LEMMA DiscoverKeepsFindings ==
  ASSUME FindingInv, DiscoverChecks
  PROVE  FindingInv'
  <1>1. MatrixInv /\ FirstSenders /\ Staged /\ FindingsTypeOK
    BY DEF FindingInv
  <1>2. /\ stage = "discovery" /\ check = 1 /\ findings = <<>> /\ resolved_findings = <<>>
        /\ Built /\ checks' \in CheckFiles /\ catalogue' \in CatalogueFiles
        /\ stage' = IF ChecksLoad(checks') THEN "checks" ELSE "aborted"
        /\ UNCHANGED allMatrixVars
        /\ check' = 1 /\ findings' = <<>> /\ resolved_findings' = <<>>
    BY <1>1 DEF DiscoverChecks, Staged
  <1>3. MatrixInv' /\ FirstSenders' /\ Built'
    BY <1>1, <1>2, FindingsStable
  <1>4. FindingsTypeOK'
    <2>1. MatrixTypeOK'
      BY <1>3 DEF MatrixInv
    <2>2. checks' \in Seq(CheckRecord)
      BY <1>2, FindingsAssumption
    <2>3. check' \in 1 .. Len(checks') + 1
      BY <1>2, <2>2
    <2> QED
      BY <1>2, <2>1, <2>3 DEF FindingsTypeOK
  <1>5. Staged'
    BY <1>2, <1>3 DEF Staged, ChecksDone
  <1>6. \A c : ~HasRun(c)'
    BY <1>2 DEF HasRun
  <1>7. CleartextCounted'
    <2>1. CleartextFindings' = {}
      BY <1>2 DEF CleartextFindings
    <2> QED
      BY <1>6, <2>1, FS_EmptySet DEF CleartextCounted
  <1>8. Supported' /\ AllFound'
    BY <1>2, <1>6 DEF Supported, AllFound
  <1>9. ResolvedSoFar'
    BY <1>2 DEF ResolvedSoFar
  <1> QED
    BY <1>3, <1>4, <1>5, <1>7, <1>8, <1>9 DEF FindingInv

\* The same from the invariant.
LEMMA InvStanding ==
  ASSUME FindingInv
  PROVE  /\ checks \in Seq(CheckRecord) /\ Len(checks) \in Nat /\ DOMAIN checks = 1 .. Len(checks)
         /\ catalogue \in Seq(Seq(CatalogueEntry))
         /\ check \in 1 .. Len(checks) + 1
         /\ findings \in Seq(Finding) /\ Len(findings) \in Nat
         /\ DOMAIN findings = 1 .. Len(findings)
         /\ \A i \in 1 .. Len(findings) : findings[i] \in Finding
         /\ Len(resolved_findings) \in Nat
         /\ protocol_events \in Seq(Event("high"))
         /\ DOMAIN protocol_events = 1 .. Len(protocol_events) /\ Len(protocol_events) \in Nat
         /\ HighEvents \subseteq Event("high")
         /\ MatrixInv /\ FirstSenders /\ FindingsTypeOK /\ Staged
  <1>1. FindingsTypeOK /\ Staged /\ MatrixInv /\ FirstSenders
    BY DEF FindingInv
  <1>2. /\ stage # "discovery" => checks \in CheckFiles /\ catalogue \in CatalogueFiles
        /\ stage = "discovery" => checks = <<>> /\ catalogue = <<>>
    BY <1>1 DEF Staged
  <1> QED
    BY <1>1, <1>2, FindingStanding

\* The three checks have different names.
LEMMA CheckNames ==
  /\ Check = {Cleartext, UnauthWrite, IndustrialUse}
  /\ Cleartext # UnauthWrite /\ Cleartext # IndustrialUse /\ UnauthWrite # IndustrialUse
  BY DEF Check, Checks, Cleartext, UnauthWrite, IndustrialUse

\* Which evaluator a check has.
LEMMA ReportsOfCheck ==
  ASSUME NEW c, NEW e
  PROVE  /\ Reports(c, e) => c \in Check
         /\ Reports(Cleartext, e) <=> FirstCleartext(e)
         /\ Reports(UnauthWrite, e) <=> WriteRequest(e)
         /\ Reports(IndustrialUse, e) <=> FirstIndustrial(e)
  BY CheckNames DEF Reports

\* The check that runs appends the findings of the events it reports.
LEMMA RunKeepsFindings ==
  ASSUME FindingInv, RunCheck
  PROVE  FindingInv'
  <1>s. /\ Len(checks) \in Nat /\ DOMAIN checks = 1 .. Len(checks) /\ check \in 1 .. Len(checks) + 1
        /\ findings \in Seq(Finding) /\ Len(findings) \in Nat
        /\ DOMAIN findings = 1 .. Len(findings)
        /\ protocol_events \in Seq(Event("high"))
        /\ DOMAIN protocol_events = 1 .. Len(protocol_events) /\ Len(protocol_events) \in Nat
        /\ MatrixInv /\ FirstSenders /\ FindingsTypeOK /\ Staged
    BY InvStanding
  <1>0. /\ stage = "checks" /\ check <= Len(checks) /\ check' = check + 1
        /\ UNCHANGED <<stage, checks, catalogue, resolved_findings>> /\ UNCHANGED allMatrixVars
    BY DEF RunCheck
  <1>b. Built /\ ChecksLoad(checks) /\ resolved_findings = <<>>
    BY <1>0, <1>s DEF Staged
  <1>c. check \in 1 .. Len(checks) /\ check' \in 1 .. Len(checks) + 1
    BY <1>0, <1>s
  <1>1. PICK id : id = checks[check].id
    OBVIOUS
  <1> DEFINE kept == {n \in DOMAIN protocol_events : Reports(id, protocol_events[n])}
             reported == Selected(protocol_events, kept)
             found == [i \in DOMAIN reported |-> FindingOf(id, reported[i])]
  <1>2. findings' = findings \o found
    BY <1>1 DEF RunCheck
  <1>3. /\ Cardinality(kept) \in Nat
        /\ reported \in Seq(Event("high")) /\ Len(reported) = Cardinality(kept)
        /\ \A m \in 1 .. Cardinality(kept) :
             \E n \in kept : reported[m] = protocol_events[n]
        /\ \A n \in kept :
             \E m \in 1 .. Cardinality(kept) : reported[m] = protocol_events[n]
    <2>1. kept \in SUBSET (DOMAIN protocol_events)
      OBVIOUS
    <2> HIDE DEF kept
    <2> QED
      BY <1>s, <2>1, SelectedElements
  <1>4. PICK c \in Nat, l \in Nat : c = Cardinality(kept) /\ l = Len(findings)
    BY <1>3, <1>s
  <1>5. /\ \A n \in kept : protocol_events[n] \in HighEvents /\ Reports(id, protocol_events[n])
        /\ \A e \in HighEvents : Reports(id, e) => \E n \in kept : protocol_events[n] = e
    BY DEF HighEvents, Reported
  <1>6. id = Cleartext => kept = FirstUses
    BY ReportsOfCheck DEF FirstUses
  <1> HIDE DEF kept
  <1>7. DOMAIN reported = 1 .. c
    BY <1>3, <1>4
  <1>8. ASSUME NEW m \in 1 .. c
        PROVE  \E e \in HighEvents : Reports(id, e) /\ found[m] = FindingOf(id, e)
    <2>1. PICK n \in kept : reported[m] = protocol_events[n]
      BY <1>3, <1>4
    <2>2. found[m] = FindingOf(id, reported[m])
      BY <1>7
    <2> QED
      BY <1>5, <2>1, <2>2
  <1>9. ASSUME NEW e \in HighEvents, Reports(id, e)
        PROVE  \E m \in 1 .. c : found[m] = FindingOf(id, e)
    <2>1. PICK n \in kept : protocol_events[n] = e
      BY <1>5, <1>9
    <2>2. PICK m \in 1 .. c : reported[m] = protocol_events[n]
      BY <1>3, <1>4
    <2>3. found[m] = FindingOf(id, reported[m])
      BY <1>7
    <2> QED
      BY <2>1, <2>2, <2>3
  <1>10. found \in Seq(Finding) /\ Len(found) = c
    <2>1. \A m \in 1 .. c : found[m] \in Finding
      BY <1>8, <1>s, <1>b, FindingType, ReportsOfCheck
    <2>2. found = [m \in 1 .. c |-> found[m]]
      BY <1>7
    <2> HIDE DEF found
    <2>3. found \in [1 .. c -> Finding]
      BY <2>1, <2>2
    <2> QED
      BY <1>4, <2>3
  <1> HIDE DEF found, reported
  <1>11. /\ findings' \in Seq(Finding) /\ Len(findings') = l + c
         /\ DOMAIN findings' = 1 .. l + c
         /\ \A i \in 1 .. l : findings'[i] = findings[i]
         /\ \A m \in 1 .. c : findings'[l + m] = found[m]
    <2>1. findings' \in Seq(Finding) /\ Len(findings') = l + c
      <3>1. findings \in Seq(Finding) /\ found \in Seq(Finding)
        BY <1>s, <1>10
      <3>2. findings \o found \in Seq(Finding) /\ Len(findings \o found) = Len(findings) + Len(found)
        BY <3>1
      <3> QED
        BY <1>2, <1>4, <1>10, <3>2
    <2>2. \A i \in 1 .. l : findings'[i] = findings[i]
      BY <1>2, <1>4, <1>s, <1>10
    <2>3. ASSUME NEW m \in 1 .. c PROVE findings'[l + m] = found[m]
      <3>1. PICK i \in 1 .. l + c : i = l + m /\ ~(i <= l) /\ i - l = m
        OBVIOUS
      <3>2. findings'[i] = found[i - l]
        BY <1>2, <1>4, <1>s, <1>10, <3>1
      <3> QED
        BY <3>1, <3>2
    <2>4. DOMAIN findings' = 1 .. l + c
      BY <2>1
    <2> QED
      BY <2>1, <2>2, <2>3, <2>4
  <1>12. \A i \in 1 .. l + c : i \in 1 .. l \/ \E m \in 1 .. c : i = l + m
    <2>1. \A i \in 1 .. l + c : i \in 1 .. l \/ (i - l \in 1 .. c /\ i = l + (i - l))
      OBVIOUS
    <2> QED
      BY <2>1
  <1>13. /\ \A i \in 1 .. l : i \in 1 .. l + c
         /\ \A m \in 1 .. c : l + m \in 1 .. l + c
    OBVIOUS
  <1>14. \A d : HasRun(d)' <=> HasRun(d) \/ d = id
    <2>1. \A k : k \in 1 .. check' - 1 <=> k \in 1 .. check - 1 \/ k = check
      BY <1>0, <1>c
    <2> QED
      BY <1>0, <1>1, <2>1 DEF HasRun
  <1>15. ~HasRun(id)
    <2>1. ASSUME NEW k \in 1 .. check - 1, checks[k].id = checks[check].id PROVE FALSE
      <3>1. k \in DOMAIN checks /\ check \in DOMAIN checks /\ k # check
        BY <1>s, <1>c
      <3>2. NoKeyTwice([i \in DOMAIN checks |-> checks[i].id])
        BY <1>b DEF ChecksLoad
      <3> QED
        BY <2>1, <3>1, <3>2 DEF NoKeyTwice
    <2> QED
      BY <1>1, <2>1 DEF HasRun
  <1>16. /\ HighEvents' = HighEvents /\ FirstUses' = FirstUses /\ Built' /\ MatrixInv' /\ FirstSenders'
         /\ \A d, e : Reports(d, e)' <=> Reports(d, e)
         /\ \A d, e : FindingOf(d, e)' = FindingOf(d, e)
    BY <1>0, <1>b, <1>s, FindingsStable
  <1>17. FindingsTypeOK'
    <2>1. MatrixTypeOK'
      BY <1>16 DEF MatrixInv
    <2> QED
      BY <1>0, <1>c, <1>s, <1>11, <2>1 DEF FindingsTypeOK
  <1>18. Staged'
    BY <1>0, <1>16, <1>s DEF Staged, ChecksDone
  <1>19. Supported'
    <2>1. ASSUME NEW i \in 1 .. l
          PROVE  \E e \in HighEvents :
                   /\ (HasRun(findings'[i].check_id) \/ findings'[i].check_id = id)
                   /\ Reports(findings'[i].check_id, e)
                   /\ findings'[i] = FindingOf(findings'[i].check_id, e)
      <3>1. PICK e \in HighEvents : /\ HasRun(findings[i].check_id)
                                    /\ Reports(findings[i].check_id, e)
                                    /\ findings[i] = FindingOf(findings[i].check_id, e)
        BY <1>4, <1>s DEF FindingInv, Supported
      <3> QED
        BY <1>11, <3>1
    <2>2. ASSUME NEW m \in 1 .. c
          PROVE  \E e \in HighEvents :
                   /\ findings'[l + m].check_id = id
                   /\ Reports(findings'[l + m].check_id, e)
                   /\ findings'[l + m] = FindingOf(findings'[l + m].check_id, e)
      <3>1. PICK e \in HighEvents : Reports(id, e) /\ found[m] = FindingOf(id, e)
        BY <1>8
      <3>2. findings'[l + m] = FindingOf(id, e) /\ findings'[l + m].check_id = id
        BY <1>11, <3>1 DEF FindingOf
      <3> QED
        BY <3>1, <3>2
    <2>3. ASSUME NEW i \in 1 .. l + c
          PROVE  \E e \in HighEvents :
                   /\ (HasRun(findings'[i].check_id) \/ findings'[i].check_id = id)
                   /\ Reports(findings'[i].check_id, e)
                   /\ findings'[i] = FindingOf(findings'[i].check_id, e)
      BY <1>12, <2>1, <2>2
    <2> QED
      BY <1>11, <1>14, <1>16, <2>3 DEF Supported
  <1>20. AllFound'
    <2>1. ASSUME NEW d \in Check, NEW e \in HighEvents, HasRun(d) \/ d = id, Reports(d, e)
          PROVE  \E i \in 1 .. l + c : findings'[i] = FindingOf(d, e)
      <3>1. CASE HasRun(d)
        <4>1. PICK i \in 1 .. l : findings[i] = FindingOf(d, e)
          BY <1>4, <1>s, <2>1, <3>1 DEF FindingInv, AllFound
        <4> QED
          BY <1>11, <1>13, <4>1
      <3>2. CASE d = id
        <4>1. PICK m \in 1 .. c : found[m] = FindingOf(d, e)
          BY <1>9, <2>1, <3>2
        <4> QED
          BY <1>11, <1>13, <4>1
      <3> QED
        BY <2>1, <3>1, <3>2
    <2> QED
      BY <1>11, <1>14, <1>16, <2>1 DEF AllFound
  <1>21. CleartextCounted'
    <2>1. \A m \in 1 .. c : findings'[l + m].check_id = id
      <3>1. ASSUME NEW m \in 1 .. c PROVE found[m].check_id = id
        <4>1. PICK e \in HighEvents : found[m] = FindingOf(id, e)
          BY <1>8
        <4> QED
          BY <4>1 DEF FindingOf
      <3> QED
        BY <1>11, <3>1
    <2>2. CASE id = Cleartext
      <3>1. CleartextFindings = {}
        <4>1. Cardinality(CleartextFindings) = 0
          BY <1>15, <2>2 DEF FindingInv, CleartextCounted
        <4>2. IsFiniteSet(CleartextFindings)
          BY <1>s, FinitePositions DEF CleartextFindings
        <4> QED
          BY <4>1, <4>2, FS_EmptySet
      <3>2. CleartextFindings' = l + 1 .. l + c
        <4>1. \A i \in 1 .. l : i \notin CleartextFindings'
          BY <1>4, <1>s, <1>11, <3>1 DEF CleartextFindings
        <4>2. \A m \in 1 .. c : l + m \in CleartextFindings'
          BY <1>11, <1>13, <2>1, <2>2 DEF CleartextFindings
        <4>3. CleartextFindings' \subseteq 1 .. l + c
          BY <1>11 DEF CleartextFindings
        <4>4. \A i : i \in l + 1 .. l + c <=> \E m \in 1 .. c : i = l + m
          <5>1. ASSUME NEW i \in l + 1 .. l + c PROVE \E m \in 1 .. c : i = l + m
            <6>1. i - l \in 1 .. c /\ i = l + (i - l)
              OBVIOUS
            <6> QED
              BY <6>1
          <5> QED
            BY <5>1
        <4>5. CleartextFindings' \subseteq l + 1 .. l + c
          BY <1>12, <4>1, <4>3, <4>4
        <4>6. l + 1 .. l + c \subseteq CleartextFindings'
          BY <4>2, <4>4
        <4> QED
          BY <4>5, <4>6
      <3>3. Cardinality(l + 1 .. l + c) = c
        <4>1. PICK a \in Int, b \in Int : a = l + 1 /\ b = l + c
          OBVIOUS
        <4>2. Cardinality(a .. b) = IF a > b THEN 0 ELSE b - a + 1
          BY FS_Interval
        <4>3. (IF a > b THEN 0 ELSE b - a + 1) = c
          BY <4>1
        <4> QED
          BY <4>1, <4>2, <4>3
      <3>4. Cardinality(FirstUses) = c
        BY <1>4, <1>6, <2>2
      <3>5. Cardinality(CleartextFindings)' = c
        BY <3>2, <3>3
      <3> QED
        BY <1>14, <1>16, <2>2, <3>4, <3>5 DEF CleartextCounted
    <2>3. CASE id # Cleartext
      <3>1. CleartextFindings' = CleartextFindings
        BY <1>4, <1>11, <1>12, <1>13, <1>s, <2>1, <2>3 DEF CleartextFindings
      <3>2. HasRun(Cleartext)' <=> HasRun(Cleartext)
        BY <1>14, <2>3
      <3> QED
        BY <1>16, <3>1, <3>2 DEF FindingInv, CleartextCounted
    <2> QED
      BY <2>2, <2>3
  <1>22. ResolvedSoFar'
    <2>1. resolved_findings' = <<>> /\ Len(findings') \in Nat
      BY <1>0, <1>b, <1>11
    <2> QED
      BY <2>1 DEF ResolvedSoFar
  <1> QED
    BY <1>16, <1>17, <1>18, <1>19, <1>20, <1>21, <1>22 DEF FindingInv

\* A shipped check has a rank of its own.
LEMMA CheckRanks ==
  \A c \in Check : CheckRank(c) \in 1 .. 3 /\ Checks[CheckRank(c)] = c
  <1>1. DOMAIN Checks = 1 .. 3
    BY DEF Checks
  <1>2. ASSUME NEW c \in Check PROVE CheckRank(c) \in 1 .. 3 /\ Checks[CheckRank(c)] = c
    <2>1. \E i \in DOMAIN Checks : Checks[i] = c
      BY DEF Check
    <2> HIDE DEF Checks
    <2> QED
      BY <1>1, <2>1 DEF CheckRank
  <1> QED
    BY <1>2

\* The sort key of the findings is a strict weak order.
LEMMA FindingKey ==
  ASSUME NEW f \in Finding, NEW g \in Finding, NEW h \in Finding
  PROVE  /\ FindingPrecedes(f, g) => ~FindingPrecedes(g, f)
         /\ FindingPrecedes(f, g) /\ FindingPrecedes(g, h) => FindingPrecedes(f, h)
         /\ FindingPrecedes(f, h) => FindingPrecedes(f, g) \/ FindingPrecedes(g, h)
  <1>1. ASSUME NEW x \in Finding
        PROVE  /\ x.packet_number \in Nat /\ x.session_id \in Nat
               /\ x.check_id \in Check /\ CheckRank(x.check_id) \in Nat
    <2>1. x.packet_number \in 1 .. MaxPackets /\ x.session_id \in SessionId /\ x.check_id \in Check
      BY DEF Finding
    <2> QED
      BY <2>1, CheckRanks, FrameAssumption DEF SessionId
  <1>2. ASSUME NEW x \in Finding, NEW y \in Finding
        PROVE  x.check_id = y.check_id <=> CheckRank(x.check_id) = CheckRank(y.check_id)
    BY <1>1, CheckRanks
  <1>3. /\ f.packet_number \in Nat /\ f.session_id \in Nat /\ CheckRank(f.check_id) \in Nat
        /\ g.packet_number \in Nat /\ g.session_id \in Nat /\ CheckRank(g.check_id) \in Nat
        /\ h.packet_number \in Nat /\ h.session_id \in Nat /\ CheckRank(h.check_id) \in Nat
        /\ f.check_id = g.check_id <=> CheckRank(f.check_id) = CheckRank(g.check_id)
        /\ g.check_id = h.check_id <=> CheckRank(g.check_id) = CheckRank(h.check_id)
        /\ f.check_id = h.check_id <=> CheckRank(f.check_id) = CheckRank(h.check_id)
    BY <1>1, <1>2
  <1> QED
    BY <1>3 DEF FindingPrecedes

\* Sorting is a permutation.
LEMMA SortingFindings ==
  ASSUME NEW list \in Seq(Finding)
  PROVE  \E f : /\ Permutes(f, Len(list))
                /\ ListSort(list, FindingPrecedes) = [m \in 1 .. Len(list) |-> list[f[m]]]
  <1>1. PICK n \in Nat : n = Len(list) /\ DOMAIN list = 1 .. n
    OBVIOUS
  <1> DEFINE less == {p \in (1 .. n) \X (1 .. n) : FindingPrecedes(list[p[1]], list[p[2]])}
             before == {p \in (DOMAIN list) \X (DOMAIN list) :
                          \/ FindingPrecedes(list[p[1]], list[p[2]])
                          \/ p[1] < p[2] /\ ~FindingPrecedes(list[p[2]], list[p[1]])}
  <1>2. \A i, j \in 1 .. n : <<i, j>> \in less <=> FindingPrecedes(list[i], list[j])
    OBVIOUS
  <1>3. \A i \in 1 .. n : list[i] \in Finding
    BY <1>1
  <1> HIDE DEF less
  <1>4. WeakOrder(1 .. n, less)
    BY <1>2, <1>3, FindingKey DEF WeakOrder
  <1>5. before = Stably(1 .. n, less)
    BY <1>1, <1>2 DEF Stably
  <1>6. StrictTotal(DOMAIN list, before)
    BY <1>1, <1>4, <1>5, StableTotal
  <1>7. ListSort(list, FindingPrecedes) = Arranged(list, before)
    BY DEF ListSort
  <1> HIDE DEF before
  <1> QED
    BY <1>6, <1>7, ArrangedPermutes

\* Sets between which a function is one to one and onto are of one size.
LEMMA OneToOne ==
  ASSUME NEW S, NEW T, IsFiniteSet(T), NEW f \in [S -> T],
         \A x, y \in S : f[x] = f[y] => x = y, \A z \in T : \E x \in S : f[x] = z
  PROVE  Cardinality(S) = Cardinality(T)
  <1>1. f \in Injection(S, T) /\ f \in Surjection(S, T)
    BY DEF Injection, IsInjective, Surjection
  <1> QED
    BY <1>1, FS_Injection

\* Sorting the findings neither loses nor repeats one.
LEMMA SortKeepsFindings ==
  ASSUME FindingInv, SortFindings
  PROVE  FindingInv'
  <1>s. /\ Len(checks) \in Nat /\ check \in 1 .. Len(checks) + 1
        /\ findings \in Seq(Finding) /\ Len(findings) \in Nat
        /\ DOMAIN findings = 1 .. Len(findings)
        /\ MatrixInv /\ FirstSenders /\ FindingsTypeOK /\ Staged
    BY InvStanding
  <1>0. /\ stage = "checks" /\ check > Len(checks) /\ stage' = "resolving"
        /\ UNCHANGED <<checks, catalogue, check, resolved_findings>> /\ UNCHANGED allMatrixVars
        /\ findings' = ListSort(findings, FindingPrecedes)
    BY DEF SortFindings
  <1>b. /\ Built /\ ChecksLoad(checks) /\ resolved_findings = <<>>
        /\ checks \in CheckFiles /\ catalogue \in CatalogueFiles
    BY <1>0, <1>s DEF Staged
  <1>1. PICK n \in Nat : n = Len(findings)
    BY <1>s
  <1>2. PICK f : Permutes(f, n) /\ findings' = [m \in 1 .. n |-> findings[f[m]]]
    BY <1>0, <1>1, <1>s, SortingFindings
  <1>3. /\ f \in [1 .. n -> 1 .. n]
        /\ \A m \in 1 .. n : f[m] \in 1 .. n
        /\ \A i \in 1 .. n : \E m \in 1 .. n : f[m] = i
        /\ \A l, m \in 1 .. n : f[l] = f[m] => l = m
    BY <1>2 DEF Permutes
  <1>4. /\ findings' \in Seq(Finding) /\ Len(findings') = n /\ DOMAIN findings' = 1 .. n
        /\ \A m \in 1 .. n : findings'[m] = findings[f[m]]
    <2>1. \A m \in 1 .. n : findings[f[m]] \in Finding
      BY <1>1, <1>3, <1>s
    <2> QED
      BY <1>2, <2>1
  <1>5. \A d : HasRun(d)' <=> HasRun(d)
    BY <1>0 DEF HasRun
  <1>6. /\ HighEvents' = HighEvents /\ FirstUses' = FirstUses /\ Built' /\ MatrixInv' /\ FirstSenders'
        /\ \A d, e : Reports(d, e)' <=> Reports(d, e)
        /\ \A d, e : FindingOf(d, e)' = FindingOf(d, e)
    BY <1>0, <1>b, <1>s, FindingsStable
  <1>7. FindingsTypeOK'
    <2>1. MatrixTypeOK'
      BY <1>6 DEF MatrixInv
    <2> QED
      BY <1>0, <1>s, <1>4, <2>1 DEF FindingsTypeOK
  <1>8. Staged'
    <2>1. check = Len(checks) + 1
      BY <1>0, <1>s
    <2> QED
      BY <1>0, <1>b, <1>6, <2>1 DEF Staged, ChecksDone
  <1>9. Supported'
    <2>1. \A i \in 1 .. n :
            \E e \in HighEvents : /\ HasRun(findings[i].check_id)
                                  /\ Reports(findings[i].check_id, e)
                                  /\ findings[i] = FindingOf(findings[i].check_id, e)
      BY <1>1, <1>s DEF FindingInv, Supported
    <2>2. ASSUME NEW m \in 1 .. n
          PROVE  \E e \in HighEvents : /\ HasRun(findings'[m].check_id)
                                       /\ Reports(findings'[m].check_id, e)
                                       /\ findings'[m] = FindingOf(findings'[m].check_id, e)
      <3>1. f[m] \in 1 .. n /\ findings'[m] = findings[f[m]]
        BY <1>3, <1>4
      <3> QED
        BY <2>1, <3>1
    <2>3. \A m \in 1 .. n :
            \E e \in HighEvents' : /\ HasRun(findings'[m].check_id)
                                   /\ Reports(findings'[m].check_id, e)
                                   /\ findings'[m] = FindingOf(findings'[m].check_id, e)
      BY <1>6, <2>2
    <2> QED
      BY <1>4, <1>5, <1>6, <2>3 DEF Supported
  <1>10. AllFound'
    <2>1. ASSUME NEW i \in 1 .. n PROVE \E m \in 1 .. n : findings'[m] = findings[i]
      <3>1. PICK m \in 1 .. n : f[m] = i
        BY <1>3
      <3> QED
        BY <1>4, <3>1
    <2>2. \A d \in Check : \A e \in HighEvents :
            HasRun(d) /\ Reports(d, e) => \E i \in 1 .. n : findings[i] = FindingOf(d, e)
      BY <1>1, <1>s DEF FindingInv, AllFound
    <2>3. \A d \in Check : \A e \in HighEvents :
            HasRun(d) /\ Reports(d, e) => \E m \in 1 .. n : findings'[m] = FindingOf(d, e)
      BY <2>1, <2>2
    <2> QED
      BY <1>4, <1>5, <1>6, <2>3 DEF AllFound
  <1>11. CleartextCounted'
    <2>1. PICK S, T : S = CleartextFindings' /\ T = CleartextFindings
      OBVIOUS
    <2>2. /\ \A i : i \in T <=> i \in 1 .. n /\ findings[i].check_id = Cleartext
          /\ \A m : m \in S <=> m \in 1 .. n /\ findings[f[m]].check_id = Cleartext
      BY <1>1, <1>4, <1>s, <2>1 DEF CleartextFindings
    <2>3. IsFiniteSet(T)
      BY <2>2, FinitePositions
    <2> DEFINE g == [m \in S |-> f[m]]
    <2>4. g \in [S -> T]
      BY <1>3, <2>2
    <2>5. /\ \A x, y \in S : g[x] = g[y] => x = y
          /\ \A z \in T : \E x \in S : g[x] = z
      <3>1. \A x, y \in S : g[x] = g[y] => x = y
        BY <1>3, <2>2
      <3>2. ASSUME NEW z \in T PROVE \E x \in S : g[x] = z
        <4>1. PICK x \in 1 .. n : f[x] = z
          BY <1>3, <2>2
        <4>2. x \in S
          BY <2>2, <4>1
        <4> QED
          BY <4>1, <4>2
      <3> QED
        BY <3>1, <3>2
    <2> HIDE DEF g
    <2>6. Cardinality(S) = Cardinality(T)
      BY <2>3, <2>4, <2>5, OneToOne
    <2>7. Cardinality(CleartextFindings)' = Cardinality(CleartextFindings)
      BY <2>1, <2>6
    <2> QED
      BY <1>5, <1>6, <2>7 DEF FindingInv, CleartextCounted
  <1>12. ResolvedSoFar'
    <2>1. resolved_findings' = <<>> /\ Len(findings') \in Nat
      BY <1>0, <1>b, <1>4
    <2> QED
      BY <2>1 DEF ResolvedSoFar
  <1> QED
    BY <1>6, <1>7, <1>8, <1>9, <1>10, <1>11, <1>12 DEF FindingInv

\* What was found stays as it was found.
LEMMA FoundStays ==
  ASSUME FindingInv, UNCHANGED allMatrixVars, UNCHANGED <<checks, catalogue, check, findings>>
  PROVE  /\ Supported' /\ AllFound' /\ CleartextCounted' /\ MatrixInv' /\ FirstSenders'
         /\ MatrixTypeOK' /\ Built' = Built
         /\ \A f : WellCited(f)' <=> WellCited(f)
         /\ \A f : Resolution(f)' = Resolution(f)
         /\ \A f : SpecOf(f)' = SpecOf(f) /\ CitationsOf(f)' = CitationsOf(f)
  <1>1. MatrixInv /\ FirstSenders /\ Supported /\ AllFound /\ CleartextCounted
    BY DEF FindingInv
  <1>2. /\ HighEvents' = HighEvents /\ FirstUses' = FirstUses /\ Built' = Built
        /\ MatrixInv' /\ FirstSenders'
        /\ \A d, e : Reports(d, e)' <=> Reports(d, e)
        /\ \A d, e : FindingOf(d, e)' = FindingOf(d, e)
    BY <1>1, FindingsStable
  <1>3. \A d : HasRun(d)' <=> HasRun(d)
    BY DEF HasRun
  <1>4. Supported'
    BY <1>1, <1>2, <1>3 DEF Supported
  <1>5. AllFound'
    BY <1>1, <1>2, <1>3 DEF AllFound
  <1>6. CleartextCounted'
    BY <1>1, <1>2, <1>3 DEF CleartextCounted, CleartextFindings
  <1>7. \A f : SpecOf(f)' = SpecOf(f) /\ CitationsOf(f)' = CitationsOf(f)
    BY DEF SpecOf, CitationsOf
  <1>8. \A f : WellCited(f)' <=> WellCited(f)
    BY <1>7 DEF WellCited
  <1>9. \A f : Resolution(f)' = Resolution(f)
    BY <1>7 DEF Resolution
  <1>10. MatrixTypeOK'
    BY <1>2 DEF MatrixInv
  <1> QED
    BY <1>2, <1>4, <1>5, <1>6, <1>7, <1>8, <1>9, <1>10

\* The type of a resolved finding.
ResolvedFinding ==
  [finding : Finding, risk : {SEVERITY_TO_RISK[s] : s \in ALLOWED_SEVERITIES},
   standard_refs : Seq(CatalogueEntry)]

\* The check of a finding is among the files that were read.
LEMMA CheckOfFinding ==
  ASSUME FindingInv, NEW i \in 1 .. Len(findings)
  PROVE  LET id == findings[i].check_id
         IN  /\ \E k \in DOMAIN checks : checks[k].id = id /\ SpecOf(id) = checks[k]
             /\ SpecOf(id) \in CheckRecord
             /\ CitationsOf(id) \in Seq(STRING)
             /\ Range(CitationsOf(id)) = Range(SpecOf(id).standards)
  <1>s. /\ checks \in Seq(CheckRecord) /\ Len(checks) \in Nat /\ DOMAIN checks = 1 .. Len(checks)
        /\ check \in 1 .. Len(checks) + 1 /\ DOMAIN findings = 1 .. Len(findings)
    BY InvStanding
  <1>1. PICK id : id = findings[i].check_id
    OBVIOUS
  <1>2. HasRun(id)
    BY <1>s, <1>1 DEF FindingInv, Supported
  <1>3. \E k \in DOMAIN checks : checks[k].id = id
    <2>1. PICK k \in 1 .. check - 1 : checks[k].id = id
      BY <1>2 DEF HasRun
    <2>2. k \in 1 .. Len(checks)
      BY <1>s
    <2> QED
      BY <1>s, <2>1, <2>2
  <1>4. PICK k \in DOMAIN checks : checks[k].id = id /\ SpecOf(id) = checks[k]
    BY <1>3 DEF SpecOf
  <1>5. SpecOf(id) \in CheckRecord
    BY <1>s, <1>4
  <1>6. SpecOf(id).standards \in Seq(STRING)
    BY <1>5, Zenon DEF CheckRecord
  <1> QED
    BY <1>1, <1>4, <1>5, <1>6, DedupeKeeps DEF CitationsOf

\* A finding that resolves, resolves to entries of the catalogue.
LEMMA ResolutionType ==
  ASSUME FindingInv, NEW i \in 1 .. Len(findings), WellCited(findings[i])
  PROVE  /\ Resolution(findings[i]) \in ResolvedFinding
         /\ Resolution(findings[i]).finding = findings[i]
         /\ LET refs == Resolution(findings[i]).standard_refs
                cited == CitationsOf(findings[i].check_id)
            IN  /\ DOMAIN refs = DOMAIN cited
                /\ \A j \in DOMAIN cited : /\ refs[j] = Resolve(cited[j], catalogue)
                                           /\ Resolvable(cited[j], catalogue)
  <1>s. catalogue \in Seq(Seq(CatalogueEntry)) /\ findings[i] \in Finding
    BY InvStanding
  <1>1. PICK id, cited : id = findings[i].check_id /\ cited = CitationsOf(id)
    OBVIOUS
  <1>2. cited \in Seq(STRING) /\ SpecOf(id).severity \in ALLOWED_SEVERITIES
    BY <1>1, CheckOfFinding DEF WellCited
  <1>3. PICK n \in Nat : DOMAIN cited = 1 .. n
    BY <1>2
  <1>4. \A j \in 1 .. n : Resolvable(cited[j], catalogue)
    BY <1>1, <1>3 DEF WellCited, Range
  <1>5. \A j \in 1 .. n : Resolve(cited[j], catalogue) \in CatalogueEntry
    BY <1>4, <1>s, ResolvedEntry
  <1> DEFINE refs == [j \in 1 .. n |-> Resolve(cited[j], catalogue)]
             risk == SEVERITY_TO_RISK[SpecOf(id).severity]
  <1>6. refs \in Seq(CatalogueEntry) /\ DOMAIN refs = 1 .. n
        /\ \A j \in 1 .. n : refs[j] = Resolve(cited[j], catalogue)
    BY <1>5
  <1>7. risk \in {SEVERITY_TO_RISK[s] : s \in ALLOWED_SEVERITIES}
    BY <1>2
  <1>8. Resolution(findings[i]) = [finding |-> findings[i], risk |-> risk, standard_refs |-> refs]
    BY <1>1, <1>3 DEF Resolution
  <1> HIDE DEF refs, risk
  <1>9. Resolution(findings[i]) \in ResolvedFinding
    BY <1>6, <1>7, <1>8, <1>s DEF ResolvedFinding
  <1>10. Resolution(findings[i]).finding = findings[i] /\ Resolution(findings[i]).standard_refs = refs
    BY <1>8
  <1> QED
    BY <1>1, <1>3, <1>4, <1>6, <1>9, <1>10

\* One more finding is resolved.
LEMMA ResolveKeepsFindings ==
  ASSUME FindingInv, ResolveFinding
  PROVE  FindingInv'
  <1>s. /\ findings \in Seq(Finding) /\ Len(findings) \in Nat /\ Len(resolved_findings) \in Nat
        /\ check \in 1 .. Len(checks) + 1 /\ FindingsTypeOK /\ Staged
    BY InvStanding
  <1>0. /\ stage = "resolving" /\ Len(resolved_findings) < Len(findings) /\ Resolves
        /\ resolved_findings' = Append(resolved_findings, Resolution(NextFinding))
        /\ UNCHANGED <<checks, catalogue, check, findings>> /\ UNCHANGED allMatrixVars
        /\ stage' = "resolving"
    BY DEF ResolveFinding, AwaitsResolution
  <1>1. PICK n \in Nat, l \in Nat, h \in Nat :
          n = Len(resolved_findings) /\ l = Len(findings) /\ h = n + 1
    BY <1>s
  <1>2. h \in 1 .. l /\ NextFinding = findings[h]
    BY <1>0, <1>1 DEF NextFinding
  <1>3. WellCited(findings[h])
    BY <1>0, <1>2 DEF Resolves, WellCited
  <1>4. Resolution(findings[h]) \in ResolvedFinding
    BY <1>1, <1>2, <1>3, ResolutionType
  <1>5. resolved_findings \in Seq(ResolvedFinding)
    BY <1>s, Zenon DEF FindingsTypeOK, ResolvedFinding
  <1>6. /\ resolved_findings' \in Seq(ResolvedFinding) /\ Len(resolved_findings') = h
        /\ \A i \in 1 .. n : resolved_findings'[i] = resolved_findings[i]
        /\ resolved_findings'[h] = Resolution(findings[h])
    BY <1>0, <1>1, <1>2, <1>4, <1>5
  <1>7. /\ Supported' /\ AllFound' /\ CleartextCounted' /\ MatrixInv' /\ FirstSenders'
        /\ MatrixTypeOK' /\ Built' = Built
        /\ \A f : WellCited(f)' <=> WellCited(f)
        /\ \A f : Resolution(f)' = Resolution(f)
    BY <1>0, FoundStays
  <1>8. FindingsTypeOK'
    <2>1. resolved_findings' \in
            Seq([finding : Finding, risk : {SEVERITY_TO_RISK[s] : s \in ALLOWED_SEVERITIES},
                 standard_refs : Seq(CatalogueEntry)])
      BY <1>6, Zenon DEF ResolvedFinding
    <2> QED
      BY <1>0, <1>s, <1>7, <2>1 DEF FindingsTypeOK
  <1>9. Staged'
    BY <1>0, <1>s, <1>7 DEF Staged, ChecksDone
  <1>10. ResolvedSoFar'
    <2>1. \A i \in 1 .. n : WellCited(findings[i]) /\ resolved_findings[i] = Resolution(findings[i])
      BY <1>1 DEF FindingInv, ResolvedSoFar
    <2>2. \A i \in 1 .. h : i \in 1 .. n \/ i = h
      BY <1>1
    <2>3. \A i \in 1 .. h : WellCited(findings[i]) /\ resolved_findings'[i] = Resolution(findings[i])
      BY <1>3, <1>6, <2>1, <2>2
    <2>4. h <= Len(findings)
      BY <1>1, <1>2
    <2> QED
      BY <1>0, <1>6, <1>7, <2>3, <2>4 DEF ResolvedSoFar
  <1> QED
    BY <1>7, <1>8, <1>9, <1>10 DEF FindingInv

\* The run ends, or stands still.
LEMMA EndKeepsFindings ==
  ASSUME FindingInv, AbortUncited \/ PublishFindings \/ UNCHANGED allFindingVars
  PROVE  FindingInv'
  <1>s. /\ Len(findings) \in Nat /\ Len(resolved_findings) \in Nat
        /\ check \in 1 .. Len(checks) + 1 /\ FindingsTypeOK /\ Staged
    BY InvStanding
  <1>0. UNCHANGED <<checks, catalogue, check, findings>> /\ UNCHANGED allMatrixVars
        /\ UNCHANGED resolved_findings
    BY DEF AbortUncited, PublishFindings, allFindingVars, findingVars
  <1>1. /\ Supported' /\ AllFound' /\ CleartextCounted' /\ MatrixInv' /\ FirstSenders'
        /\ MatrixTypeOK' /\ Built' = Built
        /\ \A f : WellCited(f)' <=> WellCited(f)
        /\ \A f : Resolution(f)' = Resolution(f)
        /\ \A f : SpecOf(f)' = SpecOf(f) /\ CitationsOf(f)' = CitationsOf(f)
    BY <1>0, FoundStays
  <1>2. Resolves' <=> Resolves
    <2>1. NextFinding' = NextFinding
      BY <1>0 DEF NextFinding
    <2> QED
      BY <1>0, <1>1, <2>1 DEF Resolves
  <1>3. FindingsTypeOK' /\ Staged'
    <2>1. CASE AbortUncited
      <3>1. stage = "resolving" /\ stage' = "aborted" /\ ~Resolves
            /\ Len(resolved_findings) < Len(findings)
        BY <2>1 DEF AbortUncited, AwaitsResolution
      <3>2. FindingsTypeOK'
        BY <1>0, <1>1, <1>s, <3>1 DEF FindingsTypeOK
      <3>3. Staged'
        BY <1>0, <1>1, <1>2, <1>s, <3>1 DEF Staged, ChecksDone
      <3> QED
        BY <3>2, <3>3
    <2>2. CASE PublishFindings
      <3>1. stage = "resolving" /\ stage' = "published"
            /\ Len(resolved_findings) = Len(findings)
        BY <2>2 DEF PublishFindings
      <3>2. FindingsTypeOK'
        BY <1>0, <1>1, <1>s, <3>1 DEF FindingsTypeOK
      <3>3. Staged'
        BY <1>0, <1>1, <1>2, <1>s, <3>1 DEF Staged, ChecksDone
      <3> QED
        BY <3>2, <3>3
    <2>3. CASE UNCHANGED allFindingVars
      <3>1. stage' = stage
        BY <2>3 DEF allFindingVars, findingVars
      <3>2. FindingsTypeOK'
        BY <1>0, <1>1, <1>s, <3>1 DEF FindingsTypeOK
      <3>3. Staged'
        BY <1>0, <1>1, <1>2, <1>s, <3>1 DEF Staged, ChecksDone
      <3> QED
        BY <3>2, <3>3
    <2> QED
      BY <2>1, <2>2, <2>3
  <1>4. ResolvedSoFar'
    BY <1>0, <1>1 DEF FindingInv, ResolvedSoFar
  <1> QED
    BY <1>1, <1>3, <1>4 DEF FindingInv

\* Every step keeps the invariant.
LEMMA FindingInvNext ==
  ASSUME FindingInv, [FindingsNext]_allFindingVars
  PROVE  FindingInv'
  <1>1. CASE MatrixNext /\ UNCHANGED findingVars
    BY <1>1, BuildingKeepsFindings
  <1>2. CASE DiscoverChecks
    BY <1>2, DiscoverKeepsFindings
  <1>3. CASE RunCheck
    BY <1>3, RunKeepsFindings
  <1>4. CASE SortFindings
    BY <1>4, SortKeepsFindings
  <1>5. CASE ResolveFinding
    BY <1>5, ResolveKeepsFindings
  <1>6. CASE AbortUncited \/ PublishFindings \/ UNCHANGED allFindingVars
    BY <1>6, EndKeepsFindings
  <1> QED
    BY <1>1, <1>2, <1>3, <1>4, <1>5, <1>6 DEF FindingsNext

(***************************************************************************)
(* The invariant holds in every reachable state.                           *)
(***************************************************************************)
THEOREM FindingInvAlways == FindingsSpec => []FindingInv
  <1>1. FindingInv /\ [FindingsNext]_allFindingVars => FindingInv'
    BY FindingInvNext
  <1> QED
    BY FindingInvInit, <1>1, PTL DEF FindingsSpec

-----------------------------------------------------------------------------
(***************************************************************************)
(* The properties follow from the invariant.                               *)
(***************************************************************************)

\* A finding rests on an event that its check reports.
LEMMA EvidenceOf ==
  ASSUME FindingInv, NEW f \in Reported(findings)
  PROVE  /\ Built /\ stage # "discovery"
         /\ \E e \in HighEvents : Reports(f.check_id, e) /\ f = FindingOf(f.check_id, e)
  <1>s. DOMAIN findings = 1 .. Len(findings) /\ Staged
    BY InvStanding
  <1>1. PICK i \in DOMAIN findings : f = findings[i]
    BY DEF Reported
  <1>2. \E e \in HighEvents : Reports(f.check_id, e) /\ f = FindingOf(f.check_id, e)
    BY <1>1 DEF FindingInv, Supported
  <1>3. stage # "discovery"
    <2>1. findings # <<>>
      BY <1>1
    <2> QED
      BY <1>s, <2>1 DEF Staged
  <1>4. Built
    BY <1>s, <1>3 DEF Staged
  <1> QED
    BY <1>2, <1>3, <1>4

\* The segment an event was recognised in.
LEMMA SegmentOfEvent ==
  ASSUME MatrixInv, NEW e \in HighEvents
  PROVE  \E k \in 1 .. Len(segments) : /\ e.packet_number = segments[k].packet_number
                                       /\ e.session_id = segments[k].session_id
  BY DEF MatrixInv, DissectInv, Filed, StemsFrom, Events

LEMMA EndpointsFromInv == FindingInv => EndpointsAreThePackets
  <1> SUFFICES ASSUME FindingInv, NEW f \in Reported(findings)
               PROVE  LET p == packets[f.packet_number]
                      IN  <<f.source, f.target>> \in {<<p.src, p.dst>>, <<p.dst, p.src>>}
    BY DEF EndpointsAreThePackets
  <1>1. PICK e \in HighEvents : f = FindingOf(f.check_id, e)
    BY EvidenceOf
  <1>2. PICK k \in 1 .. Len(segments) :
          /\ e.packet_number = segments[k].packet_number
          /\ {EndpointsOf(e.session_id)[1], EndpointsOf(e.session_id)[2]} = SegmentKey(segments[k])
    <2>1. e \in Events /\ Built /\ MatrixInv
      BY EvidenceOf DEF Events, FindingInv
    <2> QED
      BY <2>1, EventParties
  <1>3. /\ f.packet_number = e.packet_number
        /\ f.source = EndpointsOf(e.session_id)[1] /\ f.target = EndpointsOf(e.session_id)[2]
    BY <1>1 DEF FindingOf
  <1>4. SegmentKey(segments[k]) = {packets[f.packet_number].src, packets[f.packet_number].dst}
    BY <1>2, <1>3 DEF SegmentKey, FrameOf, PacketKey, SessionKey
  <1> HIDE DEF EndpointsOf
  <1>5. {f.source, f.target} = {packets[f.packet_number].src, packets[f.packet_number].dst}
    BY <1>2, <1>3, <1>4
  <1>6. PICK a, b, x, y : /\ a = f.source /\ b = f.target
                          /\ x = packets[f.packet_number].src /\ y = packets[f.packet_number].dst
    OBVIOUS
  <1>7. (a = x /\ b = y) \/ (a = y /\ b = x)
    BY <1>5, <1>6
  <1> QED
    BY <1>6, <1>7

-----------------------------------------------------------------------------
\* The first packet of a session with an MBAP header is the segment that
\* settled who its client is.
LEMMA FirstMbap ==
  ASSUME MatrixInv, Built, NEW i \in 1 .. Len(segments), FirstOfShape(ModbusTcp, i),
         NEW ends, ends = SegmentKey(segments[i])
  PROVE  /\ segments[i].packet_number \in MbapPackets(ends)
         /\ \A m \in MbapPackets(ends) : segments[i].packet_number <= m
  <1>s. /\ SessionInv /\ pass = "decoded" /\ DOMAIN packets = 1 .. Len(packets)
        /\ Len(segments) \in Nat
        /\ \A j \in 1 .. Len(segments) : /\ segments[j].packet_number \in 1 .. Len(packets)
                                         /\ segments[j].session_id \in SessionId
    <2>1. sorted
      BY DEF MatrixInv, Phased, MatrixNotBegun, Built
    <2>2. packets \in Seq(Frames)
      BY MatrixStanding DEF SessionInv, TypeInv, SessionTypeOK
    <2> QED
      BY <2>1, <2>2, MatrixStanding
  <1>1. \A j \in 1 .. Len(segments) : HasPayload(packets[segments[j].packet_number])
    BY <1>s DEF SessionInv, Decoded
  <1>2. \A j \in 1 .. Len(segments) :
          /\ SegmentKey(segments[j]) = {packets[segments[j].packet_number].src,
                                        packets[segments[j].packet_number].dst}
          /\ SegmentPayload(j) = packets[segments[j].packet_number].payload
    BY DEF SegmentKey, SegmentPayload, FrameOf, PacketKey, SessionKey
  <1>3. segments[i].packet_number \in MbapPackets(ends)
    <2>1. SegmentPayload(i) \in Shape[ModbusTcp]
      BY DEF FirstOfShape
    <2> QED
      BY <1>s, <1>1, <1>2, <2>1 DEF MbapPackets, HasPayload
  <1>4. ASSUME NEW m \in MbapPackets(ends) PROVE segments[i].packet_number <= m
    <2>1. /\ m \in 1 .. Len(packets) /\ packets[m].tcp
          /\ packets[m].payload \in Shape[ModbusTcp]
          /\ {packets[m].src, packets[m].dst} = ends
      BY <1>s DEF MbapPackets
    <2>2. packets[m].payload # NoPayload
      <3>1. Shape[ModbusTcp] \subseteq Payload
        BY DissectionAssumption, Confidences
      <3> QED
        BY <2>1, <3>1, DissectionAssumption
    <2>3. PICK j \in 1 .. Len(segments) : segments[j].packet_number = m
      BY <1>s, <2>1, <2>2 DEF SessionInv, Decoded, HasPayload
    <2>4. SegmentKey(segments[j]) = ends /\ SegmentPayload(j) \in Shape[ModbusTcp]
      BY <1>2, <2>1, <2>3
    <2>5. segments[j].session_id = segments[i].session_id
      BY <2>4, <1>s DEF SessionInv, Numbering
    <2>6. ~(j \in 1 .. i - 1)
      BY <2>4, <2>5 DEF FirstOfShape
    <2>7. j = i \/ i < j
      BY <1>s, <2>6
    <2>8. i < j => segments[i].packet_number < segments[j].packet_number
      BY <1>s DEF SessionInv, Decoded, InCaptureOrder
    <2> QED
      BY <1>s, <2>3, <2>7, <2>8
  <1> QED
    BY <1>3, <1>4

LEMMA WritesFromInv == FindingInv => WritesAreTheClients
  <1> SUFFICES ASSUME FindingInv, NEW f \in Found(UnauthWrite)
               PROVE  LET p     == packets[f.packet_number]
                          mbap  == MbapPackets({p.src, p.dst})
                          first == CHOOSE n \in mbap : \A m \in mbap : n <= m
                      IN  p.payload \in WriteCodes /\ packets[first].src = p.src
    BY DEF WritesAreTheClients
  <1>0. f \in Reported(findings) /\ f.check_id = UnauthWrite
    BY DEF Found
  <1>1. PICK e \in HighEvents : Reports(UnauthWrite, e) /\ f = FindingOf(UnauthWrite, e)
    BY <1>0, EvidenceOf
  <1>2. MatrixInv /\ Built /\ FirstSenders /\ SessionInv
    BY <1>0, EvidenceOf DEF FindingInv, MatrixInv, DissectInv
  <1>3. /\ e.protocol = ModbusTcp /\ PayloadOf(e) \in WriteCodes /\ e.direction = "request"
        /\ f.packet_number = e.packet_number
    BY <1>1, ReportsOfCheck DEF WriteRequest, IsWrite, FindingOf
  <1>4. PICK i \in 1 .. Len(segments) : /\ segments[i].session_id = e.session_id
                                        /\ FirstOfShape(ModbusTcp, i)
                                        /\ ByClient(e, FrameOf(segments[i]).src)
    BY <1>2, <1>3 DEF FirstSenders
  <1>5. PICK k \in 1 .. Len(segments) : /\ e.packet_number = segments[k].packet_number
                                        /\ e.session_id = segments[k].session_id
    BY <1>2, SegmentOfEvent
  <1>6. PICK p, ends : p = packets[f.packet_number] /\ ends = {p.src, p.dst}
    OBVIOUS
  <1>7. ends = SegmentKey(segments[i])
    <2>1. ends = SegmentKey(segments[k])
      BY <1>3, <1>5, <1>6 DEF SegmentKey, FrameOf, PacketKey, SessionKey
    <2> QED
      BY <1>2, <1>4, <1>5, <2>1, SameKey
  <1> DEFINE mbap == MbapPackets(ends)
             first == CHOOSE n \in mbap : \A m \in mbap : n <= m
  <1>8. /\ segments[i].packet_number \in mbap
        /\ \A m \in mbap : segments[i].packet_number <= m
    BY <1>2, <1>4, <1>7, FirstMbap
  <1>9. mbap \subseteq Nat
    <2>1. packets \in Seq(Frames)
      BY <1>2 DEF SessionInv, TypeInv, SessionTypeOK
    <2>2. DOMAIN packets \subseteq Nat
      BY <2>1
    <2> QED
      BY <2>2 DEF MbapPackets
  <1> HIDE DEF mbap
  <1>10. first = segments[i].packet_number
    <2>1. first \in mbap /\ \A m \in mbap : first <= m
      BY <1>8
    <2> HIDE DEF first
    <2>2. first <= segments[i].packet_number /\ segments[i].packet_number <= first
      BY <1>8, <2>1
    <2>3. first \in Nat /\ segments[i].packet_number \in Nat
      BY <1>8, <1>9, <2>1
    <2>4. PICK a \in Nat, b \in Nat : a = first /\ b = segments[i].packet_number
      BY <2>3
    <2>5. a <= b /\ b <= a
      BY <2>2, <2>4
    <2> QED
      BY <2>4, <2>5
  <1>11. packets[first].src = p.src
    <2>1. SenderOf(e) = FrameOf(segments[i]).src
      BY <1>3, <1>4 DEF ByClient
    <2> HIDE DEF first
    <2> QED
      BY <1>3, <1>6, <1>10, <2>1 DEF SenderOf, FrameOf
  <1>12. p.payload \in WriteCodes
    BY <1>3, <1>6 DEF PayloadOf
  <1> QED
    BY <1>6, <1>11, <1>12 DEF mbap

-----------------------------------------------------------------------------
\* Among the events of one session and protocol the packet number decides.
LEMMA WithinAUse ==
  ASSUME MatrixInv, NEW e \in HighEvents, NEW f \in HighEvents, SameUse(e, f)
  PROVE  /\ e.packet_number \in Nat /\ f.packet_number \in Nat
         /\ Precedes(e, f) <=> e.packet_number < f.packet_number
  <1>1. e \in AnyEvent /\ f \in AnyEvent
    BY EventTypes DEF MatrixInv, DissectInv, AnyEvent
  <1>2. /\ e.packet_number \in Nat /\ e.session_id \in Nat /\ Rank(e.protocol) \in Nat
        /\ f.packet_number \in Nat /\ f.session_id \in Nat /\ Rank(f.protocol) \in Nat
    BY <1>1, EventFields
  <1>3. e.session_id = f.session_id /\ Rank(e.protocol) = Rank(f.protocol)
    BY DEF SameUse
  <1> QED
    BY <1>2, <1>3 DEF Precedes

\* One of them is the first.
LEMMA FirstOfUse ==
  ASSUME MatrixInv, NEW e \in HighEvents
  PROVE  \E g \in HighEvents :
           /\ SameUse(e, g)
           /\ \A h \in HighEvents :
                SameUse(e, h) => g.packet_number <= h.packet_number /\ ~Precedes(h, g)
  <1> DEFINE alike == {h \in HighEvents : SameUse(e, h)}
             numbers == {h.packet_number : h \in alike}
  <1>1. e \in alike
    BY DEF SameUse
  <1>2. \A h, g \in alike : SameUse(h, g)
    BY DEF SameUse
  <1>3. numbers \subseteq Nat /\ numbers # {}
    BY <1>1, <1>2, WithinAUse
  <1>4. PICK n \in numbers : \A m \in numbers : n <= m
    BY <1>3, Least
  <1>5. PICK g \in alike : g.packet_number = n
    BY <1>4
  <1>6. ASSUME NEW h \in alike
        PROVE  g.packet_number <= h.packet_number /\ ~Precedes(h, g)
    <2>1. g.packet_number <= h.packet_number
      BY <1>4, <1>5
    <2>2. /\ g.packet_number \in Nat /\ h.packet_number \in Nat
          /\ Precedes(h, g) <=> h.packet_number < g.packet_number
      BY <1>2, WithinAUse
    <2> QED
      BY <2>1, <2>2
  <1> QED
    BY <1>5, <1>6

\* When the findings are sorted every check has run.
LEMMA EveryCheckRan ==
  ASSUME FindingInv, ChecksDone
  PROVE  /\ \A c \in Check : HasRun(c)
         /\ \A c \in Check : \A e \in HighEvents :
              Reports(c, e) => FindingOf(c, e) \in Found(c)
  <1>1. Staged /\ Len(checks) \in Nat /\ checks \in Seq(CheckRecord)
    BY InvStanding
  <1>2. check = Len(checks) + 1 /\ checks \in CheckFiles
    BY <1>1 DEF ChecksDone, Staged
  <1>3. ASSUME NEW c \in Check PROVE HasRun(c)
    <2>1. PICK k \in DOMAIN checks : checks[k].id = c
      BY <1>2, FindingsAssumption
    <2>2. k \in 1 .. check - 1
      BY <1>1, <1>2
    <2> QED
      BY <2>1, <2>2 DEF HasRun
  <1>4. ASSUME NEW c \in Check, NEW e \in HighEvents, Reports(c, e)
        PROVE  FindingOf(c, e) \in Found(c)
    <2>1. \E i \in DOMAIN findings : findings[i] = FindingOf(c, e)
      BY <1>3, <1>4 DEF FindingInv, AllFound
    <2>2. FindingOf(c, e).check_id = c
      BY DEF FindingOf
    <2> QED
      BY <2>1, <2>2 DEF Found, Reported
  <1> QED
    BY <1>3, <1>4

LEMMA UseFromInv == FindingInv => WriteImpliesUse
  <1> SUFFICES ASSUME FindingInv, ChecksDone PROVE
        /\ \A w \in Found(UnauthWrite) :
             \E u \in Found(IndustrialUse) : /\ u.session_id = w.session_id
                                             /\ u.packet_number <= w.packet_number
        /\ \A u, v \in Found(IndustrialUse) : u.session_id = v.session_id => u = v
    BY DEF WriteImpliesUse
  <1>0. MatrixInv
    BY DEF FindingInv
  <1>1. \A c : \A f \in Found(c) :
          \E e \in HighEvents : Reports(c, e) /\ f = FindingOf(c, e)
    BY EvidenceOf DEF Found
  <1>2. \A c, e : /\ FindingOf(c, e).session_id = e.session_id
                  /\ FindingOf(c, e).packet_number = e.packet_number
    BY DEF FindingOf
  <1>3. ASSUME NEW w \in Found(UnauthWrite)
        PROVE  \E u \in Found(IndustrialUse) : /\ u.session_id = w.session_id
                                               /\ u.packet_number <= w.packet_number
    <2>1. PICK e \in HighEvents : Reports(UnauthWrite, e) /\ w = FindingOf(UnauthWrite, e)
      BY <1>1
    <2>2. e.protocol = ModbusTcp
      BY <2>1, ReportsOfCheck DEF WriteRequest, IsWrite
    <2>3. PICK g \in HighEvents :
            /\ SameUse(e, g)
            /\ \A h \in HighEvents :
                 SameUse(e, h) => g.packet_number <= h.packet_number /\ ~Precedes(h, g)
      BY <1>0, FirstOfUse
    <2>4. FirstIndustrial(g)
      BY <2>2, <2>3 DEF FirstIndustrial, UnauthenticatedIndustrialProtocols, SameUse
    <2>5. FindingOf(IndustrialUse, g) \in Found(IndustrialUse)
      BY <2>4, EveryCheckRan, ReportsOfCheck, CheckNames
    <2>6. g.packet_number <= e.packet_number /\ g.session_id = e.session_id
      BY <2>3 DEF SameUse
    <2> QED
      BY <1>2, <2>1, <2>5, <2>6
  <1>4. ASSUME NEW u \in Found(IndustrialUse), NEW v \in Found(IndustrialUse),
               u.session_id = v.session_id
        PROVE  u = v
    <2>1. PICK e \in HighEvents : Reports(IndustrialUse, e) /\ u = FindingOf(IndustrialUse, e)
      BY <1>1
    <2>2. PICK f \in HighEvents : Reports(IndustrialUse, f) /\ v = FindingOf(IndustrialUse, f)
      BY <1>1
    <2>3. FirstIndustrial(e) /\ FirstIndustrial(f) /\ e.session_id = f.session_id
      BY <1>2, <1>4, <2>1, <2>2, ReportsOfCheck
    <2>4. e.protocol = ModbusTcp /\ f.protocol = ModbusTcp /\ ~Precedes(e, f) /\ ~Precedes(f, e)
      BY <2>3 DEF FirstIndustrial, UnauthenticatedIndustrialProtocols
    <2>5. SameUse(e, f) /\ SameUse(f, e)
      BY <2>3, <2>4 DEF SameUse
    <2>6. e.packet_number = f.packet_number
      BY <1>0, <2>4, <2>5, WithinAUse
    <2> QED
      BY <2>1, <2>2, <2>3, <2>6 DEF FindingOf
  <1> QED
    BY <1>3, <1>4

(***************************************************************************)
(* Sessions and protocols used on the one hand, first uses on the other:   *)
(* one to one.                                                             *)
(***************************************************************************)
LEMMA CleartextFromInv == FindingInv => CleartextFoundOnce
  <1> SUFFICES ASSUME FindingInv, ChecksDone PROVE CleartextFoundOnce
    BY DEF CleartextFoundOnce
  <1>s. /\ MatrixInv /\ DOMAIN findings = 1 .. Len(findings)
        /\ DOMAIN protocol_events = 1 .. Len(protocol_events) /\ Len(protocol_events) \in Nat
        /\ HighEvents \subseteq Event("high")
    BY InvStanding
  <1> DEFINE Uses(s, d) == {e \in HighEvents : e.session_id = s /\ e.protocol = d}
             used == {u \in SessionId \X CleartextProtocols : Uses(u[1], u[2]) # {}}
             Key2(e) == <<e.session_id, e.protocol>>
  <1>1. ASSUME NEW e \in HighEvents, e.protocol \in CleartextProtocols PROVE Key2(e) \in used
    <2>1. e.session_id \in SessionId
      BY <1>s, EventFields DEF AnyEvent
    <2>2. e \in Uses(e.session_id, e.protocol)
      OBVIOUS
    <2> QED
      BY <1>1, <2>1, <2>2
  <1>2. ASSUME NEW u \in used
        PROVE  \E g \in HighEvents : /\ Key2(g) = u /\ FirstCleartext(g)
                                     /\ g \in Uses(u[1], u[2])
                                     /\ \A e \in Uses(u[1], u[2]) :
                                          g.packet_number <= e.packet_number
    <2>1. PICK e \in HighEvents : e.session_id = u[1] /\ e.protocol = u[2]
      OBVIOUS
    <2>2. u = <<u[1], u[2]>> /\ u[2] \in CleartextProtocols
      OBVIOUS
    <2>3. PICK g \in HighEvents :
            /\ SameUse(e, g)
            /\ \A h \in HighEvents :
                 SameUse(e, h) => g.packet_number <= h.packet_number /\ ~Precedes(h, g)
      BY <1>s, FirstOfUse
    <2>4. g.session_id = u[1] /\ g.protocol = u[2]
      BY <2>1, <2>3 DEF SameUse
    <2>5. FirstCleartext(g)
      BY <2>1, <2>2, <2>3, <2>4 DEF FirstCleartext, SameUse
    <2>6. \A h \in Uses(u[1], u[2]) : g.packet_number <= h.packet_number
      BY <2>1, <2>3 DEF SameUse
    <2> QED
      BY <2>2, <2>4, <2>5, <2>6
  <1>3. ASSUME NEW g \in HighEvents, FirstCleartext(g)
        PROVE  \E n \in FirstUses : protocol_events[n] = g
    BY <1>3 DEF FirstUses, HighEvents, Reported
  <1>4. ASSUME NEW n \in FirstUses
        PROVE  protocol_events[n] \in HighEvents /\ Key2(protocol_events[n]) \in used
    <2>1. protocol_events[n] \in HighEvents /\ FirstCleartext(protocol_events[n])
      BY DEF FirstUses, HighEvents, Reported
    <2> QED
      BY <1>1, <2>1 DEF FirstCleartext
  <1>5. ASSUME NEW l \in FirstUses, NEW m \in FirstUses,
               Key2(protocol_events[l]) = Key2(protocol_events[m])
        PROVE  l = m
    <2>1. PICK e \in HighEvents, f \in HighEvents :
            e = protocol_events[l] /\ f = protocol_events[m]
      BY <1>4
    <2>2. SameUse(e, f) /\ SameUse(f, e)
      BY <1>5, <2>1 DEF SameUse
    <2>3. FirstCleartext(e) /\ FirstCleartext(f)
      BY <2>1 DEF FirstUses
    <2>4. ~Precedes(e, f) /\ ~Precedes(f, e)
      BY <2>2, <2>3 DEF FirstCleartext
    <2>5. e.packet_number = f.packet_number
      BY <1>s, <2>2, <2>4, WithinAUse
    <2>6. Alike(protocol_events[l], protocol_events[m])
      BY <2>1, <2>2, <2>5 DEF Alike, SameUse
    <2> QED
      BY <1>s, <2>6 DEF MatrixInv, DissectInv, NoRepetition, FirstUses
  <1> HIDE DEF used, Uses, Key2
  <1>6. Cardinality(used) = Cardinality(CleartextFindings)
    <2> DEFINE pick == [u \in used |-> CHOOSE n \in FirstUses : Key2(protocol_events[n]) = u]
    <2>1. ASSUME NEW u \in used
          PROVE  pick[u] \in FirstUses /\ Key2(protocol_events[pick[u]]) = u
      <3>1. \E n \in FirstUses : Key2(protocol_events[n]) = u
        BY <1>2, <1>3
      <3> QED
        BY <3>1
    <2>2. pick = [u \in used |-> pick[u]]
      OBVIOUS
    <2> HIDE DEF pick
    <2>3. pick \in [used -> FirstUses]
      BY <2>1, <2>2
    <2>4. \A u, v \in used : pick[u] = pick[v] => u = v
      BY <2>1
    <2>5. ASSUME NEW n \in FirstUses PROVE \E u \in used : pick[u] = n
      <3>1. PICK u \in used : u = Key2(protocol_events[n])
        BY <1>4
      <3>2. pick[u] \in FirstUses /\ Key2(protocol_events[pick[u]]) = u
        BY <2>1
      <3> QED
        BY <1>5, <3>1, <3>2
    <2>6. IsFiniteSet(FirstUses)
      BY <1>s, FinitePositions DEF FirstUses
    <2>7. Cardinality(used) = Cardinality(FirstUses)
      BY <2>3, <2>4, <2>5, <2>6, OneToOne
    <2>8. HasRun(Cleartext)
      BY EveryCheckRan, CheckNames
    <2> QED
      BY <2>7, <2>8 DEF FindingInv, CleartextCounted
  <1>7. ASSUME NEW u \in used
        PROVE  \E f \in Found(Cleartext) :
                 /\ f.session_id = u[1]
                 /\ \E e \in Uses(u[1], u[2]) : e.packet_number = f.packet_number
                 /\ \A e \in Uses(u[1], u[2]) : f.packet_number <= e.packet_number
    <2>1. PICK g \in HighEvents : /\ Key2(g) = u /\ FirstCleartext(g)
                                  /\ g \in Uses(u[1], u[2])
                                  /\ \A e \in Uses(u[1], u[2]) :
                                       g.packet_number <= e.packet_number
      BY <1>2
    <2>2. PICK f \in Found(Cleartext) : f = FindingOf(Cleartext, g)
      BY <2>1, EveryCheckRan, ReportsOfCheck, CheckNames
    <2>3. f.session_id = g.session_id /\ f.packet_number = g.packet_number
      BY <2>2 DEF FindingOf
    <2>4. g.session_id = u[1]
      BY <2>1 DEF Key2
    <2> QED
      BY <2>1, <2>2, <2>3, <2>4
  <1> QED
    BY <1>6, <1>7 DEF CleartextFoundOnce, CleartextFindings, used, Uses

-----------------------------------------------------------------------------
\* A finding that cannot be cited: the catalogue has a defect or no entry,
\* or the check's severity has no risk word.
LEMMA Uncited ==
  ASSUME FindingInv, NEW f, ~WellCited(f)
  PROVE  \/ Defect(catalogue)
         \/ \E citation \in Range(CitationsOf(f.check_id)) : ~InCatalogue(citation)
         \/ SpecOf(f.check_id).severity \notin DOMAIN SEVERITY_TO_RISK
  <1>1. catalogue \in Seq(Seq(CatalogueEntry))
    BY InvStanding
  <1>2. DOMAIN SEVERITY_TO_RISK = ALLOWED_SEVERITIES
    BY DEF SEVERITY_TO_RISK, ALLOWED_SEVERITIES
  <1> QED
    BY <1>1, <1>2, ResolvedEntry DEF WellCited

LEMMA CitedFromInv == FindingInv => CitedOrNothing
  <1> SUFFICES ASSUME FindingInv PROVE CitedOrNothing
    OBVIOUS
  <1>s. /\ Staged /\ DOMAIN findings = 1 .. Len(findings) /\ Len(findings) \in Nat
        /\ findings \in Seq(Finding) /\ Len(resolved_findings) \in Nat
        /\ catalogue \in Seq(Seq(CatalogueEntry))
    BY InvStanding
  <1> DEFINE asked == UNION {Range(CitationsOf(f.check_id)) : f \in Reported(findings)}
             refs(i) == Range(resolved_findings[i].standard_refs)
  <1>1. ASSUME Published
        PROVE  /\ Len(resolved_findings) = Len(findings)
               /\ findings # <<>> => ~Defect(catalogue)
               /\ \A i \in DOMAIN findings :
                    /\ resolved_findings[i].finding = findings[i]
                    /\ {r.cites : r \in refs(i)} = Range(CitationsOf(findings[i].check_id))
                    /\ \A r \in refs(i) : r.verified => r.clause_title_source = "copy"
    <2>1. Len(resolved_findings) = Len(findings)
      BY <1>1, <1>s DEF Published, Staged
    <2>2. \A i \in 1 .. Len(findings) :
            WellCited(findings[i]) /\ resolved_findings[i] = Resolution(findings[i])
      BY <2>1 DEF FindingInv, ResolvedSoFar
    <2>3. ASSUME findings # <<>> PROVE ~Defect(catalogue)
      <3>1. 1 \in 1 .. Len(findings)
        <4>1. Len(findings) # 0
          BY <1>s, <2>3, EmptySeq
        <4> QED
          BY <1>s, <4>1
      <3>2. PICK id : id = findings[1].check_id
        OBVIOUS
      <3>3. /\ \E k \in DOMAIN checks : checks[k].id = id /\ SpecOf(id) = checks[k]
            /\ SpecOf(id) \in CheckRecord
            /\ Range(CitationsOf(id)) = Range(SpecOf(id).standards)
        BY <3>1, <3>2, CheckOfFinding
      <3>4. PICK k \in DOMAIN checks : SpecOf(id) = checks[k]
        BY <3>3
      <3>5. checks[k].standards # <<>>
        <4>1. checks \in CheckFiles /\ ChecksLoad(checks)
          BY <1>1, <1>s DEF Published, Staged
        <4> QED
          BY <4>1, FindingsAssumption DEF ChecksLoad
      <3>6. \E citation : citation \in Range(CitationsOf(id))
        <4>1. SpecOf(id).standards \in Seq(STRING)
          BY <3>3, Zenon DEF CheckRecord
        <4>2. PICK standards \in Seq(STRING) : standards = SpecOf(id).standards /\ standards # <<>>
          BY <3>4, <3>5, <4>1
        <4>3. 1 \in DOMAIN standards
          <5>1. Len(standards) # 0
            BY <4>2, EmptySeq
          <5> QED
            BY <5>1
        <4>4. standards[1] \in Range(standards)
          BY <4>3 DEF Range
        <4> QED
          BY <3>3, <4>2, <4>4
      <3>7. PICK citation : Resolvable(citation, catalogue)
        BY <2>2, <3>1, <3>2, <3>6 DEF WellCited
      <3> QED
        BY <1>s, <3>7, ResolvedEntry
    <2>4. ASSUME NEW i \in DOMAIN findings
          PROVE  /\ resolved_findings[i].finding = findings[i]
                 /\ {r.cites : r \in refs(i)} = Range(CitationsOf(findings[i].check_id))
                 /\ \A r \in refs(i) : r.verified => r.clause_title_source = "copy"
      <3>1. PICK list, cited : /\ list = resolved_findings[i].standard_refs
                               /\ cited = CitationsOf(findings[i].check_id)
        OBVIOUS
      <3>2. /\ resolved_findings[i].finding = findings[i]
            /\ DOMAIN list = DOMAIN cited
            /\ \A j \in DOMAIN cited : /\ list[j] = Resolve(cited[j], catalogue)
                                       /\ Resolvable(cited[j], catalogue)
        BY <1>s, <2>2, <3>1, ResolutionType
      <3>3. \A j \in DOMAIN cited : /\ list[j].cites = cited[j]
                                    /\ list[j].verified => list[j].clause_title_source = "copy"
        BY <1>s, <3>2, ResolvedEntry
      <3>4. {r.cites : r \in Range(list)} = Range(cited)
        BY <3>2, <3>3 DEF Range
      <3>5. \A r \in Range(list) : r.verified => r.clause_title_source = "copy"
        BY <3>2, <3>3 DEF Range
      <3> QED
        BY <3>1, <3>2, <3>4, <3>5
    <2> QED
      BY <2>1, <2>3, <2>4
  <1>2. ASSUME stage = "aborted", ChecksLoad(checks)
        PROVE  \/ findings # <<>> /\ Defect(catalogue)
               \/ \E citation \in asked : ~InCatalogue(citation)
               \/ \E f \in Reported(findings) :
                    SpecOf(f.check_id).severity \notin DOMAIN SEVERITY_TO_RISK
    <2>1. Len(resolved_findings) < Len(findings) /\ ~Resolves
      BY <1>2, <1>s DEF Staged
    <2>2. PICK h \in DOMAIN findings : NextFinding = findings[h]
      <3>1. Len(resolved_findings) + 1 \in 1 .. Len(findings)
        BY <1>s, <2>1
      <3> QED
        BY <1>s, <3>1 DEF NextFinding
    <2>3. ~WellCited(findings[h]) /\ findings[h] \in Reported(findings) /\ findings # <<>>
      BY <2>1, <2>2 DEF Resolves, WellCited, Reported
    <2>4. \/ Defect(catalogue)
          \/ \E citation \in Range(CitationsOf(findings[h].check_id)) : ~InCatalogue(citation)
          \/ SpecOf(findings[h].check_id).severity \notin DOMAIN SEVERITY_TO_RISK
      BY <2>3, Uncited
    <2>5. Range(CitationsOf(findings[h].check_id)) \subseteq asked
      BY <2>3
    <2> HIDE DEF asked
    <2> QED
      BY <2>3, <2>4, <2>5
  <1> QED
    BY <1>1, <1>2 DEF CitedOrNothing

-----------------------------------------------------------------------------
(***************************************************************************)
(* Type correctness: whatever files an installation holds, every finding   *)
(* has the fields the report needs, and every resolved one a risk word and *)
(* entries of the catalogue.                                               *)
(***************************************************************************)
THEOREM FindingsTypeCorrect == FindingsSpec => []FindingsTypeOK
  <1>1. FindingInv => FindingsTypeOK
    BY DEF FindingInv
  <1> QED
    BY <1>1, FindingInvAlways, PTL

(***************************************************************************)
(* Every finding names the two endpoints of the packet it gives as         *)
(* evidence: the endpoint "undetermined" is never met on the real path.    *)
(***************************************************************************)
THEOREM EvidenceHasItsEndpoints == FindingsSpec => []EndpointsAreThePackets
  BY FindingInvAlways, EndpointsFromInv, PTL

(***************************************************************************)
(* A write is held against a session only if the sender of the first       *)
(* payload with an MBAP header sent it.                                    *)
(***************************************************************************)
THEOREM WritesComeFromClients == FindingsSpec => []WritesAreTheClients
  BY FindingInvAlways, WritesFromInv, PTL

(***************************************************************************)
(* Every use of a cleartext protocol is found, once per session and        *)
(* protocol and at its first packet.                                       *)
(***************************************************************************)
THEOREM EveryCleartextUseOnce == FindingsSpec => []CleartextFoundOnce
  BY FindingInvAlways, CleartextFromInv, PTL

(***************************************************************************)
(* A session with a write is reported for the protocol, no later than at   *)
(* the write, and once.                                                    *)
(***************************************************************************)
THEOREM AWriteIsAUse == FindingsSpec => []WriteImpliesUse
  BY FindingInvAlways, UseFromInv, PTL

(***************************************************************************)
(* All findings are published with all their citations or none is, a       *)
(* defect anywhere in the catalogue lets nothing through, and a run aborts *)
(* for no other reason than the property names.                            *)
(***************************************************************************)
THEOREM AllCitedOrNothing == FindingsSpec => []CitedOrNothing
  BY FindingInvAlways, CitedFromInv, PTL

(***************************************************************************)
(* The stages compose: in a whole run the sessions, the dissectors and the *)
(* matrix go the way they go alone, so what is proved of each of them      *)
(* holds of a run that continues with the checks.                          *)
(***************************************************************************)
THEOREM StagesCompose == FindingsSpec => MatrixSpec /\ DissectSpec /\ SessionSpec
  <1>1. FindingsInit => MatrixInit /\ DissectInit /\ SessionInit
    BY DEF FindingsInit, MatrixInit, DissectInit
  <1>2. [FindingsNext]_allFindingVars => [MatrixNext]_allMatrixVars
    BY DEF FindingsNext, DiscoverChecks, RunCheck, SortFindings, ResolveFinding, AbortUncited,
           PublishFindings, allFindingVars
  <1>3. [MatrixNext]_allMatrixVars => [DissectNext]_allDissectVars
    BY DEF MatrixNext, MeetSession, CountPacket, AddRow, EndPhase, allMatrixVars
  <1>4. [DissectNext]_allDissectVars => [SessionNext]_sessionVars
    BY DEF DissectNext, SkipSegment, DissectSegment, NextDissector, SortEvents, allDissectVars
  <1> QED
    BY <1>1, <1>2, <1>3, <1>4, PTL DEF FindingsSpec, MatrixSpec, DissectSpec, SessionSpec

(***************************************************************************)
(* Above all: a published run has accounted for every TCP packet.          *)
(***************************************************************************)
COROLLARY PublishedIsComplete == FindingsSpec => []EveryTcpPacketAccounted
  BY StagesCompose, NothingVanishes, PTL
=============================================================================
