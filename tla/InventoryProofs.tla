-------------------------- MODULE InventoryProofs --------------------------
(***************************************************************************)
(* Theorems about Inventory, for every capture, every assignment of        *)
(* addresses to endpoints and every vendor table, whole or damaged.        *)
(***************************************************************************)
EXTENDS Inventory, DissectionProofs

-----------------------------------------------------------------------------
(***************************************************************************)
(* The inductive invariant.  How far the two loops are:                    *)
(***************************************************************************)
EventsCounted == IF loop = "events" THEN next - 1 ELSE Len(protocol_events)
VisitsMade == IF loop = "events" THEN 0
              ELSE IF loop = "segments" THEN next - 1 ELSE 2 * Len(segments)

\* Nothing is counted before the events are sorted.
NotListing ==
  /\ loop = "events" /\ next = 1 /\ host_order = <<>>
  /\ oui_table \in OuiFiles
  /\ unit_ids_by_server = [ip \in IP |-> {}]
  /\ requests_sent = [ip \in IP |-> 0]
  /\ requests_received = [ip \in IP |-> 0]
  /\ first_mac = [ip \in IP |-> Unknown]
  /\ hosts = [ip \in IP |-> NoHost]

Progress ==
  /\ ~sorted => NotListing
  /\ loop = "events" => next <= Len(protocol_events) + 1 /\ host_order = <<>>
  /\ loop = "segments" => next <= 2 * Len(segments) + 1

(***************************************************************************)
(* The counters and unit identifiers are those of the events counted so    *)
(* far.  Side 1 of an event is its sender, side 2 its addressee.           *)
(***************************************************************************)
Side == {1, 2}
PartyOf(side, e) == IF side = 1 THEN IpOf[SenderOf(e)] ELSE Addressee(e)

RequestsUpTo(n) == {k \in 1 .. n : IsRequest(protocol_events[k])}
RequestsOf(side, ip, n) ==
  {k \in RequestsUpTo(n) : PartyOf(side, protocol_events[k]) = ip}
UnitsAsked(ip, n) ==
  {UnitIdOf[PayloadOf(protocol_events[k])] :
     k \in {j \in RequestsOf(2, ip, n) : protocol_events[j].protocol = ModbusTcp}}

Tallied ==
  \A ip \in IP :
    /\ requests_sent[ip] = Cardinality(RequestsOf(1, ip, EventsCounted))
    /\ requests_received[ip] = Cardinality(RequestsOf(2, ip, EventsCounted))
    /\ unit_ids_by_server[ip] = UnitsAsked(ip, EventsCounted)

(***************************************************************************)
(* The hosts are the addresses visited so far, each once and in the order  *)
(* of their first visit.                                                   *)
(***************************************************************************)
VisitedBy(n) == {Visited(m)[1] : m \in 1 .. n}

MetInOrder ==
  /\ \A ip \in IP : Met(ip) <=> ip \in Hosts
  /\ Hosts = VisitedBy(VisitsMade)
  /\ Len(host_order) = Cardinality(Hosts)
  /\ \A i, j \in 1 .. Len(host_order) : host_order[i] = host_order[j] => i = j
  /\ \A n \in 0 .. VisitsMade :
       VisitedBy(n) = {host_order[i] : i \in 1 .. Cardinality(VisitedBy(n))}

(***************************************************************************)
(* The layer two address that an entry was made with is that of the first  *)
(* visit, and it stands as long as no visit contests it.  The other fields of an  *)
(* entry are those it was made with.                                       *)
(***************************************************************************)
ContestedBy(ip, n) ==
  /\ first_mac[ip] # Unknown
  /\ \E m \in 1 .. n : /\ Visited(m)[1] = ip
                       /\ Visited(m)[2] \notin {Unknown, first_mac[ip]}

FirstVisit(n, ip, mac) == Visited(n) = <<ip, mac>> /\ ip \notin VisitedBy(n - 1)

MacsSeen ==
  \A ip \in Hosts :
    /\ \E n \in 1 .. VisitsMade : FirstVisit(n, ip, first_mac[ip])
    /\ hosts[ip].mac = IF ContestedBy(ip, VisitsMade) THEN Unknown ELSE first_mac[ip]

Described ==
  \A ip \in Hosts : hosts[ip] = [Entry(ip, first_mac[ip]) EXCEPT !.mac = hosts[ip].mac]

\* The evidence of the hosts adds up to the requests they took part in.
EvidenceOf(side) ==
  [i \in DOMAIN host_order |-> hosts[host_order[i]].evidence[side]]

PartIn(side) ==
  {k \in RequestsUpTo(Len(protocol_events)) : PartyOf(side, protocol_events[k]) \in Hosts}

Summed == \A side \in Side : SumFunction(EvidenceOf(side)) = Cardinality(PartIn(side))

InventoryInv ==
  /\ DissectInv
  /\ InventoryTypeOK
  /\ Progress
  /\ Tallied
  /\ MetInOrder
  /\ MacsSeen
  /\ Described
  /\ Summed

-----------------------------------------------------------------------------
(***************************************************************************)
(* The invariant is inductive.                                             *)
(***************************************************************************)

\* What the loops visit: events with two parties, and ends of segments with
\* an address each.
LEMMA EventsHaveParties ==
  ASSUME DissectInv, NEW k \in 1 .. Len(protocol_events)
  PROVE  /\ protocol_events[k] \in Event("high") /\ protocol_events[k] \in HighEvents
         /\ \A side \in Side : PartyOf(side, protocol_events[k]) \in IP
         /\ \E i \in 1 .. Len(segments) :
              /\ protocol_events[k].packet_number = segments[i].packet_number
              /\ packets[protocol_events[k].packet_number] = FrameOf(segments[i])
              /\ Recognises(protocol_events[k].protocol, SegmentPayload(i))
              /\ PayloadOf(protocol_events[k]) = SegmentPayload(i)
  <1>1. DissectTypeOK /\ SessionInv /\ TypeInv /\ SessionTypeOK
    BY DEF DissectInv, SessionInv, TypeInv
  <1>2. protocol_events \in Seq(Event("high"))
    BY <1>1 DEF DissectTypeOK
  <1>3. protocol_events[k] \in Event("high") /\ protocol_events[k] \in HighEvents
    BY <1>2 DEF HighEvents, Reported
  <1>4. PICK t \in 1 .. 5, i \in 1 .. Len(segments) : StemsFrom(protocol_events[k], t, i)
    BY <1>3 DEF DissectInv, Filed, Events
  <1>5. FrameOf(segments[i]) \in Frames
    BY <1>1, SegmentType
  <1>6. /\ packets[protocol_events[k].packet_number] = FrameOf(segments[i])
        /\ PayloadOf(protocol_events[k]) = SegmentPayload(i)
    BY <1>4 DEF StemsFrom, FrameOf, PayloadOf, SegmentPayload
  <1>7. FrameOf(segments[i]).src \in Endpoint /\ FrameOf(segments[i]).dst \in Endpoint
    BY <1>5, FrameAssumption
  <1>8. \A side \in Side : PartyOf(side, protocol_events[k]) \in IP
    BY <1>6, <1>7, InventoryAssumption DEF PartyOf, Addressee, SenderOf
  <1> QED
    BY <1>3, <1>4, <1>6, <1>8 DEF StemsFrom

LEMMA VisitsAreEnds ==
  ASSUME DissectInv, NEW n \in 1 .. 2 * Len(segments)
  PROVE  /\ Visited(n)[1] \in IP /\ Visited(n)[2] \in Mac \cup {Unknown}
         /\ Visited(n) = <<Visited(n)[1], Visited(n)[2]>>
         /\ \E i \in 1 .. Len(segments) :
              \/ n = 2 * i - 1 /\ Visited(n) = <<IpOf[FrameOf(segments[i]).src],
                                                 FrameOf(segments[i]).src_mac>>
              \/ n = 2 * i /\ Visited(n) = <<IpOf[FrameOf(segments[i]).dst],
                                             FrameOf(segments[i]).dst_mac>>
  <1>1. DissectTypeOK /\ SessionInv /\ TypeInv /\ SessionTypeOK
    BY DEF DissectInv, SessionInv, TypeInv
  <1>2. Len(segments) \in Nat
    BY <1>1 DEF SessionTypeOK
  <1>3. PICK i \in 1 .. Len(segments) :
          /\ i = (n + 1) \div 2
          /\ (n = 2 * i - 1 /\ n % 2 = 1) \/ (n = 2 * i /\ n % 2 # 1)
    BY <1>2
  <1>4. FrameOf(segments[i]) \in Frames
    BY <1>1, SegmentType
  <1>5. FrameOf(segments[i]).src \in Endpoint /\ FrameOf(segments[i]).dst \in Endpoint
    BY <1>4, FrameAssumption
  <1>6. /\ FrameOf(segments[i]).src_mac \in Mac \cup {Unknown}
        /\ FrameOf(segments[i]).dst_mac \in Mac \cup {Unknown}
    BY <1>4, InventoryAssumption
  <1>7. \/ n = 2 * i - 1 /\ Visited(n) = <<IpOf[FrameOf(segments[i]).src],
                                           FrameOf(segments[i]).src_mac>>
        \/ n = 2 * i /\ Visited(n) = <<IpOf[FrameOf(segments[i]).dst],
                                       FrameOf(segments[i]).dst_mac>>
    BY <1>3 DEF Visited
  <1> QED
    BY <1>5, <1>6, <1>7, InventoryAssumption

\* Each end of a segment is visited.
LEMMA EndsAreVisited ==
  ASSUME DissectInv, NEW i \in 1 .. Len(segments)
  PROVE  /\ 2 * i - 1 \in 1 .. 2 * Len(segments) /\ 2 * i \in 1 .. 2 * Len(segments)
         /\ Visited(2 * i - 1) = <<IpOf[FrameOf(segments[i]).src],
                                   FrameOf(segments[i]).src_mac>>
         /\ Visited(2 * i) = <<IpOf[FrameOf(segments[i]).dst],
                               FrameOf(segments[i]).dst_mac>>
  <1>1. Len(segments) \in Nat
    BY DEF DissectInv, SessionInv, TypeInv, SessionTypeOK
  <1>2. /\ ((2 * i - 1) + 1) \div 2 = i /\ (2 * i - 1) % 2 = 1
        /\ (2 * i + 1) \div 2 = i /\ (2 * i) % 2 # 1
        /\ 2 * i - 1 \in 1 .. 2 * Len(segments) /\ 2 * i \in 1 .. 2 * Len(segments)
    BY <1>1
  <1> QED
    BY <1>2 DEF Visited

\* The sequences the loops go through.
LEMMA InventoryStanding ==
  ASSUME InventoryInv
  PROVE  /\ DissectInv /\ InventoryTypeOK
         /\ Len(segments) \in Nat /\ Len(protocol_events) \in Nat
         /\ host_order \in Seq(IP) /\ Len(host_order) \in Nat
         /\ DOMAIN host_order = 1 .. Len(host_order)
         /\ next \in Nat \ {0}
         /\ EventsCounted \in 0 .. Len(protocol_events)
         /\ VisitsMade \in 0 .. 2 * Len(segments)
         /\ Hosts \subseteq IP
  <1>1. DissectInv /\ InventoryTypeOK /\ Progress
    BY DEF InventoryInv
  <1>2. Len(segments) \in Nat
    BY <1>1 DEF DissectInv, SessionInv, TypeInv, SessionTypeOK
  <1>3. Len(protocol_events) \in Nat
    BY <1>1 DEF DissectInv, DissectTypeOK
  <1>4. host_order \in Seq(IP) /\ next \in Nat \ {0} /\ loop \in {"events", "segments", "listed"}
    BY <1>1 DEF InventoryTypeOK
  <1>5. EventsCounted \in 0 .. Len(protocol_events) /\ VisitsMade \in 0 .. 2 * Len(segments)
    BY <1>1, <1>2, <1>3, <1>4 DEF EventsCounted, VisitsMade, Progress
  <1> QED
    BY <1>1, <1>2, <1>3, <1>4, <1>5 DEF Hosts

LEMMA NotListingInv ==
  DissectInv /\ NotListing => InventoryInv
  <1> SUFFICES ASSUME DissectInv, NotListing PROVE InventoryInv
    OBVIOUS
  <1> USE DEF NotListing
  <1>1. EventsCounted = 0 /\ VisitsMade = 0 /\ Len(protocol_events) \in Nat
    BY DEF EventsCounted, VisitsMade, DissectInv, DissectTypeOK
  <1>2. Hosts = {} /\ DOMAIN host_order = {} /\ Len(host_order) = 0
    BY DEF Hosts
  <1>3. InventoryTypeOK
    <2>1. DissectTypeOK /\ host_order \in Seq(IP) /\ 1 \in Nat \ {0}
      BY EmptySeq DEF DissectInv
    <2>2. requests_sent \in [IP -> Nat] /\ requests_received \in [IP -> Nat]
      OBVIOUS
    <2>3. /\ first_mac \in [IP -> Mac \cup {Unknown}] /\ DOMAIN hosts = IP
          /\ unit_ids_by_server \in [IP -> SUBSET Range(UnitIdOf)]
      OBVIOUS
    <2> QED
      BY <2>1, <2>2, <2>3 DEF InventoryTypeOK, Met
  <1>4. Progress
    BY <1>1 DEF Progress
  <1>5. RequestsUpTo(0) = {}
    BY DEF RequestsUpTo
  <1>6. Cardinality({}) = 0
    BY FS_EmptySet
  <1>7. Tallied
    BY <1>1, <1>5, <1>6 DEF Tallied, RequestsOf, UnitsAsked
  <1>8. MetInOrder
    <2>1. VisitedBy(0) = {}
      BY DEF VisitedBy
    <2>2. ASSUME NEW n \in 0 .. VisitsMade
          PROVE  VisitedBy(n) = {host_order[i] : i \in 1 .. Cardinality(VisitedBy(n))}
      <3>1. n = 0
        BY <1>1
      <3>2. 1 .. 0 = {}
        OBVIOUS
      <3> QED
        BY <1>6, <2>1, <3>1, <3>2
    <2>3. \A ip \in IP : ~Met(ip)
      BY DEF Met
    <2> QED
      BY <1>1, <1>2, <1>6, <2>1, <2>2, <2>3 DEF MetInOrder
  <1>9. MacsSeen /\ Described
    BY <1>2 DEF MacsSeen, Described
  <1>10. Summed
    <2>1. ASSUME NEW side \in Side PROVE SumFunction(EvidenceOf(side)) = 0
      <3>1. EvidenceOf(side) \in [{} -> Int]
        BY <1>2 DEF EvidenceOf
      <3> QED
        BY <3>1, SumEmpty
    <2>2. \A side \in Side : PartIn(side) = {}
      BY <1>2 DEF PartIn
    <2> QED
      BY <1>6, <2>1, <2>2 DEF Summed
  <1> QED
    BY <1>3, <1>4, <1>7, <1>8, <1>9, <1>10 DEF InventoryInv

LEMMA InventoryInvInit == InventoryInit => InventoryInv
  BY DissectInvInit, NotListingInv DEF InventoryInit, NotListing

LEMMA DissectingKeepsInventory ==
  ASSUME InventoryInv, DissectNext, UNCHANGED inventoryVars
  PROVE  InventoryInv'
  <1>1. DissectInv'
    BY DissectInvNext DEF InventoryInv
  <1>2. ~sorted
    BY DissectedOnce DEF InventoryInv
  <1>3. NotListing'
    BY <1>2 DEF InventoryInv, Progress, NotListing, inventoryVars
  <1>4. (DissectInv /\ NotListing => InventoryInv)'
    BY NotListingInv, PTL
  <1> QED
    BY <1>1, <1>3, <1>4

\* What the loops do not touch keeps its meaning.
LEMMA InventoryStable ==
  ASSUME UNCHANGED allDissectVars
  PROVE  /\ UNCHANGED <<packets, segments, protocol_events, sorted>>
         /\ \A n : Visited(n)' = Visited(n) /\ VisitedBy(n)' = VisitedBy(n)
         /\ \A n : RequestsUpTo(n)' = RequestsUpTo(n)
         /\ \A side, e : PartyOf(side, e)' = PartyOf(side, e)
         /\ \A side, ip, n : RequestsOf(side, ip, n)' = RequestsOf(side, ip, n)
         /\ \A ip, n : UnitsAsked(ip, n)' = UnitsAsked(ip, n)
         /\ DissectInv => DissectInv'
         /\ DissectTypeOK => DissectTypeOK'
  <1>1. UNCHANGED <<packets, segments, protocol_events, sorted>>
    BY DEF allDissectVars, sessionVars, dissectVars
  <1>2. \A n : Visited(n)' = Visited(n)
    BY <1>1 DEF Visited, FrameOf
  <1>3. \A n : VisitedBy(n)' = VisitedBy(n)
    BY <1>2 DEF VisitedBy
  <1>4. \A n : RequestsUpTo(n)' = RequestsUpTo(n)
    BY <1>1 DEF RequestsUpTo
  <1>5. \A side, e : PartyOf(side, e)' = PartyOf(side, e)
    BY <1>1 DEF PartyOf, SenderOf, Addressee
  <1>6. \A side, ip, n : RequestsOf(side, ip, n)' = RequestsOf(side, ip, n)
    BY <1>1, <1>4, <1>5 DEF RequestsOf
  <1>7. \A ip, n : UnitsAsked(ip, n)' = UnitsAsked(ip, n)
    BY <1>1, <1>6 DEF UnitsAsked, PayloadOf
  <1>8. DissectInv => DissectInv'
    BY DissectInvNext
  <1>9. DissectTypeOK => DissectTypeOK'
    BY DEF DissectTypeOK, SessionTypeOK, allDissectVars, sessionVars, dissectVars
  <1> QED
    BY <1>1, <1>2, <1>3, <1>4, <1>5, <1>6, <1>7, <1>8, <1>9

\* What one more event adds to the requests of a party and to its units.
LEMMA OneMoreEvent ==
  ASSUME DissectInv, NEW n \in 1 .. Len(protocol_events), NEW ip \in IP
  PROVE  LET e == protocol_events[n]
             concerns(side) == IsRequest(e) /\ PartyOf(side, e) = ip
         IN  /\ \A side \in Side :
                  Cardinality(RequestsOf(side, ip, n)) =
                    IF concerns(side) THEN Cardinality(RequestsOf(side, ip, n - 1)) + 1
                    ELSE Cardinality(RequestsOf(side, ip, n - 1))
             /\ UnitsAsked(ip, n) =
                  IF concerns(2) /\ e.protocol = ModbusTcp
                  THEN UnitsAsked(ip, n - 1) \cup {UnitIdOf[PayloadOf(e)]}
                  ELSE UnitsAsked(ip, n - 1)
  <1> DEFINE e == protocol_events[n]
             concerns(side) == IsRequest(e) /\ PartyOf(side, e) = ip
  <1>1. n \in Nat /\ n - 1 \in Nat
    BY DEF DissectInv, DissectTypeOK
  <1>2. 1 .. n = (1 .. n - 1) \cup {n} /\ n \notin 1 .. n - 1
    BY <1>1
  <1>3. \A side : RequestsOf(side, ip, n) =
                    IF concerns(side) THEN RequestsOf(side, ip, n - 1) \cup {n}
                    ELSE RequestsOf(side, ip, n - 1)
    BY <1>2 DEF RequestsOf, RequestsUpTo
  <1>4. \A side : /\ n \notin RequestsOf(side, ip, n - 1)
                  /\ IsFiniteSet(RequestsOf(side, ip, n - 1))
    <2>1. \A side : RequestsOf(side, ip, n - 1) \subseteq 1 .. n - 1
      BY DEF RequestsOf, RequestsUpTo
    <2> QED
      BY <1>1, <1>2, <2>1, FinitePositions
  <1>5. \A side : concerns(side) => Cardinality(RequestsOf(side, ip, n)) =
                                      Cardinality(RequestsOf(side, ip, n - 1)) + 1
    BY <1>3, <1>4, OneMore
  <1>6. UnitsAsked(ip, n) =
          IF concerns(2) /\ e.protocol = ModbusTcp
          THEN UnitsAsked(ip, n - 1) \cup {UnitIdOf[PayloadOf(e)]}
          ELSE UnitsAsked(ip, n - 1)
    BY <1>3 DEF UnitsAsked
  <1> QED
    BY <1>3, <1>5, <1>6

\* The counters after a step are those of one event more.
LEMMA CountTallies ==
  ASSUME InventoryInv, CountRequest
  PROVE  Tallied' /\ InventoryTypeOK'
  <1> DEFINE e == protocol_events[next]
             src == IpOf[SenderOf(e)]
             dst == Addressee(e)
  <1>0. UNCHANGED allDissectVars /\ UNCHANGED <<loop, oui_table, first_mac, hosts, host_order>>
        /\ next' = next + 1 /\ loop = "events" /\ next <= Len(protocol_events)
    BY DEF CountRequest
  <1>s. InventoryTypeOK /\ DissectInv /\ Len(protocol_events) \in Nat /\ next \in Nat \ {0}
    BY InventoryStanding
  <1>1. next \in 1 .. Len(protocol_events) /\ EventsCounted = next - 1
        /\ EventsCounted' = next
    BY <1>0, <1>s DEF EventsCounted
  <1>2. /\ src = PartyOf(1, e) /\ src \in IP /\ dst = PartyOf(2, e) /\ dst \in IP
    BY <1>1, <1>s, EventsHaveParties DEF PartyOf, Side
  <1>3. e.protocol = ModbusTcp => UnitIdOf[PayloadOf(e)] \in Range(UnitIdOf)
    <2>1. e.protocol = ModbusTcp => PayloadOf(e) \in Shape[ModbusTcp]
      BY <1>1, <1>s, EventsHaveParties, Confidences DEF Recognises
    <2> QED
      BY <2>1, InventoryAssumption DEF Range
  <1>4. IF IsRequest(e)
        THEN /\ unit_ids_by_server' =
                  IF e.protocol = ModbusTcp
                  THEN [unit_ids_by_server EXCEPT
                          ![dst] = unit_ids_by_server[dst] \cup {UnitIdOf[PayloadOf(e)]}]
                  ELSE unit_ids_by_server
             /\ requests_sent' = [requests_sent EXCEPT ![src] = requests_sent[src] + 1]
             /\ requests_received' =
                  [requests_received EXCEPT ![dst] = requests_received[dst] + 1]
        ELSE UNCHANGED <<unit_ids_by_server, requests_sent, requests_received>>
    BY DEF CountRequest
  <1>5. /\ unit_ids_by_server \in [IP -> SUBSET Range(UnitIdOf)]
        /\ requests_sent \in [IP -> Nat] /\ requests_received \in [IP -> Nat]
    BY <1>s DEF InventoryTypeOK
  <1>6. InventoryTypeOK'
    <2>1. /\ requests_sent' \in [IP -> Nat] /\ requests_received' \in [IP -> Nat]
      BY <1>2, <1>4, <1>5
    <2>2. unit_ids_by_server' \in [IP -> SUBSET Range(UnitIdOf)]
      BY <1>2, <1>3, <1>4, <1>5
    <2>3. next' \in Nat \ {0} /\ DissectTypeOK'
      BY <1>0, <1>s, InventoryStable DEF InventoryTypeOK
    <2> QED
      BY <1>0, <1>s, <2>1, <2>2, <2>3 DEF InventoryTypeOK, Met
  <1>7. ASSUME NEW ip \in IP
        PROVE  /\ requests_sent'[ip] = Cardinality(RequestsOf(1, ip, next))
               /\ requests_received'[ip] = Cardinality(RequestsOf(2, ip, next))
               /\ unit_ids_by_server'[ip] = UnitsAsked(ip, next)
    <2>1. /\ requests_sent[ip] = Cardinality(RequestsOf(1, ip, next - 1))
          /\ requests_received[ip] = Cardinality(RequestsOf(2, ip, next - 1))
          /\ unit_ids_by_server[ip] = UnitsAsked(ip, next - 1)
      BY <1>1 DEF InventoryInv, Tallied
    <2>2. \A side \in Side :
            Cardinality(RequestsOf(side, ip, next)) =
              IF IsRequest(e) /\ PartyOf(side, e) = ip
              THEN Cardinality(RequestsOf(side, ip, next - 1)) + 1
              ELSE Cardinality(RequestsOf(side, ip, next - 1))
      BY <1>1, <1>s, OneMoreEvent
    <2>3. UnitsAsked(ip, next) =
            IF IsRequest(e) /\ PartyOf(2, e) = ip /\ e.protocol = ModbusTcp
            THEN UnitsAsked(ip, next - 1) \cup {UnitIdOf[PayloadOf(e)]}
            ELSE UnitsAsked(ip, next - 1)
      BY <1>1, <1>s, OneMoreEvent
    <2>4. 1 \in Side /\ 2 \in Side
      BY DEF Side
    <2> HIDE DEF e, src, dst
    <2>5. requests_sent'[ip] = Cardinality(RequestsOf(1, ip, next))
      BY <1>2, <1>4, <1>5, <2>1, <2>2, <2>4
    <2>6. requests_received'[ip] = Cardinality(RequestsOf(2, ip, next))
      BY <1>2, <1>4, <1>5, <2>1, <2>2, <2>4
    <2>7. unit_ids_by_server'[ip] = UnitsAsked(ip, next)
      <3>1. CASE IsRequest(e) /\ e.protocol = ModbusTcp
        <4>1. unit_ids_by_server' =
                [unit_ids_by_server EXCEPT
                   ![dst] = unit_ids_by_server[dst] \cup {UnitIdOf[PayloadOf(e)]}]
          BY <1>4, <3>1
        <4> QED
          BY <1>2, <1>5, <2>1, <2>3, <3>1, <4>1
      <3>2. CASE ~(IsRequest(e) /\ e.protocol = ModbusTcp)
        <4>1. unit_ids_by_server' = unit_ids_by_server
          BY <1>4, <3>2
        <4> QED
          BY <2>1, <2>3, <3>2, <4>1
      <3> QED
        BY <3>1, <3>2
    <2> QED
      BY <2>5, <2>6, <2>7
  <1>8. Tallied'
    BY <1>0, <1>1, <1>7, InventoryStable DEF Tallied
  <1> QED
    BY <1>6, <1>8

LEMMA CountKeepsInventory ==
  ASSUME InventoryInv, CountRequest
  PROVE  InventoryInv'
  <1>0. UNCHANGED allDissectVars /\ UNCHANGED <<loop, oui_table, first_mac, hosts, host_order>>
        /\ next' = next + 1 /\ loop = "events" /\ next <= Len(protocol_events) /\ sorted
    BY DEF CountRequest
  <1>1. DissectInv' /\ Tallied' /\ InventoryTypeOK'
    BY <1>0, CountTallies, InventoryStable DEF InventoryInv
  <1>2. host_order = <<>> /\ Hosts = {} /\ Hosts' = Hosts /\ VisitsMade = 0
        /\ VisitsMade' = VisitsMade
    BY <1>0 DEF InventoryInv, Progress, Hosts, VisitsMade
  <1>3. Progress'
    <2>1. next \in Nat /\ Len(protocol_events) \in Nat
      BY InventoryStanding
    <2> QED
      BY <1>0, <1>2, <2>1, InventoryStable DEF Progress
  <1>4. MetInOrder'
    <2>1. Hosts' = Hosts /\ VisitsMade' = VisitsMade /\ MetInOrder
      BY <1>2 DEF InventoryInv
    <2> QED
      BY <1>0, <2>1, InventoryStable DEF MetInOrder, Met
  <1>5. MacsSeen' /\ Described'
    BY <1>2 DEF MacsSeen, Described
  <1>6. Summed'
    <2>1. \A side : EvidenceOf(side)' = EvidenceOf(side)
      BY <1>0 DEF EvidenceOf
    <2>2. \A side : PartIn(side)' = PartIn(side)
      BY <1>0, <1>2, InventoryStable DEF PartIn
    <2> QED
      BY <2>1, <2>2 DEF InventoryInv, Summed
  <1> QED
    BY <1>1, <1>3, <1>4, <1>5, <1>6 DEF InventoryInv

\* Entering the next loop changes neither what was counted nor what was
\* visited.
LEMMA EndLoopKeepsInventory ==
  ASSUME InventoryInv,
         \/ EndLoop("events", "segments", Len(protocol_events))
         \/ EndLoop("segments", "listed", 2 * Len(segments))
         \/ UNCHANGED allInventoryVars
  PROVE  InventoryInv'
  <1>s. Len(segments) \in Nat /\ Len(protocol_events) \in Nat /\ next \in Nat \ {0}
    BY InventoryStanding
  <1>0. /\ UNCHANGED allDissectVars
        /\ UNCHANGED <<oui_table, unit_ids_by_server, requests_sent, requests_received,
                       first_mac, hosts, host_order>>
    BY DEF EndLoop, allInventoryVars, inventoryVars
  <1>1. \/ /\ loop = "events" /\ loop' = "segments" /\ next' = 1
           /\ next > Len(protocol_events) /\ sorted
        \/ /\ loop = "segments" /\ loop' = "listed" /\ next' = 1
           /\ next > 2 * Len(segments) /\ sorted
        \/ loop' = loop /\ next' = next
    BY DEF EndLoop, allInventoryVars, inventoryVars
  <1>2. Progress /\ InventoryTypeOK /\ DissectInv
    BY DEF InventoryInv
  <1>3. EventsCounted' = EventsCounted
    BY <1>0, <1>1, <1>2, <1>s, InventoryStable DEF EventsCounted, Progress
  <1>4. VisitsMade' = VisitsMade
    BY <1>0, <1>1, <1>2, <1>s, InventoryStable DEF VisitsMade, Progress
  <1>5. Hosts' = Hosts /\ DissectInv' /\ DissectTypeOK'
    BY <1>0, <1>2, InventoryStable DEF Hosts, InventoryTypeOK
  <1>6. InventoryTypeOK'
    BY <1>0, <1>1, <1>2, <1>5 DEF InventoryTypeOK, Met
  <1>7. Progress'
    <2>1. CASE loop' = loop /\ next' = next
      BY <1>0, <1>2, <2>1, InventoryStable DEF Progress, NotListing
    <2>2. CASE ~(loop' = loop /\ next' = next)
      <3>1. sorted' /\ loop' # "events" /\ next' = 1
        BY <1>0, <1>1, <2>2, InventoryStable
      <3>2. 1 <= 2 * Len(segments') + 1
        BY <1>0, <1>s, InventoryStable
      <3> QED
        BY <3>1, <3>2 DEF Progress
    <2> QED
      BY <2>1, <2>2
  <1>8. Tallied'
    BY <1>0, <1>3, InventoryStable DEF InventoryInv, Tallied
  <1>9. MetInOrder'
    BY <1>0, <1>4, <1>5, InventoryStable DEF InventoryInv, MetInOrder, Met
  <1>10. MacsSeen' /\ Described'
    <2>1. \A ip : ContestedBy(ip, VisitsMade)' <=> ContestedBy(ip, VisitsMade)
      BY <1>0, <1>4, InventoryStable DEF ContestedBy
    <2>2. \A ip, mac : Entry(ip, mac)' = Entry(ip, mac)
      BY <1>0 DEF Entry, Vendor, LookupVendor
    <2>3. \A n, ip, mac : FirstVisit(n, ip, mac)' <=> FirstVisit(n, ip, mac)
      BY <1>0, InventoryStable DEF FirstVisit
    <2>4. MacsSeen'
      BY <1>0, <1>4, <1>5, <2>1, <2>3 DEF InventoryInv, MacsSeen
    <2>5. Described'
      BY <1>0, <1>5, <2>2 DEF InventoryInv, Described
    <2> QED
      BY <2>4, <2>5
  <1>11. Summed'
    <2>1. \A side : EvidenceOf(side)' = EvidenceOf(side)
      BY <1>0 DEF EvidenceOf
    <2>2. \A side : PartIn(side)' = PartIn(side)
      BY <1>0, <1>5, InventoryStable DEF PartIn
    <2> QED
      BY <2>1, <2>2 DEF InventoryInv, Summed
  <1> QED
    BY <1>5, <1>6, <1>7, <1>8, <1>9, <1>10, <1>11 DEF InventoryInv

\* The entry of a host, whatever becomes of its layer two address.
EntryWith(ip, m) == [Entry(ip, first_mac[ip]) EXCEPT !.mac = m]

\* A new entry has the address it was made with.
LEMMA NewEntry ==
  ASSUME NEW ip, NEW mac
  PROVE  Entry(ip, mac) = [Entry(ip, mac) EXCEPT !.mac = mac]
  <1>1. Entry(ip, mac).mac = mac /\ Entry(ip, mac) = [x \in DOMAIN Entry(ip, mac) |-> Entry(ip, mac)[x]]
    BY DEF Entry
  <1> QED
    BY <1>1

\* The fields of a listed host in a state of the invariant.
LEMMA HostFields ==
  ASSUME InventoryInv, NEW ip \in Hosts
  PROVE  /\ hosts[ip] # NoHost
         /\ hosts[ip].oui_vendor = Vendor(first_mac[ip])
         /\ hosts[ip].unit_ids = unit_ids_by_server[ip]
         /\ hosts[ip].gateway = (Cardinality(unit_ids_by_server[ip]) > 1)
         /\ hosts[ip].evidence = <<requests_sent[ip], requests_received[ip]>>
         /\ \A x : [hosts[ip] EXCEPT !.mac = x] = EntryWith(ip, x)
  <1>1. hosts[ip] = [Entry(ip, first_mac[ip]) EXCEPT !.mac = hosts[ip].mac]
    BY DEF InventoryInv, Described
  <1>2. PICK h, mac, m : /\ h = hosts[ip] /\ mac = first_mac[ip]
                         /\ h = [Entry(ip, mac) EXCEPT !.mac = m]
    BY <1>1
  <1>3. /\ h.oui_vendor = Vendor(mac)
        /\ h.unit_ids = unit_ids_by_server[ip]
        /\ h.gateway = (Cardinality(unit_ids_by_server[ip]) > 1)
        /\ h.evidence = <<requests_sent[ip], requests_received[ip]>>
        /\ h.listed = TRUE
    BY <1>2 DEF Entry
  <1>4. h # NoHost
    BY <1>3 DEF NoHost
  <1>5. \A x : [h EXCEPT !.mac = x] = [Entry(ip, mac) EXCEPT !.mac = x]
    BY <1>2 DEF Entry
  <1> QED
    BY <1>2, <1>3, <1>4, <1>5 DEF EntryWith

\* What a visit leaves alone.
LEMMA VisitFrame ==
  ASSUME InventoryInv, Visit
  PROVE  /\ UNCHANGED allDissectVars
         /\ UNCHANGED <<loop, oui_table, unit_ids_by_server, requests_sent,
                        requests_received>>
         /\ sorted /\ loop = "segments" /\ next' = next + 1
         /\ next \in 1 .. 2 * Len(segments)
         /\ VisitsMade = next - 1 /\ VisitsMade' = next
         /\ EventsCounted = Len(protocol_events) /\ EventsCounted' = EventsCounted
         /\ Visited(next)[1] \in IP /\ Visited(next)[2] \in Mac \cup {Unknown}
         /\ Visited(next) = <<Visited(next)[1], Visited(next)[2]>>
         /\ Met(Visited(next)[1]) <=> Visited(next)[1] \in Hosts
  <1>1. /\ UNCHANGED allDissectVars
        /\ UNCHANGED <<loop, oui_table, unit_ids_by_server, requests_sent,
                       requests_received>>
        /\ sorted /\ loop = "segments" /\ next' = next + 1
        /\ next <= 2 * Len(segments)
    BY DEF Visit
  <1>2. next \in 1 .. 2 * Len(segments) /\ DissectInv
    BY <1>1, InventoryStanding
  <1>3. VisitsMade = next - 1 /\ VisitsMade' = next
    BY <1>1, <1>2 DEF VisitsMade
  <1>4. EventsCounted = Len(protocol_events) /\ EventsCounted' = EventsCounted
    BY <1>1, InventoryStable DEF EventsCounted
  <1>5. /\ Visited(next)[1] \in IP /\ Visited(next)[2] \in Mac \cup {Unknown}
        /\ Visited(next) = <<Visited(next)[1], Visited(next)[2]>>
    BY <1>2, VisitsAreEnds
  <1>6. Met(Visited(next)[1]) <=> Visited(next)[1] \in Hosts
    BY <1>5 DEF InventoryInv, MetInOrder
  <1> QED
    BY <1>1, <1>2, <1>3, <1>4, <1>5, <1>6

\* The first visit to an address, and a later one.
Meets(ip, mac) ==
  /\ ~Met(ip)
  /\ host_order' = Append(host_order, ip)
  /\ first_mac' = [first_mac EXCEPT ![ip] = mac]
  /\ hosts' = [hosts EXCEPT ![ip] = Entry(ip, mac)]

MeetsAgain(ip, mac) ==
  /\ Met(ip)
  /\ hosts' = [hosts EXCEPT ![ip] = [hosts[ip] EXCEPT !.mac = MacAfter(ip, mac)]]
  /\ UNCHANGED <<host_order, first_mac>>

LEMMA TwoKindsOfVisit ==
  ASSUME InventoryInv, Visit
  PROVE  \/ Meets(Visited(next)[1], Visited(next)[2])
         \/ MeetsAgain(Visited(next)[1], Visited(next)[2])
  BY DEF Visit, Meets, MeetsAgain

\* The hosts after a visit.
LEMMA VisitHosts ==
  ASSUME InventoryInv, Visit
  PROVE  LET ip == Visited(next)[1]
         IN  /\ Hosts' = Hosts \cup {ip}
             /\ host_order' \in Seq(IP)
             /\ ip \notin Hosts =>
                  /\ Len(host_order') = Len(host_order) + 1
                  /\ host_order'[Len(host_order) + 1] = ip
                  /\ \A i \in 1 .. Len(host_order) : host_order'[i] = host_order[i]
             /\ ip \in Hosts => host_order' = host_order
             /\ VisitedBy(next) = VisitedBy(next - 1) \cup {ip}
             /\ IsFiniteSet(Hosts)
             /\ \A j \in Hosts : first_mac'[j] = first_mac[j]
             /\ DOMAIN hosts' = IP
             /\ \A j \in IP : j # ip => hosts'[j] = hosts[j]
  <1> DEFINE ip == Visited(next)[1]
             mac == Visited(next)[2]
  <1>s. /\ host_order \in Seq(IP) /\ Len(host_order) \in Nat
        /\ DOMAIN host_order = 1 .. Len(host_order) /\ InventoryTypeOK
    BY InventoryStanding
  <1>v. /\ ip \in IP /\ next \in Nat \ {0} /\ (Met(ip) <=> ip \in Hosts)
        /\ mac \in Mac \cup {Unknown}
    BY VisitFrame, InventoryStanding
  <1>1. Meets(ip, mac) \/ MeetsAgain(ip, mac)
    BY TwoKindsOfVisit
  <1> HIDE DEF ip, mac
  <1>2. Hosts = Range(host_order)
    BY DEF Hosts, Range
  <1>3. IsFiniteSet(Hosts)
    <2>1. IsFiniteSet(1 .. Len(host_order))
      BY <1>s, FS_Interval
    <2>2. host_order \in Surjection(1 .. Len(host_order), Hosts)
      BY <1>s DEF Surjection, Hosts
    <2> QED
      BY <2>1, <2>2, FS_Surjection
  <1>4. VisitedBy(next) = VisitedBy(next - 1) \cup {ip}
    <2>1. 1 .. next = (1 .. next - 1) \cup {next}
      BY <1>v
    <2> QED
      BY <2>1 DEF VisitedBy, ip
  <1>5. DOMAIN hosts = IP /\ first_mac \in [IP -> Mac \cup {Unknown}]
    BY <1>s DEF InventoryTypeOK
  <1>6. CASE Meets(ip, mac)
    <2>1. host_order' = Append(host_order, ip) /\ ip \notin Hosts
      BY <1>6, <1>v DEF Meets
    <2>2. Hosts' = Hosts \cup {ip}
      BY <1>s, <1>2, <2>1, RangeAppend DEF Hosts, Range
    <2>3. /\ host_order' \in Seq(IP) /\ Len(host_order') = Len(host_order) + 1
          /\ host_order'[Len(host_order) + 1] = ip
          /\ \A i \in 1 .. Len(host_order) : host_order'[i] = host_order[i]
      BY <1>s, <1>v, <2>1
    <2>4. Hosts \subseteq IP
      BY <1>s DEF Hosts
    <2> QED
      BY <1>3, <1>4, <1>5, <1>6, <2>1, <2>2, <2>3, <2>4 DEF Meets, ip
  <1>7. CASE MeetsAgain(ip, mac)
    <2>1. host_order' = host_order /\ first_mac' = first_mac /\ ip \in Hosts
      BY <1>7, <1>v DEF MeetsAgain
    <2>2. Hosts' = Hosts \cup {ip}
      BY <2>1 DEF Hosts
    <2> QED
      BY <1>s, <1>3, <1>4, <1>5, <1>7, <2>1, <2>2 DEF MeetsAgain, ip
  <1> QED
    BY <1>1, <1>6, <1>7

\* The addresses stay in the order of their first visit.
LEMMA VisitKeepsOrder ==
  ASSUME InventoryInv, Visit
  PROVE  MetInOrder'
  <1> DEFINE ip == Visited(next)[1]
             len == Len(host_order)
  <1>0. MetInOrder /\ next \in Nat \ {0} /\ len \in Nat
        /\ DOMAIN host_order = 1 .. len
    BY InventoryStanding DEF InventoryInv
  <1>1. /\ VisitsMade = next - 1 /\ VisitsMade' = next /\ UNCHANGED allDissectVars
        /\ ip \in IP
    BY VisitFrame
  <1>2. /\ Hosts' = Hosts \cup {ip} /\ IsFiniteSet(Hosts)
        /\ VisitedBy(next) = VisitedBy(next - 1) \cup {ip}
        /\ ip \notin Hosts => /\ Len(host_order') = len + 1
                              /\ host_order'[len + 1] = ip
                              /\ \A i \in 1 .. len : host_order'[i] = host_order[i]
        /\ ip \in Hosts => host_order' = host_order
        /\ \A j \in IP : j # ip => hosts'[j] = hosts[j]
    BY VisitHosts
  <1>3. Hosts = VisitedBy(next - 1) /\ len = Cardinality(Hosts)
    BY <1>0, <1>1 DEF MetInOrder
  <1> HIDE DEF ip, len
  <1>4. \A n : VisitedBy(n)' = VisitedBy(n)
    BY <1>1, InventoryStable
  <1>5. Hosts' = VisitedBy(next)
    BY <1>2, <1>3
  <1>6. Len(host_order') = Cardinality(Hosts')
    <2>1. CASE ip \in Hosts
      <3>1. Hosts' = Hosts
        BY <1>2, <2>1
      <3> QED
        BY <1>2, <1>3, <2>1, <3>1 DEF len
    <2>2. CASE ip \notin Hosts
      <3>1. Cardinality(Hosts') = Cardinality(Hosts) + 1
        BY <1>2, <2>2, OneMore
      <3> QED
        BY <1>2, <1>3, <2>2, <3>1
    <2> QED
      BY <2>1, <2>2
  <1>7. \A i, j \in 1 .. Len(host_order') : host_order'[i] = host_order'[j] => i = j
    <2>1. CASE ip \in Hosts
      BY <1>0, <1>2, <2>1 DEF MetInOrder
    <2>2. CASE ip \notin Hosts
      <3>1. \A i \in 1 .. Len(host_order') : i \in 1 .. len \/ i = len + 1
        BY <1>0, <1>2, <2>2
      <3>2. \A i \in 1 .. len : host_order'[i] \in Hosts
        BY <1>0, <1>2, <2>2 DEF Hosts
      <3>3. \A i, j \in 1 .. len : host_order'[i] = host_order'[j] => i = j
        BY <1>0, <1>2, <2>2 DEF MetInOrder, len
      <3> QED
        BY <1>2, <2>2, <3>1, <3>2, <3>3
    <2> QED
      BY <2>1, <2>2
  <1>8. ASSUME NEW n \in 0 .. next
        PROVE  VisitedBy(n) = {host_order'[i] : i \in 1 .. Cardinality(VisitedBy(n))}
    <2>1. CASE n = next
      <3>1. DOMAIN host_order' = 1 .. Len(host_order')
        BY VisitHosts
      <3>2. Hosts' = {host_order'[i] : i \in 1 .. Len(host_order')}
        BY <3>1 DEF Hosts
      <3> QED
        BY <1>5, <1>6, <2>1, <3>2
    <2>2. CASE n # next
      <3>1. n \in 0 .. VisitsMade
        BY <1>0, <1>1, <2>2
      <3>2. VisitedBy(n) = {host_order[i] : i \in 1 .. Cardinality(VisitedBy(n))}
        BY <1>0, <3>1 DEF MetInOrder
      <3>3. VisitedBy(n) \subseteq Hosts
        BY <1>0, <1>1, <1>3, <3>1 DEF VisitedBy
      <3>4. PICK k \in Nat : k = Cardinality(VisitedBy(n)) /\ k <= len
        BY <1>2, <1>3, <3>3, FS_Subset, FS_CardinalityType
      <3>5. \A i \in 1 .. k : host_order'[i] = host_order[i]
        BY <1>0, <1>2, <3>4
      <3> QED
        BY <3>2, <3>4, <3>5
    <2> QED
      BY <2>1, <2>2
  <1>9. ASSUME NEW j \in IP PROVE Met(j)' <=> j \in Hosts'
    <2>1. CASE j = ip
      <3>1. j \in Hosts'
        BY <1>2, <2>1
      <3>2. CASE Meets(ip, Visited(next)[2])
        <4>1. hosts'[ip] = Entry(ip, Visited(next)[2])
          BY <1>1, <3>2, InventoryStanding DEF Meets, InventoryTypeOK
        <4>2. hosts'[ip].listed = TRUE
          BY <4>1 DEF Entry
        <4> QED
          BY <2>1, <3>1, <4>2 DEF Met, NoHost
      <3>3. CASE MeetsAgain(ip, Visited(next)[2])
        <4>1. hosts'[ip] = [hosts[ip] EXCEPT !.mac = MacAfter(ip, Visited(next)[2])]
          BY <1>1, <3>3, InventoryStanding DEF MeetsAgain, InventoryTypeOK
        <4>2. ip \in Hosts
          BY <1>0, <1>1, <3>3 DEF MetInOrder, MeetsAgain
        <4>3. hosts'[ip] = EntryWith(ip, MacAfter(ip, Visited(next)[2]))
          BY <4>1, <4>2, HostFields
        <4>4. hosts'[ip].listed = TRUE
          BY <4>3 DEF EntryWith, Entry
        <4> QED
          BY <2>1, <3>1, <4>4 DEF Met, NoHost
      <3> QED
        BY <3>2, <3>3, TwoKindsOfVisit DEF ip
    <2>2. CASE j # ip
      BY <1>0, <1>2, <2>2 DEF MetInOrder, Met
    <2> QED
      BY <2>1, <2>2
  <1> QED
    BY <1>1, <1>4, <1>5, <1>6, <1>7, <1>8, <1>9 DEF MetInOrder

\* The address of an entry stands until it is contested.
LEMMA VisitKeepsMacs ==
  ASSUME InventoryInv, Visit
  PROVE  /\ MacsSeen' /\ Described'
         /\ \A j \in Hosts' :
              hosts'[j] = [Entry(j, first_mac'[j]) EXCEPT !.mac = hosts'[j].mac]
  <1> DEFINE ip == Visited(next)[1]
             mac == Visited(next)[2]
             contested(j) == /\ first_mac'[j] # Unknown
                             /\ \E m \in 1 .. next : /\ Visited(m)[1] = j
                                                   /\ Visited(m)[2] \notin {Unknown, first_mac'[j]}
  <1>0. MacsSeen /\ Described /\ MetInOrder /\ next \in Nat \ {0} /\ InventoryTypeOK
    BY InventoryStanding DEF InventoryInv
  <1>1. /\ VisitsMade = next - 1 /\ VisitsMade' = next /\ UNCHANGED allDissectVars
        /\ UNCHANGED <<oui_table, unit_ids_by_server, requests_sent, requests_received>>
        /\ ip \in IP /\ Visited(next) = <<ip, mac>> /\ mac \in Mac \cup {Unknown}
    BY VisitFrame
  <1>2. /\ Hosts' = Hosts \cup {ip} /\ Hosts \subseteq IP
        /\ \A j \in Hosts : first_mac'[j] = first_mac[j]
        /\ \A j \in IP : j # ip => hosts'[j] = hosts[j]
    BY VisitHosts, InventoryStanding
  <1>3. \A j, m : Entry(j, m)' = Entry(j, m)
    BY <1>1 DEF Entry, Vendor, LookupVendor
  <1>4. \A n : Visited(n)' = Visited(n) /\ VisitedBy(n)' = VisitedBy(n)
    BY <1>1, InventoryStable
  <1>5. 1 .. next = (1 .. next - 1) \cup {next}
    BY <1>0
  <1>k. Meets(ip, mac) \/ MeetsAgain(ip, mac)
    BY TwoKindsOfVisit
  <1>d. DOMAIN hosts = IP /\ first_mac \in [IP -> Mac \cup {Unknown}]
    BY <1>0 DEF InventoryTypeOK
  <1> HIDE DEF ip, mac
  <1>6. ASSUME NEW j \in Hosts', j # ip
        PROVE  /\ \E n \in 1 .. next : FirstVisit(n, j, first_mac'[j])
               /\ hosts'[j].mac = IF contested(j) THEN Unknown ELSE first_mac'[j]
               /\ hosts'[j] = [Entry(j, first_mac'[j]) EXCEPT !.mac = hosts'[j].mac]
    <2>1. j \in Hosts /\ hosts'[j] = hosts[j] /\ first_mac'[j] = first_mac[j]
      BY <1>2, <1>6
    <2>2. contested(j) <=> ContestedBy(j, next - 1)
      <3>1. Visited(next)[1] # j
        BY <1>6 DEF ip
      <3> QED
        BY <1>4, <1>5, <2>1, <3>1 DEF ContestedBy
    <2>3. \E n \in 1 .. next : FirstVisit(n, j, first_mac'[j])
      BY <1>0, <1>1, <1>5, <2>1 DEF MacsSeen
    <2>4. hosts[j].mac = IF ContestedBy(j, next - 1) THEN Unknown ELSE first_mac[j]
      BY <1>0, <1>1, <2>1 DEF MacsSeen
    <2>5. hosts[j] = [Entry(j, first_mac[j]) EXCEPT !.mac = hosts[j].mac]
      BY <1>0, <2>1 DEF Described
    <2> QED
      BY <2>1, <2>2, <2>3, <2>4, <2>5
  <1>7. /\ \E n \in 1 .. next : FirstVisit(n, ip, first_mac'[ip])
        /\ hosts'[ip].mac = IF contested(ip) THEN Unknown ELSE first_mac'[ip]
        /\ hosts'[ip] = [Entry(ip, first_mac'[ip]) EXCEPT !.mac = hosts'[ip].mac]
    <2>1. CASE Meets(ip, mac)
      <3>1. first_mac'[ip] = mac /\ hosts'[ip] = Entry(ip, mac)
        BY <1>1, <1>d, <2>1 DEF Meets
      <3>2. hosts'[ip].mac = mac
        BY <3>1 DEF Entry
      <3>3. ~contested(ip)
        <4>1. ip \notin VisitedBy(next - 1)
          BY <1>0, <1>1, <2>1 DEF MetInOrder, Meets
        <4>2. \A n \in 1 .. next - 1 : Visited(n)[1] # ip
          BY <4>1 DEF VisitedBy
        <4>3. Visited(next)[2] = first_mac'[ip]
          BY <3>1 DEF mac
        <4> QED
          BY <1>4, <1>5, <4>2, <4>3 DEF ContestedBy
      <3>4. next \in 1 .. next /\ FirstVisit(next, ip, mac)
        BY <1>0, <1>1, <2>1 DEF FirstVisit, MetInOrder, Meets
      <3>5. hosts'[ip] = [Entry(ip, mac) EXCEPT !.mac = mac]
        BY <3>1, NewEntry
      <3> QED
        BY <1>1, <3>1, <3>2, <3>3, <3>4, <3>5
    <2>2. CASE MeetsAgain(ip, mac)
      <3>1. first_mac' = first_mac /\ ip \in Hosts
        BY <1>0, <1>1, <2>2 DEF MeetsAgain, MetInOrder
      <3>2. hosts'[ip] = [hosts[ip] EXCEPT !.mac = MacAfter(ip, mac)]
        BY <1>1, <1>d, <2>2 DEF MeetsAgain
      <3>3. hosts'[ip] = [Entry(ip, first_mac[ip]) EXCEPT !.mac = MacAfter(ip, mac)]
        BY <3>1, <3>2, HostFields DEF EntryWith
      <3>4. hosts'[ip].mac = MacAfter(ip, mac)
        BY <3>3 DEF Entry
      <3>5. hosts[ip].mac = IF ContestedBy(ip, next - 1) THEN Unknown ELSE first_mac[ip]
        BY <1>0, <1>1, <3>1 DEF MacsSeen
      <3>6. contested(ip) <=> ContestedBy(ip, next - 1) \/ Contests(ip, mac)
        <4>1. Visited(next)[1] = ip /\ Visited(next)[2] = mac
          BY DEF ip, mac
        <4> QED
          BY <1>4, <1>5, <3>1, <4>1 DEF ContestedBy, Contests
      <3>7. \E n \in 1 .. next : FirstVisit(n, ip, first_mac[ip])
        BY <1>0, <1>1, <1>5, <3>1 DEF MacsSeen
      <3> QED
        BY <3>1, <3>3, <3>4, <3>5, <3>6, <3>7 DEF MacAfter
    <2> QED
      BY <1>k, <2>1, <2>2
  <1>8. ASSUME NEW j \in Hosts'
        PROVE  /\ \E n \in 1 .. next : FirstVisit(n, j, first_mac'[j])
               /\ hosts'[j].mac = IF contested(j) THEN Unknown ELSE first_mac'[j]
               /\ hosts'[j] = [Entry(j, first_mac'[j]) EXCEPT !.mac = hosts'[j].mac]
    <2> HIDE DEF contested
    <2> QED
      BY <1>6, <1>7
  <1>9. MacsSeen'
    <2>1. \A j : ContestedBy(j, VisitsMade)' <=> contested(j)
      BY <1>1, <1>4 DEF ContestedBy
    <2> HIDE DEF contested
    <2> QED
      BY <1>1, <1>4, <1>8, <2>1 DEF MacsSeen, FirstVisit
  <1>10. Described'
    BY <1>3, <1>8 DEF Described
  <1> QED
    BY <1>8, <1>9, <1>10

\* Once the events are counted, the evidence of a host is the number of
\* requests on each side.
LEMMA EvidenceTallied ==
  ASSUME InventoryTypeOK, Described, Tallied, EventsCounted = Len(protocol_events),
         NEW side \in Side
  PROVE  EvidenceOf(side) = [i \in DOMAIN host_order |->
           Cardinality(RequestsOf(side, host_order[i], Len(protocol_events)))]
  <1>1. ASSUME NEW i \in DOMAIN host_order
        PROVE  hosts[host_order[i]].evidence[side]
                 = Cardinality(RequestsOf(side, host_order[i], Len(protocol_events)))
    <2>1. PICK ip \in IP : ip = host_order[i] /\ ip \in Hosts
      BY DEF InventoryTypeOK, Hosts
    <2>2. hosts[ip] = [Entry(ip, first_mac[ip]) EXCEPT !.mac = hosts[ip].mac]
      BY <2>1 DEF Described
    <2>3. PICK h, mac, m : h = hosts[ip] /\ h = [Entry(ip, mac) EXCEPT !.mac = m]
      BY <2>2
    <2>4. h.evidence = <<requests_sent[ip], requests_received[ip]>>
      BY <2>3 DEF Entry
    <2>5. /\ requests_sent[ip] = Cardinality(RequestsOf(1, ip, Len(protocol_events)))
          /\ requests_received[ip] = Cardinality(RequestsOf(2, ip, Len(protocol_events)))
      BY <2>1 DEF Tallied
    <2>6. side = 1 \/ side = 2
      BY DEF Side
    <2> QED
      BY <2>1, <2>3, <2>4, <2>5, <2>6
  <1> QED
    BY <1>1 DEF EvidenceOf

\* A host that is met brings the requests it took part in.
LEMMA VisitSums ==
  ASSUME InventoryInv, Visit
  PROVE  Tallied' /\ InventoryTypeOK' /\ Summed'
  <1> DEFINE ip == Visited(next)[1]
             mac == Visited(next)[2]
             all == Len(protocol_events)
             len == Len(host_order)
  <1>0. /\ InventoryTypeOK /\ Tallied /\ Described /\ Summed /\ MetInOrder
        /\ all \in Nat /\ len \in Nat /\ next \in Nat \ {0}
        /\ DOMAIN host_order = 1 .. len /\ Hosts \subseteq IP
    BY InventoryStanding DEF InventoryInv
  <1>1. /\ UNCHANGED allDissectVars
        /\ UNCHANGED <<loop, oui_table, unit_ids_by_server, requests_sent,
                       requests_received>>
        /\ next' = next + 1 /\ ip \in IP /\ mac \in Mac \cup {Unknown}
        /\ EventsCounted = all /\ EventsCounted' = all
    BY VisitFrame
  <1>2. /\ Hosts' = Hosts \cup {ip} /\ host_order' \in Seq(IP)
        /\ ip \notin Hosts => /\ Len(host_order') = len + 1
                              /\ host_order'[len + 1] = ip
                              /\ \A i \in 1 .. len : host_order'[i] = host_order[i]
        /\ ip \in Hosts => host_order' = host_order
        /\ DOMAIN hosts' = IP
    BY VisitHosts
  <1>3. Len(protocol_events)' = all
    BY <1>1, InventoryStable
  <1>k. Meets(ip, mac) \/ MeetsAgain(ip, mac)
    BY TwoKindsOfVisit
  <1>4. Tallied'
    BY <1>0, <1>1, InventoryStable DEF Tallied
  <1>5. MacsSeen' /\ Described' /\ MetInOrder'
    BY VisitKeepsMacs, VisitKeepsOrder
  <1>6. InventoryTypeOK'
    <2>1. first_mac' \in [IP -> Mac \cup {Unknown}]
      BY <1>0, <1>1, <1>k DEF Meets, MeetsAgain, InventoryTypeOK
    <2>2. ASSUME NEW j \in IP, Met(j)' PROVE hosts'[j].mac \in Mac \cup {Unknown}
      BY <1>5, <2>1, <2>2 DEF MetInOrder, MacsSeen
    <2>3. next' \in Nat \ {0} /\ DissectTypeOK'
      BY <1>0, <1>1, InventoryStable DEF InventoryTypeOK
    <2> HIDE DEF ip, mac, all, len
    <2> QED
      BY <1>0, <1>1, <1>2, <2>1, <2>2, <2>3 DEF InventoryTypeOK
  <1>7. ASSUME NEW side \in Side
        PROVE  SumFunction(EvidenceOf(side)') = Cardinality(PartIn(side)')
    <2> DEFINE f == EvidenceOf(side)
               g == EvidenceOf(side)'
               own == RequestsOf(side, ip, all)
    <2>1. f = [i \in 1 .. len |-> Cardinality(RequestsOf(side, host_order[i], all))]
      BY <1>0, <1>1, EvidenceTallied
    <2>2. g = [i \in DOMAIN host_order' |->
                 Cardinality(RequestsOf(side, host_order'[i], all))]
      <3>1. ASSUME NEW i \in DOMAIN host_order'
            PROVE  hosts'[host_order'[i]].evidence[side]
                     = Cardinality(RequestsOf(side, host_order'[i], all))
        <4>1. PICK j \in IP : j = host_order'[i] /\ j \in Hosts'
          BY <1>2 DEF Hosts
        <4>2. hosts'[j] = [Entry(j, first_mac'[j]) EXCEPT !.mac = hosts'[j].mac]
          BY <4>1, VisitKeepsMacs
        <4>3. PICK h, m, n : h = hosts'[j] /\ h = [Entry(j, m) EXCEPT !.mac = n]
          BY <4>2
        <4>4. h.evidence = <<requests_sent[j], requests_received[j]>>
          BY <4>3 DEF Entry
        <4>5. /\ requests_sent[j] = Cardinality(RequestsOf(1, j, all))
              /\ requests_received[j] = Cardinality(RequestsOf(2, j, all))
          BY <1>0, <1>1 DEF Tallied
        <4>6. side = 1 \/ side = 2
          BY DEF Side
        <4> QED
          BY <4>1, <4>3, <4>4, <4>5, <4>6
      <3>2. g = [i \in DOMAIN host_order' |-> hosts'[host_order'[i]].evidence[side]]
        BY DEF EvidenceOf
      <3> QED
        BY <3>1, <3>2
    <2>3. SumFunction(f) = Cardinality(PartIn(side))
      BY <1>0 DEF Summed
    <2>4. PartIn(side)' = {k \in RequestsUpTo(all) :
                             PartyOf(side, protocol_events[k]) \in Hosts'}
      BY <1>1, <1>3, InventoryStable DEF PartIn
    <2>5. /\ PartIn(side)' = PartIn(side) \cup own
          /\ ip \notin Hosts => PartIn(side) \cap own = {}
      BY <1>2, <2>4 DEF PartIn, RequestsOf
    <2> HIDE DEF ip, mac, len
    <2>6. CASE ip \in Hosts
      <3>1. g = f /\ PartIn(side)' = PartIn(side)
        BY <1>0, <1>2, <2>1, <2>2, <2>4, <2>6 DEF PartIn
      <3> QED
        BY <2>3, <3>1
    <2>7. CASE ip \notin Hosts
      <3>1. \A r : Cardinality(RequestsOf(side, r, all)) \in Nat
                   /\ IsFiniteSet(RequestsOf(side, r, all))
        <4>1. \A r : RequestsOf(side, r, all) \subseteq 1 .. all
          BY DEF RequestsOf, RequestsUpTo
        <4> HIDE DEF all
        <4>2. \A r : Cardinality(RequestsOf(side, r, all)) \in 0 .. all
                     /\ IsFiniteSet(RequestsOf(side, r, all))
          BY <1>0, <4>1, FinitePositions
        <4> QED
          BY <1>0, <4>2
      <3>2. DOMAIN host_order' = 1 .. len + 1
        BY <1>2, <2>7
      <3> HIDE DEF f, g, own, all
      <3>3. f \in [1 .. len -> Int]
        BY <2>1, <3>1
      <3>4. g \in [1 .. len + 1 -> Int]
        BY <2>2, <3>1, <3>2
      <3>5. (\A i \in 1 .. len : g[i] = f[i]) /\ g[len + 1] = Cardinality(own)
        BY <1>0, <1>2, <2>1, <2>2, <2>7, <3>2 DEF own
      <3>6. SumFunction(g) = SumFunction(f) + Cardinality(own)
        BY <1>0, <3>3, <3>4, <3>5, SumAppend
      <3>7. IsFiniteSet(PartIn(side))
        <4>1. PartIn(side) \subseteq 1 .. all
          BY DEF PartIn, RequestsUpTo, all
        <4> QED
          BY <1>0, <4>1, FinitePositions
      <3>8. Cardinality(PartIn(side) \cup own) = Cardinality(PartIn(side)) + Cardinality(own)
        <4>1. IsFiniteSet(own) /\ Cardinality(own) \in Nat
          BY <3>1 DEF own
        <4>2. Cardinality(PartIn(side) \cup own) =
                Cardinality(PartIn(side)) + Cardinality(own) - Cardinality(PartIn(side) \cap own)
          BY <3>7, <4>1, FS_Union
        <4>3. Cardinality(PartIn(side) \cap own) = 0
          BY <2>5, <2>7, FS_EmptySet
        <4>4. Cardinality(PartIn(side)) \in Nat
          BY <3>7, FS_CardinalityType
        <4> QED
          BY <4>1, <4>2, <4>3, <4>4
      <3> QED
        BY <2>3, <2>5, <3>6, <3>8 DEF g
    <2> QED
      BY <2>6, <2>7
  <1>8. Summed'
    BY <1>7 DEF Summed
  <1> QED
    BY <1>4, <1>6, <1>8

LEMMA VisitKeepsInventory ==
  ASSUME InventoryInv, Visit
  PROVE  InventoryInv'
  <1>1. /\ UNCHANGED allDissectVars /\ sorted /\ loop' = "segments" /\ next' = next + 1
        /\ next \in 1 .. 2 * Len(segments) /\ UNCHANGED loop
    BY VisitFrame
  <1>2. Progress'
    <2>1. Len(segments) \in Nat
      BY InventoryStanding
    <2>2. next + 1 <= 2 * Len(segments) + 1
      BY <1>1, <2>1
    <2> QED
      BY <1>1, <2>2, InventoryStable DEF Progress
  <1>3. DissectInv'
    BY <1>1, InventoryStable DEF InventoryInv
  <1> QED
    BY <1>2, <1>3, VisitSums, VisitKeepsOrder, VisitKeepsMacs DEF InventoryInv

LEMMA InventoryInvNext ==
  ASSUME InventoryInv, [InventoryNext]_allInventoryVars
  PROVE  InventoryInv'
  <1>1. CASE DissectNext /\ UNCHANGED inventoryVars
    BY <1>1, DissectingKeepsInventory
  <1>2. CASE CountRequest
    BY <1>2, CountKeepsInventory
  <1>3. CASE Visit
    BY <1>3, VisitKeepsInventory
  <1>4. CASE \/ EndLoop("events", "segments", Len(protocol_events))
             \/ EndLoop("segments", "listed", 2 * Len(segments))
             \/ UNCHANGED allInventoryVars
    BY <1>4, EndLoopKeepsInventory
  <1> QED
    BY <1>1, <1>2, <1>3, <1>4 DEF InventoryNext

LEMMA InventoryInvAlways == InventorySpec => []InventoryInv
  <1>1. InventoryInv /\ [InventoryNext]_allInventoryVars => InventoryInv'
    BY InventoryInvNext
  <1> QED
    BY InventoryInvInit, <1>1, PTL DEF InventorySpec

-----------------------------------------------------------------------------
(***************************************************************************)
(* The properties follow from the invariant.                               *)
(***************************************************************************)

\* The addresses seen in k segments are those of the first 2k visits.
LEMMA SeenByVisits ==
  ASSUME DissectInv, NEW k \in 0 .. Len(segments)
  PROVE  SeenIn(k) = VisitedBy(2 * k)
  <1>0. Len(segments) \in Nat
    BY DEF DissectInv, SessionInv, TypeInv, SessionTypeOK
  <1>1. ASSUME NEW j \in 1 .. k
        PROVE  /\ 2 * j - 1 \in 1 .. 2 * k /\ 2 * j \in 1 .. 2 * k
               /\ Visited(2 * j - 1)[1] = IpOf[packets[segments[j].packet_number].src]
               /\ Visited(2 * j)[1] = IpOf[packets[segments[j].packet_number].dst]
    <2>1. j \in 1 .. Len(segments)
      BY <1>0
    <2>2. /\ Visited(2 * j - 1) = <<IpOf[FrameOf(segments[j]).src],
                                    FrameOf(segments[j]).src_mac>>
          /\ Visited(2 * j) = <<IpOf[FrameOf(segments[j]).dst],
                                FrameOf(segments[j]).dst_mac>>
      BY <2>1, EndsAreVisited
    <2>3. 2 * j - 1 \in 1 .. 2 * k /\ 2 * j \in 1 .. 2 * k
      BY <1>0
    <2> QED
      BY <2>2, <2>3 DEF FrameOf
  <1>2. ASSUME NEW n \in 1 .. 2 * k
        PROVE  \E j \in 1 .. k : n = 2 * j - 1 \/ n = 2 * j
    <2>1. PICK m \in Nat, h \in Nat : m = n /\ h = k /\ 1 <= m /\ m <= 2 * h
      BY <1>0
    <2>2. PICK j \in Int : j = (m + 1) \div 2
      OBVIOUS
    <2>3. (m = 2 * j - 1 \/ m = 2 * j) /\ j \in 1 .. h
      BY <2>1, <2>2
    <2> QED
      BY <2>1, <2>3
  <1>3. SeenIn(k) \subseteq VisitedBy(2 * k)
    <2>1. ASSUME NEW j \in 1 .. k
          PROVE  /\ IpOf[packets[segments[j].packet_number].src] \in VisitedBy(2 * k)
                 /\ IpOf[packets[segments[j].packet_number].dst] \in VisitedBy(2 * k)
      <3>1. /\ Visited(2 * j - 1)[1] \in VisitedBy(2 * k)
            /\ Visited(2 * j)[1] \in VisitedBy(2 * k)
        BY <1>1 DEF VisitedBy
      <3> QED
        BY <1>1, <3>1
    <2> QED
      BY <2>1 DEF SeenIn
  <1>4. VisitedBy(2 * k) \subseteq SeenIn(k)
    <2>1. ASSUME NEW n \in 1 .. 2 * k PROVE Visited(n)[1] \in SeenIn(k)
      <3>1. PICK j \in 1 .. k : n = 2 * j - 1 \/ n = 2 * j
        BY <1>2
      <3>2. /\ IpOf[packets[segments[j].packet_number].src] \in SeenIn(k)
            /\ IpOf[packets[segments[j].packet_number].dst] \in SeenIn(k)
        BY DEF SeenIn
      <3>3. CASE n = 2 * j - 1
        BY <1>1, <3>2, <3>3
      <3>4. CASE n = 2 * j
        BY <1>1, <3>2, <3>4
      <3> QED
        BY <3>1, <3>3, <3>4
    <2> QED
      BY <2>1 DEF VisitedBy
  <1> QED
    BY <1>3, <1>4

LEMMA HostsFromInv == InventoryInv => HostsAreThoseSeen
  <1> SUFFICES ASSUME InventoryInv, Listed PROVE HostsAreThoseSeen
    BY DEF HostsAreThoseSeen
  <1>0. DissectInv /\ Len(segments) \in Nat /\ MetInOrder
    BY InventoryStanding DEF InventoryInv
  <1>1. VisitsMade = 2 * Len(segments)
    BY DEF Listed, VisitsMade
  <1>2. \A k \in 0 .. Len(segments) : SeenIn(k) = VisitedBy(2 * k)
    BY <1>0, SeenByVisits
  <1>3. \A k \in 0 .. Len(segments) : 2 * k \in 0 .. VisitsMade
    BY <1>0, <1>1
  <1>4. Hosts = SeenIn(Len(segments))
    BY <1>0, <1>1, <1>2 DEF MetInOrder
  <1> QED
    BY <1>0, <1>2, <1>3, <1>4 DEF HostsAreThoseSeen, MetInOrder

\* Events are as many as their positions in the list.
LEMMA EventsAsPositions ==
  ASSUME DissectInv, NEW K, K \subseteq 1 .. Len(protocol_events)
  PROVE  Cardinality({protocol_events[k] : k \in K}) = Cardinality(K)
  <1> DEFINE E == {protocol_events[k] : k \in K}
             event == [k \in K |-> protocol_events[k]]
  <1>1. Len(protocol_events) \in Nat
    BY DEF DissectInv, DissectTypeOK
  <1>2. IsFiniteSet(K)
    BY <1>1, FinitePositions
  <1>3. event \in Surjection(K, E)
    BY DEF Surjection
  <1>4. event \in Injection(K, E)
    <2>1. ASSUME NEW k \in K, NEW m \in K, protocol_events[k] = protocol_events[m]
          PROVE  k = m
      BY <2>1 DEF DissectInv, NoRepetition, Alike
    <2> QED
      BY <2>1 DEF Injection, IsInjective
  <1> QED
    BY <1>2, <1>3, <1>4, FS_Surjection

LEMMA RequestsAsPositions ==
  ASSUME DissectInv
  PROVE  /\ Requests = {protocol_events[k] : k \in RequestsUpTo(Len(protocol_events))}
         /\ \A ip : RequestsFrom(ip) = {protocol_events[k] :
                       k \in RequestsOf(1, ip, Len(protocol_events))}
         /\ \A ip : RequestsTo(ip) = {protocol_events[k] :
                       k \in RequestsOf(2, ip, Len(protocol_events))}
  <1>1. HighEvents = {protocol_events[k] : k \in 1 .. Len(protocol_events)}
    BY DEF HighEvents, Reported, DissectInv, DissectTypeOK
  <1>2. Requests = {protocol_events[k] : k \in RequestsUpTo(Len(protocol_events))}
    BY <1>1 DEF Requests, RequestsUpTo, IsRequest
  <1> QED
    BY <1>2 DEF RequestsFrom, RequestsTo, RequestsOf, PartyOf, Addressee

\* A finite set has two elements exactly if it counts more than one.
LEMMA MoreThanOne ==
  ASSUME NEW S, IsFiniteSet(S)
  PROVE  Cardinality(S) > 1 <=> \E x, y \in S : x # y
  <1>1. ASSUME NEW x \in S, S = {x} PROVE ~(Cardinality(S) > 1)
    BY <1>1, FS_Singleton
  <1>2. ASSUME NEW x \in S, NEW y \in S, x # y PROVE Cardinality(S) > 1
    <2>1. Cardinality(S \ {x}) = Cardinality(S) - 1 /\ IsFiniteSet(S \ {x})
          /\ Cardinality(S) \in Nat
      BY Removed
    <2>2. Cardinality(S \ {x}) \in Nat \ {0}
      BY <1>2, <2>1, Removed
    <2> QED
      BY <2>1, <2>2
  <1>3. S = {} => ~(Cardinality(S) > 1)
    BY FS_EmptySet
  <1> QED
    BY <1>1, <1>2, <1>3

\* Whoever took part in a request is listed.
LEMMA PartiesAreListed ==
  ASSUME InventoryInv, Listed, NEW side \in Side
  PROVE  PartIn(side) = RequestsUpTo(Len(protocol_events))
  <1>0. DissectInv /\ MetInOrder /\ VisitsMade = 2 * Len(segments)
    BY InventoryStanding DEF InventoryInv, Listed, VisitsMade
  <1>1. ASSUME NEW k \in 1 .. Len(protocol_events)
        PROVE  PartyOf(side, protocol_events[k]) \in Hosts
    <2>1. PICK i \in 1 .. Len(segments) :
            packets[protocol_events[k].packet_number] = FrameOf(segments[i])
      BY <1>0, EventsHaveParties
    <2>2. /\ IpOf[FrameOf(segments[i]).src] \in VisitedBy(2 * Len(segments))
          /\ IpOf[FrameOf(segments[i]).dst] \in VisitedBy(2 * Len(segments))
      BY <1>0, EndsAreVisited DEF VisitedBy
    <2> QED
      BY <1>0, <2>1, <2>2 DEF PartyOf, SenderOf, Addressee, MetInOrder
  <1> QED
    BY <1>1 DEF PartIn, RequestsUpTo

LEMMA EvidenceFromInv == InventoryInv => EvidenceMatchesEvents
  <1> SUFFICES ASSUME InventoryInv, Listed PROVE EvidenceMatchesEvents
    BY DEF EvidenceMatchesEvents
  <1> DEFINE all == Len(protocol_events)
  <1>0. DissectInv /\ all \in Nat /\ Tallied /\ Summed /\ Hosts \subseteq IP
    BY InventoryStanding DEF InventoryInv
  <1>1. EventsCounted = all
    BY DEF Listed, EventsCounted
  <1>2. ASSUME NEW ip \in Hosts
        PROVE  LET asked == {e \in RequestsTo(ip) : e.protocol = ModbusTcp}
               IN  /\ hosts[ip].evidence = <<Cardinality(RequestsFrom(ip)),
                                             Cardinality(RequestsTo(ip))>>
                   /\ hosts[ip].unit_ids = {UnitIdOf[PayloadOf(e)] : e \in asked}
                   /\ hosts[ip].gateway <=>
                        \E e, f \in asked :
                          UnitIdOf[PayloadOf(e)] # UnitIdOf[PayloadOf(f)]
    <2> DEFINE asked == {e \in RequestsTo(ip) : e.protocol = ModbusTcp}
               positions == {j \in RequestsOf(2, ip, all) :
                               protocol_events[j].protocol = ModbusTcp}
               units == UnitsAsked(ip, all)
    <2>0. /\ requests_sent[ip] = Cardinality(RequestsOf(1, ip, all))
          /\ requests_received[ip] = Cardinality(RequestsOf(2, ip, all))
          /\ unit_ids_by_server[ip] = units
      BY <1>0, <1>1 DEF Tallied
    <2>1. /\ hosts[ip].evidence = <<requests_sent[ip], requests_received[ip]>>
          /\ hosts[ip].unit_ids = unit_ids_by_server[ip]
          /\ hosts[ip].gateway = (Cardinality(unit_ids_by_server[ip]) > 1)
      BY HostFields
    <2>2. \A side : RequestsOf(side, ip, all) \subseteq 1 .. all
      BY DEF RequestsOf, RequestsUpTo
    <2>3. /\ Cardinality(RequestsFrom(ip)) = Cardinality(RequestsOf(1, ip, all))
          /\ Cardinality(RequestsTo(ip)) = Cardinality(RequestsOf(2, ip, all))
      BY <1>0, <2>2, RequestsAsPositions, EventsAsPositions
    <2>4. units = {UnitIdOf[PayloadOf(e)] : e \in asked}
      <3>1. asked = {protocol_events[k] : k \in positions}
        BY <1>0, RequestsAsPositions
      <3>2. units = {UnitIdOf[PayloadOf(protocol_events[k])] : k \in positions}
        BY DEF UnitsAsked
      <3> HIDE DEF asked, positions, units
      <3> QED
        BY <3>1, <3>2
    <2>5. IsFiniteSet(units)
      <3>1. IsFiniteSet(positions)
        BY <1>0, <2>2, FinitePositions
      <3>2. [k \in positions |-> UnitIdOf[PayloadOf(protocol_events[k])]]
              \in Surjection(positions, units)
        BY DEF Surjection, UnitsAsked
      <3> QED
        BY <3>1, <3>2, FS_Surjection
    <2> HIDE DEF asked, units
    <2>6. Cardinality(units) > 1 <=> \E x, y \in units : x # y
      BY <2>5, MoreThanOne
    <2>7. hosts[ip].gateway <=>
            \E e, f \in asked : UnitIdOf[PayloadOf(e)] # UnitIdOf[PayloadOf(f)]
      BY <2>0, <2>1, <2>4, <2>6
    <2> QED
      BY <2>0, <2>1, <2>3, <2>4, <2>7 DEF asked
  <1>3. ASSUME NEW side \in {1, 2}
        PROVE  SumFunction([i \in DOMAIN host_order |->
                              hosts[host_order[i]].evidence[side]]) = Cardinality(Requests)
    <2>1. SumFunction(EvidenceOf(side)) = Cardinality(PartIn(side))
      BY <1>0 DEF Summed, Side
    <2>2. PartIn(side) = RequestsUpTo(all)
      BY PartiesAreListed DEF Side
    <2>3. Cardinality(Requests) = Cardinality(RequestsUpTo(all))
      <3>1. RequestsUpTo(all) \subseteq 1 .. all
        BY DEF RequestsUpTo
      <3> QED
        BY <1>0, <3>1, RequestsAsPositions, EventsAsPositions
    <2> QED
      BY <2>1, <2>2, <2>3 DEF EvidenceOf
  <1> QED
    BY <1>2, <1>3 DEF EvidenceMatchesEvents

\* The last row with a prefix, in a table that is read whole.
LEMMA LastRowAnswers ==
  ASSUME NEW file \in OuiFiles, Loads(file), NEW prefix,
         \E i \in TableRows(file) : file[i].prefix = prefix
  PROVE  /\ RowFor(prefix, file) \in TableRows(file)
         /\ file[RowFor(prefix, file)].prefix = prefix
         /\ \A j \in TableRows(file) : j > RowFor(prefix, file) => file[j].prefix # prefix
  <1> DEFINE rows == {i \in TableRows(file) : file[i].prefix = prefix}
  <1>1. PICK n \in Nat : DOMAIN file = 1 .. n
    <2>1. file \in Seq(Range(file))
      BY InventoryAssumption DEF Loads
    <2> QED
      BY <2>1
  <1>2. rows \subseteq 1 .. n /\ rows # {}
    BY <1>1 DEF TableRows
  <1>3. PICK m \in {n - i : i \in rows} : \A k \in {n - i : i \in rows} : m <= k
    <2>1. {n - i : i \in rows} \subseteq Nat /\ {n - i : i \in rows} # {}
      BY <1>2
    <2> QED
      BY <2>1, Least
  <1>4. PICK i \in rows : m = n - i
    BY <1>3
  <1>5. ASSUME NEW j \in TableRows(file), j > i PROVE file[j].prefix # prefix
    <2>1. j \in 1 .. n /\ i \in 1 .. n
      BY <1>1, <1>2 DEF TableRows
    <2>2. j \in rows => n - i <= n - j
      BY <1>3, <1>4
    <2>3. j \notin rows
      BY <1>5, <2>1, <2>2
    <2> QED
      BY <2>3
  <1> QED
    BY <1>4, <1>5 DEF RowFor

\* The vendor of an address is the last word of a table without a bad row.
LEMMA VendorIsTheTables ==
  ASSUME oui_table \in OuiFiles, NEW mac
  PROVE  VendorIs(mac, Vendor(mac))
  <1> DEFINE prefix == PrefixOf[mac]
             row == RowFor(prefix, oui_table)
             named == \E i \in DOMAIN oui_table : Names(i, mac)
  <1>1. oui_table # NoTable => (Loads(oui_table) <=> SoundTable)
    BY DEF Loads, TableRows, SoundTable
  <1>2. CASE mac # Unknown /\ oui_table # NoTable /\ SoundTable /\ named
    <2>1. Loads(oui_table) /\ prefix # Unknown
          /\ \E i \in TableRows(oui_table) : oui_table[i].prefix = prefix
      BY <1>1, <1>2 DEF Loads, TableRows, Names
    <2>2. Vendor(mac) = oui_table[row].vendor
      BY <1>2, <2>1 DEF Vendor, LookupVendor
    <2>3. /\ row \in TableRows(oui_table) /\ oui_table[row].prefix = prefix
          /\ \A j \in TableRows(oui_table) : j > row => oui_table[j].prefix # prefix
      BY <2>1, LastRowAnswers
    <2>4. row \in DOMAIN oui_table /\ Names(row, mac)
      BY <2>1, <2>3 DEF TableRows, Loads, Names
    <2> HIDE DEF row
    <2>5. \A j \in DOMAIN oui_table : j > row => ~Names(j, mac)
      BY <2>3 DEF TableRows, Names
    <2> QED
      BY <1>2, <2>2, <2>4, <2>5 DEF VendorIs
  <1>3. CASE ~(mac # Unknown /\ oui_table # NoTable /\ SoundTable /\ named)
    <2>1. Vendor(mac) = Unknown
      <3>1. CASE mac = Unknown \/ ~Loads(oui_table)
        BY <3>1 DEF Vendor
      <3>2. CASE mac # Unknown /\ Loads(oui_table)
        <4>1. oui_table # NoTable /\ SoundTable /\ ~named
          BY <1>1, <1>3, <3>2 DEF Loads
        <4>2. \A i \in TableRows(oui_table) : oui_table[i].prefix # prefix
          BY <3>2, <4>1 DEF Loads, TableRows, Names
        <4> QED
          BY <3>2, <4>2 DEF Vendor, LookupVendor
      <3> QED
        BY <3>1, <3>2
    <2> QED
      BY <1>3, <2>1 DEF VendorIs
  <1> QED
    BY <1>2, <1>3

\* The layer two addresses the segments show for a host are those of its
\* visits.
MacsOf(ip) ==
  {packets[segments[i].packet_number].src_mac :
     i \in {j \in DOMAIN segments : IpOf[packets[segments[j].packet_number].src] = ip}}
  \cup {packets[segments[i].packet_number].dst_mac :
          i \in {j \in DOMAIN segments : IpOf[packets[segments[j].packet_number].dst] = ip}}

LEMMA MacsByVisits ==
  ASSUME DissectInv, NEW ip
  PROVE  MacsOf(ip) = {Visited(n)[2] : n \in {m \in 1 .. 2 * Len(segments) : Visited(m)[1] = ip}}
  <1> DEFINE visits == {m \in 1 .. 2 * Len(segments) : Visited(m)[1] = ip}
  <1>0. DOMAIN segments = 1 .. Len(segments)
    BY DEF DissectInv, SessionInv, TypeInv, SessionTypeOK
  <1>1. ASSUME NEW x \in MacsOf(ip) PROVE \E n \in visits : x = Visited(n)[2]
    <2>1. PICK i \in 1 .. Len(segments) :
            \/ IpOf[FrameOf(segments[i]).src] = ip /\ x = FrameOf(segments[i]).src_mac
            \/ IpOf[FrameOf(segments[i]).dst] = ip /\ x = FrameOf(segments[i]).dst_mac
      BY <1>0 DEF MacsOf, FrameOf
    <2>2. \E n \in 1 .. 2 * Len(segments) : Visited(n) = <<ip, x>>
      <3>1. /\ 2 * i - 1 \in 1 .. 2 * Len(segments) /\ 2 * i \in 1 .. 2 * Len(segments)
            /\ Visited(2 * i - 1) = <<IpOf[FrameOf(segments[i]).src],
                                      FrameOf(segments[i]).src_mac>>
            /\ Visited(2 * i) = <<IpOf[FrameOf(segments[i]).dst],
                                  FrameOf(segments[i]).dst_mac>>
        BY EndsAreVisited
      <3>2. CASE IpOf[FrameOf(segments[i]).src] = ip /\ x = FrameOf(segments[i]).src_mac
        BY <3>1, <3>2
      <3>3. CASE IpOf[FrameOf(segments[i]).dst] = ip /\ x = FrameOf(segments[i]).dst_mac
        BY <3>1, <3>3
      <3> QED
        BY <2>1, <3>2, <3>3
    <2>3. PICK n \in 1 .. 2 * Len(segments) : Visited(n) = <<ip, x>>
      BY <2>2
    <2> QED
      BY <2>3
  <1>2. ASSUME NEW n \in visits PROVE Visited(n)[2] \in MacsOf(ip)
    <2>1. PICK i \in 1 .. Len(segments) :
            \/ Visited(n) = <<IpOf[FrameOf(segments[i]).src], FrameOf(segments[i]).src_mac>>
            \/ Visited(n) = <<IpOf[FrameOf(segments[i]).dst], FrameOf(segments[i]).dst_mac>>
      BY VisitsAreEnds
    <2>2. Visited(n)[1] = ip /\ i \in DOMAIN segments
      BY <1>0
    <2>3. CASE Visited(n) = <<IpOf[FrameOf(segments[i]).src], FrameOf(segments[i]).src_mac>>
      <3>1. IpOf[FrameOf(segments[i]).src] = ip /\ Visited(n)[2] = FrameOf(segments[i]).src_mac
        BY <2>2, <2>3
      <3> QED
        BY <2>2, <3>1 DEF MacsOf, FrameOf
    <2>4. CASE Visited(n) = <<IpOf[FrameOf(segments[i]).dst], FrameOf(segments[i]).dst_mac>>
      <3>1. IpOf[FrameOf(segments[i]).dst] = ip /\ Visited(n)[2] = FrameOf(segments[i]).dst_mac
        BY <2>2, <2>4
      <3> QED
        BY <2>2, <3>1 DEF MacsOf, FrameOf
    <2> QED
      BY <2>1, <2>3, <2>4
  <1> QED
    BY <1>1, <1>2

\* The first visit to a host is the first segment that shows it; where one
\* segment shows it twice, the sender comes first.
LEMMA FirstVisitIsFirstSeen ==
  ASSUME DissectInv, NEW n \in 1 .. 2 * Len(segments), NEW ip, NEW mac,
         FirstVisit(n, ip, mac)
  PROVE  FirstSeenWith(ip, mac)
  <1>0. Len(segments) \in Nat /\ DOMAIN segments = 1 .. Len(segments)
    BY DEF DissectInv, SessionInv, TypeInv, SessionTypeOK
  <1>1. PICK i \in 1 .. Len(segments) :
          \/ n = 2 * i - 1 /\ Visited(n) = <<IpOf[FrameOf(segments[i]).src],
                                             FrameOf(segments[i]).src_mac>>
          \/ n = 2 * i /\ Visited(n) = <<IpOf[FrameOf(segments[i]).dst],
                                         FrameOf(segments[i]).dst_mac>>
    BY VisitsAreEnds
  <1>2. ip \notin SeenIn(i - 1)
    <2>1. i - 1 \in 0 .. Len(segments) /\ 1 .. 2 * (i - 1) \subseteq 1 .. n - 1
      BY <1>0, <1>1
    <2>2. SeenIn(i - 1) = VisitedBy(2 * (i - 1))
      BY <2>1, SeenByVisits
    <2> QED
      BY <2>1, <2>2 DEF FirstVisit, VisitedBy
  <1>3. n = 2 * i => IpOf[FrameOf(segments[i]).src] # ip
    <2>1. Visited(2 * i - 1) = <<IpOf[FrameOf(segments[i]).src],
                                 FrameOf(segments[i]).src_mac>>
      BY EndsAreVisited
    <2>2. n = 2 * i => 2 * i - 1 \in 1 .. n - 1
      BY <1>0
    <2> QED
      BY <2>1, <2>2 DEF FirstVisit, VisitedBy
  <1>4. Visited(n) = <<ip, mac>>
    BY DEF FirstVisit
  <1>5. /\ IpOf[FrameOf(segments[i]).src] = ip => mac = FrameOf(segments[i]).src_mac
        /\ IpOf[FrameOf(segments[i]).src] # ip =>
             IpOf[FrameOf(segments[i]).dst] = ip /\ mac = FrameOf(segments[i]).dst_mac
    BY <1>1, <1>3, <1>4
  <1> QED
    BY <1>0, <1>2, <1>5 DEF FirstSeenWith, FrameOf

LEMMA MacsFromInv == InventoryInv => MacIsUncontested
  <1> SUFFICES ASSUME InventoryInv, Listed, NEW ip \in Hosts
               PROVE  LET known == MacsOf(ip) \ {Unknown}
                      IN  /\ hosts[ip].mac # Unknown => known = {hosts[ip].mac}
                          /\ Cardinality(MacsOf(ip)) = 1 => hosts[ip].mac \in MacsOf(ip)
                          /\ \E mac \in MacsOf(ip) :
                               /\ FirstSeenWith(ip, mac)
                               /\ VendorIs(mac, hosts[ip].oui_vendor)
    BY DEF MacIsUncontested, MacsOf
  <1> DEFINE first == first_mac[ip]
             all == 2 * Len(segments)
  <1>0. DissectInv /\ InventoryTypeOK /\ MacsSeen
    BY InventoryStanding DEF InventoryInv
  <1>1. VisitsMade = all
    BY DEF Listed, VisitsMade
  <1>2. /\ \E n \in 1 .. all : FirstVisit(n, ip, first)
        /\ hosts[ip].mac = IF ContestedBy(ip, all) THEN Unknown ELSE first
    BY <1>0, <1>1 DEF MacsSeen
  <1>3. MacsOf(ip) = {Visited(n)[2] : n \in {m \in 1 .. all : Visited(m)[1] = ip}}
    BY <1>0, MacsByVisits
  <1>4. first \in MacsOf(ip)
    BY <1>2, <1>3 DEF FirstVisit
  <1>5. ~ContestedBy(ip, all) /\ first # Unknown => MacsOf(ip) \subseteq {Unknown, first}
    BY <1>3 DEF ContestedBy
  <1>6. ContestedBy(ip, all) => first # Unknown /\ \E x \in MacsOf(ip) : x \notin {Unknown, first}
    BY <1>3 DEF ContestedBy
  <1> HIDE DEF first, all
  <1>7. hosts[ip].mac # Unknown => MacsOf(ip) \ {Unknown} = {hosts[ip].mac}
    BY <1>2, <1>4, <1>5
  <1>8. Cardinality(MacsOf(ip)) = 1 => hosts[ip].mac \in MacsOf(ip)
    <2>1. SUFFICES ASSUME Cardinality(MacsOf(ip)) = 1 PROVE ~ContestedBy(ip, all)
      BY <1>2, <1>4
    <2>2. IsFiniteSet(MacsOf(ip))
      <3>1. PICK n \in Nat : n = all
        BY <1>0 DEF all, DissectInv, SessionInv, TypeInv, SessionTypeOK
      <3>2. IsFiniteSet({m \in 1 .. all : Visited(m)[1] = ip})
        BY <3>1, FinitePositions
      <3>3. [k \in {m \in 1 .. all : Visited(m)[1] = ip} |-> Visited(k)[2]]
              \in Surjection({m \in 1 .. all : Visited(m)[1] = ip}, MacsOf(ip))
        BY <1>3 DEF Surjection
      <3> QED
        BY <3>2, <3>3, FS_Surjection
    <2>3. \A x, y \in MacsOf(ip) : x = y
      <3>1. ~(1 > 1)
        OBVIOUS
      <3> QED
        BY <2>1, <2>2, <3>1, MoreThanOne
    <2> QED
      BY <1>4, <1>6, <2>3
  <1>9. VendorIs(first, hosts[ip].oui_vendor)
    BY <1>0, HostFields, VendorIsTheTables DEF first, InventoryTypeOK
  <1>10. FirstSeenWith(ip, first)
    BY <1>0, <1>2, FirstVisitIsFirstSeen DEF all
  <1> QED
    BY <1>4, <1>7, <1>8, <1>9, <1>10

-----------------------------------------------------------------------------
(***************************************************************************)
(* Type correctness, for every network and every vendor table.             *)
(***************************************************************************)
THEOREM InventoryTypeCorrect == InventorySpec => []InventoryTypeOK
  <1>1. InventoryInv => InventoryTypeOK
    BY DEF InventoryInv
  <1> QED
    BY <1>1, InventoryInvAlways, PTL

(***************************************************************************)
(* The inventory lists exactly the addresses that the segments carry, each *)
(* once and in the order of their first appearance.                        *)
(***************************************************************************)
THEOREM NobodyIsMissing == InventorySpec => []HostsAreThoseSeen
  BY HostsFromInv, InventoryInvAlways, PTL

(***************************************************************************)
(* No request is lost, counted twice or put on the wrong side: evidence    *)
(* and unit identifiers are those of the event list (ASSET-04, ASSET-05).  *)
(***************************************************************************)
THEOREM EveryRequestCounted == InventorySpec => []EvidenceMatchesEvents
  BY EvidenceFromInv, InventoryInvAlways, PTL

(***************************************************************************)
(* Assumption Z-03: a layer two address is published only if no packet     *)
(* contests it; the vendor is what a table without a bad row says of the   *)
(* address the host was first seen with, contested later or not.           *)
(***************************************************************************)
THEOREM NoStrangersAddress == InventorySpec => []MacIsUncontested
  BY MacsFromInv, InventoryInvAlways, PTL

(***************************************************************************)
(* The inventory is built beside the other stages: a run that ends with it *)
(* goes through decoding and dissection as they are specified alone, so    *)
(* that what is proved of them holds of it.                                *)
(***************************************************************************)
THEOREM InventoryFollowsDissection == InventorySpec => DissectSpec /\ SessionSpec
  <1>1. InventoryInit => DissectInit /\ SessionInit
    BY DEF InventoryInit, DissectInit
  <1>2. [InventoryNext]_allInventoryVars => [DissectNext]_allDissectVars
    BY DEF InventoryNext, CountRequest, Visit, EndLoop, allInventoryVars
  <1>3. [DissectNext]_allDissectVars => [SessionNext]_sessionVars
    BY DEF DissectNext, SkipSegment, DissectSegment, NextDissector, SortEvents, allDissectVars
  <1> QED
    BY <1>1, <1>2, <1>3, PTL DEF InventorySpec, DissectSpec, SessionSpec
=============================================================================
