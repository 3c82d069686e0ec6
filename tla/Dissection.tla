----------------------------- MODULE Dissection -----------------------------
(***************************************************************************)
(* Protocol recognition over the decoded segments: run_dissectors of       *)
(* src/wayside/protocols/registry.py and the five dissectors it calls.     *)
(*                                                                         *)
(* The dissectors run one after the other over the same segment list; one  *)
(* step is one segment seen by one dissector.  Which bytes have the shape  *)
(* of a protocol is the constant Shape; what a dissector does with a       *)
(* segment of that shape is modelled.                                      *)
(***************************************************************************)
EXTENDS Sessions, FiniteSets

CONSTANTS
  Payload,      \* the non-empty TCP payloads
  Shape,        \* dissector -> payloads that have the shape it looks for
  Unparsable,   \* direction -> MBAP payloads scapy rejects (struct.error)
  WriteCodes,   \* MBAP payloads whose function code classifies as a write
  Orders        \* the orders in which the registry may list dissectors

ModbusTcp == "modbus-tcp"
RtuOverTcp == "modbus-rtu-over-tcp"

\* The manifests, in the order of their paths and of their identifiers alike.
Discovered == <<"ftp", "http", RtuOverTcp, ModbusTcp, "telnet">>
Protocol == {Discovered[i] : i \in DOMAIN Discovered}
Confidence(d) == IF d = RtuOverTcp THEN "low" ELSE "high"
Rank(d) == CHOOSE i \in DOMAIN Discovered : Discovered[i] = d

Direction == {"request", "response"}

ASSUME DissectionAssumption ==
  /\ NoPayload \notin Payload
  /\ \A f \in Frames : f.payload \in Payload \cup {NoPayload}
  /\ Shape \in [Protocol -> SUBSET Payload]
  /\ Unparsable \in [Direction -> SUBSET Shape[ModbusTcp]]
  /\ WriteCodes \subseteq Shape[ModbusTcp]
  /\ \A o \in Orders : o \in [DOMAIN Discovered -> Protocol]
                       /\ {o[i] : i \in DOMAIN o} = Protocol

VARIABLES
  dissectors,             \* the dissectors, as discover_dissectors listed them
  turn,                   \* the dissector that is running
  at,                     \* the segment it looks at
  session_clients,        \* its dictionary: session -> client endpoint
  protocol_events,        \* events of high-confidence dissectors
  low_confidence_events,  \* events of low-confidence dissectors
  sorted                  \* both lists have been sorted

dissectVars == <<dissectors, turn, at, session_clients, protocol_events,
                 low_confidence_events, sorted>>
allDissectVars == <<sessionVars, dissectVars>>

Event(confidence) ==
  [packet_number : 1 .. MaxPackets, session_id : SessionId,
   protocol : {d \in Protocol : Confidence(d) = confidence},
   direction : IF confidence = "low" THEN {"none"} ELSE Direction]

PayloadOf(e) == packets[e.packet_number].payload
SenderOf(e) == packets[e.packet_number].src

(***************************************************************************)
(* validate_mbap is asked first by the Modbus/TCP dissector and by the     *)
(* RTU discriminator, which yields to it (assumption Z-17).                *)
(***************************************************************************)
RtuByChecksumOnly(payload) == payload \in Shape[RtuOverTcp]   \* mutant
LooksLikeRtu(payload) ==
  payload \in Shape[RtuOverTcp] /\ payload \notin Shape[ModbusTcp]

Recognises(d, payload) ==
  IF d = RtuOverTcp THEN LooksLikeRtu(payload) ELSE payload \in Shape[d]

\* The first sender of a recognised payload is the client of the session.
LastSenderIsClient(s) == FrameOf(s).src                       \* mutant
ClientOf(s) ==
  IF session_clients[s.session_id] = NoEndpoint THEN FrameOf(s).src
  ELSE session_clients[s.session_id]

DirectionOf(d, s) ==
  IF d = RtuOverTcp THEN "none"
  ELSE IF FrameOf(s).src = ClientOf(s) THEN "request" ELSE "response"

\* scapy's ADU classes are a second gate, for Modbus/TCP only.
Rejected(d, s) ==
  d = ModbusTcp /\ FrameOf(s).payload \in Unparsable[DirectionOf(d, s)]

\* The sort key of run_dissectors.
Precedes(e, f) ==
  \/ e.packet_number < f.packet_number
  \/ /\ e.packet_number = f.packet_number
     /\ e.session_id < f.session_id
  \/ /\ e.packet_number = f.packet_number
     /\ e.session_id = f.session_id
     /\ Rank(e.protocol) < Rank(f.protocol)

(***************************************************************************)
(* list.sort, which is stable: elements that the key cannot tell apart     *)
(* stay in the order in which they were found.  `before` holds the pairs   *)
(* of positions whose first goes before the second.                        *)
(***************************************************************************)
Arranged(list, before) ==
  LET place(i) == Cardinality({j \in DOMAIN list : <<j, i>> \in before}) + 1
  IN  [n \in DOMAIN list |-> list[CHOOSE i \in DOMAIN list : place(i) = n]]

ListSort(list, less(_, _)) ==
  Arranged(list, {p \in (DOMAIN list) \X (DOMAIN list) :
                    \/ less(list[p[1]], list[p[2]])
                    \/ p[1] < p[2] /\ ~less(list[p[2]], list[p[1]])})

\* decode_segments returned a list: every dissector sees all of it.
Exhausted == at                     \* mutant: an iterator instead of a list
Rewound == 1

-----------------------------------------------------------------------------
DissectInit ==
  /\ SessionInit
  /\ dissectors \in Orders
  /\ turn = 1
  /\ at = 1
  /\ session_clients = [id \in SessionId |-> NoEndpoint]
  /\ protocol_events = <<>>
  /\ low_confidence_events = <<>>
  /\ sorted = FALSE

Running == pass = "decoded" /\ turn <= Len(dissectors) /\ at <= Len(segments)
Recognised == Recognises(dissectors[turn], FrameOf(segments[at]).payload)

SkipSegment ==
  /\ Running
  /\ ~Recognised
  /\ at' = at + 1
  /\ UNCHANGED <<sessionVars, dissectors, turn, session_clients,
                 protocol_events, low_confidence_events, sorted>>

(***************************************************************************)
(* A recognised segment settles the client of its session if it is the     *)
(* first, even when the ADU gate then rejects it.  The registry adds       *)
(* protocol and confidence from the manifest and files the event.          *)
(***************************************************************************)
DissectSegment ==
  /\ Running
  /\ Recognised
  /\ LET d == dissectors[turn]
         s == segments[at]
         event == [packet_number |-> s.packet_number,
                   session_id |-> s.session_id,
                   protocol |-> d, direction |-> DirectionOf(d, s)]
         File(list, c) == IF Confidence(d) = c /\ ~Rejected(d, s)
                          THEN Append(list, event) ELSE list
     IN  /\ session_clients' = IF d = RtuOverTcp THEN session_clients
                               ELSE [session_clients EXCEPT
                                       ![s.session_id] = ClientOf(s)]
         /\ protocol_events' = File(protocol_events, "high")
         /\ low_confidence_events' = File(low_confidence_events, "low")
  /\ at' = at + 1
  /\ UNCHANGED <<sessionVars, dissectors, turn, sorted>>

\* Each dissector starts with an empty dictionary of clients.
NextDissector ==
  /\ pass = "decoded"
  /\ turn <= Len(dissectors)
  /\ at > Len(segments)
  /\ turn' = turn + 1
  /\ at' = Rewound
  /\ session_clients' = [id \in SessionId |-> NoEndpoint]
  /\ UNCHANGED <<sessionVars, dissectors, protocol_events,
                 low_confidence_events, sorted>>

SortEvents ==
  /\ pass = "decoded"
  /\ turn > Len(dissectors)
  /\ ~sorted
  /\ protocol_events' = ListSort(protocol_events, Precedes)
  /\ low_confidence_events' = ListSort(low_confidence_events, Precedes)
  /\ sorted' = TRUE
  /\ UNCHANGED <<sessionVars, dissectors, turn, at, session_clients>>

DissectNext ==
  \/ SessionNext /\ UNCHANGED dissectVars
  \/ SkipSegment
  \/ DissectSegment
  \/ NextDissector
  \/ SortEvents

DissectSpec == DissectInit /\ [][DissectNext]_allDissectVars

-----------------------------------------------------------------------------
(***************************************************************************)
(* The warnings analyze derives from the two event lists.  No packets      *)
(* stands for what the audit of the file calls structurally empty (see     *)
(* CaptureAudit for when the two differ); the warning about frames cut by  *)
(* a snaplen does not depend on the lists and is left out.                 *)
(***************************************************************************)
RecognitionWarnings ==
  (IF packets = <<>> THEN {"empty capture"}
   ELSE IF protocol_events = <<>> THEN {"no segment recognised"} ELSE {})
  \cup (IF low_confidence_events # <<>> THEN {"low confidence"} ELSE {})

-----------------------------------------------------------------------------
\* Type invariant.
DissectTypeOK ==
  /\ SessionTypeOK
  /\ dissectors \in Orders
  /\ turn \in 1 .. Len(Discovered) + 1
  /\ at \in 1 .. MaxPackets + 1
  /\ session_clients \in [SessionId -> Endpoint \cup {NoEndpoint}]
  /\ protocol_events \in Seq(Event("high"))
  /\ low_confidence_events \in Seq(Event("low"))
  /\ sorted \in BOOLEAN

Reported(list) == {list[i] : i \in DOMAIN list}
HighEvents == Reported(protocol_events)
LowEvents == Reported(low_confidence_events)

(***************************************************************************)
(* Assumption Z-17, "a property of the dissectors, not of the call order": *)
(* no payload that validates as MBAP is ever reported as a tunnelled RTU   *)
(* frame, not even one the Modbus/TCP dissector rejected, and whichever of *)
(* the two ran first.                                                      *)
(***************************************************************************)
ModbusRecognitionsExclusive ==
  \A e \in LowEvents :
    /\ PayloadOf(e) \notin Shape[ModbusTcp]
    /\ \A f \in HighEvents :
         f.protocol = ModbusTcp => f.packet_number # e.packet_number

(***************************************************************************)
(* Within one session and one protocol the requests all come from one      *)
(* endpoint and the responses all from its peer: the two parties are never *)
(* both the client, whatever was rejected or unrecognised in between.      *)
(***************************************************************************)
OneClientPerSessionAndProtocol ==
  \A e, f \in HighEvents :
    (e.session_id = f.session_id /\ e.protocol = f.protocol) =>
      (e.direction = f.direction <=> SenderOf(e) = SenderOf(f))

(***************************************************************************)
(* Every dissector sees every segment, whatever ran before it: a segment   *)
(* of a dissector's shape is reported by it exactly once, and any other    *)
(* never.  The exceptions are an ADU that scapy rejects in one of the two  *)
(* directions and an RTU frame that also validates as MBAP.  Nor does the  *)
(* order in which the registry listed the dissectors show: consecutive     *)
(* events are strictly ordered, so a set of events has one list (the byte  *)
(* determinism of analysis.json).                                          *)
(***************************************************************************)
StrictlyOrdered(list) ==
  \A i \in 1 .. Len(list) - 1 :
    \/ list[i].packet_number < list[i + 1].packet_number
    \/ /\ list[i].packet_number = list[i + 1].packet_number
       /\ Rank(list[i].protocol) < Rank(list[i + 1].protocol)

ReportedOnce ==
  sorted =>
    /\ StrictlyOrdered(protocol_events)
    /\ StrictlyOrdered(low_confidence_events)
    /\ \A i \in DOMAIN segments : \A d \in Protocol :
         LET payload == FrameOf(segments[i]).payload
             seen    == {e \in HighEvents \cup LowEvents :
                           /\ e.packet_number = segments[i].packet_number
                           /\ e.protocol = d}
             yields  == d = RtuOverTcp /\ payload \in Shape[ModbusTcp]
             gated   == d = ModbusTcp /\ \E dir \in Direction :
                                           payload \in Unparsable[dir]
         IN  IF payload \in Shape[d] /\ ~yields
             THEN Cardinality(seen) = 1 \/ (gated /\ seen = {})
             ELSE seen = {}

(***************************************************************************)
(* The warning "No segment in this capture was recognised by any dissector *)
(* in the registry" (src/wayside/pipeline.py), taken at its word.          *)
(***************************************************************************)
NoneRecognisedIsTrue ==
  sorted /\ "no segment recognised" \in RecognitionWarnings
    => HighEvents \cup LowEvents = {}
=============================================================================
