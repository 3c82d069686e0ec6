----------------------------- MODULE Inventory -----------------------------
(***************************************************************************)
(* The host inventory: build_assets of src/wayside/assets/inventory.py, as *)
(* analyze calls it once the event lists are sorted.                       *)
(*                                                                         *)
(* Two loops: over the protocol events, which fills the dictionaries of    *)
(* requests and unit identifiers, and over the segments, which visits the  *)
(* source and then the destination of each.                                *)
(***************************************************************************)
EXTENDS Dissection, Functions, VendorTable

CONSTANTS
  IP,           \* addresses of hosts
  Mac,          \* layer two addresses
  IpOf,         \* endpoint -> its address
  UnitIdOf,     \* MBAP payload -> the unit identifier it addresses
  OuiFiles      \* the vendor table an installation may have

ASSUME InventoryAssumption ==
  /\ Unknown \notin Mac
  /\ IpOf \in [Endpoint -> IP]
  /\ DOMAIN UnitIdOf = Shape[ModbusTcp]
  /\ DOMAIN PrefixOf = Mac
  /\ \A f \in Frames :   \* without an Ethernet layer both are unknown
       \/ f.src_mac \in Mac /\ f.dst_mac \in Mac
       \/ f.src_mac = Unknown /\ f.dst_mac = Unknown
  /\ \A file \in OuiFiles \ {NoTable} : file \in Seq(Range(file))

VARIABLES
  loop,                 \* "events", "segments" or "listed"
  next,                 \* the next element the loop visits
  oui_table,            \* the vendor table of the installation
  unit_ids_by_server,   \* address -> unit identifiers of its requests
  requests_sent,        \* address -> requests counted under its source
  requests_received,    \* address -> requests counted under its target
  first_mac,            \* address -> layer two address first seen with it
  hosts,                \* address -> its entry, or NoHost
  host_order            \* the addresses in the order they were met

inventoryVars == <<loop, next, oui_table, unit_ids_by_server,
                   requests_sent, requests_received, first_mac, hosts,
                   host_order>>
allInventoryVars == <<allDissectVars, inventoryVars>>

NoHost == [listed |-> FALSE]
MinEventsForMediumConfidence == 3

-----------------------------------------------------------------------------
InventoryInit ==
  /\ DissectInit
  /\ loop = "events"
  /\ next = 1
  /\ oui_table \in OuiFiles
  /\ unit_ids_by_server = [ip \in IP |-> {}]
  /\ requests_sent = [ip \in IP |-> 0]
  /\ requests_received = [ip \in IP |-> 0]
  /\ first_mac = [ip \in IP |-> Unknown]
  /\ hosts = [ip \in IP |-> NoHost]
  /\ host_order = <<>>

EndLoop(from, to, len) ==
  /\ sorted
  /\ loop = from
  /\ next > len
  /\ loop' = to
  /\ next' = 1
  /\ UNCHANGED <<allDissectVars, oui_table, unit_ids_by_server,
                 requests_sent, requests_received, first_mac, hosts,
                 host_order>>

(***************************************************************************)
(* Events that are not requests are skipped: a response mirrors a request. *)
(* Only Modbus events carry a unit identifier.                             *)
(***************************************************************************)
IsRequest(e) == e.direction = "request"

SenderIsAddressee(e) == IpOf[SenderOf(e)]                      \* mutant
Addressee(e) == IpOf[packets[e.packet_number].dst]

CountRequest ==
  /\ sorted
  /\ loop = "events"
  /\ next <= Len(protocol_events)
  /\ LET e   == protocol_events[next]
         src == IpOf[SenderOf(e)]
         dst == Addressee(e)
     IN  IF IsRequest(e)
         THEN /\ unit_ids_by_server' =
                   IF e.protocol = ModbusTcp
                   THEN [unit_ids_by_server EXCEPT
                           ![dst] = @ \cup {UnitIdOf[PayloadOf(e)]}]
                   ELSE unit_ids_by_server
              /\ requests_sent' = [requests_sent EXCEPT ![src] = @ + 1]
              /\ requests_received' = [requests_received EXCEPT ![dst] = @ + 1]
         ELSE UNCHANGED <<unit_ids_by_server, requests_sent,
                          requests_received>>
  /\ next' = next + 1
  /\ UNCHANGED <<allDissectVars, loop, oui_table, first_mac, hosts,
                 host_order>>

(***************************************************************************)
(* The fields of an entry, established when its address is first met.      *)
(***************************************************************************)
Role(sent, received) ==
  IF sent > 0 /\ received > 0 THEN "Modbus client and server"
  ELSE IF sent > 0 THEN "Modbus client"
  ELSE IF received > 0 THEN "Modbus server"
  ELSE "undetermined"

RoleConfidence(sent, received) ==
  IF /\ sent + received >= MinEventsForMediumConfidence
     /\ (sent > 0) # (received > 0)
  THEN "medium" ELSE "low"

Vendor(mac) ==
  IF mac = Unknown \/ ~Loads(oui_table) THEN Unknown
  ELSE LookupVendor(mac, oui_table)

Entry(ip, mac) ==
  [listed     |-> TRUE,
   mac        |-> mac,
   oui_vendor |-> Vendor(mac),
   unit_ids   |-> unit_ids_by_server[ip],
   gateway    |-> Cardinality(unit_ids_by_server[ip]) > 1,
   role       |-> Role(requests_sent[ip], requests_received[ip]),
   evidence   |-> <<requests_sent[ip], requests_received[ip]>>,
   confidence |-> RoleConfidence(requests_sent[ip], requests_received[ip])]

\* A second, different layer two address settles the field for good (Z-03).
FirstMacWins(ip, mac) == FALSE                                 \* mutant
Contests(ip, mac) ==
  first_mac[ip] # Unknown /\ mac # Unknown /\ mac # first_mac[ip]

MacAfter(ip, mac) == IF Contests(ip, mac) THEN Unknown ELSE hosts[ip].mac

Met(ip) == hosts[ip] # NoHost

\* The 2k-1st visit is to the source of the k-th segment, the 2k-th to its
\* destination.
VisitSourcesOnly(n) ==                                         \* mutant
  LET f == FrameOf(segments[(n + 1) \div 2]) IN <<IpOf[f.src], f.src_mac>>
Visited(n) ==
  LET f == FrameOf(segments[(n + 1) \div 2])
  IN  IF n % 2 = 1 THEN <<IpOf[f.src], f.src_mac>>
      ELSE <<IpOf[f.dst], f.dst_mac>>

Visit ==
  /\ sorted
  /\ loop = "segments"
  /\ next <= 2 * Len(segments)
  /\ LET ip  == Visited(next)[1]
         mac == Visited(next)[2]
     IN  IF ~Met(ip)
         THEN /\ host_order' = Append(host_order, ip)
              /\ first_mac' = [first_mac EXCEPT ![ip] = mac]
              /\ hosts' = [hosts EXCEPT ![ip] = Entry(ip, mac)]
         ELSE /\ hosts' = [hosts EXCEPT ![ip].mac = MacAfter(ip, mac)]
              /\ UNCHANGED <<host_order, first_mac>>
  /\ next' = next + 1
  /\ UNCHANGED <<allDissectVars, loop, oui_table, unit_ids_by_server,
                 requests_sent, requests_received>>

InventoryNext ==
  \/ DissectNext /\ UNCHANGED inventoryVars
  \/ CountRequest
  \/ EndLoop("events", "segments", Len(protocol_events))
  \/ Visit
  \/ EndLoop("segments", "listed", 2 * Len(segments))

InventorySpec == InventoryInit /\ [][InventoryNext]_allInventoryVars

-----------------------------------------------------------------------------
Listed == loop = "listed"
Hosts == {host_order[i] : i \in DOMAIN host_order}
Requests == {e \in HighEvents : e.direction = "request"}

\* Type invariant.
InventoryTypeOK ==
  /\ DissectTypeOK
  /\ loop \in {"events", "segments", "listed"}
  /\ next \in Nat \ {0}
  /\ oui_table \in OuiFiles
  /\ unit_ids_by_server \in [IP -> SUBSET Range(UnitIdOf)]
  /\ requests_sent \in [IP -> Nat]
  /\ requests_received \in [IP -> Nat]
  /\ first_mac \in [IP -> Mac \cup {Unknown}]
  /\ host_order \in Seq(IP)
  /\ DOMAIN hosts = IP
  /\ \A ip \in IP : Met(ip) => hosts[ip].mac \in Mac \cup {Unknown}

(***************************************************************************)
(* The inventory lists exactly the addresses the segments carry, that is   *)
(* the members of the zone and the parties of the matrix, each once, and   *)
(* in the order of their first appearance.                                 *)
(***************************************************************************)
SeenIn(k) == {IpOf[packets[segments[j].packet_number].src] : j \in 1 .. k}
               \cup {IpOf[packets[segments[j].packet_number].dst] : j \in 1 .. k}

HostsAreThoseSeen ==
  Listed =>
    /\ Hosts = SeenIn(Len(segments))
    /\ Cardinality(Hosts) = Len(host_order)
    /\ \A k \in 0 .. Len(segments) :
         SeenIn(k) = {host_order[i] : i \in 1 .. Cardinality(SeenIn(k))}

(***************************************************************************)
(* No request is lost, counted twice or put on the wrong side on its way   *)
(* into the inventory: the numbers quoted as evidence are those of the     *)
(* event list, over all hosts as many requests are received as are sent,   *)
(* and a host is taken for a gateway exactly if requests for two unit      *)
(* identifiers were sent to it; asking two units makes no gateway of the   *)
(* asking side (ASSET-04, ASSET-05).                                       *)
(***************************************************************************)
RequestsFrom(ip) == {e \in Requests : IpOf[SenderOf(e)] = ip}
RequestsTo(ip) == {e \in Requests : IpOf[packets[e.packet_number].dst] = ip}

EvidenceMatchesEvents ==
  Listed =>
    /\ \A ip \in Hosts :
         LET asked == {e \in RequestsTo(ip) : e.protocol = ModbusTcp}
         IN  /\ hosts[ip].evidence = <<Cardinality(RequestsFrom(ip)),
                                       Cardinality(RequestsTo(ip))>>
             /\ hosts[ip].unit_ids = {UnitIdOf[PayloadOf(e)] : e \in asked}
             /\ hosts[ip].gateway <=>
                  \E e, f \in asked :
                    UnitIdOf[PayloadOf(e)] # UnitIdOf[PayloadOf(f)]
    /\ \A side \in {1, 2} :
         SumFunction([i \in DOMAIN host_order |->
                        hosts[host_order[i]].evidence[side]])
           = Cardinality(Requests)

(***************************************************************************)
(* Assumption Z-03: a layer two address is published as observed only if   *)
(* the first packet of its host carried it and no packet carried another;  *)
(* somebody else's address is never presented as the host's.  The vendor   *)
(* is the last word of the table on the address the host was first seen    *)
(* with, and stays when that address is contested and withdrawn; only a    *)
(* table without a bad row names vendors at all: a damaged file does not   *)
(* answer for some hosts and stay silent for others.                       *)
(***************************************************************************)
SoundTable ==
  \A i \in DOMAIN oui_table :
    \/ oui_table[i].form = "blank"
    \/ oui_table[i].form = "pair" /\ oui_table[i].prefix # Unknown

Names(i, mac) ==
  oui_table[i].form = "pair" /\ oui_table[i].prefix = PrefixOf[mac]

VendorIs(mac, vendor) ==
  IF /\ mac # Unknown
     /\ oui_table # NoTable
     /\ SoundTable
     /\ \E i \in DOMAIN oui_table : Names(i, mac)
  THEN \E i \in DOMAIN oui_table :
         /\ Names(i, mac)
         /\ oui_table[i].vendor = vendor
         /\ \A j \in DOMAIN oui_table : j > i => ~Names(j, mac)
  ELSE vendor = Unknown

FirstSeenWith(ip, mac) ==
  \E k \in DOMAIN segments :
    LET f == packets[segments[k].packet_number]
    IN  /\ ip \notin SeenIn(k - 1)
        /\ IF IpOf[f.src] = ip THEN mac = f.src_mac
           ELSE IpOf[f.dst] = ip /\ mac = f.dst_mac

MacIsUncontested ==
  Listed =>
    \A ip \in Hosts :
      LET frame(i) == packets[segments[i].packet_number]
          macs  == {frame(i).src_mac : i \in {j \in DOMAIN segments :
                                                IpOf[frame(j).src] = ip}}
                   \cup {frame(i).dst_mac : i \in {j \in DOMAIN segments :
                                                IpOf[frame(j).dst] = ip}}
          known == macs \ {Unknown}
      IN  /\ hosts[ip].mac # Unknown => known = {hosts[ip].mac}
          /\ Cardinality(macs) = 1 => hosts[ip].mac \in macs
          /\ \E mac \in macs : /\ FirstSeenWith(ip, mac)
                               /\ VendorIs(mac, hosts[ip].oui_vendor)

(***************************************************************************)
(* The evidence of a role reads "Modbus requests sent by this address" and *)
(* "Modbus requests received by this address" (_role_evidence_field): a    *)
(* host with a Modbus role took part in a Modbus request.                  *)
(***************************************************************************)
RoleRestsOnModbus ==
  Listed =>
    \A ip \in Hosts :
      hosts[ip].role # "undetermined" =>
        \E e \in Requests :
          /\ e.protocol = ModbusTcp
          /\ ip \in {IpOf[SenderOf(e)], IpOf[packets[e.packet_number].dst]}
=============================================================================
