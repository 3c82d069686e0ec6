---------------------------- MODULE MCInventory ----------------------------
(***************************************************************************)
(* A small instance of Inventory for TLC: a host that speaks from two      *)
(* ports and from behind two layer two addresses, a server it asks, and    *)
(* requests of Modbus and of another protocol.                             *)
(***************************************************************************)
EXTENDS Inventory

CONSTANTS a1, a2, b, hostA, hostB, m1, m2

MCEndpoint == {a1, a2, b}
MCIP == {hostA, hostB}
MCIpOf == [e \in MCEndpoint |-> IF e = b THEN hostB ELSE hostA]
MCMac == {m1, m2}

\* The table knows the prefix of one of the two addresses.
MCPrefixOf == [m \in MCMac |-> m]
Row(form, prefix, vendor) == [form |-> form, prefix |-> prefix, vendor |-> vendor]
Whole == <<Row("pair", m1, "old"), Row("blank", Unknown, Unknown),
           Row("pair", m1, "new")>>
MCOuiFiles == {NoTable, Whole, Append(Whole, Row("pair", Unknown, "bad")),
               Append(Whole, Row("other", Unknown, Unknown))}

MCPayload == {"unit1", "unit2", "http", "raw"}
MCShape == [d \in Protocol |-> CASE d = ModbusTcp -> {"unit1", "unit2"}
                                 [] d = "http"    -> {"http"}
                                 [] OTHER         -> {}]
MCUnparsable == [dir \in Direction |-> {}]
MCUnitIdOf == [p \in MCShape[ModbusTcp] |-> IF p = "unit1" THEN 1 ELSE 2]
MCOrders == {Discovered}

Data(src, dst, payload, src_mac, dst_mac) ==
  [tcp |-> TRUE, src |-> src, dst |-> dst, flags |-> {"A"},
   payload |-> payload, src_mac |-> src_mac, dst_mac |-> dst_mac]

MCFrames ==
  {Data(a1, b, p, m1, m2) : p \in MCPayload}
  \cup {Data(a2, b, p, m2, m2) : p \in {"unit2", "http"}}
  \cup {Data(b, a1, p, m2, m1) : p \in {"unit1", "http", "raw"}}
  \cup {Data(b, a1, "raw", m1, m2), Data(a1, b, "raw", Unknown, Unknown),
        Data(a1, a2, "unit1", m1, m1)}
=============================================================================
