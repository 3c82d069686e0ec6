---------------------------- MODULE MCCommMatrix ----------------------------
(***************************************************************************)
(* A small instance of CommMatrix for TLC: two conversations that share    *)
(* an endpoint, opened, answered and half-opened in every way, with a SYN  *)
(* that carries payload, and payloads of high, low and no confidence.      *)
(* Every capture of at most MaxPackets of these frames is an initial       *)
(* state; Sessions is checked in the same run.                             *)
(***************************************************************************)
EXTENDS CommMatrix

CONSTANTS a, b, c

MCEndpoint == {a, b, c}
MCPayload == {"write", "rtu", "telnet", "raw"}
MCShape == [d \in Protocol |-> CASE d = ModbusTcp  -> {"write"}
                                 [] d = RtuOverTcp -> {"rtu"}
                                 [] d = "telnet"   -> {"telnet"}
                                 [] OTHER          -> {}]
MCUnparsable == [dir \in Direction |-> {}]
MCOrders == {Discovered}

Packet(src, dst, flags, payload) ==
  [tcp |-> TRUE, src |-> src, dst |-> dst, flags |-> flags,
   payload |-> payload]

MCFrames ==
  {Packet(a, b, {"A"}, p) : p \in MCPayload \ {"raw"}}
  \cup {Packet(b, a, {"A"}, p) : p \in {"telnet", "raw"}}
  \cup {Packet(a, b, {"S"}, "raw"), Packet(a, b, {"S"}, NoPayload), Packet(b, a, {"S"}, NoPayload),
        Packet(b, a, {"S", "A"}, NoPayload), Packet(a, c, {"S"}, NoPayload),
        Packet(c, a, {"A"}, "write"),
        [Packet(a, b, {}, NoPayload) EXCEPT !.tcp = FALSE]}
=============================================================================
