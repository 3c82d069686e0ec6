---------------------------- MODULE MCDissection ----------------------------
(***************************************************************************)
(* The smallest instance of Dissection for TLC: one packet, whose payload  *)
(* only Modbus/TCP, only the low-confidence dissector or none recognises.  *)
(***************************************************************************)
EXTENDS Dissection

CONSTANTS a, b

MCEndpoint == {a, b}
MCPayload == {"write", "rtu", "raw"}
MCShape == [d \in Protocol |-> CASE d = ModbusTcp  -> {"write"}
                                 [] d = RtuOverTcp -> {"rtu"}
                                 [] OTHER          -> {}]
MCUnparsable == [dir \in Direction |-> {}]
MCOrders == {Discovered}

MCFrames == {[tcp |-> TRUE, src |-> a, dst |-> b, flags |-> {"A"},
              payload |-> p] : p \in MCPayload}
=============================================================================
