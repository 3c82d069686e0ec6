----------------------------- MODULE MCFindings -----------------------------
(***************************************************************************)
(* A small instance of Findings, and of Dissection under it, for TLC: two  *)
(* conversations in which writes and their answers, other Modbus traffic,  *)
(* two cleartext protocols and a tunnelled frame meet in every order, with *)
(* and without a SYN, under check files and catalogues that are in order,  *)
(* lack a citation, or carry a defect where nobody cites it.               *)
(*                                                                         *)
(* The payload classes are the combinations of shapes that bytes can have: *)
(* an MBAP header excludes the FTP and HTTP shapes, while a Telnet         *)
(* negotiation or an RTU frame may carry bytes that validate as MBAP.      *)
(***************************************************************************)
EXTENDS Findings

CONSTANTS a, b, c

MCEndpoint == {a, b, c}

MCPayload == {"write", "read", "short", "rtu", "rtu+mbap", "ftp",
              "telnet+mbap", "raw"}

MCShape ==
  [d \in Protocol |->
    CASE d = ModbusTcp  -> {"write", "read", "short", "rtu+mbap",
                            "telnet+mbap"}
      [] d = RtuOverTcp -> {"rtu", "rtu+mbap"}
      [] d = "ftp"      -> {"ftp"}
      [] d = "telnet"   -> {"telnet+mbap"}
      [] d = "http"     -> {}]

\* A PDU too short for the class scapy builds, in one direction or in both.
MCUnparsable == [dir \in Direction |->
                  IF dir = "request" THEN {"short", "rtu+mbap"} ELSE {"short"}]

MCOrders == {Discovered, [i \in DOMAIN Discovered |-> Discovered[6 - i]]}

CheckFile(id, standards) ==
  [id |-> id, complete |-> TRUE, evaluator |-> TRUE, severity |-> "high",
   standards |-> standards]
MCShipped == <<CheckFile(Cleartext, <<"SR 4.1", "u-2">>),
               CheckFile(UnauthWrite, <<"SR 1.1", "u-1", "SR 1.1">>),
               CheckFile(IndustrialUse, <<"SR 1.2", "u-1">>)>>
MCCheckFiles ==
  {MCShipped, MCShipped \o <<CheckFile(Cleartext, <<"SR 4.1">>)>>,
   [MCShipped EXCEPT ![2].evaluator = FALSE],
   [MCShipped EXCEPT ![1].severity = "urgent"]}

Entry(citation) ==
  [cites |-> citation, complete |-> TRUE, typed |-> TRUE,
   clause_title_source |-> "own", verified |-> FALSE]
MCEntries == <<Entry("SR 1.1"), [Entry("SR 1.2") EXCEPT
                 !.verified = TRUE, !.clause_title_source = "copy"],
               Entry("SR 4.1"), Entry("u-2"), Entry("u-1"), Entry("uncited")>>
MCCatalogueFiles ==
  {<<MCEntries>>,
   <<SubSeq(MCEntries, 1, 3), <<Entry("u-2"), Entry("uncited")>>>>,
   <<MCEntries, <<Entry("uncited")>>>>,
   <<[MCEntries EXCEPT ![6].typed = FALSE]>>,
   <<[MCEntries EXCEPT ![6].verified = TRUE]>>}

Packet(src, dst, flags, payload) ==
  [tcp |-> TRUE, src |-> src, dst |-> dst, flags |-> flags,
   payload |-> payload]

MCFrames ==
  {Packet(a, b, {"A"}, p) : p \in MCPayload \ {"raw"}}
  \cup {Packet(b, a, {"A"}, p) : p \in {"write", "short", "rtu+mbap", "ftp",
                                       "raw"}}
  \cup {Packet(c, a, {"A"}, p) : p \in {"write", "telnet+mbap"}}
  \cup {Packet(a, b, {"S"}, NoPayload)}
=============================================================================
