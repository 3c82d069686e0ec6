------------------------------ MODULE MCGuard ------------------------------
(***************************************************************************)
(* A small instance of Guard for TLC: shingles of two words, one line or   *)
(* two per text, each text with one thing that a layer looks for or with   *)
(* something that only looks like it.                                      *)
(***************************************************************************)
EXTENDS Guard

Line == [fragments |-> {}, words |-> <<>>, addresses |-> {}, device |-> FALSE,
         project |-> FALSE, literals |-> {}]
Fragment(clause, modal) == [long |-> TRUE, clause |-> clause, modal |-> modal]
Ipv4 == [shape |-> "ipv4", value |-> "a", sep |-> "."]
Mac(sep) == [shape |-> "mac", value |-> "m", sep |-> sep]
NoAddress == [shape |-> "none", value |-> "n", sep |-> "."]

MCPath == {"doc", "LOCAL"}
MCFolded == [p \in MCPath |-> IF p = "doc" THEN "doc" ELSE "local"]
MCLocalCorpus == {"local"}
MCCovers == [pattern \in {"doc", "*"} |->
               IF pattern = "*" THEN {"doc", "local"} ELSE {"doc"}]
MCLiteral == {"secret"}
MCCorpus == {<<[Line EXCEPT !.words = <<"one", "two">>]>>}

Normative == [Line EXCEPT !.fragments = {Fragment(TRUE, TRUE)}]
Harmless == [Line EXCEPT !.fragments = {Fragment(TRUE, FALSE), Fragment(FALSE, TRUE)}]
TextOf(line) == <<line>>
MCText ==
  {TextOf(Normative),
   TextOf(Harmless),
   TextOf([Normative EXCEPT !.project = TRUE]),
   TextOf([Line EXCEPT !.device = TRUE, !.literals = {"secret"}]),
   TextOf([Line EXCEPT !.addresses = {Ipv4, Mac("-")}]),
   <<[Line EXCEPT !.words = <<"two", "one">>], [Line EXCEPT !.words = <<"two">>]>>}

MCMayHold == [p \in MCPath |->
                IF p = "doc" THEN MCText \cup {Binary, Absent} ELSE {Binary, Absent}]

PathLine(pattern) == [form |-> "path", pattern |-> pattern]
ValueLine(a) == [form |-> "value", address |-> a]
ExemptLine(rule, pattern) == [form |-> "exempt", rule |-> rule, pattern |-> pattern]
Malformed == [form |-> "malformed"]

MCAllowList ==
  {{},
   {PathLine("doc")},
   {PathLine("*"), ExemptLine("identity-project-name", "doc")},
   {ExemptLine("all", "*")},
   {ValueLine(Ipv4), ValueLine(Mac(":"))},
   {PathLine("*"), Malformed},
   {PathLine("*"), ValueLine(NoAddress)},
   {PathLine("*"), ExemptLine("identity-device", "doc")}}
=============================================================================
