------------------------------- MODULE Gates -------------------------------
(***************************************************************************)
(* The two gates before a public push: scripts/check_pub_gate.py and       *)
(* scripts/check_history_audit_gate.py, and the records they read, which   *)
(* people edit by hand and commit like any other file.                     *)
(*                                                                         *)
(* A record is a sequence of `key: value` lines between two separators and *)
(* a body.  A value is one of the kinds the gates tell apart; "required"   *)
(* stands for the fields that only have to be there.  A record that is not *)
(* readable as UTF-8 text, and a git that does not answer, raise errors    *)
(* which no handler catches: Python ends with the status Uncaught, which   *)
(* is also the code of a demand that was not met.                          *)
(***************************************************************************)
EXTENDS Naturals, Sequences, SequencesExt

CONSTANTS
  Sha,        \* the hashes of the commits to come, in order
  MaxEdits,   \* edits by hand in a behaviour
  NoRecord

\* Hashes differ, and none is an empty value.
ASSUME GatesAssumption ==
  /\ Sha \in Seq(Range(Sha)) /\ Sha # <<>>
  /\ \A m, n \in DOMAIN Sha : Sha[m] = Sha[n] => m = n
  /\ "" \notin Range(Sha)
  /\ MaxEdits \in Nat

VARIABLES
  record,     \* gate -> its record in the working tree
  committed,  \* gate -> its record in HEAD
  edited,     \* the record that is edited by hand in this behaviour
  tip,        \* the number of commits so far
  edits

gatesVars == <<record, committed, edited, tip, edits>>

Gate == {"pub", "history"}

REQUIRED_KEYS ==
  [pub |-> {"required", "reviewed_on", "reviewer", "verdict"},
   history |-> {"required", "audited_on", "head_sha", "surfaces", "rules_checked",
                "result", "author", "confirmed_on"}]

VALID_VERDICTS == {"go", "no-go", "pending"}
VALID_RESULTS == {"clean", "hits-outside-exceptions", "pending"}

\* What people write behind a key; "" is an empty value.
Values(key) ==
  CASE key \in {"reviewer", "author"} -> {"", "human", "agent"}
    [] key \in {"reviewed_on", "audited_on", "confirmed_on"} -> {"", "date", "no date"}
    [] key = "verdict" -> VALID_VERDICTS \cup {"other"}
    [] key = "result" -> VALID_RESULTS \cup {"other"}
    [] key = "head_sha" -> {""} \cup {Sha[n] : n \in 1 .. tip}
    [] key \in {"surfaces", "rules_checked"} -> {"all", "some"}
    [] OTHER -> {"there"}

Line(key, value) == [key |-> key, value |-> value]

Template ==
  [pub |-> <<Line("required", "there"), Line("reviewed_on", ""),
             Line("reviewer", ""), Line("verdict", "pending")>>,
   history |-> <<Line("required", "there"), Line("audited_on", "date"),
                 Line("head_sha", Sha[1]), Line("surfaces", "all"),
                 Line("rules_checked", "all"), Line("result", "clean"),
                 Line("author", ""), Line("confirmed_on", "")>>]

-----------------------------------------------------------------------------
(***************************************************************************)
(* load_record: a record without its two separators, or with a line        *)
(* without a colon, is not well framed; of two lines with the same key the *)
(* later one holds.                                                        *)
(***************************************************************************)
Fields(lines) ==
  [key \in {lines[i].key : i \in DOMAIN lines} |->
     lines[CHOOSE i \in DOMAIN lines :
             /\ lines[i].key = key
             /\ \A j \in i + 1 .. Len(lines) : lines[j].key # key].value]

Missing(fields, gate) == REQUIRED_KEYS[gate] \ DOMAIN fields

ReviewerIsInvalid(reviewer) == reviewer # "human"
IsDate(value) == value = "date"

(***************************************************************************)
(* check_pub_gate.  The order of the checks is part of the contract: the   *)
(* shape first, then the pending verdict, then who decided and when.       *)
(***************************************************************************)
PendingFirst(fields, quote) ==                                \* mutant
  IF "verdict" \in DOMAIN fields /\ fields["verdict"] = "pending" THEN 5
  ELSE IF Missing(fields, "pub") # {} \/ quote \/ fields["verdict"] \notin VALID_VERDICTS
  THEN 4
  ELSE IF ReviewerIsInvalid(fields["reviewer"]) \/ ~IsDate(fields["reviewed_on"]) THEN 4
  ELSE 0
ValidatePub(fields, quote) ==
  IF Missing(fields, "pub") # {} \/ quote \/ fields["verdict"] \notin VALID_VERDICTS
  THEN 4
  ELSE IF fields["verdict"] = "pending" THEN 5
  ELSE IF ReviewerIsInvalid(fields["reviewer"]) \/ ~IsDate(fields["reviewed_on"]) THEN 4
  ELSE 0

Uncaught == 1

PubCode(file, require_go) ==
  IF file = NoRecord THEN 3
  ELSE IF ~file.readable THEN Uncaught
  ELSE IF ~file.framed THEN 4
  ELSE LET fields == Fields(file.lines)
           code == ValidatePub(fields, file.quote)
       IN  IF code = 0 /\ require_go /\ fields["verdict"] # "go" THEN 1 ELSE code

(***************************************************************************)
(* check_history_audit_gate.  An unsigned record is waiting, not wrong; a  *)
(* body is not looked at, and git is asked for HEAD only when the flag     *)
(* demands it.                                                             *)
(***************************************************************************)
HistoryShapeErrors(fields) ==
  \/ Missing(fields, "history") # {}
  \/ fields["result"] \notin VALID_RESULTS
  \/ fields["surfaces"] # "all"
  \/ fields["rules_checked"] # "all"
  \/ ~IsDate(fields["audited_on"])
  \/ fields["author"] # "" /\ ReviewerIsInvalid(fields["author"])
  \/ fields["confirmed_on"] # "" /\ ~IsDate(fields["confirmed_on"])

HeadOrItsParent(fields) ==                                     \* mutant
  tip > 0 /\ fields["head_sha"] \notin {Sha[n] : n \in {tip - 1, tip} \ {0}}
StaleHead(fields) == fields["head_sha"] # Sha[tip]

HistoryCode(file, require_clean, require_current, git_answers) ==
  IF file = NoRecord THEN 3
  ELSE IF ~file.readable THEN Uncaught
  ELSE IF ~file.framed THEN 4
  ELSE LET fields == Fields(file.lines)
       IN  IF HistoryShapeErrors(fields) THEN 4
           ELSE IF fields["author"] = "" \/ fields["confirmed_on"] = "" THEN 5
           ELSE IF require_current /\ ~git_answers THEN Uncaught
           ELSE IF require_current /\ StaleHead(fields) THEN 6
           ELSE IF require_clean /\ fields["result"] # "clean" THEN 1
           ELSE 0

-----------------------------------------------------------------------------
GatesInit ==
  /\ record = [g \in Gate |-> [readable |-> TRUE, framed |-> TRUE,
                               lines |-> Template[g], quote |-> FALSE]]
  /\ committed = [g \in Gate |-> NoRecord]
  /\ edited \in Gate
  /\ tip = 1
  /\ edits = 0

Edit(file) ==
  /\ edits < MaxEdits
  /\ record' = [record EXCEPT ![edited] = file]
  /\ edits' = edits + 1
  /\ UNCHANGED <<committed, edited, tip>>

Present == record[edited] # NoRecord
Lines == record[edited].lines
WithLines(lines) == [record[edited] EXCEPT !.lines = lines]

SetLine ==
  Present /\ \E i \in DOMAIN Lines : \E value \in Values(Lines[i].key) :
    Edit(WithLines([Lines EXCEPT ![i].value = value]))

\* A line for a key that another line may have, too.  Bound: no record has
\* more than one line too many.
RepeatLine ==
  /\ Present
  /\ Len(Lines) <= Len(Template[edited])
  /\ \E key \in REQUIRED_KEYS[edited] : \E value \in Values(key) :
       Edit(WithLines(Append(Lines, Line(key, value))))

DropLine ==
  Present /\ \E i \in DOMAIN Lines : Edit(WithLines(RemoveAt(Lines, i)))

ChangeFrame ==
  Present /\ Edit([record[edited] EXCEPT !.framed = ~@])

\* Saved in another encoding, or with other permissions, and back again.
ChangeEncoding ==
  Present /\ Edit([record[edited] EXCEPT !.readable = ~@])

QuoteSource ==
  Present /\ Edit([record[edited] EXCEPT !.quote = TRUE])

RemoveFile == Present /\ Edit(NoRecord)

\* The audit of the history writes its result and where it ran; it does not
\* touch the signature.
Audit ==
  /\ record["history"] # NoRecord
  /\ \E result \in {"clean", "hits-outside-exceptions"} :
       LET found == [audited_on |-> "date", head_sha |-> Sha[tip], result |-> result]
       IN  record' = [record EXCEPT !["history"].lines =
                        [i \in DOMAIN @ |-> IF @[i].key \in DOMAIN found
                                            THEN Line(@[i].key, found[@[i].key])
                                            ELSE @[i]]]
  /\ UNCHANGED <<committed, edited, tip, edits>>

\* Everything in the working tree, the records included.
CommitRecords ==
  /\ tip < Len(Sha)
  /\ tip' = tip + 1
  /\ committed' = record
  /\ UNCHANGED <<record, edited, edits>>

GatesNext ==
  \/ SetLine \/ RepeatLine \/ DropLine \/ ChangeFrame \/ ChangeEncoding
  \/ QuoteSource \/ RemoveFile \/ Audit \/ CommitRecords

GatesSpec == GatesInit /\ [][GatesNext]_gatesVars

-----------------------------------------------------------------------------
\* The type of the state: a record holds known keys, in any number and order.
Keys == REQUIRED_KEYS["pub"] \cup REQUIRED_KEYS["history"]
RecordLine ==
  [key : Keys,
   value : {"", "there", "human", "agent", "date", "no date", "all", "some", "other"}
           \cup VALID_VERDICTS \cup VALID_RESULTS \cup Range(Sha)]
RecordFile ==
  [readable : BOOLEAN, framed : BOOLEAN, lines : Seq(RecordLine), quote : BOOLEAN]

GatesTypeOK ==
  /\ {record, committed} \subseteq [Gate -> RecordFile \cup {NoRecord}]
  /\ edited \in Gate
  /\ tip \in 1 .. Len(Sha)
  /\ edits \in 0 .. MaxEdits

(***************************************************************************)
(* What a record says, read off its lines: the value of the last line for  *)
(* a key.                                                                  *)
(***************************************************************************)
Says(file, key, values) ==
  \E i \in DOMAIN file.lines :
    /\ file.lines[i].key = key
    /\ file.lines[i].value \in values
    /\ \A j \in DOMAIN file.lines : j > i => file.lines[j].key # key

\* Readable, framed, with every field, whatever they say.
InOrder(gate) ==
  LET file == record[gate]
  IN  /\ file # NoRecord
      /\ file.readable /\ file.framed
      /\ REQUIRED_KEYS[gate] \subseteq {file.lines[i].key : i \in DOMAIN file.lines}
      /\ gate = "pub" => ~file.quote

Unreadable(gate) == record[gate] # NoRecord /\ ~record[gate].readable

PubCodeIsRight(require_go) ==
  LET file == record["pub"]
      code == PubCode(file, require_go)
      shape == InOrder("pub") /\ Says(file, "verdict", VALID_VERDICTS)
      pending == Says(file, "verdict", {"pending"})
      decided == Says(file, "reviewer", {"human"}) /\ Says(file, "reviewed_on", {"date"})
      refused == require_go /\ Says(file, "verdict", {"no-go"})
  IN  /\ code \in {0, 1, 3, 4, 5}
      /\ code = 0 <=> shape /\ ~pending /\ decided /\ ~refused
      /\ code = 1 <=>
           \/ Unreadable("pub")
           \/ shape /\ ~pending /\ decided /\ refused
      /\ code = 3 <=> file = NoRecord
      /\ code = 5 <=> shape /\ pending

HistoryCodeIsRight(require_clean, require_current, git_answers) ==
  LET file == record["history"]
      code == HistoryCode(file, require_clean, require_current, git_answers)
      shape == /\ InOrder("history")
               /\ Says(file, "result", VALID_RESULTS)
               /\ Says(file, "surfaces", {"all"}) /\ Says(file, "rules_checked", {"all"})
               /\ Says(file, "audited_on", {"date"})
               /\ Says(file, "author", {"", "human"})
               /\ Says(file, "confirmed_on", {"", "date"})
      signed == Says(file, "author", {"human"}) /\ Says(file, "confirmed_on", {"date"})
      failed == require_current /\ ~git_answers
      stale == require_current /\ git_answers /\ ~Says(file, "head_sha", {Sha[tip]})
      refused == require_clean /\ ~Says(file, "result", {"clean"})
  IN  /\ code \in {0, 1, 3, 4, 5, 6}
      /\ code = 0 <=> shape /\ signed /\ ~failed /\ ~stale /\ ~refused
      /\ code = 1 <=>
           \/ Unreadable("history")
           \/ shape /\ signed /\ failed
           \/ shape /\ signed /\ ~failed /\ ~stale /\ refused
      /\ code = 3 <=> file = NoRecord
      /\ code = 5 <=> shape /\ ~signed
      /\ code = 6 <=> shape /\ signed /\ stale

(***************************************************************************)
(* Each exit code stands for exactly the records it is given for, after    *)
(* any sequence of edits, audits and commits and for every combination of  *)
(* flags, read off the last line for each key: 3 for no record, 5 for one  *)
(* whose shape is right and which still waits for a person, 6 for a signed *)
(* one of another HEAD, 0 for one that a person decided and dated and no   *)
(* flag refuses, 4 for every other one that can be read.  Code 1 is two    *)
(* things at once: what a flag demands is not met, or the record could not *)
(* be read or git did not answer.                                          *)
(***************************************************************************)
CodesTellApart ==
  /\ \A go \in BOOLEAN : PubCodeIsRight(go)
  /\ \A clean, current, git \in BOOLEAN : HistoryCodeIsRight(clean, current, git)

(***************************************************************************)
(* --require-current before a push: it passes only a record that names the *)
(* present HEAD.  A commit cannot name itself, so such a record is not yet *)
(* part of HEAD: the gate has to run before the record is committed, and   *)
(* refuses a clean checkout.                                               *)
(***************************************************************************)
CurrentIsNotYetCommitted ==
  record["history"] # NoRecord
    /\ HistoryCode(record["history"], FALSE, TRUE, TRUE) = 0
      => /\ Says(record["history"], "head_sha", {Sha[tip]})
         /\ record["history"] # committed["history"]
=============================================================================
