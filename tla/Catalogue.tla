----------------------------- MODULE Catalogue -----------------------------
(***************************************************************************)
(* The files a run reads beside the capture: the check files that          *)
(* discover_checks collects (src/wayside/checks/engine.py) and the         *)
(* catalogue files that citations are resolved against                     *)
(* (src/wayside/standards/mapper.py).                                      *)
(*                                                                         *)
(* A list of files is in the order of their paths.  An entry and a check   *)
(* are records of what the validation of their fields tells apart.         *)
(***************************************************************************)
EXTENDS Naturals, Sequences, SequencesExt

\* What a loop over `list` collects: its elements at the positions in `kept`,
\* in their order.
Selected(list, kept) ==
  LET number(i) == Cardinality({j \in kept : j <= i})
  IN  [n \in 1 .. Cardinality(kept) |-> list[CHOOSE i \in kept : number(i) = n]]

CLAUSE_TITLE_SOURCES == {"copy", "own"}

\* The four passes of _validate_entry_fields: all fields there and filled,
\* of the right type, with a known origin of the title, and confirmed only
\* with a title from a copy.
ValidEntry(e) ==
  /\ e.complete
  /\ e.typed
  /\ e.clause_title_source \in CLAUSE_TITLE_SOURCES
  /\ e.verified => e.clause_title_source = "copy"

NoKeyTwice(keys) == \A i, j \in DOMAIN keys : keys[i] = keys[j] => i = j

\* load_catalog: all entries of all files, or a StandardsError.
Entries(files) == FlattenSeq(files)
CatalogLoads(files) ==
  /\ \A i \in DOMAIN Entries(files) : ValidEntry(Entries(files)[i])
  /\ NoKeyTwice([i \in DOMAIN Entries(files) |-> Entries(files)[i].cites])

\* resolve reads the whole catalogue for every single citation.  Its guard
\* against an empty zone model never fires: build_zone_model always returns
\* one zone.
EntryOnly(citation, files) ==                                  \* mutant
  \E i \in DOMAIN Entries(files) : /\ Entries(files)[i].cites = citation
                                   /\ ValidEntry(Entries(files)[i])
Resolvable(citation, files) ==
  /\ CatalogLoads(files)
  /\ \E i \in DOMAIN Entries(files) : Entries(files)[i].cites = citation

Resolve(citation, files) ==
  LET i == CHOOSE j \in DOMAIN Entries(files) : Entries(files)[j].cites = citation
  IN  Entries(files)[i]

\* src/wayside/risk.py: the word the report puts beside a severity.
ALLOWED_SEVERITIES == {"low", "medium", "high", "critical"}
SEVERITY_TO_RISK ==
  [low |-> "minor", medium |-> "moderate", high |-> "serious", critical |-> "severe"]

\* discover_checks: every file complete, with an evaluator that can be
\* loaded from beside it, and no identifier twice.  The severity only has to
\* be there: a word outside ALLOWED_SEVERITIES passes.
ChecksLoad(files) ==
  /\ \A i \in DOMAIN files : files[i].complete /\ files[i].evaluator
  /\ NoKeyTwice([i \in DOMAIN files |-> files[i].id])

\* _dedupe_standards: the first occurrence of each citation.
Dedupe(standards) ==
  Selected(standards, {i \in DOMAIN standards :
                         \A j \in 1 .. i - 1 : standards[j] # standards[i]})
=============================================================================
