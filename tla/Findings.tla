------------------------------ MODULE Findings ------------------------------
(***************************************************************************)
(* The check engine: run_checks of src/wayside/checks/engine.py over the   *)
(* finished model, the three evaluators it calls, and the resolution of    *)
(* the findings' citations at the end of analyze.                          *)
(*                                                                         *)
(* One step discovers the checks, runs one of them, sorts the findings, or *)
(* resolves the citations of one finding.  A defective check file, and the *)
(* first citation that cannot be resolved, end the whole run: nothing of   *)
(* it is published.                                                        *)
(***************************************************************************)
EXTENDS CommMatrix, Catalogue

CONSTANTS
  CheckFiles,      \* the lists of check files an installation may hold
  CatalogueFiles   \* the lists of catalogue files it may hold

Cleartext == "cleartext-protocol"
UnauthWrite == "modbus-unauthenticated-write"
IndustrialUse == "unauthenticated-industrial-protocol"

\* The checks that are shipped, in the order of their identifiers.
Checks == <<Cleartext, UnauthWrite, IndustrialUse>>
Check == {Checks[i] : i \in DOMAIN Checks}
CheckRank(c) == CHOOSE i \in DOMAIN Checks : Checks[i] = c

(***************************************************************************)
(* Of an installation's files: a check file that is complete names at      *)
(* least one citation (an empty list is a missing field), and whatever     *)
(* else it holds, the shipped checks are among its files.                  *)
(***************************************************************************)
CheckRecord == [id : STRING, complete : BOOLEAN, evaluator : BOOLEAN,
                severity : STRING, standards : Seq(STRING)]
CatalogueEntry == [cites : STRING, complete : BOOLEAN, typed : BOOLEAN,
                   clause_title_source : {"copy", "own", "other"},
                   verified : BOOLEAN]

ASSUME FindingsAssumption ==
  /\ \A files \in CheckFiles :
       /\ files \in Seq(CheckRecord)
       /\ \A i \in DOMAIN files : files[i].complete => files[i].standards # <<>>
       /\ \A c \in Check : \E i \in DOMAIN files : files[i].id = c
  /\ CatalogueFiles \subseteq Seq(Seq(CatalogueEntry))

CleartextProtocols == {"telnet", "ftp", "http"}
UnauthenticatedIndustrialProtocols == {ModbusTcp}

VARIABLES
  stage,             \* "discovery", "checks", "resolving", "published" or
                     \* "aborted"
  checks,            \* the check files as they were read
  catalogue,         \* the catalogue files as they are read
  check,             \* the check that runs next
  findings,          \* what the checks found
  resolved_findings  \* findings with their citations resolved

findingVars == <<stage, checks, catalogue, check, findings, resolved_findings>>
allFindingVars == <<allMatrixVars, findingVars>>

-----------------------------------------------------------------------------
FindingsInit ==
  /\ MatrixInit
  /\ stage = "discovery"
  /\ checks = <<>>
  /\ catalogue = <<>>
  /\ check = 1
  /\ findings = <<>>
  /\ resolved_findings = <<>>

(***************************************************************************)
(* The files are whatever the installation holds when the run comes to     *)
(* read them; those of the catalogue are not opened before a citation asks *)
(* for them.                                                               *)
(***************************************************************************)
DiscoverChecks ==
  /\ Built
  /\ stage = "discovery"
  /\ checks' \in CheckFiles
  /\ catalogue' \in CatalogueFiles
  /\ stage' = IF ChecksLoad(checks') THEN "checks" ELSE "aborted"
  /\ UNCHANGED <<allMatrixVars, check, findings, resolved_findings>>

(***************************************************************************)
(* The evaluators.  Two of them remember the first event of each key: of   *)
(* the events with one key, the one no other precedes.                     *)
(***************************************************************************)
SessionAlone(e, f) == e.session_id = f.session_id              \* mutant
SameUse(e, f) == e.session_id = f.session_id /\ e.protocol = f.protocol

FirstCleartext(e) ==
  /\ e.protocol \in CleartextProtocols
  /\ ~\E f \in HighEvents : /\ f.protocol \in CleartextProtocols
                            /\ SameUse(e, f)
                            /\ Precedes(f, e)

LastIndustrial(e) ==                                           \* mutant
  /\ e.protocol \in UnauthenticatedIndustrialProtocols
  /\ ~\E f \in HighEvents :
        /\ f.protocol \in UnauthenticatedIndustrialProtocols
        /\ e.session_id = f.session_id
        /\ Precedes(e, f)
FirstIndustrial(e) ==
  /\ e.protocol \in UnauthenticatedIndustrialProtocols
  /\ ~\E f \in HighEvents :
        /\ f.protocol \in UnauthenticatedIndustrialProtocols
        /\ e.session_id = f.session_id
        /\ Precedes(f, e)

\* Only events of Modbus/TCP carry a kind.
IsWrite(e) == e.protocol = ModbusTcp /\ PayloadOf(e) \in WriteCodes
WriteInAnyDirection(e) == IsWrite(e)                           \* mutant
WriteRequest(e) == IsWrite(e) /\ e.direction = "request"

Reports(c, e) ==
  \/ c = Cleartext /\ FirstCleartext(e)
  \/ c = UnauthWrite /\ WriteRequest(e)
  \/ c = IndustrialUse /\ FirstIndustrial(e)

(***************************************************************************)
(* The parties of a session, from the row of the same model's matrix; a    *)
(* session without a row has the endpoints "undetermined".                 *)
(***************************************************************************)
ObservedRow(id, r) ==                                          \* mutant
  r.session_id = id /\ r.provenance = "observed"
RowOfSession(id, r) == r.session_id = id

EndpointsOf(id) ==
  IF \E r \in Rows : RowOfSession(id, r)
  THEN LET r == CHOOSE r \in Rows : RowOfSession(id, r)
       IN  <<r.source, r.target>>
  ELSE <<NoEndpoint, NoEndpoint>>

FindingOf(c, e) ==
  [check_id      |-> c,
   packet_number |-> e.packet_number,
   session_id    |-> e.session_id,
   source        |-> EndpointsOf(e.session_id)[1],
   target        |-> EndpointsOf(e.session_id)[2]]

RunCheck ==
  /\ stage = "checks"
  /\ check <= Len(checks)
  /\ LET id       == checks[check].id
         reported == Selected(protocol_events,
                              {n \in DOMAIN protocol_events :
                                 Reports(id, protocol_events[n])})
     IN  findings' = findings \o [i \in DOMAIN reported |->
                                    FindingOf(id, reported[i])]
  /\ check' = check + 1
  /\ UNCHANGED <<allMatrixVars, stage, checks, catalogue, resolved_findings>>

\* Findings that the key cannot tell apart are equal.
FindingPrecedes(f, g) ==
  \/ CheckRank(f.check_id) < CheckRank(g.check_id)
  \/ /\ f.check_id = g.check_id
     /\ f.session_id < g.session_id
  \/ /\ f.check_id = g.check_id
     /\ f.session_id = g.session_id
     /\ f.packet_number < g.packet_number

SortFindings ==
  /\ stage = "checks"
  /\ check > Len(checks)
  /\ findings' = ListSort(findings, FindingPrecedes)
  /\ stage' = "resolving"
  /\ UNCHANGED <<allMatrixVars, checks, catalogue, check, resolved_findings>>

(***************************************************************************)
(* Repeated citations of a check count once.  A StandardsError leaves      *)
(* analyze before any artifact.                                            *)
(***************************************************************************)
SpecOf(id) == checks[CHOOSE i \in DOMAIN checks : checks[i].id = id]
CitationsOf(id) == Dedupe(SpecOf(id).standards)

Resolution(f) ==
  LET citations == CitationsOf(f.check_id)
  IN  [finding |-> f,
       risk |-> SEVERITY_TO_RISK[SpecOf(f.check_id).severity],
       standard_refs |-> [i \in DOMAIN citations |-> Resolve(citations[i], catalogue)]]

NextFinding == findings[Len(resolved_findings) + 1]
AwaitsResolution == stage = "resolving" /\ Len(resolved_findings) < Len(findings)
Resolves ==
  /\ \A citation \in Range(CitationsOf(NextFinding.check_id)) :
       Resolvable(citation, catalogue)
  /\ SpecOf(NextFinding.check_id).severity \in ALLOWED_SEVERITIES

ResolveFinding ==
  /\ AwaitsResolution
  /\ Resolves
  /\ resolved_findings' = Append(resolved_findings, Resolution(NextFinding))
  /\ UNCHANGED <<allMatrixVars, stage, checks, catalogue, check, findings>>

AbortUncited ==
  /\ AwaitsResolution
  /\ ~Resolves
  /\ stage' = "aborted"
  /\ UNCHANGED <<allMatrixVars, checks, catalogue, check, findings,
                 resolved_findings>>

PublishFindings ==
  /\ stage = "resolving"
  /\ Len(resolved_findings) = Len(findings)
  /\ stage' = "published"
  /\ UNCHANGED <<allMatrixVars, checks, catalogue, check, findings,
                 resolved_findings>>

FindingsNext ==
  \/ MatrixNext /\ UNCHANGED findingVars
  \/ DiscoverChecks
  \/ RunCheck
  \/ SortFindings
  \/ ResolveFinding
  \/ AbortUncited
  \/ PublishFindings

FindingsSpec == FindingsInit /\ [][FindingsNext]_allFindingVars

-----------------------------------------------------------------------------
Found(c) == {f \in Reported(findings) : f.check_id = c}
Published == stage = "published"
ChecksDone == stage \in {"resolving", "published"}

Finding == [check_id : Check, packet_number : 1 .. MaxPackets,
            session_id : SessionId, source : Endpoint, target : Endpoint]

\* Type invariant.
FindingsTypeOK ==
  /\ MatrixTypeOK
  /\ stage \in {"discovery", "checks", "resolving", "published", "aborted"}
  /\ checks \in CheckFiles \cup {<<>>}
  /\ catalogue \in CatalogueFiles \cup {<<>>}
  /\ check \in 1 .. Len(checks) + 1
  /\ findings \in Seq(Finding)
  /\ resolved_findings \in
       Seq([finding : Finding, risk : {SEVERITY_TO_RISK[s] : s \in ALLOWED_SEVERITIES},
            standard_refs : Seq(CatalogueEntry)])

(***************************************************************************)
(* "On the real pipeline path this case does not occur" (comment on        *)
(* ENDPOINT_UNKNOWN): every finding names the two endpoints of the very    *)
(* packet it gives as evidence, whatever session that packet is in.        *)
(***************************************************************************)
EndpointsAreThePackets ==
  \A f \in Reported(findings) :
    LET p == packets[f.packet_number]
    IN  <<f.source, f.target>> \in {<<p.src, p.dst>>, <<p.dst, p.src>>}

(***************************************************************************)
(* A write is held against a session only if the party that sent the       *)
(* session's first payload with an MBAP header sent it: an answer that     *)
(* mirrors the function code of a write is never evidence of a write, and  *)
(* neither is a low-confidence recognition (assumption Z-18).              *)
(***************************************************************************)
MbapPackets(ends) ==
  {n \in DOMAIN packets : /\ packets[n].tcp
                          /\ packets[n].payload \in Shape[ModbusTcp]
                          /\ {packets[n].src, packets[n].dst} = ends}

WritesAreTheClients ==
  \A f \in Found(UnauthWrite) :
    LET p     == packets[f.packet_number]
        mbap  == MbapPackets({p.src, p.dst})
        first == CHOOSE n \in mbap : \A m \in mbap : n <= m
    IN  p.payload \in WriteCodes /\ packets[first].src = p.src

(***************************************************************************)
(* Every use of a cleartext protocol is found, once per session and        *)
(* protocol (assumption Z-47) and at its first packet: where several       *)
(* protocols share a session none of them hides another.                   *)
(***************************************************************************)
CleartextFoundOnce ==
  ChecksDone =>
    LET uses(s, d) == {e \in HighEvents : e.session_id = s /\ e.protocol = d}
        used == {u \in SessionId \X CleartextProtocols : uses(u[1], u[2]) # {}}
    IN  /\ Cardinality(used) =
             Cardinality({i \in DOMAIN findings :
                            findings[i].check_id = Cleartext})
        /\ \A u \in used : \E f \in Found(Cleartext) :
             /\ f.session_id = u[1]
             /\ \E e \in uses(u[1], u[2]) : e.packet_number = f.packet_number
             /\ \A e \in uses(u[1], u[2]) : f.packet_number <= e.packet_number

(***************************************************************************)
(* A session in which a write was found is also reported for using the     *)
(* protocol, with evidence no later than the write, and a session is       *)
(* reported for that once however many events it has (assumption Z-57).    *)
(***************************************************************************)
WriteImpliesUse ==
  ChecksDone =>
    /\ \A w \in Found(UnauthWrite) :
         \E u \in Found(IndustrialUse) : /\ u.session_id = w.session_id
                                         /\ u.packet_number <= w.packet_number
    /\ \A u, v \in Found(IndustrialUse) : u.session_id = v.session_id => u = v

(***************************************************************************)
(* All findings are published with all their citations, or none is.        *)
(* Although the catalogue is opened only for a citation, one that carries  *)
(* a defect anywhere, also in an entry that nobody cites, lets no finding  *)
(* through; no published citation is presented as confirmed under a title  *)
(* of the author's own (decision 0006); and a run aborts for no other      *)
(* reason but a severity without a risk word, which is met only when its   *)
(* check finds something.                                                  *)
(***************************************************************************)
Defect(files) ==
  \E i \in DOMAIN files : \E j \in DOMAIN files[i] :
    LET e == files[i][j]
    IN  \/ ~e.complete \/ ~e.typed
        \/ e.clause_title_source = "other"
        \/ e.verified /\ e.clause_title_source = "own"
        \/ \E k \in DOMAIN files : \E l \in DOMAIN files[k] :
              <<k, l>> # <<i, j>> /\ files[k][l].cites = e.cites

InCatalogue(citation) ==
  \E i \in DOMAIN catalogue : \E j \in DOMAIN catalogue[i] :
    catalogue[i][j].cites = citation

CitedOrNothing ==
  LET asked == UNION {Range(CitationsOf(f.check_id)) : f \in Reported(findings)}
  IN  /\ Published =>
           /\ Len(resolved_findings) = Len(findings)
           /\ findings # <<>> => ~Defect(catalogue)
           /\ \A i \in DOMAIN findings :
                LET refs == Range(resolved_findings[i].standard_refs)
                IN  /\ resolved_findings[i].finding = findings[i]
                    /\ {r.cites : r \in refs} = Range(CitationsOf(findings[i].check_id))
                    /\ \A r \in refs : r.verified => r.clause_title_source = "copy"
      /\ stage = "aborted" /\ ChecksLoad(checks) =>
           \/ findings # <<>> /\ Defect(catalogue)
           \/ \E citation \in asked : ~InCatalogue(citation)
           \/ \E f \in Reported(findings) :
                SpecOf(f.check_id).severity \notin DOMAIN SEVERITY_TO_RISK
=============================================================================
