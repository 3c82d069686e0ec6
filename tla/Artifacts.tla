----------------------------- MODULE Artifacts -----------------------------
(***************************************************************************)
(* A run of "wayside analyze" seen from the file system: analyze of        *)
(* src/wayside/pipeline.py with write_atomic of src/wayside/model.py, and  *)
(* the exit codes of src/wayside/cli.py.                                   *)
(*                                                                         *)
(* Several runs share one input file and one output directory, and nothing *)
(* orders them.  A run asks for the size of its input once and opens it    *)
(* four times: the audit for the format magic and for the walk over the    *)
(* records, then rdpcap and the hash.  Whoever records the capture may     *)
(* rename another file into its place in between; a file that is open does *)
(* not change.  Every operation on a file may fail; a run may be           *)
(* interrupted or killed between any two of its operations.                *)
(***************************************************************************)
EXTENDS Integers, Sequences, FiniteSets

CONSTANTS
  Run,         \* the runs
  Version,     \* what the input file may hold
  Quality,     \* version -> whether it is whole, and if not, what is wrong
  Missing,     \* there is no input file
  MaxChanges   \* bound on the replacements of the input file

\* The ways the audit can end other than by an exception of another kind, and
\* the kinds of files.  A file with a "short interface" is as long as its blocks
\* say, but one Interface Description Block has no room for the snaplen.
Outcome == {"intact", "truncated", "corrupt", "unsupported"}
FileKind == Outcome \cup {"short interface"}

ASSUME ArtifactsAssumption ==
  /\ Missing \notin Version \cup Run
  /\ \A v \in Version : Quality[v] \in FileKind
  /\ MaxChanges \in Nat

VARIABLES
  input,       \* what the input file holds now
  changes,     \* how often it was replaced
  directory,   \* artifact -> who wrote what is visible, and is it complete
  export_pdf,  \* run -> the option --pdf
  step,        \* run -> the operation it performs next, 0 before it starts
  phase,       \* run -> progress of the artifact it is writing
  met,         \* run -> the versions its audit has looked at so far
  decoded,     \* run -> the version rdpcap read
  hashed,      \* run -> the version whose sha256 it publishes
  exit,        \* run -> its exit code, or Running
  litter,      \* runs that left a temporary file behind
  touched,     \* runs that changed something in the output directory
  overlapped,  \* pairs of runs that were active at the same time
  replaced     \* runs whose input was replaced while they looked at it

vars == <<input, changes, directory, export_pdf, step, phase, met, decoded, hashed,
          exit, litter, touched, overlapped, replaced>>

AuditLast == <<"mkdir", "stat", "probe", "walk", "read", "hash", "check",
               "analysis.json", "report.md", "report.pdf">>    \* mutant
ReportFirst == <<"stat", "probe", "walk", "mkdir", "read", "hash", "check",
                 "report.md", "analysis.json", "report.pdf">>  \* mutant
Steps == <<"stat", "probe", "walk", "mkdir", "read", "hash", "check",
           "analysis.json", "report.md", "report.pdf">>

Artifact == {"analysis.json", "report.md", "report.pdf"}
Nobody == [by |-> Missing, complete |-> TRUE]

Running == -1
Killed == -9
ExitOk == 0
ExitUncaught == 1      \* a traceback out of the command
ExitUnreadable == 2
ExitTruncated == 3
ExitUnsupportedFormat == 4
ExitCorrupt == 5
Interrupted == 130

-----------------------------------------------------------------------------
Init ==
  /\ input \in Version \cup {Missing}
  /\ changes = 0
  /\ directory = [a \in Artifact |-> Nobody]
  /\ export_pdf \in [Run -> BOOLEAN]
  /\ step = [r \in Run |-> 0]
  /\ phase = [r \in Run |-> "none"]
  /\ met = [r \in Run |-> {}]
  /\ decoded = [r \in Run |-> Missing]
  /\ hashed = [r \in Run |-> Missing]
  /\ exit = [r \in Run |-> Running]
  /\ litter = {}
  /\ touched = {}
  /\ overlapped = {}
  /\ replaced = {}

Active(r) == step[r] > 0 /\ exit[r] = Running
At(r, name) == Active(r) /\ Steps[step[r]] = name
Opening(r) ==    \* has begun to look at its input, and will hash it
  /\ Active(r)
  /\ \E i \in 1 .. step[r] - 1 : Steps[i] = "stat"
  /\ \E i \in step[r] .. Len(Steps) : Steps[i] = "hash"
Writing(r) == Active(r) /\ Steps[step[r]] \in Artifact
Name(r) == Steps[step[r]]

Start(r) ==
  /\ step[r] = 0
  /\ step' = [step EXCEPT ![r] = 1]
  /\ overlapped' = overlapped \cup {{r, q} : q \in {q \in Run : Active(q)}}
  /\ UNCHANGED <<input, changes, directory, export_pdf, phase, met, decoded,
                 hashed, exit, litter, touched, replaced>>

\* The run ends; write_atomic first tries to remove its temporary file.
RetryWrite(r, code) ==                                         \* mutant
  /\ phase' = [phase EXCEPT ![r] = "none"]
  /\ UNCHANGED <<exit, litter, replaced>>
End(r, code) ==
  /\ exit' = [exit EXCEPT ![r] = code]
  /\ phase' = [phase EXCEPT ![r] = "none"]
  /\ \/ UNCHANGED litter
     \/ phase[r] # "none" /\ litter' = litter \cup {r}

EndHere(r, code) ==
  /\ End(r, code)
  /\ UNCHANGED <<input, changes, directory, export_pdf, step, met, decoded,
                 hashed, touched, overlapped, replaced>>

Advance(r) == step' = [step EXCEPT ![r] = @ + 1]

(***************************************************************************)
(* The except clauses around the call of analyze, in their order: the      *)
(* first that catches the exception gives the code.  CaptureCorruptError   *)
(* is a subclass of CaptureTruncatedError (Z-11).                          *)
(***************************************************************************)
TruncatedFirst ==                                              \* mutant
  <<"missing", "truncated", "corrupt", "unsupported", "any">>
Handlers == <<"missing", "corrupt", "truncated", "unsupported", "any">>

Catches(handler, exception) ==
  \/ handler = exception
  \/ handler = "truncated" /\ exception = "corrupt"
  \/ handler = "any"

CodeOf(handler) ==
  CASE handler = "corrupt"     -> ExitCorrupt
    [] handler = "truncated"   -> ExitTruncated
    [] handler = "unsupported" -> ExitUnsupportedFormat
    [] OTHER                   -> ExitUnreadable

CodeFor(exception) ==
  LET catching == {i \in DOMAIN Handlers : Catches(Handlers[i], exception)}
  IN  CodeOf(Handlers[CHOOSE i \in catching : \A j \in catching : i <= j])

(***************************************************************************)
(* Gate D-01, before anything is written: audit_capture_structure looks at *)
(* the input three times, for its size, for its magic and for its records. *)
(* If those were one file, the verdict is what that file deserves; it may  *)
(* be known from the magic already.  If the file was replaced in between,  *)
(* records are measured against the size, or by the format, of another     *)
(* file, and any verdict can come of it.  A short interface is given the   *)
(* exception of a cut file.                                                *)
(***************************************************************************)
Verdict(kind) == IF kind = "short interface" THEN "truncated" ELSE kind
Verdicts(versions) ==
  IF \E v \in versions : versions = {v}
  THEN {Verdict(Quality[v]) : v \in versions} ELSE Outcome

Refuse(r, verdict) == verdict # "intact" /\ EndHere(r, CodeFor(verdict))
Look(r) ==
  /\ input # Missing
  /\ met' = [met EXCEPT ![r] = @ \cup {input}]
  /\ Advance(r)
  /\ UNCHANGED <<input, changes, directory, export_pdf, phase, decoded, hashed,
                 exit, litter, touched, overlapped, replaced>>

NoFile(r) == input = Missing /\ EndHere(r, CodeFor("missing"))

Measure(r) == At(r, "stat") /\ (NoFile(r) \/ Look(r))

Probe(r) ==
  /\ At(r, "probe")
  /\ \/ NoFile(r)
     \/ Look(r)
     \/ /\ input # Missing
        /\ Quality[input] \in {"truncated", "unsupported"}
        /\ Refuse(r, Quality[input])

Audit(r) ==
  /\ At(r, "walk")
  /\ \/ NoFile(r)
     \/ /\ input # Missing
        /\ \E verdict \in Verdicts(met[r] \cup {input}) :
             \/ Refuse(r, verdict)
             \/ /\ verdict = "intact"
                /\ met' = [met EXCEPT ![r] = {}]
                /\ Advance(r)
                /\ UNCHANGED <<input, changes, directory, export_pdf, phase,
                               decoded, hashed, exit, litter, touched,
                               overlapped, replaced>>

MakeDirectory(r) ==
  /\ At(r, "mkdir")
  /\ touched' = touched \cup {r}
  /\ Advance(r)
  /\ UNCHANGED <<input, changes, directory, export_pdf, phase, met, decoded,
                 hashed, exit, litter, overlapped, replaced>>

\* rdpcap stops silently at a cut record; other damage may make it raise.
ReadCapture(r) ==
  /\ At(r, "read")
  /\ input # Missing
  /\ Quality[input] # "unsupported"
  /\ decoded' = [decoded EXCEPT ![r] = input]
  /\ Advance(r)
  /\ UNCHANGED <<input, changes, directory, export_pdf, phase, met, hashed,
                 exit, litter, touched, overlapped, replaced>>

HashOncePerName(r) ==                                          \* mutant
  LET known == {hashed[q] : q \in Run} \ {Missing}
  IN  IF known = {} THEN input ELSE CHOOSE v \in known : TRUE
Sha256(r) == input

HashCapture(r) ==
  /\ At(r, "hash")
  /\ input # Missing
  /\ hashed' = [hashed EXCEPT ![r] = Sha256(r)]
  /\ Advance(r)
  /\ UNCHANGED <<input, changes, directory, export_pdf, phase, met, decoded,
                 exit, litter, touched, overlapped, replaced>>

\* Running the checks and resolving their citations.
CheckFindings(r) ==
  /\ At(r, "check")
  /\ Advance(r)
  /\ UNCHANGED <<input, changes, directory, export_pdf, phase, met, decoded,
                 hashed, exit, litter, touched, overlapped, replaced>>

(***************************************************************************)
(* write_atomic: mkstemp opens a temporary file beside the target under a  *)
(* name nobody else has, it is written and closed, then os.replace.        *)
(***************************************************************************)
OneTempPerTarget(r) == <<Name(r)>>                             \* mutant
TempName(r) == <<Name(r), r>>

CreateTemp(r) ==
  /\ Writing(r) /\ phase[r] = "none"
  /\ phase' = [phase EXCEPT ![r] = "partial"]
  /\ touched' = touched \cup {r}
  /\ UNCHANGED <<input, changes, directory, export_pdf, step, met, decoded,
                 hashed, exit, litter, overlapped, replaced>>

WriteTemp(r) ==
  /\ Writing(r) /\ phase[r] = "partial"
  /\ phase' = [phase EXCEPT ![r] = "full"]
  /\ UNCHANGED <<input, changes, directory, export_pdf, step, met, decoded,
                 hashed, exit, litter, touched, overlapped, replaced>>

\* The file that a run would rename into place holds the whole text: whoever
\* has it open has written all of it.
WholeTemp(r) ==
  \A q \in Run : Writing(q) /\ TempName(q) = TempName(r) => phase[q] # "partial"

\* The command is done after its last artifact.
Done(r) == Name(r) = "report.pdf" \/ (step[r] = 9 /\ ~export_pdf[r])

KeepTemp(r) == litter \cup {r}                                 \* mutant
LitterAfterReplace(r) == litter

ReplaceInsideWith(r) == phase[r] # "none"                      \* mutant
Closed(r) == phase[r] = "full"

Replace(r) ==
  /\ Writing(r) /\ Closed(r)
  /\ directory' = [directory EXCEPT ![Name(r)] =
                     [by |-> r, complete |-> WholeTemp(r)]]
  /\ phase' = [phase EXCEPT ![r] = "none"]
  /\ litter' = LitterAfterReplace(r)
  /\ IF Done(r) THEN exit' = [exit EXCEPT ![r] = ExitOk] /\ UNCHANGED step
     ELSE Advance(r) /\ UNCHANGED exit
  /\ UNCHANGED <<input, changes, export_pdf, met, decoded, hashed, touched,
                 overlapped, replaced>>

(***************************************************************************)
(* An operation raises.  Inside analyze every exception but the named ones *)
(* gives code 2.  The command calls render_pdf and write_atomic_bytes      *)
(* after that block: PdfRenderError gives code 2 there, and anything else, *)
(* an OSError of the write included, is not caught.                        *)
(***************************************************************************)
FailureCodes(r) ==
  IF Name(r) # "report.pdf" THEN {CodeFor("other")}
  ELSE IF phase[r] = "none" THEN {ExitUnreadable, ExitUncaught}
  ELSE {ExitUncaught}

Fail(r) ==
  /\ Active(r)
  /\ \E code \in FailureCodes(r) : EndHere(r, code)

\* KeyboardInterrupt passes through the same clean-up.
Interrupt(r) == Active(r) /\ EndHere(r, Interrupted)

Kill(r) ==
  /\ Active(r)
  /\ exit' = [exit EXCEPT ![r] = Killed]
  /\ litter' = IF phase[r] = "none" THEN litter ELSE litter \cup {r}
  /\ phase' = [phase EXCEPT ![r] = "none"]
  /\ UNCHANGED <<input, changes, directory, export_pdf, step, met, decoded,
                 hashed, touched, overlapped, replaced>>

ChangeInput ==
  /\ changes < MaxChanges
  /\ \E v \in (Version \cup {Missing}) \ {input} : input' = v
  /\ changes' = changes + 1
  /\ replaced' = replaced \cup {r \in Run : Opening(r)}
  /\ UNCHANGED <<directory, export_pdf, step, phase, met, decoded, hashed, exit,
                 litter, touched, overlapped>>

Proceed(r) ==
  \/ Measure(r)
  \/ Probe(r)
  \/ Audit(r)
  \/ MakeDirectory(r)
  \/ ReadCapture(r)
  \/ HashCapture(r)
  \/ CheckFindings(r)
  \/ CreateTemp(r)
  \/ WriteTemp(r)
  \/ Replace(r)
  \/ Fail(r)

Next ==
  \/ \E r \in Run : Start(r) \/ Proceed(r) \/ Interrupt(r) \/ Kill(r)
  \/ ChangeInput

(***************************************************************************)
(* A started run is a process the system schedules, and each of its        *)
(* operations on files returns or raises.  Nothing obliges anybody to      *)
(* start a run, to interrupt it or to replace the input.                   *)
(***************************************************************************)
Spec == Init /\ [][Next]_vars /\ \A r \in Run : WF_vars(Proceed(r))

-----------------------------------------------------------------------------
Ended(r) == exit[r] # Running
Quiescent == \A r \in Run : ~Active(r)

\* Type invariant; only a run that wrote can leave a temporary file.
ArtifactsTypeOK ==
  /\ input \in Version \cup {Missing}
  /\ changes \in 0 .. MaxChanges
  /\ directory \in [Artifact -> [by : Run \cup {Missing}, complete : BOOLEAN]]
  /\ export_pdf \in [Run -> BOOLEAN]
  /\ step \in [Run -> 0 .. Len(Steps)]
  /\ phase \in [Run -> {"none", "partial", "full"}]
  /\ met \in [Run -> SUBSET Version]
  /\ decoded \in [Run -> Version \cup {Missing}]
  /\ hashed \in [Run -> Version \cup {Missing}]
  /\ exit \in [Run -> {Running, Killed, Interrupted} \cup (0 .. 5)]
  /\ litter \subseteq touched
  /\ touched \subseteq Run
  /\ overlapped \subseteq SUBSET Run
  /\ replaced \subseteq Run

(***************************************************************************)
(* "An interrupted or concurrent run leaves no partially written file"     *)
(* (write_atomic): at no moment is an artifact visible whose file somebody *)
(* has not finished writing.  A file is renamed into place only when it is *)
(* closed, and it is nobody else's: runs that write the same artifact at   *)
(* the same time do so in files of different names.                        *)
(***************************************************************************)
NeverPartial == \A a \in Artifact : directory[a].complete

(***************************************************************************)
(* A capture the audit refuses leaves no trace (gate D-01): a run that     *)
(* ends with code 3, 4 or 5 has changed nothing in the output directory,   *)
(* not even created it.                                                    *)
(***************************************************************************)
RefusedLeavesNoTrace ==
  \A r \in Run :
    exit[r] \in {ExitTruncated, ExitUnsupportedFormat, ExitCorrupt}
      => r \notin touched

(***************************************************************************)
(* Codes 3, 4 and 5 tell the kinds of damage apart, and nothing else gives *)
(* them (D-01, Z-12): a run that ends with one of them has met an input    *)
(* with the damage the code stands for, unless the file was replaced while *)
(* this run looked at it.  Code 3 is also the code of an Interface         *)
(* Description Block without room for its snaplen, though the file is      *)
(* whole.                                                                  *)
(***************************************************************************)
CodesTellDamageApart ==
  [][\A r \in Run \ replaced :
       exit[r] = Running /\ exit'[r] \in 3 .. 5 =>
         /\ input # Missing
         /\ exit'[r] = 3 <=> Quality[input] \in {"truncated", "short interface"}
         /\ exit'[r] = 4 <=> Quality[input] = "unsupported"
         /\ exit'[r] = 5 <=> Quality[input] = "corrupt"]_vars

(***************************************************************************)
(* The two artifacts describe one analysis: once nobody is running, an     *)
(* analysis.json and a report.md of different runs lie side by side only   *)
(* if those runs overlapped, or if the run that wrote analysis.json failed *)
(* or was stopped before its report.  Runs that follow each other and end  *)
(* well never mix.                                                         *)
(***************************************************************************)
MixedOnlyByOverlapOrFailure ==
  LET r == directory["analysis.json"].by
      s == directory["report.md"].by
  IN  Quiescent /\ r # s =>
        /\ r # Missing
        /\ {r, s} \in overlapped \/ exit[r] # ExitOk

(***************************************************************************)
(* Code 0 is earned: such a run has removed its temporary files, and every *)
(* artifact it was asked for is there, its own or that of a run that wrote *)
(* it later.                                                               *)
(***************************************************************************)
SuccessIsComplete ==
  \A r \in Run :
    exit[r] = ExitOk =>
      /\ r \notin litter
      /\ directory["analysis.json"].by # Missing
      /\ directory["report.md"].by # Missing
      /\ export_pdf[r] => directory["report.pdf"].by # Missing

(***************************************************************************)
(* A run that was started ends, whatever fails.                            *)
(***************************************************************************)
EveryRunEnds == \A r \in Run : step[r] > 0 ~> Ended(r)

(***************************************************************************)
(* "`sha256` makes it possible to tie the report to a specific input file" *)
(* (_build_capture_section).  The file is looked at three times for the    *)
(* audit, then for rdpcap and for the hash, so this holds as far as it     *)
(* can: an artifact is made from another capture than its hash names, or   *)
(* from one the audit would have refused, only if the file was replaced    *)
(* in between, never because another run was active or because of an       *)
(* earlier run.                                                            *)
(***************************************************************************)
HashTiesToInput ==
  \A a \in Artifact :
    LET r == directory[a].by
    IN  r \in Run \ replaced =>
          hashed[r] = decoded[r] /\ Quality[decoded[r]] = "intact"
=============================================================================
