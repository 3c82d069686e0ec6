--------------------------- MODULE ArtifactsProofs ---------------------------
(***************************************************************************)
(* Theorems about Artifacts, for every set of runs and of captures and any *)
(* number of replacements of the input.                                    *)
(***************************************************************************)
EXTENDS Artifacts, TLAPS

-----------------------------------------------------------------------------
\* The operations by their numbers.
LEMMA Operations ==
  /\ Len(Steps) = 10
  /\ \A i \in 1 .. 10 :
       /\ Steps[i] = "stat" <=> i = 1
       /\ Steps[i] = "probe" <=> i = 2
       /\ Steps[i] = "walk" <=> i = 3
       /\ Steps[i] = "mkdir" <=> i = 4
       /\ Steps[i] = "read" <=> i = 5
       /\ Steps[i] = "hash" <=> i = 6
       /\ Steps[i] = "check" <=> i = 7
       /\ Steps[i] \in Artifact <=> i \in 8 .. 10
       /\ Steps[i] = "report.pdf" <=> i = 10
  BY DEF Steps, Artifact

\* The first handler that catches an exception.
LEMMA FirstHandler ==
  ASSUME NEW exception, NEW i \in 1 .. 5,
         Catches(Handlers[i], exception),
         \A j \in 1 .. 5 : Catches(Handlers[j], exception) => i <= j
  PROVE  CodeFor(exception) = CodeOf(Handlers[i])
  <1> DEFINE catching == {j \in DOMAIN Handlers : Catches(Handlers[j], exception)}
  <1>1. DOMAIN Handlers = 1 .. 5
    BY DEF Handlers
  <1>2. i \in catching /\ \A j \in catching : i <= j
    BY <1>1
  <1>3. \A k \in catching : (\A j \in catching : k <= j) => k = i
    BY <1>1, <1>2
  <1>4. (CHOOSE k \in catching : \A j \in catching : k <= j) = i
    BY <1>2, <1>3
  <1> QED
    BY <1>4 DEF CodeFor

\* The codes of the exceptions the pipeline tells apart.
LEMMA Codes ==
  /\ CodeFor("missing") = ExitUnreadable
  /\ CodeFor("corrupt") = ExitCorrupt
  /\ CodeFor("truncated") = ExitTruncated
  /\ CodeFor("unsupported") = ExitUnsupportedFormat
  /\ CodeFor("other") = ExitUnreadable
  <1> USE DEF Catches, CodeOf
  <1>h. /\ Handlers[1] = "missing" /\ Handlers[2] = "corrupt"
        /\ Handlers[3] = "truncated" /\ Handlers[4] = "unsupported"
        /\ Handlers[5] = "any"
    BY DEF Handlers
  <1>1. CodeFor("missing") = CodeOf(Handlers[1])
    BY <1>h, FirstHandler
  <1>2. CodeFor("corrupt") = CodeOf(Handlers[2])
    BY <1>h, FirstHandler
  <1>3. CodeFor("truncated") = CodeOf(Handlers[3])
    BY <1>h, FirstHandler
  <1>4. CodeFor("unsupported") = CodeOf(Handlers[4])
    BY <1>h, FirstHandler
  <1>5. CodeFor("other") = CodeOf(Handlers[5])
    BY <1>h, FirstHandler
  <1> QED
    BY <1>h, <1>1, <1>2, <1>3, <1>4, <1>5

\* A code of an exception of the pipeline is one of its codes.
LEMMA FailureCodesAre ==
  ASSUME NEW r \in Run
  PROVE  FailureCodes(r) \subseteq {ExitUncaught, ExitUnreadable}
  BY Codes DEF FailureCodes

\* The codes of damage, and how the audit comes to one of them: by the verdict
\* on the file that is there, or on the mixture of those it has met.
Damage == {ExitTruncated, ExitUnsupportedFormat, ExitCorrupt}
DamageVerdict == Outcome \ {"intact"}

\* A verdict on damage gives a code of damage.
LEMMA DamageCodes ==
  ASSUME NEW verdict \in DamageVerdict
  PROVE  CodeFor(verdict) \in Damage /\ CodeFor(verdict) \in 3 .. 5
  BY Codes DEF Damage, DamageVerdict, Outcome, ExitTruncated, ExitCorrupt,
               ExitUnsupportedFormat

\* The verdict on one kind of file, and on several versions.
LEMMA VerdictsAre ==
  /\ \A kind \in FileKind : Verdict(kind) \in Outcome
  /\ \A v : Verdicts({v}) = {Verdict(Quality[v])}
  /\ \A versions \in SUBSET Version : Verdicts(versions) \subseteq Outcome
  <1>1. \A kind \in FileKind : Verdict(kind) \in Outcome
    BY DEF FileKind, Outcome, Verdict
  <1>2. ASSUME NEW v PROVE Verdicts({v}) = {Verdict(Quality[v])}
    BY DEF Verdicts
  <1>3. ASSUME NEW versions \in SUBSET Version
        PROVE  Verdicts(versions) \subseteq Outcome
    BY <1>1, ArtifactsAssumption DEF Verdicts
  <1> QED
    BY <1>1, <1>2, <1>3

-----------------------------------------------------------------------------
(***************************************************************************)
(* What the type invariant needs to be inductive: a run that has a         *)
(* temporary file has changed the directory.                               *)
(***************************************************************************)
WritersTouch == \A r \in Run : phase[r] # "none" => r \in touched

TypeInv == ArtifactsTypeOK /\ WritersTouch

\* The initial state satisfies the type invariant.
LEMMA TypeInit == Init => TypeInv
  BY ArtifactsAssumption, Operations
     DEF Init, TypeInv, ArtifactsTypeOK, WritersTouch, Nobody, Running

\* The end of a run preserves the type invariant, whatever its code.
LEMMA EndType ==
  ASSUME TypeInv, NEW r \in Run, NEW code \in 0 .. 5 \cup {Interrupted},
         EndHere(r, code)
  PROVE  TypeInv'
  <1> USE DEF TypeInv, ArtifactsTypeOK, WritersTouch, EndHere, End
  <1>1. /\ exit' \in [Run -> {Running, Killed, Interrupted} \cup (0 .. 5)]
        /\ phase' \in [Run -> {"none", "partial", "full"}]
    OBVIOUS
  <1>2. litter' \subseteq touched'
    OBVIOUS
  <1>3. WritersTouch'
    OBVIOUS
  <1>4. UNCHANGED <<input, changes, directory, export_pdf, step, met, decoded,
                    hashed, touched, overlapped, replaced>>
    OBVIOUS
  <1> HIDE DEF EndHere, End
  <1> QED
    BY <1>1, <1>2, <1>3, <1>4

\* Every step preserves the type invariant.
LEMMA TypeNext == TypeInv /\ [Next]_vars => TypeInv'
  <1> SUFFICES ASSUME TypeInv, [Next]_vars PROVE TypeInv'
    OBVIOUS
  <1> USE ArtifactsAssumption, Operations DEF TypeInv, ArtifactsTypeOK, WritersTouch
  <1>1. ASSUME NEW r \in Run, Start(r) PROVE TypeInv'
    <2>1. overlapped' \subseteq SUBSET Run
      BY <1>1 DEF Start
    <2> QED
      BY <1>1, <2>1 DEF Start
  <1>2. ASSUME NEW r \in Run, Proceed(r) PROVE TypeInv'
    <2> USE DEF At, Active, Advance
    <2>a. CASE NoFile(r)
      BY <2>a, Codes, EndType DEF NoFile, ExitUnreadable
    <2>b. ASSUME NEW verdict \in Outcome, Refuse(r, verdict) PROVE TypeInv'
      <3>1. verdict \in DamageVerdict /\ EndHere(r, CodeFor(verdict))
        BY <2>b DEF Refuse, DamageVerdict
      <3> QED
        BY <3>1, DamageCodes, EndType
    <2>c. CASE Look(r) /\ step[r] \in 1 .. 2
      <3>1. input \in Version /\ met' = [met EXCEPT ![r] = met[r] \cup {input}]
        BY <2>c DEF Look
      <3>2. met' \in [Run -> SUBSET Version]
        BY <3>1
      <3>3. step' \in [Run -> 0 .. Len(Steps)]
        BY <2>c DEF Look
      <3>4. UNCHANGED <<input, changes, directory, export_pdf, phase, decoded, hashed,
                        exit, litter, touched, overlapped, replaced>>
        BY <2>c DEF Look
      <3> QED
        BY <3>2, <3>3, <3>4
    <2>1. CASE Measure(r) \/ Probe(r)
      <3>1. step[r] \in 1 .. 2
        BY <2>1 DEF Measure, Probe
      <3> QED
        BY <2>1, <2>a, <2>b, <2>c, <3>1 DEF Measure, Probe, Outcome
    <2>d. CASE Audit(r)
      <3>1. step[r] = 3
        BY <2>d DEF Audit
      <3>2. CASE input # Missing
        <4>1. met[r] \cup {input} \in SUBSET Version
          BY <3>2
        <4>2. PICK verdict \in Verdicts(met[r] \cup {input}) :
                \/ Refuse(r, verdict)
                \/ /\ met' = [met EXCEPT ![r] = {}]
                   /\ step' = [step EXCEPT ![r] = step[r] + 1]
                   /\ UNCHANGED <<input, changes, directory, export_pdf, phase,
                                  decoded, hashed, exit, litter, touched,
                                  overlapped, replaced>>
          BY <2>d, <3>2 DEF Audit, NoFile
        <4>3. verdict \in Outcome
          BY <4>1, <4>2, VerdictsAre
        <4>4. CASE Refuse(r, verdict)
          BY <2>b, <4>3, <4>4
        <4>5. CASE ~Refuse(r, verdict)
          <5>1. met' \in [Run -> SUBSET Version]
            BY <4>2, <4>5
          <5>2. step' \in [Run -> 0 .. Len(Steps)]
            BY <3>1, <4>2, <4>5
          <5> QED
            BY <4>2, <4>5, <5>1, <5>2
        <4> QED
          BY <4>4, <4>5
      <3> QED
        BY <2>a, <2>d, <3>2 DEF Audit
    <2>2. CASE MakeDirectory(r)
      BY <2>2 DEF MakeDirectory
    <2>3. CASE ReadCapture(r)
      BY <2>3 DEF ReadCapture
    <2>4. CASE HashCapture(r)
      BY <2>4 DEF HashCapture, Sha256
    <2>5. CASE CheckFindings(r)
      BY <2>5 DEF CheckFindings
    <2>6. CASE CreateTemp(r)
      BY <2>6 DEF CreateTemp, Writing
    <2>7. CASE WriteTemp(r)
      BY <2>7 DEF WriteTemp, Writing
    <2>8. CASE Replace(r)
      <3>1. WholeTemp(r) \in BOOLEAN
        BY DEF WholeTemp
      <3>2. step[r] \in 8 .. 10 /\ Name(r) \in Artifact
        BY <2>8 DEF Replace, Writing, Name
      <3>3. directory' \in [Artifact -> [by : Run \cup {Missing}, complete : BOOLEAN]]
        <4>1. directory' = [directory EXCEPT ![Name(r)] =
                              [by |-> r, complete |-> WholeTemp(r)]]
          BY <2>8 DEF Replace
        <4>2. [by |-> r, complete |-> WholeTemp(r)] \in
                [by : Run \cup {Missing}, complete : BOOLEAN]
          BY <3>1
        <4> QED
          BY <4>1, <4>2
      <3>4. /\ step' \in [Run -> 0 .. Len(Steps)]
            /\ exit' \in [Run -> {Running, Killed, Interrupted} \cup (0 .. 5)]
        <4>1. CASE Done(r)
          BY <2>8, <4>1 DEF Replace, ExitOk
        <4>2. CASE ~Done(r)
          <5>1. step[r] \in 8 .. 9
            BY <3>2, <4>2 DEF Done, Name
          <5> QED
            BY <2>8, <4>2, <5>1 DEF Replace
        <4> QED
          BY <4>1, <4>2
      <3>5. /\ phase' = [phase EXCEPT ![r] = "none"] /\ litter' = litter
            /\ UNCHANGED <<input, changes, export_pdf, met, decoded, hashed, touched,
                           overlapped, replaced>>
        BY <2>8 DEF Replace, LitterAfterReplace
      <3> QED
        BY <3>3, <3>4, <3>5
    <2>9. CASE Fail(r)
      BY <2>9, FailureCodesAre, EndType DEF Fail, ExitUncaught, ExitUnreadable
    <2> QED
      BY <1>2, <2>1, <2>d, <2>2, <2>3, <2>4, <2>5, <2>6, <2>7, <2>8, <2>9 DEF Proceed
  <1>3. ASSUME NEW r \in Run, Interrupt(r) PROVE TypeInv'
    BY <1>3, EndType DEF Interrupt
  <1>4. ASSUME NEW r \in Run, Kill(r) PROVE TypeInv'
    BY <1>4 DEF Kill
  <1>5. CASE ChangeInput
    BY <1>5 DEF ChangeInput
  <1>6. CASE UNCHANGED vars
    BY <1>6 DEF vars
  <1> QED
    BY <1>1, <1>2, <1>3, <1>4, <1>5, <1>6 DEF Next

-----------------------------------------------------------------------------
\* A run that raises, is interrupted or killed, or is refused leaves with a
\* code of its own and changes nothing but its exit, phase and litter.
Leaves(r, codes) ==
  /\ Active(r)
  /\ exit' = [exit EXCEPT ![r] = exit'[r]] /\ exit'[r] \in codes
  /\ phase' = [phase EXCEPT ![r] = "none"]
  /\ litter \subseteq litter' /\ litter' \subseteq litter \cup {r}
  /\ UNCHANGED <<input, changes, directory, export_pdf, step, met, decoded, hashed,
                 touched, overlapped, replaced>>

Refused(r) ==
  /\ step[r] \in 2 .. 3
  /\ input \in Version
  /\ \E verdict \in DamageVerdict :
       /\ exit'[r] = CodeFor(verdict)
       /\ verdict = Verdict(Quality[input]) \/ met[r] # {input}

\* The audit goes on, or finds nothing wrong.
Passes(r) ==
  /\ Active(r) /\ step[r] \in 1 .. 3
  /\ input \in Version
  /\ step[r] = 3 => Verdict(Quality[input]) = "intact" \/ met[r] # {input}
  /\ met' = [met EXCEPT ![r] = IF step[r] = 3 THEN {} ELSE met[r] \cup {input}]
  /\ step' = [step EXCEPT ![r] = step[r] + 1]
  /\ UNCHANGED <<input, changes, directory, export_pdf, phase, decoded, hashed,
                 exit, litter, touched, overlapped, replaced>>

BadCodes == {Killed, Interrupted, ExitUncaught, ExitUnreadable, ExitTruncated,
             ExitUnsupportedFormat, ExitCorrupt}

\* EndHere is such an end.
LEMMA EndLeaves ==
  ASSUME TypeInv, NEW r \in Run, Active(r), NEW code, EndHere(r, code)
  PROVE  Leaves(r, {code}) /\ exit'[r] = code
  BY DEF EndHere, End, Leaves, TypeInv, ArtifactsTypeOK

\* No file there.
LEMMA NoFileLeaves ==
  ASSUME TypeInv, NEW r \in Run, Active(r), NoFile(r)
  PROVE  Leaves(r, BadCodes \ Damage)
  <1>1. EndHere(r, ExitUnreadable)
    BY Codes DEF NoFile
  <1>2. Leaves(r, {ExitUnreadable})
    BY <1>1, EndLeaves
  <1> QED
    BY <1>2 DEF Leaves, BadCodes, Damage, ExitUnreadable, ExitTruncated,
                ExitUnsupportedFormat, ExitCorrupt

\* A refusal.
LEMMA RefuseLeaves ==
  ASSUME TypeInv, NEW r \in Run, Active(r), NEW verdict \in Outcome,
         Refuse(r, verdict)
  PROVE  /\ verdict \in DamageVerdict
         /\ Leaves(r, Damage)
         /\ exit'[r] = CodeFor(verdict)
  <1>1. verdict \in DamageVerdict /\ EndHere(r, CodeFor(verdict))
    BY DEF Refuse, DamageVerdict
  <1>2. Leaves(r, {CodeFor(verdict)}) /\ exit'[r] = CodeFor(verdict)
    BY <1>1, EndLeaves
  <1>3. CodeFor(verdict) \in Damage
    BY <1>1, DamageCodes
  <1> QED
    BY <1>1, <1>2, <1>3 DEF Leaves

\* The steps of the audit let the run go on or refuse the capture.
LEMMA AuditOutcome ==
  ASSUME TypeInv, NEW r \in Run, Measure(r) \/ Probe(r) \/ Audit(r)
  PROVE  \/ Passes(r)
         \/ Leaves(r, BadCodes \ Damage)
         \/ Leaves(r, Damage) /\ Refused(r)
  <1> USE ArtifactsAssumption, Operations DEF TypeInv, ArtifactsTypeOK
  <1>1. Active(r) /\ step[r] \in 1 .. 3
    BY DEF Measure, Probe, Audit, At, Active
  <1>2. CASE NoFile(r)
    BY <1>1, <1>2, NoFileLeaves
  <1>3. CASE Look(r) /\ step[r] \in 1 .. 2
    <2>1. input \in Version /\ step[r] # 3
      BY <1>3 DEF Look
    <2>2. met' = [met EXCEPT ![r] = IF step[r] = 3 THEN {} ELSE met[r] \cup {input}]
      BY <1>3, <2>1 DEF Look
    <2>3. /\ step' = [step EXCEPT ![r] = step[r] + 1]
          /\ UNCHANGED <<input, changes, directory, export_pdf, phase, decoded,
                         hashed, exit, litter, touched, overlapped, replaced>>
      BY <1>3 DEF Look, Advance
    <2> QED
      BY <1>1, <2>1, <2>2, <2>3 DEF Passes
  <1>4. CASE Measure(r) \/ Probe(r)
    <2>1. /\ step[r] \in 1 .. 2
          /\ step[r] = 1 => NoFile(r) \/ Look(r)
      BY <1>1, <1>4 DEF Measure, Probe, At
    <2>2. CASE /\ step[r] = 2 /\ input # Missing
               /\ Quality[input] \in {"truncated", "unsupported"}
               /\ Refuse(r, Quality[input])
      <3>1. Quality[input] \in Outcome /\ Verdict(Quality[input]) = Quality[input]
        BY <2>2 DEF Outcome, Verdict
      <3>2. /\ Quality[input] \in DamageVerdict
            /\ Leaves(r, Damage)
            /\ exit'[r] = CodeFor(Quality[input])
        BY <1>1, <2>2, <3>1, RefuseLeaves
      <3>3. Refused(r)
        BY <2>2, <3>1, <3>2 DEF Refused
      <3> QED
        BY <3>2, <3>3
    <2> QED
      BY <1>2, <1>3, <1>4, <2>1, <2>2 DEF Measure, Probe, At
  <1>5. CASE Audit(r) /\ input # Missing
    <2>1. step[r] = 3 /\ input \in Version
      BY <1>1, <1>5 DEF Audit, At
    <2>2. PICK verdict \in Verdicts(met[r] \cup {input}) :
            \/ Refuse(r, verdict)
            \/ /\ verdict = "intact"
               /\ met' = [met EXCEPT ![r] = {}]
               /\ step' = [step EXCEPT ![r] = step[r] + 1]
               /\ UNCHANGED <<input, changes, directory, export_pdf, phase,
                              decoded, hashed, exit, litter, touched,
                              overlapped, replaced>>
      BY <1>5 DEF Audit, NoFile, Advance
    <2>3. verdict \in Outcome
      <3>1. met[r] \cup {input} \in SUBSET Version
        BY <2>1
      <3> QED
        BY <2>2, <3>1, VerdictsAre
    <2>4. met[r] = {input} => verdict = Verdict(Quality[input])
      <3>1. met[r] = {input} => met[r] \cup {input} = {input}
        OBVIOUS
      <3>2. Verdicts({input}) = {Verdict(Quality[input])}
        BY VerdictsAre
      <3> QED
        BY <2>2, <3>1, <3>2
    <2>5. CASE Refuse(r, verdict)
      <3>1. /\ verdict \in DamageVerdict
            /\ Leaves(r, Damage)
            /\ exit'[r] = CodeFor(verdict)
        BY <1>1, <2>3, <2>5, RefuseLeaves
      <3> QED
        BY <2>1, <2>4, <3>1 DEF Refused
    <2>6. CASE ~Refuse(r, verdict)
      <3>1. Verdict(Quality[input]) = "intact" \/ met[r] # {input}
        BY <2>2, <2>4, <2>6
      <3> QED
        BY <1>1, <2>1, <2>2, <2>6, <3>1 DEF Passes
    <2> QED
      BY <2>5, <2>6
  <1> QED
    BY <1>2, <1>4, <1>5 DEF Audit

\* The other ends of a run.
LEMMA OtherEnds ==
  ASSUME TypeInv, NEW r \in Run, Fail(r) \/ Interrupt(r) \/ Kill(r)
  PROVE  Leaves(r, BadCodes \ Damage)
  <1> USE DEF BadCodes, Damage, Killed, Interrupted, ExitUncaught, ExitUnreadable,
              ExitTruncated, ExitUnsupportedFormat, ExitCorrupt
  <1>1. CASE Fail(r)
    <2>1. PICK code \in FailureCodes(r) : EndHere(r, code)
      BY <1>1 DEF Fail
    <2>2. code \in BadCodes \ Damage
      BY <2>1, FailureCodesAre
    <2>3. Leaves(r, {code})
      BY <1>1, <2>1, EndLeaves DEF Fail
    <2> QED
      BY <2>2, <2>3 DEF Leaves
  <1>2. CASE Interrupt(r)
    <2>1. Leaves(r, {Interrupted})
      BY <1>2, EndLeaves DEF Interrupt
    <2> QED
      BY <2>1 DEF Leaves
  <1>3. CASE Kill(r)
    BY <1>3 DEF Kill, Leaves, TypeInv, ArtifactsTypeOK
  <1> QED
    BY <1>1, <1>2, <1>3

\* One operation of a run that goes on.
Works(r) ==
  \/ MakeDirectory(r) \/ ReadCapture(r) \/ HashCapture(r) \/ CheckFindings(r)
  \/ CreateTemp(r) \/ WriteTemp(r) \/ Replace(r)

\* What a step can be.
LEMMA StepKinds ==
  ASSUME TypeInv, [Next]_vars
  PROVE  \/ \E r \in Run : \/ Start(r) \/ Passes(r) \/ Works(r)
                           \/ Leaves(r, BadCodes \ Damage)
                           \/ Leaves(r, Damage) /\ Refused(r)
         \/ ChangeInput
         \/ UNCHANGED vars
  BY AuditOutcome, OtherEnds DEF Next, Proceed, Works

(***************************************************************************)
(* Every variable keeps its type.                                          *)
(***************************************************************************)
THEOREM TypeCorrect == Spec => []ArtifactsTypeOK
  <1>1. TypeInv => ArtifactsTypeOK
    BY DEF TypeInv
  <1> QED
    BY <1>1, TypeInit, TypeNext, PTL DEF Spec

-----------------------------------------------------------------------------
\* Only Replace changes what is visible.  The run that replaces has closed its
\* temporary file, and no other run writes into a file of that name.
LEMMA WholeNext == TypeInv /\ NeverPartial /\ [Next]_vars => NeverPartial'
  <1> SUFFICES ASSUME TypeInv, NeverPartial, [Next]_vars PROVE NeverPartial'
    OBVIOUS
  <1>1. ASSUME NEW r \in Run, Replace(r) PROVE NeverPartial'
    <2>1. phase[r] = "full"
      BY <1>1 DEF Replace, Closed
    <2>2. ASSUME NEW q \in Run, TempName(q) = TempName(r) PROVE phase[q] # "partial"
      <3>1. q = r
        BY <2>2 DEF TempName
      <3> QED
        BY <2>1, <3>1
    <2>3. WholeTemp(r)
      BY <2>2 DEF WholeTemp
    <2>4. directory' = [directory EXCEPT ![Name(r)] =
                          [by |-> r, complete |-> WholeTemp(r)]]
      BY <1>1 DEF Replace
    <2> QED
      BY <2>3, <2>4 DEF NeverPartial, TypeInv, ArtifactsTypeOK
  <1>2. ASSUME \A r \in Run : ~Replace(r) PROVE directory' = directory
    BY <1>2, StepKinds DEF Start, Passes, Works, MakeDirectory, ReadCapture,
                           HashCapture, CheckFindings, CreateTemp, WriteTemp, Leaves,
                           ChangeInput, vars
  <1> QED
    BY <1>1, <1>2 DEF NeverPartial

(***************************************************************************)
(* "An interrupted or concurrent run leaves no partially written file"     *)
(* (write_atomic), for any number of runs.                                 *)
(***************************************************************************)
THEOREM NothingPartial == Spec => []NeverPartial
  <1>1. Init => NeverPartial
    BY DEF Init, NeverPartial, Nobody
  <1> QED
    BY <1>1, TypeInit, TypeNext, WholeNext, PTL DEF Spec

-----------------------------------------------------------------------------
(***************************************************************************)
(* The codes of damage are given at the audit, and a run that has changed  *)
(* the directory is past it.                                               *)
(***************************************************************************)
RefusedAtAudit ==
  \A r \in Run : /\ exit[r] \in Damage => step[r] <= 3
                 /\ r \in touched => step[r] > 4

\* Every step preserves it.
LEMMA RefusalNext == TypeInv /\ RefusedAtAudit /\ [Next]_vars => RefusedAtAudit'
  <1> SUFFICES ASSUME TypeInv, RefusedAtAudit, [Next]_vars PROVE RefusedAtAudit'
    OBVIOUS
  <1> USE Operations DEF RefusedAtAudit, TypeInv, ArtifactsTypeOK, Damage,
                         ExitTruncated, ExitUnsupportedFormat, ExitCorrupt
  <1>1. ASSUME NEW r \in Run, Start(r) \/ Passes(r) PROVE RefusedAtAudit'
    BY <1>1 DEF Start, Passes, Active, Running
  <1>2. ASSUME NEW r \in Run, Works(r) PROVE RefusedAtAudit'
    <2> USE DEF At, Active, Advance, Writing, Running
    <2>1. CASE MakeDirectory(r)
      BY <2>1 DEF MakeDirectory
    <2>2. CASE ReadCapture(r)
      BY <2>2 DEF ReadCapture
    <2>3. CASE HashCapture(r)
      BY <2>3 DEF HashCapture
    <2>4. CASE CheckFindings(r)
      BY <2>4 DEF CheckFindings
    <2>5. CASE CreateTemp(r)
      BY <2>5 DEF CreateTemp
    <2>6. CASE WriteTemp(r)
      BY <2>6 DEF WriteTemp
    <2>7. CASE Replace(r)
      BY <2>7 DEF Replace, ExitOk
    <2> QED
      BY <1>2, <2>1, <2>2, <2>3, <2>4, <2>5, <2>6, <2>7 DEF Works
  <1>3. ASSUME NEW r \in Run, Leaves(r, BadCodes \ Damage) PROVE RefusedAtAudit'
    BY <1>3 DEF Leaves
  <1>4. ASSUME NEW r \in Run, Leaves(r, Damage), Refused(r) PROVE RefusedAtAudit'
    BY <1>4 DEF Leaves, Refused
  <1>5. CASE ChangeInput \/ UNCHANGED vars
    BY <1>5 DEF ChangeInput, vars
  <1> QED
    BY <1>1, <1>2, <1>3, <1>4, <1>5, StepKinds

(***************************************************************************)
(* Gate D-01: a refused capture leaves no trace in the output directory.   *)
(***************************************************************************)
THEOREM NoTrace == Spec => []RefusedLeavesNoTrace
  <1>1. TypeInv /\ RefusedAtAudit => RefusedLeavesNoTrace
    <2> SUFFICES ASSUME TypeInv, RefusedAtAudit PROVE RefusedLeavesNoTrace
      OBVIOUS
    <2>1. \A r \in Run : step[r] \in 0 .. 10
      BY Operations DEF TypeInv, ArtifactsTypeOK
    <2> QED
      BY <2>1 DEF RefusedAtAudit, RefusedLeavesNoTrace, Damage
  <1>2. Init => RefusedAtAudit
    BY DEF Init, RefusedAtAudit, Damage, Running, ExitTruncated,
           ExitUnsupportedFormat, ExitCorrupt
  <1> QED
    BY <1>1, <1>2, TypeInit, TypeNext, RefusalNext, PTL DEF Spec

-----------------------------------------------------------------------------
\* What a step may do to the exit codes.
LEMMA CodesOfStep ==
  ASSUME TypeInv, [Next]_vars, NEW r \in Run, exit[r] = Running, exit'[r] \in 3 .. 5
  PROVE  Refused(r)
  <1> USE DEF TypeInv, ArtifactsTypeOK, Running
  <1>1. ASSUME NEW q \in Run, Works(q) PROVE exit'[r] \notin 3 .. 5
    <2>1. exit' = exit \/ exit' = [exit EXCEPT ![q] = ExitOk]
      BY <1>1 DEF Works, MakeDirectory, ReadCapture, HashCapture, CheckFindings,
                  CreateTemp, WriteTemp, Replace
    <2>2. exit'[r] \in {-1, 0}
      BY <2>1 DEF ExitOk
    <2> QED
      BY <2>2
  <1>2. ASSUME NEW q \in Run, Leaves(q, BadCodes \ Damage)
        PROVE  exit'[r] \notin 3 .. 5
    <2>1. CASE q = r
      BY <1>2, <2>1 DEF Leaves, BadCodes, Damage, Killed, Interrupted, ExitUncaught,
                        ExitUnreadable, ExitTruncated, ExitUnsupportedFormat,
                        ExitCorrupt
    <2>2. CASE q # r
      BY <1>2, <2>2 DEF Leaves
    <2> QED
      BY <2>1, <2>2
  <1>3. ASSUME NEW q \in Run, Leaves(q, Damage), q # r PROVE exit'[r] \notin 3 .. 5
    BY <1>3 DEF Leaves
  <1>4. ASSUME NEW q \in Run, Start(q) \/ Passes(q) PROVE exit'[r] \notin 3 .. 5
    BY <1>4 DEF Start, Passes
  <1>5. CASE ChangeInput \/ UNCHANGED vars
    BY <1>5 DEF ChangeInput, vars
  <1> QED
    BY <1>1, <1>2, <1>3, <1>4, <1>5, StepKinds

(***************************************************************************)
(* What a run knows of its input, as long as nobody replaced it while the  *)
(* run looked at it; a run that has written anything is past all of that.  *)
(***************************************************************************)
InputIsKnown ==
  /\ \A r \in Run \ replaced :
       /\ Active(r) /\ step[r] \in 2 .. 3 => met[r] = {input}
       /\ Active(r) /\ step[r] \in 4 .. 6
            => input # Missing /\ Quality[input] = "intact"
       /\ Active(r) /\ step[r] = 6 => decoded[r] = input
       /\ step[r] >= 7 => hashed[r] = decoded[r] /\ Quality[decoded[r]] = "intact"
  /\ \A r \in Run : step[r] <= 1 => met[r] = {}
  /\ \A a \in Artifact, r \in Run : directory[a].by = r => step[r] >= 8

\* A run between its first look at the input and its last is marked when the
\* input is replaced.
LEMMA OpeningIs ==
  ASSUME TypeInv, NEW r \in Run, Active(r), step[r] \in 2 .. 6
  PROVE  Opening(r)
  BY Operations DEF Opening

\* A replacement puts the run's own artifact in place and leaves the others.
LEMMA ReplaceIs ==
  ASSUME TypeInv, NEW r \in Run, Replace(r)
  PROVE  /\ Active(r) /\ step[r] \in 8 .. 10
         /\ step[r] = 8 <=> Name(r) = "analysis.json"
         /\ step[r] = 9 <=> Name(r) = "report.md"
         /\ step[r] = 10 <=> Name(r) = "report.pdf"
         /\ Name(r) \in Artifact
         /\ directory'[Name(r)].by = r
         /\ \A a \in Artifact \ {Name(r)} : directory'[a] = directory[a]
         /\ litter' = litter
         /\ \/ /\ step[r] = 10 \/ (step[r] = 9 /\ ~export_pdf[r])
               /\ exit' = [exit EXCEPT ![r] = ExitOk] /\ step' = step
            \/ /\ step[r] = 8 \/ (step[r] = 9 /\ export_pdf[r])
               /\ exit' = exit /\ step' = [step EXCEPT ![r] = step[r] + 1]
         /\ UNCHANGED <<export_pdf, overlapped>>
  <1> USE Operations DEF TypeInv, ArtifactsTypeOK
  <1>1. Active(r) /\ step[r] \in 8 .. 10
    BY DEF Replace, Writing, Active
  <1>2. /\ step[r] = 8 <=> Name(r) = "analysis.json"
        /\ step[r] = 9 <=> Name(r) = "report.md"
        /\ step[r] = 10 <=> Name(r) = "report.pdf"
        /\ Name(r) \in Artifact
    BY <1>1 DEF Name, Steps, Artifact
  <1>3. /\ directory'[Name(r)].by = r
        /\ \A a \in Artifact \ {Name(r)} : directory'[a] = directory[a]
    BY <1>2 DEF Replace
  <1>4. \/ /\ step[r] = 10 \/ (step[r] = 9 /\ ~export_pdf[r])
           /\ exit' = [exit EXCEPT ![r] = ExitOk] /\ step' = step
        \/ /\ step[r] = 8 \/ (step[r] = 9 /\ export_pdf[r])
           /\ exit' = exit /\ step' = [step EXCEPT ![r] = step[r] + 1]
    BY <1>1, <1>2 DEF Replace, Done, Advance
  <1>5. litter' = litter /\ UNCHANGED <<export_pdf, overlapped>>
    BY DEF Replace, LitterAfterReplace
  <1> QED
    BY <1>1, <1>2, <1>3, <1>4, <1>5

\* Every step preserves it.
LEMMA InputNext == TypeInv /\ InputIsKnown /\ [Next]_vars => InputIsKnown'
  <1> SUFFICES ASSUME TypeInv, InputIsKnown, [Next]_vars PROVE InputIsKnown'
    OBVIOUS
  <1> USE Operations DEF InputIsKnown, TypeInv, ArtifactsTypeOK, Active
  <1>0. ASSUME NEW r \in Run, Start(r) PROVE InputIsKnown'
    BY <1>0 DEF Start, Active
  <1>1. ASSUME NEW r \in Run, Passes(r) PROVE InputIsKnown'
    <2>1. /\ Active(r) /\ step[r] \in 1 .. 3 /\ input \in Version
          /\ met' = [met EXCEPT ![r] = IF step[r] = 3 THEN {} ELSE met[r] \cup {input}]
          /\ step' = [step EXCEPT ![r] = step[r] + 1]
          /\ UNCHANGED <<input, directory, decoded, hashed, exit, replaced>>
      BY <1>1 DEF Passes
    <2>2. /\ step'[r] = step[r] + 1
          /\ \A q \in Run \ {r} : step'[q] = step[q] /\ met'[q] = met[q]
          /\ met'[r] = IF step[r] = 3 THEN {} ELSE met[r] \cup {input}
      BY <2>1
    <2>3. r \notin replaced /\ step[r] = 3 => Quality[input] = "intact"
      <3>1. Verdict(Quality[input]) = "intact" => Quality[input] = "intact"
        BY DEF Verdict
      <3> QED
        BY <1>1, <3>1 DEF Passes
    <2>4. r \notin replaced /\ step[r] \in 1 .. 2 => met'[r] = {input}
      BY <2>1, <2>2
    <2>5. input # Missing
      BY <2>1, ArtifactsAssumption
    <2>6. \A q \in Run \ replaced :
            /\ Active(q)' /\ step'[q] \in 2 .. 3 => met'[q] = {input'}
            /\ Active(q)' /\ step'[q] \in 4 .. 6
                 => input' # Missing /\ Quality[input'] = "intact"
            /\ Active(q)' /\ step'[q] = 6 => decoded'[q] = input'
            /\ step'[q] >= 7 => hashed'[q] = decoded'[q] /\ Quality[decoded'[q]] = "intact"
      <3>1. ASSUME NEW q \in Run \ replaced, q # r
            PROVE  /\ Active(q)' /\ step'[q] \in 2 .. 3 => met'[q] = {input'}
                   /\ Active(q)' /\ step'[q] \in 4 .. 6
                        => input' # Missing /\ Quality[input'] = "intact"
                   /\ Active(q)' /\ step'[q] = 6 => decoded'[q] = input'
                   /\ step'[q] >= 7
                        => hashed'[q] = decoded'[q] /\ Quality[decoded'[q]] = "intact"
        BY <2>1, <2>2, <3>1
      <3>2. r \notin replaced =>
              /\ step'[r] \in 2 .. 3 => met'[r] = {input'}
              /\ step'[r] \in 4 .. 6 => input' # Missing /\ Quality[input'] = "intact"
              /\ step'[r] \in 2 .. 4
        BY <2>1, <2>2, <2>3, <2>4, <2>5
      <3> QED
        BY <3>1, <3>2
    <2>7. \A q \in Run : step'[q] <= 1 => met'[q] = {}
      BY <2>1, <2>2
    <2>8. \A a \in Artifact, q \in Run : directory'[a].by = q => step'[q] >= 8
      BY <2>1, <2>2
    <2> QED
      BY <2>1, <2>6, <2>7, <2>8
  <1>2. ASSUME NEW r \in Run, Works(r) PROVE InputIsKnown'
    <2> USE DEF At, Advance, Writing
    <2>1. CASE MakeDirectory(r)
      BY <2>1 DEF MakeDirectory
    <2>2. CASE ReadCapture(r)
      BY <2>2 DEF ReadCapture
    <2>3. CASE HashCapture(r)
      BY <2>3 DEF HashCapture, Sha256
    <2>4. CASE CheckFindings(r)
      BY <2>4 DEF CheckFindings
    <2>5. CASE CreateTemp(r)
      BY <2>5 DEF CreateTemp
    <2>6. CASE WriteTemp(r)
      BY <2>6 DEF WriteTemp
    <2>7. CASE Replace(r)
      <3>1. /\ step[r] \in 8 .. 10 /\ Name(r) \in Artifact
            /\ directory'[Name(r)].by = r
            /\ \A a \in Artifact \ {Name(r)} : directory'[a] = directory[a]
            /\ exit' = exit \/ exit' = [exit EXCEPT ![r] = ExitOk]
            /\ step' = step \/ step' = [step EXCEPT ![r] = step[r] + 1]
        BY <2>7, ReplaceIs
      <3>2. UNCHANGED <<input, met, decoded, hashed, replaced>>
        BY <2>7 DEF Replace
      <3>3. /\ step'[r] >= 8 /\ step'[r] \in 0 .. 11
            /\ \A q \in Run \ {r} : step'[q] = step[q] /\ exit'[q] = exit[q]
        BY <3>1
      <3>4. \A a \in Artifact, q \in Run : directory'[a].by = q => step'[q] >= 8
        BY <3>1, <3>3
      <3>5. ASSUME NEW q \in Run \ replaced
            PROVE  /\ Active(q)' /\ step'[q] \in 2 .. 3 => met'[q] = {input'}
                   /\ Active(q)' /\ step'[q] \in 4 .. 6
                        => input' # Missing /\ Quality[input'] = "intact"
                   /\ Active(q)' /\ step'[q] = 6 => decoded'[q] = input'
                   /\ step'[q] >= 7
                        => hashed'[q] = decoded'[q] /\ Quality[decoded'[q]] = "intact"
        <4>1. CASE q = r
          BY <3>1, <3>2, <3>3, <4>1
        <4>2. CASE q # r
          BY <3>2, <3>3, <4>2
        <4> QED
          BY <4>1, <4>2
      <3>6. \A q \in Run : step'[q] <= 1 => met'[q] = {}
        BY <3>2, <3>3
      <3> QED
        BY <3>2, <3>4, <3>5, <3>6
    <2> QED
      BY <1>2, <2>1, <2>2, <2>3, <2>4, <2>5, <2>6, <2>7 DEF Works
  <1>3. ASSUME NEW r \in Run, NEW codes, Running \notin codes, Leaves(r, codes)
        PROVE  InputIsKnown'
    BY <1>3 DEF Leaves
  <1>4. CASE ChangeInput
    <2>1. \A r \in Run : Active(r) /\ step[r] \in 2 .. 6 => r \in replaced'
      BY <1>4, OpeningIs DEF ChangeInput
    <2> QED
      BY <1>4, <2>1 DEF ChangeInput
  <1>5. CASE UNCHANGED vars
    BY <1>5 DEF vars
  <1>6. Running \notin BadCodes \ Damage /\ Running \notin Damage
    BY DEF BadCodes, Damage, Running, Killed, Interrupted, ExitUncaught,
           ExitUnreadable, ExitTruncated, ExitUnsupportedFormat, ExitCorrupt
  <1> QED
    BY <1>0, <1>1, <1>2, <1>3, <1>4, <1>5, <1>6, StepKinds

(***************************************************************************)
(* "`sha256` makes it possible to tie the report to a specific input file" *)
(* (_build_capture_section): for any number of runs and replacements, the  *)
(* hash is that of the capture decoded, and that is a whole one, unless    *)
(* the file was replaced while this very run was opening it.               *)
(***************************************************************************)
THEOREM HashTies == Spec => []HashTiesToInput
  <1>1. ASSUME TypeInv, InputIsKnown PROVE HashTiesToInput
    <2>1. ASSUME NEW a \in Artifact, directory[a].by \in Run \ replaced
          PROVE  /\ hashed[directory[a].by] = decoded[directory[a].by]
                 /\ Quality[decoded[directory[a].by]] = "intact"
      <3> DEFINE writer == directory[a].by
      <3>1. writer \in Run \ replaced /\ step[writer] >= 8
        BY <1>1, <2>1 DEF InputIsKnown
      <3>2. step[writer] \in Nat
        <4>1. step \in [Run -> 0 .. Len(Steps)] /\ Len(Steps) = 10
          BY <1>1, Operations DEF TypeInv, ArtifactsTypeOK
        <4> QED
          BY <3>1, <4>1
      <3> HIDE DEF writer
      <3>3. step[writer] >= 7
        BY <3>1, <3>2
      <3>4. hashed[writer] = decoded[writer] /\ Quality[decoded[writer]] = "intact"
        BY <1>1, <3>1, <3>3 DEF InputIsKnown
      <3> QED
        BY <3>4 DEF writer
    <2> QED
      BY <2>1 DEF HashTiesToInput
  <1>2. Init => InputIsKnown
    BY ArtifactsAssumption DEF Init, InputIsKnown, Active, Nobody
  <1> QED
    BY <1>1, <1>2, TypeInit, TypeNext, InputNext, PTL DEF Spec

-----------------------------------------------------------------------------
(***************************************************************************)
(* Codes 3, 4 and 5 are given for the damage they stand for and for        *)
(* nothing else (D-01, Z-12), by the order of the except clauses: a run    *)
(* that ends with one of them, and whose input was not replaced while it   *)
(* looked at it, has met a file with that damage, at the magic or at the   *)
(* walk.  Code 3 is also that of a short interface block.                  *)
(***************************************************************************)
THEOREM CodesTell == Spec => CodesTellDamageApart
  <1> DEFINE Tells ==
        \A r \in Run \ replaced :
          exit[r] = Running /\ exit'[r] \in 3 .. 5 =>
            /\ input # Missing
            /\ exit'[r] = 3 <=> Quality[input] \in {"truncated", "short interface"}
            /\ exit'[r] = 4 <=> Quality[input] = "unsupported"
            /\ exit'[r] = 5 <=> Quality[input] = "corrupt"
  <1>1. TypeInv /\ InputIsKnown /\ [Next]_vars => [Tells]_vars
    <2>1. ASSUME TypeInv, InputIsKnown, [Next]_vars PROVE Tells
      <3> SUFFICES ASSUME NEW r \in Run \ replaced, exit[r] = Running,
                          exit'[r] \in 3 .. 5
                   PROVE  /\ input # Missing
                          /\ exit'[r] = 3
                               <=> Quality[input] \in {"truncated", "short interface"}
                          /\ exit'[r] = 4 <=> Quality[input] = "unsupported"
                          /\ exit'[r] = 5 <=> Quality[input] = "corrupt"
        OBVIOUS
      <3>1. Refused(r)
        BY <2>1, CodesOfStep
      <3>2. met[r] = {input}
        BY <2>1, <3>1 DEF InputIsKnown, Refused, Active
      <3>3. PICK verdict \in DamageVerdict :
              exit'[r] = CodeFor(verdict) /\ verdict = Verdict(Quality[input])
        BY <3>1, <3>2 DEF Refused
      <3>4. input \in Version /\ input # Missing /\ Quality[input] \in FileKind
        BY <3>1, ArtifactsAssumption DEF Refused
      <3>5. /\ verdict = "truncated" <=> Quality[input] \in {"truncated", "short interface"}
            /\ verdict = "unsupported" <=> Quality[input] = "unsupported"
            /\ verdict = "corrupt" <=> Quality[input] = "corrupt"
        BY <3>3, <3>4 DEF Verdict, FileKind, Outcome
      <3>6. /\ CodeFor(verdict) = 3 <=> verdict = "truncated"
            /\ CodeFor(verdict) = 4 <=> verdict = "unsupported"
            /\ CodeFor(verdict) = 5 <=> verdict = "corrupt"
        BY Codes DEF DamageVerdict, Outcome, ExitTruncated, ExitUnsupportedFormat,
                     ExitCorrupt
      <3> QED
        BY <3>3, <3>4, <3>5, <3>6
    <2> QED
      BY <2>1
  <1>2. Init => InputIsKnown
    BY ArtifactsAssumption DEF Init, InputIsKnown, Active, Nobody
  <1>3. Spec => [][Tells]_vars
    BY <1>1, <1>2, TypeInit, TypeNext, InputNext, PTL DEF Spec
  <1> QED
    BY <1>3 DEF CodesTellDamageApart

-----------------------------------------------------------------------------
(***************************************************************************)
(* Code 0 is given when the last artifact asked for is in place; nothing   *)
(* ever removes an artifact, and nobody who still runs has left litter.    *)
(***************************************************************************)
Earned ==
  \A r \in Run :
    /\ exit[r] = Running => r \notin litter
    /\ step[r] >= 9 => directory["analysis.json"].by # Missing
    /\ step[r] = 10 => directory["report.md"].by # Missing
    /\ exit[r] = ExitOk =>
         /\ r \notin litter
         /\ step[r] >= 9
         /\ directory["report.md"].by # Missing
         /\ export_pdf[r] => directory["report.pdf"].by # Missing

\* The other operations of a run that goes on touch neither the artifacts nor
\* the exit codes, and do not reach the later artifacts.
LEMMA WorkIs ==
  ASSUME TypeInv, NEW r \in Run, Works(r), ~Replace(r)
  PROVE  /\ Active(r)
         /\ UNCHANGED <<directory, exit, litter, export_pdf, overlapped>>
         /\ \/ step' = step
            \/ step[r] <= 7 /\ step' = [step EXCEPT ![r] = step[r] + 1]
  BY Operations
     DEF Works, MakeDirectory, ReadCapture, HashCapture, CheckFindings, CreateTemp,
         WriteTemp, At, Active, Advance, Writing, TypeInv, ArtifactsTypeOK

\* Every step preserves it.
LEMMA EarnedNext == TypeInv /\ Earned /\ [Next]_vars => Earned'
  <1> SUFFICES ASSUME TypeInv, Earned, [Next]_vars PROVE Earned'
    OBVIOUS
  <1>1. ASSUME NEW r \in Run, Start(r) \/ Passes(r) PROVE Earned'
    <2>1. step \in [Run -> 0 .. Len(Steps)] /\ step[r] \in 0 .. 3
      BY <1>1 DEF Start, Passes, TypeInv, ArtifactsTypeOK
    <2>2. /\ \E n \in 1 .. 4 : step' = [step EXCEPT ![r] = n]
          /\ UNCHANGED <<directory, export_pdf, exit, litter>>
      BY <1>1 DEF Start, Passes
    <2>3. \A q \in Run : q # r => step'[q] = step[q]
      BY <2>1, <2>2
    <2>4. step'[r] \in 1 .. 4
      BY <2>1, <2>2
    <2>5. exit[r] # ExitOk
      BY <2>1 DEF Earned
    <2> QED
      BY <2>2, <2>3, <2>4, <2>5 DEF Earned
  <1>2. ASSUME NEW r \in Run, Replace(r) PROVE Earned'
    <2>1. /\ step \in [Run -> 0 .. Len(Steps)]
          /\ exit \in [Run -> {Running, Killed, Interrupted} \cup (0 .. 5)]
      BY DEF TypeInv, ArtifactsTypeOK
    <2>2. r # Missing
      BY ArtifactsAssumption
    <2>3. \A a \in Artifact : directory[a].by # Missing => directory'[a].by # Missing
      BY <1>2, <2>2, ReplaceIs
    <2>4. r \notin litter /\ litter' = litter
      BY <1>2, ReplaceIs DEF Active, Earned
    <2>5. \A q \in Run \ {r} : exit'[q] = exit[q] /\ step'[q] = step[q]
      BY <1>2, <2>1, ReplaceIs
    <2>6. ASSUME NEW q \in Run \ {r}
          PROVE  /\ exit'[q] = Running => q \notin litter'
                 /\ step'[q] >= 9 => directory'["analysis.json"].by # Missing
                 /\ step'[q] = 10 => directory'["report.md"].by # Missing
                 /\ exit'[q] = ExitOk =>
                      /\ q \notin litter'
                      /\ step'[q] >= 9
                      /\ directory'["report.md"].by # Missing
                      /\ export_pdf'[q] => directory'["report.pdf"].by # Missing
      BY <1>2, <2>3, <2>4, <2>5, ReplaceIs DEF Earned, Artifact
    <2>7. /\ exit'[r] = Running => r \notin litter'
          /\ step'[r] >= 9 => directory'["analysis.json"].by # Missing
          /\ step'[r] = 10 => directory'["report.md"].by # Missing
          /\ exit'[r] = ExitOk =>
               /\ r \notin litter'
               /\ step'[r] >= 9
               /\ directory'["report.md"].by # Missing
               /\ export_pdf'[r] => directory'["report.pdf"].by # Missing
      <3>1. step[r] >= 9 => directory'["analysis.json"].by # Missing
        BY <2>3 DEF Earned, Artifact
      <3>2. step[r] = 10 => directory'["report.md"].by # Missing
        BY <2>3 DEF Earned, Artifact
      <3>3. exit[r] # ExitOk
        BY <1>2, ReplaceIs DEF Active, Running, ExitOk
      <3> QED
        BY <1>2, <2>1, <2>2, <2>4, <3>1, <3>2, <3>3, ReplaceIs
    <2> QED
      BY <2>6, <2>7 DEF Earned
  <1>3. ASSUME NEW r \in Run, Works(r), ~Replace(r) PROVE Earned'
    <2>1. step \in [Run -> 0 .. Len(Steps)]
      BY DEF TypeInv, ArtifactsTypeOK
    <2>2. UNCHANGED <<directory, exit, litter, export_pdf>>
      BY <1>3, WorkIs
    <2>3. \A q \in Run : /\ step'[q] >= 9 => step'[q] = step[q]
                         /\ step[q] >= 9 => step'[q] = step[q]
      BY <1>3, <2>1, WorkIs, Operations
    <2> QED
      BY <2>2, <2>3 DEF Earned
  <1>4. ASSUME NEW r \in Run, NEW codes, Running \notin codes, ExitOk \notin codes,
               Leaves(r, codes)
        PROVE  Earned'
    BY <1>4 DEF Leaves, Earned, TypeInv, ArtifactsTypeOK
  <1>5. CASE ChangeInput \/ UNCHANGED vars
    BY <1>5 DEF ChangeInput, vars, Earned
  <1>6. /\ {Running, ExitOk} \cap (BadCodes \ Damage) = {}
        /\ {Running, ExitOk} \cap Damage = {}
    BY DEF BadCodes, Damage, Running, ExitOk, Killed, Interrupted, ExitUncaught,
           ExitUnreadable, ExitTruncated, ExitUnsupportedFormat, ExitCorrupt
  <1> QED
    BY <1>1, <1>2, <1>3, <1>4, <1>5, <1>6, StepKinds

(***************************************************************************)
(* Code 0 is earned: every artifact asked for is there, and no temporary   *)
(* file of that run.                                                       *)
(***************************************************************************)
THEOREM SuccessComplete == Spec => []SuccessIsComplete
  <1>1. TypeInv /\ Earned => SuccessIsComplete
    BY DEF Earned, SuccessIsComplete
  <1>2. Init => Earned
    BY DEF Init, Earned, Running, ExitOk
  <1> QED
    BY <1>1, <1>2, TypeInit, TypeNext, EarnedNext, PTL DEF Spec

-----------------------------------------------------------------------------
(***************************************************************************)
(* Why two artifacts of different runs lie side by side: runs that are     *)
(* active together have met; who is about to write its report has written  *)
(* the analysis that is there, or met who wrote it later; and where the    *)
(* two artifacts differ, their writers have met, or the writer of the      *)
(* analysis has not written its report and has not ended well.             *)
(***************************************************************************)
Met(r, q) == {r, q} \in overlapped
Analyst == directory["analysis.json"].by
Reporter == directory["report.md"].by

Meetings ==
  /\ \A r, q \in Run : r # q /\ Active(r) /\ Active(q) => Met(r, q)
  /\ \A s \in Run : Active(s) /\ step[s] = 9 => Analyst = s \/ Met(Analyst, s)
  /\ Analyst # Reporter =>
       /\ Analyst \in Run
       /\ Met(Analyst, Reporter) \/ (step[Analyst] = 9 /\ exit[Analyst] # ExitOk)

\* A step in which the artifacts stay, nobody starts, and the runs at their
\* report stay there.
LEMMA Undisturbed ==
  ASSUME TypeInv, Meetings, UNCHANGED <<directory, overlapped>>,
         \A r \in Run : Active(r)' => Active(r),
         \A r \in Run : step'[r] = 9 <=> step[r] = 9,
         \A r \in Run : step[r] = 9 /\ exit'[r] = ExitOk => exit[r] = ExitOk
  PROVE  Meetings'
  <1> USE DEF Meetings
  <1>1. /\ Analyst' = Analyst /\ Reporter' = Reporter
        /\ \A r, q : Met(r, q)' <=> Met(r, q)
    BY DEF Analyst, Reporter, Met
  <1>2. \A r, q \in Run : r # q /\ Active(r)' /\ Active(q)' => Met(r, q)'
    BY <1>1
  <1>3. \A s \in Run : Active(s)' /\ step'[s] = 9 => (Analyst = s \/ Met(Analyst, s))'
    BY <1>1
  <1>4. (Analyst # Reporter =>
           /\ Analyst \in Run
           /\ Met(Analyst, Reporter) \/ (step[Analyst] = 9 /\ exit[Analyst] # ExitOk))'
    BY <1>1
  <1> QED
    BY <1>2, <1>3, <1>4

\* A new run meets everybody who is active.
LEMMA StartMeets ==
  ASSUME TypeInv, Meetings, NEW r \in Run, Start(r)
  PROVE  Meetings'
  <1> USE DEF Meetings
  <1>1. /\ ~Active(r) /\ step'[r] = 1
        /\ \A q \in Run \ {r} : step'[q] = step[q] /\ (Active(q)' <=> Active(q))
        /\ UNCHANGED <<directory, exit>>
    BY DEF Start, Active, TypeInv, ArtifactsTypeOK
  <1>2. /\ \A q, p : Met(q, p) => Met(q, p)'
        /\ \A q \in Run : Active(q) => Met(r, q)' /\ Met(q, r)'
    BY DEF Start, Met
  <1>3. Analyst' = Analyst /\ Reporter' = Reporter
    BY <1>1 DEF Analyst, Reporter
  <1>4. step[r] = 0
    BY DEF Start
  <1> QED
    BY <1>1, <1>2, <1>3, <1>4

\* The three replacements.
LEMMA ReplaceMeets ==
  ASSUME TypeInv, Earned, Meetings, NEW r \in Run, Replace(r)
  PROVE  Meetings'
  <1> USE DEF Meetings
  <1>1. /\ Active(r) /\ exit[r] = Running /\ UNCHANGED overlapped
        /\ \A q, p : Met(q, p)' <=> Met(q, p)
    BY ReplaceIs DEF Active, Met
  <1>2. \A q \in Run \ {r} : exit'[q] = exit[q] /\ step'[q] = step[q]
    BY ReplaceIs DEF TypeInv, ArtifactsTypeOK
  <1>3. \A q \in Run : Active(q)' => Active(q)
    BY <1>1, <1>2 DEF Active
  <1>4. \A q, p \in Run : q # p /\ Active(q)' /\ Active(p)' => Met(q, p)'
    BY <1>1, <1>3
  <1>5. CASE step[r] = 8
    <2>1. /\ Analyst' = r /\ Reporter' = Reporter
          /\ step'[r] = 9 /\ exit'[r] = Running
      BY <1>1, <1>5, ReplaceIs
         DEF Analyst, Reporter, Artifact, TypeInv, ArtifactsTypeOK
    <2>2. exit'[r] # ExitOk
      BY <2>1 DEF Running, ExitOk
    <2>3. \A s \in Run : Active(s)' /\ step'[s] = 9 => r = s \/ Met(r, s)'
      BY <1>1, <1>3
    <2> QED
      BY <1>4, <2>1, <2>2, <2>3
  <1>6. CASE step[r] = 9
    <2>1. Analyst' = Analyst /\ Reporter' = r
      BY <1>6, ReplaceIs DEF Analyst, Reporter, Artifact
    <2>2. Analyst \in Run /\ (Analyst = r \/ Met(Analyst, r))
      BY <1>1, <1>6 DEF Earned, Analyst, TypeInv, ArtifactsTypeOK, Artifact
    <2>3. \A s \in Run : Active(s)' /\ step'[s] = 9 => Analyst = s \/ Met(Analyst, s)
      <3>1. \A s \in Run : Active(s)' /\ step'[s] = 9 => Active(s) /\ step[s] = 9
        BY <1>2, <1>3, <1>6
      <3> QED
        BY <3>1
    <2> QED
      BY <1>1, <1>4, <2>1, <2>2, <2>3
  <1>7. CASE step[r] = 10
    <2>1. Analyst' = Analyst /\ Reporter' = Reporter
      BY <1>7, ReplaceIs DEF Analyst, Reporter, Artifact
    <2>2. \A q \in Run : step'[q] = step[q]
      BY <1>2, <1>7, ReplaceIs
    <2>3. \A s \in Run : Active(s)' /\ step'[s] = 9 => Analyst = s \/ Met(Analyst, s)
      BY <1>3, <2>2
    <2>4. \A q \in Run : step[q] = 9 => exit'[q] = exit[q]
      BY <1>2, <1>7
    <2> QED
      BY <1>1, <1>4, <2>1, <2>2, <2>3, <2>4
  <1> QED
    BY <1>5, <1>6, <1>7, ReplaceIs

\* Every step preserves it.
LEMMA MeetingsNext == TypeInv /\ Earned /\ Meetings /\ [Next]_vars => Meetings'
  <1> SUFFICES ASSUME TypeInv, Earned, Meetings, [Next]_vars PROVE Meetings'
    OBVIOUS
  <1>t. /\ step \in [Run -> 0 .. Len(Steps)]
        /\ exit \in [Run -> {Running, Killed, Interrupted} \cup (0 .. 5)]
    BY DEF TypeInv, ArtifactsTypeOK
  <1>1. ASSUME NEW r \in Run, Start(r) PROVE Meetings'
    BY <1>1, StartMeets
  <1>2. ASSUME NEW r \in Run, Replace(r) PROVE Meetings'
    BY <1>2, ReplaceMeets
  <1>3. ASSUME NEW r \in Run, Works(r), ~Replace(r) PROVE Meetings'
    <2>1. Active(r) /\ UNCHANGED <<directory, exit, overlapped>>
      BY <1>3, WorkIs
    <2>2. \A q \in Run : step'[q] = 9 <=> step[q] = 9
      BY <1>3, <1>t, WorkIs
    <2>3. \A q \in Run : Active(q)' => Active(q)
      BY <1>3, <1>t, <2>1, WorkIs DEF Active
    <2> QED
      BY <2>1, <2>2, <2>3, Undisturbed
  <1>4. ASSUME NEW r \in Run, Passes(r) PROVE Meetings'
    <2>1. Active(r) /\ UNCHANGED <<directory, exit, overlapped>>
      BY <1>4 DEF Passes
    <2>2. \A q \in Run : step'[q] = 9 <=> step[q] = 9
      BY <1>4, <1>t DEF Passes
    <2>3. \A q \in Run : Active(q)' => Active(q)
      BY <1>4, <1>t, <2>1 DEF Active, Passes
    <2> QED
      BY <2>1, <2>2, <2>3, Undisturbed
  <1>5. ASSUME NEW r \in Run, NEW codes, Running \notin codes, ExitOk \notin codes,
               Leaves(r, codes)
        PROVE  Meetings'
    <2>1. UNCHANGED <<directory, step, overlapped>>
      BY <1>5 DEF Leaves
    <2>2. /\ exit'[r] # Running /\ exit'[r] # ExitOk
          /\ \A q \in Run \ {r} : exit'[q] = exit[q]
      BY <1>5, <1>t DEF Leaves
    <2>3. \A q \in Run : Active(q)' => Active(q)
      BY <2>1, <2>2 DEF Active
    <2> QED
      BY <2>1, <2>2, <2>3, Undisturbed
  <1>6. CASE ChangeInput \/ UNCHANGED vars
    <2>1. UNCHANGED <<directory, step, exit, overlapped>>
      BY <1>6 DEF ChangeInput, vars
    <2> QED
      BY <2>1, Undisturbed DEF Active
  <1>7. /\ {Running, ExitOk} \cap (BadCodes \ Damage) = {}
        /\ {Running, ExitOk} \cap Damage = {}
    BY DEF BadCodes, Damage, Running, ExitOk, Killed, Interrupted, ExitUncaught,
           ExitUnreadable, ExitTruncated, ExitUnsupportedFormat, ExitCorrupt
  <1> QED
    BY <1>1, <1>2, <1>3, <1>4, <1>5, <1>6, <1>7, StepKinds

(***************************************************************************)
(* The two artifacts describe one analysis, for any number of runs: once   *)
(* nobody is running they are of different runs only if those overlapped,  *)
(* or if the writer of the analysis did not end well.                      *)
(***************************************************************************)
THEOREM MixedOnly == Spec => []MixedOnlyByOverlapOrFailure
  <1>1. TypeInv /\ Meetings => MixedOnlyByOverlapOrFailure
    BY ArtifactsAssumption
       DEF Meetings, Met, Analyst, Reporter, MixedOnlyByOverlapOrFailure
  <1>2. Init => Earned /\ Meetings
    BY DEF Init, Earned, Meetings, Active, Analyst, Reporter, Artifact, Running,
           ExitOk
  <1> QED
    BY <1>1, <1>2, TypeInit, TypeNext, EarnedNext, MeetingsNext, PTL DEF Spec

-----------------------------------------------------------------------------
(***************************************************************************)
(* What a run has before it, as a number: three for each operation from    *)
(* the next one on, less the progress of the artifact it is writing.       *)
(***************************************************************************)
Progress(r) == CASE phase[r] = "none"    -> 0
                 [] phase[r] = "partial" -> 1
                 [] phase[r] = "full"    -> 2

Remaining(r) == IF Ended(r) THEN 0 ELSE 3 * (11 - step[r]) - Progress(r)

\* It is a natural number, and none is left to a run that ended, only.
LEMMA RemainingCounts ==
  ASSUME TypeInv, NEW r \in Run
  PROVE  Remaining(r) \in Nat /\ (Remaining(r) = 0 <=> Ended(r))
  BY Operations DEF Remaining, Progress, Ended, TypeInv, ArtifactsTypeOK

\* Likewise after a step.
LEMMA RemainingNext ==
  ASSUME TypeInv', NEW r \in Run
  PROVE  Remaining(r)' \in Nat
  BY Operations DEF Remaining, Progress, Ended, TypeInv, ArtifactsTypeOK

\* Who has ended has nothing left, and who goes on had more.
LEMMA EndCounts ==
  ASSUME TypeInv, NEW r \in Run, Active(r), exit'[r] # Running
  PROVE  Remaining(r)' < Remaining(r)
  <1>1. Remaining(r) \in Nat \ {0}
    BY RemainingCounts DEF Active, Ended
  <1>2. Remaining(r)' = 0
    BY DEF Remaining, Ended
  <1> QED
    BY <1>1, <1>2

\* A run whose state stays has as much before it as before.
LEMMA StillCounts ==
  ASSUME NEW r \in Run, step'[r] = step[r], phase'[r] = phase[r], exit'[r] = exit[r]
  PROVE  Remaining(r)' = Remaining(r)
  BY DEF Remaining, Progress, Ended

\* The next operation, with whatever progress.
LEMMA AdvanceCounts ==
  ASSUME TypeInv, TypeInv', NEW r \in Run, exit[r] = Running, exit'[r] = Running,
         step'[r] = step[r] + 1
  PROVE  Remaining(r)' < Remaining(r)
  <1>1. step[r] \in 0 .. 10 /\ step'[r] \in 0 .. 10
    BY Operations DEF TypeInv, ArtifactsTypeOK
  <1>2. Progress(r) \in 0 .. 2 /\ Progress(r)' \in 0 .. 2
    BY DEF Progress, TypeInv, ArtifactsTypeOK
  <1>3. /\ Remaining(r) = 3 * (11 - step[r]) - Progress(r)
        /\ Remaining(r)' = 3 * (11 - step'[r]) - Progress(r)'
    BY DEF Remaining, Ended
  <1> QED
    BY <1>1, <1>2, <1>3

\* Every operation of a run that goes on counts.
LEMMA WorkCounts ==
  ASSUME TypeInv, TypeInv', NEW r \in Run, Works(r)
  PROVE  /\ Remaining(r)' < Remaining(r)
         /\ \A q \in Run \ {r} :
              step'[q] = step[q] /\ phase'[q] = phase[q] /\ exit'[q] = exit[q]
  <1>t. /\ step \in [Run -> 0 .. 10]
        /\ phase \in [Run -> {"none", "partial", "full"}]
        /\ exit \in [Run -> {Running, Killed, Interrupted} \cup (0 .. 5)]
    BY Operations DEF TypeInv, ArtifactsTypeOK
  <1>1. CASE MakeDirectory(r) \/ ReadCapture(r) \/ HashCapture(r) \/ CheckFindings(r)
    <2>1. /\ step' = [step EXCEPT ![r] = step[r] + 1] /\ exit[r] = Running
          /\ UNCHANGED <<phase, exit>>
      BY <1>1 DEF MakeDirectory, ReadCapture, HashCapture, CheckFindings, At, Active,
                  Advance
    <2>2. step'[r] = step[r] + 1
      BY <1>t, <2>1
    <2> QED
      BY <1>t, <2>1, <2>2, AdvanceCounts
  <1>2. CASE CreateTemp(r) \/ WriteTemp(r)
    <2>1. /\ exit[r] = Running /\ UNCHANGED <<step, exit>>
          /\ \/ phase[r] = "none" /\ phase' = [phase EXCEPT ![r] = "partial"]
             \/ phase[r] = "partial" /\ phase' = [phase EXCEPT ![r] = "full"]
      BY <1>2 DEF CreateTemp, WriteTemp, Writing, Active
    <2>2. Remaining(r)' < Remaining(r)
      BY <1>t, <2>1 DEF Remaining, Progress, Ended
    <2> QED
      BY <1>t, <2>1, <2>2
  <1>3. CASE Replace(r)
    <2>1. /\ Active(r) /\ phase' = [phase EXCEPT ![r] = "none"]
          /\ \/ exit' = [exit EXCEPT ![r] = ExitOk] /\ step' = step
             \/ exit' = exit /\ step' = [step EXCEPT ![r] = step[r] + 1]
      BY <1>3, ReplaceIs DEF Replace
    <2>2. CASE exit' = [exit EXCEPT ![r] = ExitOk] /\ step' = step
      <3>1. exit'[r] # Running
        BY <1>t, <2>2 DEF ExitOk, Running
      <3> QED
        BY <1>t, <2>1, <2>2, <3>1, EndCounts
    <2>3. CASE exit' = exit /\ step' = [step EXCEPT ![r] = step[r] + 1]
      <3>1. step'[r] = step[r] + 1 /\ exit[r] = Running /\ exit'[r] = Running
        BY <1>t, <2>1, <2>3 DEF Active
      <3> QED
        BY <1>t, <2>1, <2>3, <3>1, AdvanceCounts
    <2> QED
      BY <2>1, <2>2, <2>3
  <1> QED
    BY <1>1, <1>2, <1>3 DEF Works

\* Leaving counts too.
LEMMA LeaveCounts ==
  ASSUME TypeInv, NEW r \in Run, NEW codes, Running \notin codes, Leaves(r, codes)
  PROVE  /\ Remaining(r)' < Remaining(r)
         /\ \A q \in Run \ {r} :
              step'[q] = step[q] /\ phase'[q] = phase[q] /\ exit'[q] = exit[q]
  <1>1. Active(r) /\ exit'[r] # Running
    BY DEF Leaves
  <1>2. \A q \in Run \ {r} :
          step'[q] = step[q] /\ phase'[q] = phase[q] /\ exit'[q] = exit[q]
    BY DEF Leaves, TypeInv, ArtifactsTypeOK
  <1> QED
    BY <1>1, <1>2, EndCounts

\* Starting counts, and so does the audit that lets the run go on.
LEMMA BeginCounts ==
  ASSUME TypeInv, TypeInv', NEW r \in Run, exit[r] = Running,
         Start(r) \/ Passes(r)
  PROVE  Remaining(r)' < Remaining(r)
  <1>1. /\ step'[r] = step[r] + 1
        /\ exit'[r] = Running
    BY DEF Start, Passes, TypeInv, ArtifactsTypeOK
  <1> QED
    BY <1>1, AdvanceCounts

\* The codes of an end are none of a run that goes on.
LEMMA EndsAreEnds ==
  Running \notin BadCodes \ Damage /\ Running \notin Damage
  BY DEF BadCodes, Damage, Running, Killed, Interrupted, ExitUncaught,
         ExitUnreadable, ExitTruncated, ExitUnsupportedFormat, ExitCorrupt

\* Whatever a run does of itself counts.
LEMMA ProceedCounts ==
  ASSUME TypeInv, TypeInv', NEW r \in Run, Proceed(r)
  PROVE  Remaining(r)' < Remaining(r)
  <1>1. CASE Measure(r) \/ Probe(r) \/ Audit(r)
    <2>1. CASE Passes(r)
      BY <2>1, BeginCounts DEF Passes, Active
    <2>2. CASE Leaves(r, BadCodes \ Damage)
      BY <2>2, EndsAreEnds, LeaveCounts
    <2>3. CASE Leaves(r, Damage)
      BY <2>3, EndsAreEnds, LeaveCounts
    <2> QED
      BY <1>1, <2>1, <2>2, <2>3, AuditOutcome
  <1>2. CASE Works(r)
    BY <1>2, WorkCounts
  <1>3. CASE Fail(r)
    BY <1>3, OtherEnds, EndsAreEnds, LeaveCounts
  <1> QED
    BY <1>1, <1>2, <1>3 DEF Proceed, Works

\* What one run does leaves the others what they had.
LEMMA OthersKeep ==
  ASSUME TypeInv, TypeInv', NEW r \in Run, Remaining(r)' <= Remaining(r),
         \A q \in Run \ {r} :
           step'[q] = step[q] /\ phase'[q] = phase[q] /\ exit'[q] = exit[q]
  PROVE  \A q \in Run : Remaining(q)' <= Remaining(q)
  <1>1. ASSUME NEW q \in Run, q # r PROVE Remaining(q)' <= Remaining(q)
    <2>1. Remaining(q)' = Remaining(q) /\ Remaining(q) \in Nat
      BY <1>1, StillCounts, RemainingCounts
    <2> QED
      BY <2>1
  <1> QED
    BY <1>1

\* No step of any run, and no replacement of the input, gives a run more to do.
LEMMA NothingIsAdded ==
  ASSUME TypeInv, TypeInv', [Next]_vars
  PROVE  \A r \in Run : Remaining(r)' <= Remaining(r)
  <1>1. ASSUME NEW r \in Run, Start(r) \/ Passes(r)
        PROVE  \A q \in Run : Remaining(q)' <= Remaining(q)
    <2>1. \A q \in Run \ {r} :
            step'[q] = step[q] /\ phase'[q] = phase[q] /\ exit'[q] = exit[q]
      BY <1>1 DEF Start, Passes, TypeInv, ArtifactsTypeOK
    <2>2. CASE exit[r] = Running
      <3>1. Remaining(r)' < Remaining(r)
        BY <1>1, <2>2, BeginCounts
      <3>2. Remaining(r)' <= Remaining(r)
        BY <3>1, RemainingCounts, RemainingNext
      <3> QED
        BY <2>1, <3>2, OthersKeep
    <2>3. CASE exit[r] # Running
      <3>1. exit'[r] # Running
        BY <1>1, <2>3 DEF Start, Passes
      <3>2. Remaining(r)' = 0 /\ Remaining(r) = 0
        BY <2>3, <3>1 DEF Remaining, Ended
      <3> QED
        BY <2>1, <3>2, OthersKeep
    <2> QED
      BY <2>2, <2>3
  <1>2. ASSUME NEW r \in Run, Works(r)
        PROVE  \A q \in Run : Remaining(q)' <= Remaining(q)
    <2>1. Remaining(r)' <= Remaining(r)
      BY <1>2, WorkCounts, RemainingCounts, RemainingNext
    <2> QED
      BY <1>2, <2>1, WorkCounts, OthersKeep
  <1>3. ASSUME NEW r \in Run,
               Leaves(r, BadCodes \ Damage) \/ Leaves(r, Damage)
        PROVE  \A q \in Run : Remaining(q)' <= Remaining(q)
    <2>1. PICK codes \in {BadCodes \ Damage, Damage} : Leaves(r, codes)
      BY <1>3
    <2>2. Running \notin codes
      BY <2>1, EndsAreEnds
    <2>3. Remaining(r)' <= Remaining(r)
      BY <2>1, <2>2, LeaveCounts, RemainingCounts, RemainingNext
    <2> QED
      BY <2>1, <2>2, <2>3, LeaveCounts, OthersKeep
  <1>4. CASE ChangeInput \/ UNCHANGED vars
    <2>1. UNCHANGED <<step, phase, exit>>
      BY <1>4 DEF ChangeInput, vars
    <2>2. \A q \in Run : Remaining(q)' = Remaining(q) /\ Remaining(q) \in Nat
      BY <2>1, StillCounts, RemainingCounts
    <2> QED
      BY <2>2
  <1> QED
    BY <1>1, <1>2, <1>3, <1>4, StepKinds

(***************************************************************************)
(* A run that was started ends (the safety part of EveryRunEnds): what it  *)
(* has before it is a natural number that is 0 exactly when it has ended,  *)
(* that no step raises, whoever takes it, and that every operation of the  *)
(* run lowers.  So no run waits for another, writes again what it wrote or *)
(* takes more operations than it had at its start.                         *)
(***************************************************************************)
THEOREM EveryOperationCounts ==
  Spec => /\ [](\A r \in Run : /\ Remaining(r) \in Nat
                               /\ Remaining(r) = 0 <=> Ended(r))
          /\ [][\A r \in Run : /\ Remaining(r)' <= Remaining(r)
                               /\ Proceed(r) => Remaining(r)' < Remaining(r)]_vars
  <1>1. TypeInv => \A r \in Run : /\ Remaining(r) \in Nat
                                  /\ Remaining(r) = 0 <=> Ended(r)
    BY RemainingCounts
  <1>2. TypeInv /\ TypeInv' /\ [Next]_vars =>
          [\A r \in Run : /\ Remaining(r)' <= Remaining(r)
                          /\ Proceed(r) => Remaining(r)' < Remaining(r)]_vars
    BY NothingIsAdded, ProceedCounts
  <1> QED
    BY <1>1, <1>2, TypeInit, TypeNext, PTL DEF Spec
=============================================================================
