---------------------------- MODULE DatasetProofs ----------------------------
(***************************************************************************)
(* Theorems about Dataset, for every set of runs, of contents and of       *)
(* slices.                                                                 *)
(***************************************************************************)
EXTENDS Dataset, TLAPS

(***************************************************************************)
(* What the type invariant needs to be inductive: a temporary file that is *)
(* about to be moved into place has been written to its end.               *)
(***************************************************************************)
WrittenToTheEnd ==
  \A r \in Fetch :
    exit[r] = Running =>
      /\ step[r] = "swap" => temp[r] \in Content
      /\ step[r] = "swap slice" => temp[r] \in Slice

TypeInv == DatasetTypeOK /\ WrittenToTheEnd

-----------------------------------------------------------------------------
\* The initial state satisfies the type invariant.
LEMMA TypeInit == Init => TypeInv
  BY DatasetAssumption
     DEF Init, TypeInv, WrittenToTheEnd, DatasetTypeOK, Steps, Nobody

\* The end of a run preserves the type invariant, whatever its code.
LEMMA EndType ==
  ASSUME TypeInv, NEW r \in Fetch, Active(r),
         NEW code \in {ExitOk, ExitError, Stopped}, End(r, code)
  PROVE  TypeInv'
  <1> USE DEF TypeInv, DatasetTypeOK, Active, End, files, generated, Running,
              ExitOk, ExitError, Stopped
  <1>1. DatasetTypeOK'
    <2>1. litter' \cup overlapped' \subseteq {q \in Fetch : step'[q] # "start"}
      <3>1. litter' \subseteq litter \cup {r} /\ overlapped' = overlapped
        OBVIOUS
      <3>2. step' = step /\ step[r] # "start"
        OBVIOUS
      <3> QED
        BY <3>1, <3>2
    <2>2. /\ exit' \in [Fetch -> {Running, ExitOk, ExitError, Stopped}]
          /\ temp' \in [Fetch -> Content \cup Slice \cup {NoFile, Partial}]
      OBVIOUS
    <2>3. UNCHANGED <<source, source_by, slice, slice_by, skips, step, example, example_by>>
      OBVIOUS
    <2> HIDE DEF End, Active
    <2> QED
      BY <2>1, <2>2, <2>3 DEF DatasetTypeOK
  <1>2. WrittenToTheEnd'
    <2>1. step' = step /\ \A q \in Fetch \ {r} : exit'[q] = exit[q] /\ temp'[q] = temp[q]
      OBVIOUS
    <2>2. exit'[r] # Running
      OBVIOUS
    <2> HIDE DEF End, Active, DatasetTypeOK, Running
    <2> QED
      BY <2>1, <2>2 DEF WrittenToTheEnd
  <1> QED
    BY <1>1, <1>2

\* Every step preserves the type invariant.
LEMMA TypeNext == TypeInv /\ [Next]_vars => TypeInv'
  <1> SUFFICES ASSUME TypeInv, [Next]_vars PROVE TypeInv'
    OBVIOUS
  <1>1. ASSUME NEW r \in Fetch, Start(r) PROVE TypeInv'
    <2> USE <1>1 DEF Start, TypeInv, DatasetTypeOK, Goto, Steps, files, generated
    <2>1. overlapped' \subseteq {q \in Fetch : step'[q] # "start"}
      BY DEF Active
    <2>2. DatasetTypeOK'
      BY <2>1
    <2>3. WrittenToTheEnd'
      BY DEF WrittenToTheEnd
    <2> QED
      BY <2>2, <2>3
  <1>2. ASSUME NEW r \in Fetch, Proceed(r) PROVE TypeInv'
    <2> USE DatasetAssumption
        DEF TypeInv, DatasetTypeOK, WrittenToTheEnd, At, Active, Goto, Steps,
            files, generated
    <2>1. CASE CreateTemp(r)
      BY <2>1 DEF CreateTemp
    <2>2. CASE Receive(r)
      <3>1. DatasetTypeOK'
        <4>1. temp' \in [Fetch -> Content \cup Slice \cup {NoFile, Partial}]
          BY <2>2 DEF Receive
        <4>2. step' \in [Fetch -> Steps]
          BY <2>2 DEF Receive
        <4>3. litter' \cup overlapped' \subseteq {q \in Fetch : step'[q] # "start"}
          BY <2>2 DEF Receive
        <4> QED
          BY <2>2, <4>1, <4>2, <4>3 DEF Receive
      <3>2. WrittenToTheEnd'
        BY <2>2 DEF Receive
      <3> QED
        BY <3>1, <3>2
    <2>3. CASE Swap(r)
      BY <2>3 DEF Swap
    <2>4. CASE FindSource(r)
      <3>1. CASE End(r, ExitError)
        BY <2>4, <3>1, EndType DEF FindSource, ExitError
      <3>2. CASE source # NoFile
        <4>1. DatasetTypeOK'
          BY <2>4, <3>2 DEF FindSource
        <4>2. WrittenToTheEnd'
          BY <2>4, <3>2 DEF FindSource
        <4> QED
          BY <4>1, <4>2
      <3> QED
        BY <2>4, <3>1, <3>2 DEF FindSource
    <2>5. CASE VerifySource(r)
      <3>1. CASE End(r, ExitError)
        BY <2>5, <3>1, EndType DEF VerifySource, ExitError
      <3>2. CASE Matches(source, DATASET_SHA256)
        <4>1. DatasetTypeOK'
          BY <2>5, <3>2 DEF VerifySource
        <4>2. WrittenToTheEnd'
          BY <2>5, <3>2 DEF VerifySource
        <4> QED
          BY <4>1, <4>2
      <3> QED
        BY <2>5, <3>1, <3>2 DEF VerifySource
    <2>6. CASE CreateSliceTemp(r)
      BY <2>6 DEF CreateSliceTemp
    <2>7. CASE Cut(r)
      BY <2>7 DEF Cut
    <2>8. CASE SwapSlice(r)
      BY <2>8 DEF SwapSlice
    <2>9. CASE VerifySlice(r)
      BY <2>9, EndType DEF VerifySlice
    <2> QED
      BY <1>2, <2>1, <2>2, <2>3, <2>4, <2>5, <2>6, <2>7, <2>8, <2>9 DEF Proceed
  <1>3. ASSUME NEW r \in Fetch, Fail(r) \/ Stop(r) PROVE TypeInv'
    BY <1>3, EndType DEF Fail, Stop
  <1>4. CASE GenerateExample
    BY <1>4 DEF GenerateExample, TypeInv, DatasetTypeOK, WrittenToTheEnd, files
  <1>5. CASE UNCHANGED vars
    BY <1>5 DEF vars, TypeInv, DatasetTypeOK, WrittenToTheEnd
  <1> QED
    BY <1>1, <1>2, <1>3, <1>4, <1>5 DEF Next

(***************************************************************************)
(* Every variable keeps its type, and who wrote a file has started.        *)
(***************************************************************************)
THEOREM TypeCorrect == Spec => []DatasetTypeOK
  <1>1. TypeInv => DatasetTypeOK
    BY DEF TypeInv
  <1> QED
    BY <1>1, TypeInit, TypeNext, PTL DEF Spec

-----------------------------------------------------------------------------
\* Who moves a file into place, and who makes the example; the rest of the
\* actions leave all three alone.
LEMMA FileChanges ==
  ASSUME [Next]_vars, ~GenerateExample,
         \A r \in Fetch : ~Swap(r) /\ ~SwapSlice(r)
  PROVE  UNCHANGED <<source, source_by, slice, slice_by, example, example_by>>
  <1> USE DEF End, files, generated
  <1>1. ASSUME NEW r \in Fetch, Proceed(r)
        PROVE  UNCHANGED <<source, source_by, slice, slice_by, example, example_by>>
    BY <1>1 DEF Proceed, CreateTemp, Receive, FindSource, VerifySource,
                CreateSliceTemp, Cut, VerifySlice
  <1>2. ASSUME NEW r \in Fetch, Start(r) \/ Fail(r) \/ Stop(r)
        PROVE  UNCHANGED <<source, source_by, slice, slice_by, example, example_by>>
    BY <1>2 DEF Start, Fail, Stop
  <1>3. CASE UNCHANGED vars
    BY <1>3 DEF vars
  <1> QED
    BY <1>1, <1>2, <1>3 DEF Next

\* A step keeps every visible file whole: what is moved into place is a
\* temporary file that has been written to its end.
LEMMA WholeNext == TypeInv /\ NoCutFile /\ [Next]_vars => NoCutFile'
  <1> SUFFICES ASSUME TypeInv, NoCutFile, [Next]_vars PROVE NoCutFile'
    OBVIOUS
  <1>1. CASE \E r \in Fetch : Swap(r) \/ SwapSlice(r)
    <2>1. PICK r \in Fetch : Swap(r) \/ SwapSlice(r)
      BY <1>1
    <2>2. exit[r] = Running /\ temp[r] # Partial
      BY <2>1, DatasetAssumption
         DEF Swap, SwapSlice, At, Active, TypeInv, WrittenToTheEnd
    <2>3. CASE Swap(r)
      BY <2>3, <2>2 DEF Swap, NoCutFile, generated
    <2>4. CASE SwapSlice(r)
      BY <2>4, <2>2 DEF SwapSlice, NoCutFile, generated
    <2> QED
      BY <2>1, <2>3, <2>4
  <1>2. CASE GenerateExample
    BY <1>2 DEF GenerateExample, NoCutFile, files
  <1>3. CASE ~GenerateExample /\ \A r \in Fetch : ~Swap(r) /\ ~SwapSlice(r)
    BY <1>3, FileChanges DEF NoCutFile
  <1> QED
    BY <1>1, <1>2, <1>3

(***************************************************************************)
(* The swap comes after the last write: no file that is still being        *)
(* written is ever visible under its final name, however many runs share   *)
(* the directory and wherever they fail or are stopped.                    *)
(***************************************************************************)
THEOREM NothingCut == Spec => []NoCutFile
  <1>1. Init => NoCutFile
    BY DatasetAssumption DEF Init, NoCutFile
  <1> QED
    BY <1>1, TypeInit, TypeNext, WholeNext, PTL DEF Spec

-----------------------------------------------------------------------------
(***************************************************************************)
(* Two runs that are active together both know it.                         *)
(***************************************************************************)
CompanyIsKnown ==
  \A r, q \in Fetch : r # q /\ Active(r) /\ Active(q) => r \in overlapped

\* Only Start makes a run active, and it records everybody who is.
LEMMA CompanyNext == TypeInv /\ CompanyIsKnown /\ [Next]_vars => CompanyIsKnown'
  <1> SUFFICES ASSUME TypeInv, CompanyIsKnown, [Next]_vars PROVE CompanyIsKnown'
    OBVIOUS
  <1>1. ASSUME NEW r \in Fetch, Start(r) PROVE CompanyIsKnown'
    <2>1. \A q \in Fetch \ {r} : Active(q)' <=> Active(q)
      BY <1>1 DEF Start, Goto, Active, TypeInv, DatasetTypeOK
    <2>2. ~Active(r)
      BY <1>1 DEF Start, Active
    <2>3. overlapped \subseteq overlapped'
      BY <1>1 DEF Start
    <2>4. \A q \in Fetch : Active(q) => {q, r} \subseteq overlapped'
      BY <1>1 DEF Start
    <2> QED
      BY <2>1, <2>2, <2>3, <2>4 DEF CompanyIsKnown
  <1>2. ASSUME \A r \in Fetch : ~Start(r) PROVE CompanyIsKnown'
    <2>1. overlapped' = overlapped
      BY <1>2 DEF Next, Proceed, CreateTemp, Receive, Swap, FindSource,
                  VerifySource, CreateSliceTemp, Cut, SwapSlice, VerifySlice, Fail,
                  Stop, End, GenerateExample, vars
    <2>2. \A q \in Fetch : Active(q)' => Active(q)
      <3> USE DEF TypeInv, DatasetTypeOK, Active, At, Goto
      <3>1. ASSUME NEW r \in Fetch, Proceed(r) \/ Fail(r) \/ Stop(r)
            PROVE  \A q \in Fetch : Active(q)' => Active(q)
        <4>1. Active(r)
          BY <3>1 DEF Proceed, CreateTemp, Receive, Swap, FindSource,
                      VerifySource, CreateSliceTemp, Cut, SwapSlice, VerifySlice,
                      Fail, Stop
        <4>2. \A q \in Fetch \ {r} : step'[q] = step[q] /\ exit'[q] = exit[q]
          BY <3>1 DEF Proceed, CreateTemp, Receive, Swap, FindSource,
                      VerifySource, CreateSliceTemp, Cut, SwapSlice, VerifySlice,
                      Fail, Stop, End
        <4> QED
          BY <4>1, <4>2
      <3>2. CASE GenerateExample \/ UNCHANGED vars
        BY <3>2 DEF GenerateExample, vars
      <3> QED
        BY <1>2, <3>1, <3>2 DEF Next
    <2> QED
      BY <2>1, <2>2 DEF CompanyIsKnown
  <1> QED
    BY <1>1, <1>2

\* At first nobody is active.
LEMMA CompanyInit == Init => CompanyIsKnown
  BY DEF Init, CompanyIsKnown, Active

\* The end of a run leaves the files, and the runs beside it, as they are.
LEMMA EndVerified ==
  ASSUME TypeInv, CutsOnlyVerified, NEW q \in Fetch, NEW code, code # Running,
         End(q, code)
  PROVE  CutsOnlyVerified'
  <1>1. UNCHANGED <<source, step, overlapped>>
    BY DEF End, files
  <1>2. /\ exit'[q] # Running
        /\ \A r \in Fetch \ {q} : exit'[r] = exit[r] /\ temp'[r] = temp[r]
    BY DEF End, TypeInv, DatasetTypeOK
  <1> QED
    BY <1>1, <1>2 DEF CutsOnlyVerified, At, Active

(***************************************************************************)
(* A step keeps what a run without company builds on: the source can only  *)
(* be replaced by a run that is active, and the run itself only goes on    *)
(* from the check of the checksum.                                         *)
(***************************************************************************)
LEMMA VerifiedNext ==
  TypeInv /\ CompanyIsKnown /\ CutsOnlyVerified /\ [Next]_vars
    => CutsOnlyVerified'
  <1> SUFFICES ASSUME TypeInv, CompanyIsKnown, CutsOnlyVerified, [Next]_vars
               PROVE  CutsOnlyVerified'
    OBVIOUS
  <1>e. ExitOk # Running /\ ExitError # Running /\ Stopped # Running
    BY DEF ExitOk, ExitError, Stopped, Running
  <1>1. ASSUME NEW q \in Fetch, Start(q) PROVE CutsOnlyVerified'
    BY <1>1 DEF Start, Goto, CutsOnlyVerified, At, Active, TypeInv, DatasetTypeOK,
                files
  <1>2. ASSUME NEW q \in Fetch, Proceed(q) PROVE CutsOnlyVerified'
    <2> USE DEF TypeInv, DatasetTypeOK, Goto, At, Active, CutsOnlyVerified, files
    <2>1. CASE CreateTemp(q)
      BY <2>1 DEF CreateTemp
    <2>2. CASE Receive(q)
      BY <2>2 DEF Receive
    <2>3. CASE Swap(q)
      BY <2>3 DEF Swap, CompanyIsKnown
    <2>4. CASE FindSource(q)
      BY <2>4, <1>e, EndVerified DEF FindSource
    <2>5. CASE VerifySource(q)
      BY <2>5, <1>e, EndVerified DEF VerifySource, Matches
    <2>6. CASE CreateSliceTemp(q)
      BY <2>6 DEF CreateSliceTemp
    <2>7. CASE Cut(q)
      BY <2>7 DEF Cut
    <2>8. CASE SwapSlice(q)
      BY <2>8 DEF SwapSlice
    <2>9. CASE VerifySlice(q)
      BY <2>9, <1>e, EndVerified DEF VerifySlice
    <2> QED
      BY <1>2, <2>1, <2>2, <2>3, <2>4, <2>5, <2>6, <2>7, <2>8, <2>9 DEF Proceed
  <1>3. ASSUME NEW q \in Fetch, Fail(q) \/ Stop(q) PROVE CutsOnlyVerified'
    BY <1>3, <1>e, EndVerified DEF Fail, Stop
  <1>4. CASE GenerateExample
    BY <1>4 DEF GenerateExample, CutsOnlyVerified, At, Active, files
  <1>5. CASE UNCHANGED vars
    BY <1>5 DEF vars, CutsOnlyVerified, At, Active
  <1> QED
    BY <1>1, <1>2, <1>3, <1>4, <1>5 DEF Next

(***************************************************************************)
(* "This script never uses a file whose sum does not match": a run that    *)
(* had no company in the directory cuts the source with the recorded sum,  *)
(* --skip-download or not, whatever earlier runs left there.               *)
(***************************************************************************)
THEOREM OnlyVerifiedIsCut == Spec => []CutsOnlyVerified
  <1>1. Init => CutsOnlyVerified
    BY DEF Init, CutsOnlyVerified, At, Active
  <1> QED
    BY <1>1, TypeInit, TypeNext, CompanyInit, CompanyNext, VerifiedNext, PTL
       DEF Spec

-----------------------------------------------------------------------------
(***************************************************************************)
(* Why code 0 vouches for the files: it is given after the last check      *)
(* alone; a run whose source is still in place has gone on only if it has  *)
(* the recorded sum; and between the swap of a slice and its check nobody  *)
(* else moves a slice, unless the run has company.                         *)
(***************************************************************************)
Checked == {"slice temp", "cut", "swap slice", "verify slice"}

Vouched ==
  \A r \in Fetch :
    /\ exit[r] = ExitOk => step[r] = "verify slice"
    /\ source_by = r /\ step[r] \in Checked => source = DATASET_SHA256
    /\ slice_by = r \/ example_by = r => step[r] = "verify slice"
    /\ slice_by = r /\ exit[r] = ExitOk => slice = SLICE_SHA256
    /\ example_by = r /\ r \notin overlapped =>
         /\ exit[r] = Running => slice_by = r /\ example = slice
         /\ exit[r] = ExitOk => example = SLICE_SHA256

\* At first nothing is there and nobody has ended.
LEMMA VouchedInit == Init => Vouched
  <1> SUFFICES ASSUME Init PROVE Vouched
    OBVIOUS
  <1>1. ASSUME NEW r \in Fetch
        PROVE  /\ exit[r] # ExitOk /\ step[r] \notin Checked
               /\ source_by # r /\ slice_by # r /\ example_by # r
    <2>1. exit[r] = Running /\ step[r] = "start"
      BY DEF Init
    <2>2. r # NoFile
      BY DatasetAssumption
    <2> QED
      BY <2>1, <2>2 DEF Init, Nobody, Running, ExitOk, Checked
  <1> QED
    BY <1>1 DEF Vouched

\* A run that ends without code 0, or after the check of its slice.
LEMMA EndVouched ==
  ASSUME TypeInv, Vouched, NEW q \in Fetch, NEW code, code # Running, End(q, code),
         code = ExitOk => /\ At(q, "verify slice")
                          /\ slice = SLICE_SHA256
  PROVE  Vouched'
  <1>1. UNCHANGED <<source, source_by, slice, slice_by, example, example_by,
                    step, overlapped>>
    BY DEF End, files, generated
  <1>2. exit'[q] = code /\ \A r \in Fetch \ {q} : exit'[r] = exit[r]
    BY DEF End, TypeInv, DatasetTypeOK
  <1> QED
    BY <1>1, <1>2 DEF Vouched, At, Active

\* Every step preserves the invariant.
LEMMA VouchedNext ==
  TypeInv /\ CompanyIsKnown /\ Vouched /\ [Next]_vars => Vouched'
  <1> SUFFICES ASSUME TypeInv, CompanyIsKnown, Vouched, [Next]_vars
               PROVE  Vouched'
    OBVIOUS
  <1>e. /\ ExitOk # Running /\ ExitError # Running /\ Stopped # Running
        /\ ExitError # ExitOk /\ Stopped # ExitOk
    BY DEF ExitOk, ExitError, Stopped, Running
  <1>1. ASSUME NEW q \in Fetch, Start(q) PROVE Vouched'
    BY <1>1, <1>e DEF Start, Goto, Vouched, Checked, TypeInv, DatasetTypeOK, files,
                generated
  <1>2. ASSUME NEW q \in Fetch, Proceed(q) PROVE Vouched'
    <2> USE <1>e DEF TypeInv, DatasetTypeOK, Goto, At, Active, Vouched, Checked,
                     files, generated
    <2>1. CASE CreateTemp(q)
      BY <2>1 DEF CreateTemp
    <2>2. CASE Receive(q)
      BY <2>2 DEF Receive
    <2>3. CASE Swap(q)
      BY <2>3 DEF Swap
    <2>4. CASE FindSource(q)
      BY <2>4, EndVouched DEF FindSource
    <2>5. CASE VerifySource(q)
      BY <2>5, EndVouched DEF VerifySource, Matches
    <2>6. CASE CreateSliceTemp(q)
      BY <2>6 DEF CreateSliceTemp
    <2>7. CASE Cut(q)
      BY <2>7 DEF Cut
    <2>8. CASE SwapSlice(q)
      BY <2>8 DEF SwapSlice, CompanyIsKnown
    <2>9. CASE VerifySlice(q)
      BY <2>9, EndVouched DEF VerifySlice, Matches
    <2> QED
      BY <1>2, <2>1, <2>2, <2>3, <2>4, <2>5, <2>6, <2>7, <2>8, <2>9 DEF Proceed
  <1>3. ASSUME NEW q \in Fetch, Fail(q) \/ Stop(q) PROVE Vouched'
    BY <1>3, <1>e, EndVouched DEF Fail, Stop
  <1>4. CASE GenerateExample
    BY <1>4, <1>e DEF GenerateExample, Vouched, files
  <1>5. CASE UNCHANGED vars
    BY <1>5 DEF vars, Vouched
  <1> QED
    BY <1>1, <1>2, <1>3, <1>4, <1>5 DEF Next

(***************************************************************************)
(* Code 0 vouches for the files of the run that gave it, also where runs   *)
(* overlap, and for the example made from them where they do not.          *)
(***************************************************************************)
THEOREM SuccessVouches == Spec => []SuccessIsVerified
  <1>1. Vouched => SuccessIsVerified
    BY DEF Vouched, Checked, SuccessIsVerified
  <1> QED
    BY <1>1, TypeInit, TypeNext, CompanyInit, CompanyNext, VouchedInit,
       VouchedNext, PTL DEF Spec
=============================================================================
