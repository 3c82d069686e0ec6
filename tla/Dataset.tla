------------------------------ MODULE Dataset ------------------------------
(***************************************************************************)
(* The data set behind the example report: scripts/fetch_4sics_sample.py,  *)
(* which fetches the source capture and cuts a slice out of it, and        *)
(* scripts/gen_example_report.py, which analyses the slice.                *)
(*                                                                         *)
(* Several runs may share the output directory.  Both files are moved into *)
(* place before their checksum is verified, and both are opened by name    *)
(* again afterwards, so what was verified and what is used may differ.  A  *)
(* run may fail, be interrupted or be killed between any two operations;   *)
(* starting again is another run, with --skip-download or without.         *)
(***************************************************************************)
EXTENDS Naturals

CONSTANTS
  Fetch,            \* the runs of fetch_4sics_sample
  Content,          \* what the network or a file on disk may deliver
  Slice,            \* what a slice file may hold
  CutFrom,          \* content -> the slice that is cut from it
  DATASET_SHA256,   \* the content with the recorded sum, if it is recorded
  SLICE_SHA256,     \* the slice with the recorded sum, if it is recorded
  Partial,          \* the contents of a file that is still being written
  NoFile

ASSUME DatasetAssumption ==
  /\ CutFrom \in [Content -> Slice]
  /\ Partial \notin Content \cup Slice
  /\ NoFile \notin Content \cup Slice \cup {Partial} \cup Fetch

VARIABLES
  source,       \* the source file in the output directory
  source_by,    \* the run that put it there
  slice,        \* the slice file in the output directory
  slice_by,     \* the run that put it there
  skips,        \* run -> the option --skip-download
  step,         \* run -> the operation it performs next
  temp,         \* run -> its temporary file
  exit,         \* run -> its exit code, or Running
  litter,       \* runs that left a temporary file behind
  overlapped,   \* runs that shared the directory with another active run
  example,      \* the slice the example report was made from
  example_by    \* the run that had put that slice there

vars == <<source, source_by, slice, slice_by, skips, step, temp, exit, litter,
          overlapped, example, example_by>>
files == <<source, source_by, slice, slice_by>>
generated == <<example, example_by>>

Steps == {"start", "temp", "receive", "swap", "find", "verify", "slice temp",
          "cut", "swap slice", "verify slice"}

Running == 9
ExitOk == 0
ExitError == 1
Stopped == 2        \* interrupted or killed

Nobody == NoFile

-----------------------------------------------------------------------------
Init ==
  /\ source = NoFile /\ source_by = Nobody
  /\ slice = NoFile /\ slice_by = Nobody
  /\ skips \in [Fetch -> BOOLEAN]
  /\ step = [r \in Fetch |-> "start"]
  /\ temp = [r \in Fetch |-> NoFile]
  /\ exit = [r \in Fetch |-> Running]
  /\ litter = {}
  /\ overlapped = {}
  /\ example = NoFile /\ example_by = Nobody

Active(r) == step[r] # "start" /\ exit[r] = Running
At(r, s) == Active(r) /\ step[r] = s
Goto(r, s) == step' = [step EXCEPT ![r] = s]

Start(r) ==
  /\ step[r] = "start"
  /\ exit[r] = Running
  /\ Goto(r, IF skips[r] THEN "find" ELSE "temp")
  /\ LET others == {q \in Fetch : Active(q)}
     IN  overlapped' = IF others = {} THEN overlapped
                       ELSE overlapped \cup others \cup {r}
  /\ UNCHANGED <<files, skips, temp, exit, litter, generated>>

\* The run ends; the removal of its temporary file may fail, too.
End(r, code) ==
  /\ exit' = [exit EXCEPT ![r] = code]
  /\ temp' = [temp EXCEPT ![r] = NoFile]
  /\ \/ UNCHANGED litter
     \/ temp[r] # NoFile /\ litter' = litter \cup {r}
  /\ UNCHANGED <<files, skips, step, overlapped, generated>>

(***************************************************************************)
(* fetch_dataset: a temporary file, the bytes of the network or of the     *)
(* file named by --source, the swap, and only then the checksum.  When the *)
(* connection is closed early, a read in chunks returns nothing more, as   *)
(* at the end of the file, so that a Content may be a shortened one.       *)
(***************************************************************************)
WriteInPlace(r) ==                                             \* mutant
  /\ At(r, "temp")
  /\ temp' = [temp EXCEPT ![r] = Partial]
  /\ source' = Partial /\ source_by' = r
  /\ Goto(r, "receive")
  /\ UNCHANGED <<slice, slice_by, skips, exit, litter, overlapped, generated>>
CreateTemp(r) ==
  /\ At(r, "temp")
  /\ temp' = [temp EXCEPT ![r] = Partial]
  /\ Goto(r, "receive")
  /\ UNCHANGED <<files, skips, exit, litter, overlapped, generated>>

Receive(r) ==
  /\ At(r, "receive")
  /\ \E c \in Content : temp' = [temp EXCEPT ![r] = c]
  /\ Goto(r, "swap")
  /\ UNCHANGED <<files, skips, exit, litter, overlapped, generated>>

Swap(r) ==
  /\ At(r, "swap")
  /\ source' = temp[r] /\ source_by' = r
  /\ temp' = [temp EXCEPT ![r] = NoFile]
  /\ Goto(r, "verify")
  /\ UNCHANGED <<slice, slice_by, skips, exit, litter, overlapped, generated>>

\* --skip-download: the file of an earlier run, if there is one.
TrustFound(r) ==                                               \* mutant
  /\ At(r, "find")
  /\ IF source = NoFile THEN End(r, ExitError)
     ELSE /\ Goto(r, "slice temp")
          /\ UNCHANGED <<files, skips, temp, exit, litter, overlapped,
                         generated>>
FindSource(r) ==
  /\ At(r, "find")
  /\ IF source = NoFile THEN End(r, ExitError)
     ELSE /\ Goto(r, "verify")
          /\ UNCHANGED <<files, skips, temp, exit, litter, overlapped,
                         generated>>

\* _verify_checksum: a constant that is not recorded yet matches nothing.
Matches(file, recorded) == file = recorded

VerifySource(r) ==
  /\ At(r, "verify")
  /\ IF Matches(source, DATASET_SHA256)
     THEN /\ Goto(r, "slice temp")
          /\ UNCHANGED <<files, skips, temp, exit, litter, overlapped,
                         generated>>
     ELSE End(r, ExitError)

(***************************************************************************)
(* build_slice opens the source by name once more.                         *)
(***************************************************************************)
CreateSliceTemp(r) ==
  /\ At(r, "slice temp")
  /\ temp' = [temp EXCEPT ![r] = Partial]
  /\ Goto(r, "cut")
  /\ UNCHANGED <<files, skips, exit, litter, overlapped, generated>>

Cut(r) ==
  /\ At(r, "cut")
  /\ source \in Content
  /\ temp' = [temp EXCEPT ![r] = CutFrom[source]]
  /\ Goto(r, "swap slice")
  /\ UNCHANGED <<files, skips, exit, litter, overlapped, generated>>

SwapSlice(r) ==
  /\ At(r, "swap slice")
  /\ slice' = temp[r] /\ slice_by' = r
  /\ temp' = [temp EXCEPT ![r] = NoFile]
  /\ Goto(r, "verify slice")
  /\ UNCHANGED <<source, source_by, skips, exit, litter, overlapped, generated>>

VerifySourceAgain(r) ==                                        \* mutant
  /\ At(r, "verify slice")
  /\ End(r, IF Matches(source, DATASET_SHA256) THEN ExitOk ELSE ExitError)
VerifySlice(r) ==
  /\ At(r, "verify slice")
  /\ End(r, IF Matches(slice, SLICE_SHA256) THEN ExitOk ELSE ExitError)

(***************************************************************************)
(* An operation on a file or on the network raises; every exception ends   *)
(* with code 1, by a handler of main or as a traceback.                    *)
(***************************************************************************)
Fail(r) == Active(r) /\ End(r, ExitError)

\* An interrupt passes the same clean-up; a kill leaves everything.
Stop(r) == Active(r) /\ End(r, Stopped)

\* gen_example_report asks for a slice file, of whatever origin.
GenerateExample ==
  /\ slice # NoFile
  /\ example' = slice /\ example_by' = slice_by
  /\ UNCHANGED <<files, skips, step, temp, exit, litter, overlapped>>

Proceed(r) ==
  \/ CreateTemp(r) \/ Receive(r) \/ Swap(r)
  \/ FindSource(r) \/ VerifySource(r)
  \/ CreateSliceTemp(r) \/ Cut(r) \/ SwapSlice(r) \/ VerifySlice(r)

Next ==
  \/ \E r \in Fetch : Start(r) \/ Proceed(r) \/ Fail(r) \/ Stop(r)
  \/ GenerateExample

Spec == Init /\ [][Next]_vars

-----------------------------------------------------------------------------
\* Type invariant; whoever wrote a file has started.
DatasetTypeOK ==
  /\ source \in Content \cup {NoFile, Partial}
  /\ slice \in Slice \cup {NoFile, Partial}
  /\ {source_by, slice_by, example_by} \subseteq Fetch \cup {Nobody}
  /\ skips \in [Fetch -> BOOLEAN]
  /\ step \in [Fetch -> Steps]
  /\ temp \in [Fetch -> Content \cup Slice \cup {NoFile, Partial}]
  /\ exit \in [Fetch -> {Running, ExitOk, ExitError, Stopped}]
  /\ litter \cup overlapped \subseteq {r \in Fetch : step[r] # "start"}
  /\ example \in Slice \cup {NoFile, Partial}

(***************************************************************************)
(* The swap comes after the last write: no file is ever visible under its  *)
(* final name while a run is still writing it, whichever run fails or is   *)
(* stopped, and no example is made of such a file.  It says nothing of     *)
(* what the run had received by the time it stopped writing.               *)
(***************************************************************************)
NoCutFile == Partial \notin {source, slice, example}

(***************************************************************************)
(* "This script never uses a file whose sum does not match": as long as no *)
(* other run shares the directory, a run that builds a slice does so while *)
(* the source file has the recorded sum, and what it is about to put in    *)
(* place is the slice of that source, with --skip-download as well.        *)
(***************************************************************************)
CutsOnlyVerified ==
  \A r \in Fetch \ overlapped :
    /\ Active(r) /\ step[r] \in {"slice temp", "cut", "swap slice",
                                 "verify slice"}
         => source = DATASET_SHA256
    /\ At(r, "swap slice") => temp[r] = CutFrom[DATASET_SHA256]

(***************************************************************************)
(* Code 0 vouches for the files: a file that a successful run put in place *)
(* has the recorded sum, also where runs overlap.  So an example made from *)
(* another slice was made of the file of a run that failed, was stopped,   *)
(* had not finished, or had company in the directory.                      *)
(***************************************************************************)
SuccessIsVerified ==
  \A r \in Fetch :
    exit[r] = ExitOk =>
      /\ source_by = r => source = DATASET_SHA256
      /\ slice_by = r => slice = SLICE_SHA256
      /\ example_by = r /\ r \notin overlapped => example = SLICE_SHA256
=============================================================================
