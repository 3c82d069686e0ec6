# Wayside in TLA+

Wayside reads a packet capture of an industrial network and writes what it
could observe: conversations, recognised protocols, a host inventory, a
communication matrix, findings, warnings. It never touches the network. Its
promise is therefore about *what it says*: that two sections of one report
agree, that an observation is not a guess, that nothing of the capture is lost
in silence, and that a damaged capture or a failing run leaves nothing that
could be taken for a result. The scripts around it make promises of the same
kind: no unverified download, no confidential text in a commit, no push without
a person's decision.

This directory specifies the part of the program that keeps these promises,
checks it with TLC on small instances and proves its safety properties with TLAPS
for all instances. Paths such as `decode.py` stand for `src/src/wayside/decode.py`.

## 1. The system

| Component | State it keeps | Operations | Hard because |
|---|---|---|---|
| Capture audit (`pcap.py`) | offset in the file, records so far, snaplens, numbers of truncated packets | one record or block per iteration; three verdicts on damage | every length in the file may lie; off-by-one at each limit; it must end |
| Session decoding (`decode.py`) | dictionary of session numbers and its counter; dictionary of initiators | `decode_segments`, `find_session_initiators` | two directions, interleaved conversations, two dictionaries that must agree |
| Dissectors and registry (`protocols/`) | client per session (one dictionary per dissector), two event lists | five dissectors over one segment list, filing by confidence, sorting | one payload may have two shapes; the client is settled before the last gate |
| Communication matrix (`flow.py`) | first sender, session by key, packet counts, rows | three loops over segments, packets, sessions | sections derived from different sequences must agree |
| Host inventory (`assets/inventory.py`) | requests and units per address, first layer two address, hosts | events loop, visits to both ends of each segment | fields frozen at the first visit; contested addresses |
| Vendor table (`assets/oui.py`) | the loaded table | loading with rejection of bad rows, lookup of a 24-bit prefix | a table read halfway would name some vendors only |
| Check engine (`checks/`) | findings | discovery and validation of check files, three evaluators, attaching endpoints, sorting | "first event" rules on a list several dissectors filled; one bad check file |
| Standards, severities (`standards/mapper.py`, `risk.py`) | catalogue files | loading at each resolution, duplicate rule, resolution of citations | one missing citation or one defective entry must abort before publication |
| Coverage (`coverage.py`) | request times per session, cycles | measuring, warning | timestamps need not ascend; strict limit |
| Pipeline, writer, command (`pipeline.py`, `model.py`, `cli.py`) | files in the output directory, exit code | stat, magic and walk of the audit, mkdir, read, hash, two or three atomic writes | failures, interrupts, kills, concurrent runs, an input that changes |
| Data set (`scripts/fetch_4sics_sample.py`, `gen_example_report.py`) | source and slice in a directory | download or copy, swap, verify, cut, verify, example report | replaced before verified; opened by name again; several runs |
| Gates (`scripts/check_pub_gate.py`, `check_history_audit_gate.py`) | two records edited by hand | six exit codes from the record, its flags and HEAD | order of the checks; errors no handler catches; the record's own commit moves HEAD |
| Confidentiality guard (`scripts/confidentiality_guard.py`) | exception list in the repository, corpus and literals on one machine | four layers, as a hook and as a CI backstop | exceptions of one layer must not lift another; the two places know different things |
| Provenance gate, zones | none | pure functions over a finished tree | |
| Reports (`report.py`, `report_pdf.py`) | none | formatting | wording only |
| Generators, bootstrap (`scripts/`) | none that outlives them | test captures, vendor table, machine setup | run by hand |

Components interact in one process by calls in the order `analyze` makes them:

    audit -> read -> decode_segments -> find_session_initiators -> run_dissectors
      -> conversations, window, coverage -> build_assets -> build_comm_matrix
      -> run_checks -> resolve -> analysis.json -> report.md -> report.pdf

There are no threads. What makes the program hard is *sequence*: loops that
visit the same capture several times and must come to the same view of it.
Concurrency is outside: several runs may share an output directory, the input
file belongs to somebody else, and the records and lists the scripts read are
edited and committed by people.

`PROJECT.json` lists, under `hazards`, what of this a test hardly reaches.

## 2. Modules

| Module | Models | State and actions |
|---|---|---|
| `Sessions` | `decode.py` | one action per kind of iteration: `DecodeSkip`, `DecodeSegment`, `Renumber`, `FindInitiator`; `EndPass` moves to the next loop |
| `Dissection` | `protocols/registry.py` and the five dissectors | extends `Sessions`; `SkipSegment`, `DissectSegment`, `NextDissector`, `SortEvents`; the recognition warnings of `analyze` as an operator |
| `CommMatrix` | `flow.py`, conversations and payloadless sessions of `pipeline.py` | extends `Dissection`; `MeetSession`, `CountPacket`, `AddRow` |
| `TrafficTable` | what the matrix promises, with no loop | one step, `Tabulate` |
| `Catalogue` | loading and duplicate rule of the standards, allowed severities | operators only |
| `Findings` | `checks/engine.py`, the three evaluators, `mapper.resolve`, `resolve_risk` | extends `CommMatrix` and `Catalogue`; `DiscoverChecks`, `RunCheck`, `SortFindings`, `ResolveFinding`, `AbortUncited`, `PublishFindings` |
| `VendorTable` | `assets/oui.py` | operators only |
| `Inventory` | `assets/inventory.py` | extends `Dissection` and `VendorTable`; `CountRequest`, `Visit` |
| `CaptureAudit` | structural audit of `pcap.py` | `RejectHeader`, `AcceptHeader`, `ReadRecord`, `ReadBlock`, `AcceptCapture` |
| `Coverage` | `coverage.py` and the window of `pipeline.py` | `GroupEvents`, `MeasureSession`, `AssessCycle` |
| `Artifacts` | `pipeline.py`, `model.py`, `cli.py` as the file system sees them | one action per operation on a file, plus `Fail`, `Interrupt`, `Kill`, `ChangeInput` |
| `Dataset` | both scripts of the data set | one action per operation on a file, plus `Fail`, `Stop`, `GenerateExample` |
| `Guard` | the guard's layers and exceptions; the hook and the backstop | `Stage`, `StageAllow`, `Commit`, `CommitUnchecked` |
| `Gates` | both gates | the exit codes as operators; the world they run in as actions: edits, `Audit`, `CommitRecords` |
| `DataLemmas` | | facts about numbers, finite sets, sequences, sums and bijections that several proofs use |
| `DissectionProofs` | | theorems about `Sessions` and `Dissection` |
| `FindingsProofs` | | theorems about `CommMatrix`, its refinement of `TrafficTable`, and `Findings` |
| `InventoryProofs` | | theorems about `Inventory` |
| `PublicationProofs` | | theorems about `Guard` and `Gates` |
| `CaptureProofs` | | theorems about `CaptureAudit` and `Coverage` |
| `ArtifactsProofs`, `DatasetProofs` | | theorems about the module each is named for |

`Findings` composes decoding, dissection, the matrix, the checks and the
citations in the order of the pipeline; `Inventory` composes decoding,
dissection, the inventory and the vendor table. The proofs follow the same
chains: `FindingsProofs` and `InventoryProofs` both extend `DissectionProofs`.

How state corresponds to code:

- A Python dictionary is a total function with a sentinel for absent entries
  (`NoSession`, `NoEndpoint`, `NoHost`). `setdefault` is `SetDefault`.
- A packet is a record of what the code asks of it (is it TCP, its endpoints, its
  SYN and ACK flags, its payload, its layer two addresses). A payload is a
  class of bytes; `Shape` says which dissectors recognise it. The instances use
  exactly the overlaps that bytes can have (an MBAP header has zeros where FTP
  and HTTP have letters; a Telnet negotiation or an RTU frame may hold an MBAP
  header).
- A segment or an event refers to its packet by number; fields that are copied
  from the packet are read through that number.
- The sorted pair of endpoints that serves as session key is an unordered pair.
- In `CaptureAudit` the file's contents are chosen when they are read, once per
  offset, so that a run over all choices is a run over all files. The variable
  `read` records what was found; only properties look at it.
- A check file, a catalogue file, a row of the vendor table or a line of a
  record is a record of what the loader asks of it; "not well formed" is one
  flag where every such defect has the same effect.
- A line of text in `Guard` is the record of what the guard's patterns find in
  it, with its words; shingles are computed from the words.
- Python's stable `list.sort` is `Arranged`: the one arrangement of a list that
  its strict order of positions admits. `sorted` over the session identifiers is
  `InOrder`, which counts how many are not above one.
- `met` (`Artifacts`) stands for the size and the format that the audit of a run
  remembers of its earlier looks at the input.
- `touched`, `overlapped`, `replaced` (`Artifacts`), `source_by`, `slice_by`,
  `overlapped` (`Dataset`), `vouched` and `unchecked` (`Guard`) are history
  variables for the properties; no action of the program reads them.

## 3. What is checked

Nine runs pass, three show a disagreement between the code and its own words.

| Run | Question | Instance |
|---|---|---|
| `matrix` | Are sessions numbered by endpoints, in file order, the same way twice, is an initiator the first opener; does the matrix lose, mix or invent anything, and does it implement `TrafficTable`? | captures of up to 4 packets; two conversations that share an endpoint; opened, half-opened and answered sessions |
| `findings` | Do recognitions, clients, event order and findings hold together, and is a report published whole or not at all, whatever is wrong with a check or catalogue file? | captures of up to 3 packets, two registry orders, sets of check files and of catalogue files, whole and defective |
| `inventory` | Is every host listed, every request counted once, no stranger's address or vendor shown? | a host with two ports and two layer two addresses, and its server; tables with a repeated prefix, with a bad row, and none |
| `audit` | Does the audit end on every file and accept only whole ones? | every size up to 64 bytes, length fields on both sides of each limit |
| `artifacts` | What may a reader of the output directory see, whose hash, what do the exit codes tell of the input, and does every started run end? | two runs, four captures, one replacement of the input, failures anywhere |
| `coverage` | Are the limits of the coverage warning where the comments say? | captures of up to 4 packets, three instants, two sessions |
| `dataset` | Is a file used that was not verified, or one that is still being written? | three runs with and without `--skip-download`, three sources, failures anywhere |
| `guard` | What can pass the hook, by which exception, and what does the backstop still find? | two paths, eight contents, eight exception lists, two commits |
| `gates` | For which records is each exit code given, and when can the history gate pass? | three edits by hand, an audit at any moment, two hashes, a git that answers or not |

Every property has a mutant: a plausible bug (a dropped guard, a wrong key, an
off-by-one, a swapped order) defined beside the definition it replaces, under
which TLC finds the property violated. Definitions marked `mutant` in the
modules serve only for this.

Each module with variables also has a type invariant (`...TypeOK`). The one of
`Sessions` is checked in a run. Those of all modules are proved (section 4).

Disagreements (`findings` in `PROJECT.json`):

1. `recognition_warning`: the warning that no dissector recognised a segment is
   issued although a low-confidence dissector did (`pipeline.py:150`).
2. `modbus_role`: requests of HTTP, FTP and Telnet are counted into "Modbus
   requests sent by this address" and give a Modbus role (`inventory.py:170`).
3. `empty_capture`: a pcapng file of Simple Packet Blocks "contains no packets at
   all" (`pcap.py:366`).

Read, but without a run of their own; where a property touches one of them, it
asserts what the code does:

- A host whose layer two address is contested loses the address but keeps the
  vendor derived from it (`inventory.py:262`, and the comment at 258-261), against
  the docstring of `build_assets` (132-134). `MacIsUncontested` says that the vendor
  is that of the address the host was first seen with.
- A whole pcapng file with an Interface Description Block too short for its snaplen
  is called truncated (`pcap.py:395`), an exception whose docstring says that the
  stream ends in the middle of a block; a short packet block is called corrupt.
  `CodesTellDamageApart` gives this file code 3.
- A connection the server closes early leaves the short file under its final name
  (`fetch_4sics_sample.py:227`), against "a download interrupted halfway leaves no
  file that looks complete" (197-198). The checksum refuses the file, so that it is
  never cut (`CutsOnlyVerified`), but it stays; `NoCutFile` is only about files that
  are still being written.
- A record that is not UTF-8 ends with a traceback and status 1
  (`check_pub_gate.py:103`), the code of a refusal, though the codes "must stay
  distinguishable" (18); a failing `git` does the same to the history gate
  (`check_history_audit_gate.py:125`). `CodesTellApart` gives code 1 both meanings.
- The history gate gives code 0 to a signed record whose result is `pending`, where
  its docstring asks for an explicit result (29), and with `--require-clean` code 1,
  which the docstring reserves for hits (`check_history_audit_gate.py:283`).
  `CodesTellApart` says so.
- One run takes the size of the capture once and opens it four times (magic, walk,
  decoding, hash). If it is replaced in between, an intact file may be refused for
  the size of another (`pcap.py:454`), or the published hash is another file's
  (`pipeline.py:57`). `CodesTellDamageApart` and `HashTiesToInput` state how far
  the exit codes and the docstring's promise hold.
- The comment at `cli.py:137-142` promises a message and code 2, while the PDF
  branch (159-167) lets any error but `PdfRenderError` through.
- `coverage.py` speaks of Modbus requests (46-47) and counts requests of every
  protocol (74).
- A damaged vendor table is reported as one that is not bundled
  (`pipeline.py:235-240`); one that is not UTF-8 raises an error that the loader
  does not turn into its own, and the run ends with code 2.
- A check with an unknown severity passes discovery; the run aborts only when
  that check finds something.
- An audit repeated under an old signature passes the history gate, since
  `confirmed_on` is never compared with `audited_on`.
- `gen_example_report.py:81` takes any slice, whatever its checksum;
  `SuccessIsVerified` states what a slice's origin tells about it.

### Bounds

Every bound is a constant of a cfg or an MC module, or is named at its guard.

- `MaxPackets` (3 or 4). The properties of `Sessions` relate two segments and one
  opening packet, so 4 frames hold a conversation, a second one between its
  segments, and a SYN before or after. `Findings` needs a client, an answer and
  a third party: 3 packets of 8 payload classes.
- `MCSizes`, `MCLengths`: a header and two records, or five blocks, and every
  limit (8, 12, 16, 20, 24, 32) from both sides. The first block of a pcapng file is
  longer than twelve bytes, because the byte order magic lies where a shorter one
  would repeat its length, and a block of sixteen bytes or more may be a Simple
  Packet Block. The run `empty_capture` uses fewer lengths, so that its trace
  is a file with a section block as it usually is.
- `Artifacts`: `MaxChanges = 1`, one replacement of the input is enough to fall
  between any two of the five looks at it; four versions, two of them whole, so
  that each can be exchanged for another, and two whose exceptions one clause may
  take for the other. Files of an unsupported format or with a short interface are
  left to the proofs, which hold for every version. Two runs: the properties of the
  directory are about one run and another.
- `Coverage`: three instants are the fewest with two repetitions. Times are whole
  microseconds: the code rounds both differences to six decimals, which is exact
  then. For a capture with nanoseconds (which `pcap.py` accepts) rounding keeps the
  order, and with it `WindowSpansCycles`; `TwoRepetitionsSuffice` may fail there at
  equality, for periods that are not whole microseconds.
- `Dataset`: the properties are about one run's file and another's; the third
  run is there to restart after both.
- `Guard`: `MaxCommits = 2`, one commit to let a content in under a list and one
  to change the list or the file; shingles of two words instead of
  twelve, long enough to run across a line's end. Every content has one thing a
  layer looks for or only resembles it; every list one form of line or a defect.
- `Gates`: `MaxEdits = 3`, enough to sign a record and break it once more; at most
  one line more than the template, which suffices for a repeated key; two hashes,
  the commit the audit names and the one that follows.

In `artifacts` the two runs, and the two whole captures, differ in nothing but
their names. Symmetry sets are not sound for its liveness property, so two
constraints fix the names by the order of use instead: `r1` is the run that starts
first, and `v2` only what replaces `v1`. What they leave out is, with the names
exchanged, what they keep, and they leave out no step that fairness demands. The
other instances treat their endpoints differently. Deadlock
checking is off in every cfg because the program stops when it is done (and
the capture, the audit's verdict or the exit code is final), or because the
bound on commits or edits is reached.

### Fairness

Only `Artifacts` has liveness. `WF_vars(Proceed(r))` for each run says that the
operating system schedules a started process and that each operation on a file
returns or raises. Starting, interrupting, killing and replacing the input are
not fair: nobody has to do them. With that, `EveryRunEnds` says that a started
run ends, whatever fails, the clean-up of a failed write included.
`Dataset` states none: its time limit is one for each read, so a server that
sends a little now and then keeps a download going for as long as it likes.

## 4. What is proved

Every theorem holds for every value of the constants that the named assumption
of its module allows: any number of packets, runs, captures, contents and
replacements, where the runs of section 3 have a few. TLC checks the same
formulas on the instances. Every invariant and action property of the passing runs
is proved; only liveness is not.

About `Sessions`, the first part of `DissectionProofs` assumes `FrameAssumption` (a
frame has two endpoints; the sentinel is none):

- `SessionTypeCorrect`: `SessionSpec => []SessionTypeOK`.
- `SameSession`: `SessionSpec => []SameSessionIffSameEndpoints`.
- `FileOrder`: `SessionSpec => []NumberedInFileOrder`.
- `NoDrift`: `SessionSpec => []NumberingNeverDrifts`.
- `InitiatorSound`: `SessionSpec => []InitiatorIsFirstOpener`.

None of them is inductive as stated. The type invariant is strengthened by the
link between counter, position and segments (`TypeInv`: the counter and the
segments never outrun the packets visited). `Numbering` says what the dictionary means: a
segment's identifier is its key's entry, entries are below the counter, and no two keys
share one. `InOrder` adds that every identifier below the counter is carried by a
segment. `Rebuilt` says that the second dictionary is the first restricted to
the segments already visited, from which it follows that it is complete when its
loop ends. `FirstOpenersSoFar` says that the initiator of a numbered session is
the first opener among the packets already visited. Each has its own step lemma
with one case per action, and uses the earlier invariants as facts. `SessionInv`
collects them for the stages that follow, with `Decoded`: the segments are the
packets with a payload, in the order of the file.

The second part, about `Dissection`, adds `DissectionAssumption` (only payloads of the right shape
are gated or are writes; every order of the registry lists every dissector once):

- `DissectTypeCorrect`, `ModbusIsNeverBoth` (`ModbusRecognitionsExclusive`),
  `OneClient` (`OneClientPerSessionAndProtocol`), `EverySegmentReportedOnce`
  (`ReportedOnce`): invariants.

In `DissectInv`, `Filed` traces every event to a dissector and a segment already
visited, and `Complete` says the converse: what a dissector must report of a
visited segment has an event. `NoRepetition` makes the key of the sort a strict
total order on each list, so that `Ordered` can say that sorting leaves exactly
one arrangement (`StableTotal`: a stable sort by a weak order is an
arrangement that loses and repeats nothing). `Clients` says that an event of the
dissector that is running is a request exactly if the dictionary's client sent it;
the dictionary is gone when the next dissector starts, so for the dissectors
before it the agreement of the events (`OneClientPerSessionAndProtocol`)
has to stand on its own.

About `CommMatrix`, the first part of `FindingsProofs` needs no further assumption:

- `MatrixTypeCorrect`, `NothingVanishes` (`EveryTcpPacketAccounted`), `SectionsAgree`
  (`MatrixAgreesWithConversations`), `LabelsKeepConfidence`
  (`LabelKeepsConfidence`): invariants.
- `MatrixImplementsTable`: `MatrixSpec => ImplementsTable`, the refinement of
  `TrafficTable`. Before the last row every step maps to a stutter; the one that
  ends the last loop maps to `Tabulate`.

`MatrixInv` says how far each of the three loops is. `Listed`: sessions are met in
the order of their identifiers, because they were numbered in file order.
`Senders` and `Keyed`: the first sender is that of the session's first segment,
and the dictionary of keys is the one of `decode_segments` as far as it was met.
`PacketsCounted`: a counter is the number of packets of its session
visited so far. `RowsInOrder` and `Summed`: the rows are those of the first
sessions and their counts add up to the packets of these sessions, which at the
end are all the packets of sessions with payload.

The second part, about `Findings`, adds `FindingsAssumption` (a check file that is complete cites
something, there is a file for every evaluator, and catalogue files are
sequences of entries; nothing else is assumed of an installation, so that every
defect of a file is covered):

- `FindingsTypeCorrect`, `EvidenceHasItsEndpoints` (`EndpointsAreThePackets`),
  `WritesComeFromClients` (`WritesAreTheClients`), `EveryCleartextUseOnce`
  (`CleartextFoundOnce`), `AWriteIsAUse` (`WriteImpliesUse`), `AllCitedOrNothing`
  (`CitedOrNothing`): invariants.
- `StagesCompose`: `FindingsSpec => MatrixSpec /\ DissectSpec /\ SessionSpec`. The
  pipeline as a whole is a behaviour of each of its stages, so every theorem
  above holds of it; `PublishedIsComplete` draws one such conclusion.

`FindingInv` says that a finding stems from an event its evaluator reports, after
the check ran (`Supported`), and the converse (`AllFound`). Two cleartext findings
may be equal records, so that a set cannot tell one from two:
`CleartextCounted` counts positions, by a bijection with the first
events of their kind. `FirstSenders` says who the client is: the
sender of the session's first segment with the shape of the protocol, whether or
not that segment passed the dissector's last gate. `DissectInv` only says that all
events agree on one, which is not enough for a write to be the client's.
`ResolvedSoFar` says that the findings already resolved are well cited,
and `Staged` that an abort leaves fewer of them than findings. What
`CitedOrNothing` says of the catalogue is about the files; `EntriesPlaced` and
`LoadsWithoutDefect` connect it with the flattened list that the model searches.

`InventoryProofs` adds `InventoryAssumption` to those of dissection (an unknown
address is none; every endpoint has an address; units are read off Modbus/TCP
payloads and prefixes off layer two addresses; a frame has both layer two addresses or
neither; a table is a sequence of rows):

- `InventoryTypeCorrect`, `NobodyIsMissing` (`HostsAreThoseSeen`), `EveryRequestCounted`
  (`EvidenceMatchesEvents`), `NoStrangersAddress` (`MacIsUncontested`): invariants.
- `InventoryFollowsDissection`: `InventorySpec => DissectSpec /\ SessionSpec`.

`InventoryInv` describes the two loops. `Progress`: nothing is listed before the
events are sorted, and the second loop makes two visits for a segment, the
`2k-1`st and the `2k`th. `Tallied`: counters and units are those of the requests
counted so far; events are unique, so a set of them counts like a sequence of
positions. `MetInOrder`: the hosts are the addresses visited so far, in the order of
their first visits. `MacsSeen`: the first layer two address of a host is that of the
first visit to it, and it stands until a visit contests it. `Described`: every other field of
a host is the one it was made with at its first visit, when all requests were already
counted, so that nothing in it can be out of date. `Summed`: the evidence of all
hosts adds up to the requests in which a listed host took part, by the lemmas on sums.
A vendor is the one of the last row for the prefix; that there is a last row needs
`Least`.

About `CaptureAudit`, the first part of `CaptureProofs` assumes `AuditAssumption`
(lengths and sizes are natural numbers):

- `AuditTypeCorrect`, `AcceptedFilesAreWhole` (`AcceptedIsWhole`),
  `TruncatedPacketsAreNumbered` (`TruncatedNumbersMatch`): invariants.
- `TheAuditAdvances`: the action property `AuditAdvances`.

`AuditInv` says that the header comes first (`HeaderFirst`), that the lengths read
so far add up to the position (`Consumed`, with the lemmas on sums of
`DataLemmas`), and that the counter and the list of truncated numbers describe
exactly what was read (`Tallied`).

The second part, about `Coverage`, assumes `CoverageAssumption` (timestamps and
identifiers are natural numbers, there are finitely many sessions, a packet yields at
most two requests and two responses):

- `CoverageTypes`, `WindowSpans` (`WindowSpansCycles`), `RepetitionsSuffice`
  (`TwoRepetitionsSuffice`): invariants.

`CoverageInv` says how far each of the three loops is. `Grouped`: after `m` packets
a session has as many times as there are requests of it among them, each of its times is
that of such a request and each such request has its time there; and the times
ascend if those of the file do, which is a condition and not a fact, as the code does not
sort. `MeasuredSoFar`: the cycles are those of the measurable sessions among
the first in order, each once. `WarnedSoFar`: the warnings are those of the first cycles. From
it follows `WarnedExactly`, which says of a session, without the loops, when it is warned
about. Then `WindowSpans` needs only that a cycle is the difference of two times of the file
(`LongestInterval`) and the window that of its extremes. `RepetitionsSuffice`
has two halves, both about a list that ascends: `SteadyIntervals` (the instant in the middle
lies in no gap, so no interval is longer than one period, whatever is repeated) and
`WholeInterval` (with two instants only, one gap holds all the time between them).

`ArtifactsProofs` assumes `ArtifactsAssumption` (the sentinel is neither a capture
nor a run; every capture is of one of five kinds):

- `TypeCorrect`, `NothingPartial` (`NeverPartial`), `NoTrace`
  (`RefusedLeavesNoTrace`), `HashTies` (`HashTiesToInput`), `SuccessComplete`
  (`SuccessIsComplete`), `MixedOnly` (`MixedOnlyByOverlapOrFailure`): invariants.
- `CodesTell`: the action property `CodesTellDamageApart`.
- `EveryOperationCounts`: a variant for `EveryRunEnds`.

`Codes` first computes what the order of the handlers gives each exception, and
`StepKinds` sorts the steps into five kinds, so that the later proofs have one case
for every way a run may leave. Then each property has the invariant that carries
it. `TypeInv`: who has a temporary file has touched the directory.
`NothingPartial` rests on the order of `write_atomic` and on the names of the temporary
files: what a run renames is closed, and no other run has the same file open
(`TempName`). `RefusedAtAudit`: the codes of damage belong to runs that are still in
their audit, and whoever touched the directory is past it. `InputIsKnown`:
unless the file was replaced under a run, what its audit has met is the one file that is
there now, and behind the audit this file is whole and the run's own until it is hashed;
`CodesTell` and `HashTies` both follow from it. `Earned`: who is past an artifact has put one there, nothing removes one, and
nobody who still runs has left litter. `Meetings`: runs active together have met;
a run about to write its report wrote the analysis that is there or met who
wrote it later; and where the two artifacts differ, their writers met, or the
writer of the analysis has not replaced the report yet and has not ended well.
The property speaks only of the moment when nobody runs; the invariant has to
speak of every moment before.

`EveryOperationCounts` is the part of termination that is safety. `Remaining` is what a
run has before it, a natural number that is 0 exactly when the run has ended; each
operation of the run lowers it, failing ones included, and no step of anybody raises
it. What is left of `EveryRunEnds` is that an operation is always possible (`Fail` is,
as long as the run is active) and taken, which is fairness.

`DatasetProofs` assumes `DatasetAssumption` (every content has its slice; the
sentinels differ from contents, slices and runs):

- `TypeCorrect`, `NothingCut` (`NoCutFile`), `OnlyVerifiedIsCut`
  (`CutsOnlyVerified`), `SuccessVouches` (`SuccessIsVerified`): invariants.

`WrittenToTheEnd` (what is about to be moved into place has been written to its end; it
may still be short) carries the first two. `CompanyIsKnown` (two runs active together are both marked) is what
excludes, for a run without company, that the source changes between its check
and its cut. `Vouched` follows the files of a run to code 0: a source that is
still the run's own has the recorded sum once it was checked, a slice of the
run is there only from the last step on, and code 0 is given after that step's
check alone; an example is made of the slice that is there, which is the run's
own as long as it has no company.

`PublicationProofs` has two parts. The one about `Guard` assumes `GuardAssumption`
(a shingle has at least one word; texts are sequences of lines with words; the
addresses found in a line are IPv4 or layer two; what may be staged is a text, a
binary file or nothing):

- `GuardTypeCorrect`, `NothingOfTheCorpus` (`CorpusStaysLocal`), `ExemptedByName`
  (`OnlyNamedExemptions`), `BackstopConfirms` (`BackstopAgrees`): invariants.

`GuardInv` says that what the hook let in passed all layers under the list and the
literals it was let in with. The three properties follow from it by facts about the
layers. The guard computes shingles of words that remember their lines, flattened
over the lines of a text, while `CorpusStaysLocal` speaks of runs of words alone:
`ParallelFlatten` shows that the two lists run in parallel, and `RunsAreShingles` that
each run is some shingle. `AcceptedHasPassed` connects the verdict on a whole commit
with each file of it, `DeclaredByName` and `SuppressedIsExempt` an exemption with the
line that grants it, and `MoreLinesForgiveMore` (a longer list forgives at least as
much) is why the backstop can disagree only where a line was removed.

The part about `Gates` assumes `GatesAssumption` (hashes of commits differ, and none is
an empty value):

- `GatesTypeCorrect`, `CodesCharacterised` (`CodesTellApart`),
  `CurrentBeforeItsCommit` (`CurrentIsNotYetCommitted`): invariants.

`GatesInv` says that a record can name only commits that exist, and the one in HEAD
only commits before HEAD; every edit, repeated or dropped line and audit keeps that.
`SaysIsFields` shows that the dictionary of the last line for each key says what the
lines say, whatever is repeated. `CodesCharacterised` follows by the cases the checks tell
apart, in both directions: which records, flags and answers of git give a code, and
which code they give. From the first two it follows that a record that names HEAD
is not the one in HEAD.

`DataLemmas` proves what the others need of numbers, finite sets and sequences from the
library's facts: least and greatest elements and induction over a set of numbers
(`Induction`, from the well-foundedness of the natural numbers, since the
library's induction takes an operator), induction over the subsets of a finite set,
what flattening a sequence of sequences yields (`FlattenExists`), and that a sum over a function's domain exists and does not depend on the order in
which it is taken. Sorting and selecting are defined through
cardinalities (`Arranged`, `Selected`), so that what they yield follows from such facts.

Model-checked only: liveness (`EveryRunEnds`), which the prover's temporal rules
for fairness and `ENABLED` do not reach; its variant is proved (`EveryOperationCounts`).
The properties of the three runs that show a disagreement do not hold.

## 5. What is not modelled

- Byte-level recognition (MBAP header, CRC-16, command verbs) is a constant, and
  so are the guard's patterns and the hexadecimal form of a layer two address.
- Discovery of the dissectors' manifests: the set of dissectors and their order
  are constants. Byte order: lengths and kinds in `CaptureAudit` are those the
  audit reads with the order of the first header, so a later section in another
  order is misread like any other wrong length. Wire lengths and times of the matrix: sums and extrema beside the
  packet count.
- A second connection on the same pair of ports continues the first session, the
  first sender of a session is taken for its client even if it is the server (a
  capture that starts halfway, FTP's greeting). These are limits of passive
  capture the code documents; there is no ground truth in it to compare with.
- The provenance gate and the zone model (pure walks over a finished tree),
  wording of reports and warnings, serialisation. A run without `--pdf` leaves an
  earlier run's `report.pdf` where it is: nothing in the code claims otherwise.
- `gen_fixtures.py`, `gen_oui_db.py`, `bootstrap.ps1`: straight-line scripts run by
  hand.

`PROJECT.json` gives the reason for each component.

## 6. Plan

In this order:

1. `Crc16` (TLC only, on short words), then the signatures of the dissectors on
   short payloads; discovery of dissectors with its duplicate rules.
2. `Provenance`: the gate over small trees.

Modules for these join existing runs where they share an instance, so that the
number of runs stays what a reader can survey.

## Running

    tlc -workers 4 -config MCCommMatrix.cfg MCCommMatrix
    tlapm DissectionProofs.tla

and likewise `DataLemmas`, `FindingsProofs`, `InventoryProofs`, `CaptureProofs`,
`ArtifactsProofs`, `DatasetProofs` and `PublicationProofs`. `FindingsProofs` takes a few
minutes, the others less.
