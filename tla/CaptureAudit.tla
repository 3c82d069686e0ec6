---------------------------- MODULE CaptureAudit ----------------------------
(***************************************************************************)
(* The structural audit of a capture file: audit_capture_structure and its *)
(* two readers in src/wayside/pcap.py.                                     *)
(*                                                                         *)
(* The file is whatever lies on the disk.  Its size is fixed at the start; *)
(* the fields at an offset are chosen when the audit reads them, so every  *)
(* file of that size is covered.  It reads each offset once, but for those *)
(* that hold the byte order magic, which may be the trailing length of the *)
(* first block too.  One step is one record or block.  `read` remembers    *)
(* what the file turned out to hold; the audit never looks at it.          *)
(***************************************************************************)
EXTENDS Integers, Sequences, FiniteSets, Functions

CONSTANTS
  Sizes,      \* file sizes
  Lengths,    \* values of the length fields
  Snaplens    \* values of the snaplen fields

ASSUME AuditAssumption ==
  /\ Sizes \subseteq Nat
  /\ Lengths \subseteq Nat
  /\ Snaplens \subseteq Nat

PcapGlobalHeaderLen == 24
PcapRecordHeaderLen == 16
PcapngBlockHeaderLen == 8
IdbMinLen == 20
EpbMinLen == 32
SpbMinLen == 16    \* header, original length, trailer: the format's, not the code's

None == -1

VARIABLES
  capture_format,   \* "pcap", "pcapng" or "unknown", from the magic
  total_size,       \* size of the file
  position,         \* offset of the next record or block
  record_count,     \* records with a packet so far
  snaplen,          \* of the global header (pcap), or the result (pcapng)
  idb_snaplens,     \* snaplens of the interface blocks so far
  truncated_numbers,\* snaplen_truncated_packet_numbers
  verdict,          \* "probing", "reading", or the outcome
  read              \* the records and blocks that were read

auditVars == <<capture_format, total_size, position, record_count, snaplen,
               idb_snaplens, truncated_numbers, verdict, read>>

-----------------------------------------------------------------------------
AuditInit ==
  /\ capture_format \in {"pcap", "pcapng", "unknown"}
  /\ total_size \in Sizes
  /\ position = 0
  /\ record_count = 0
  /\ snaplen = None
  /\ idb_snaplens = {}
  /\ truncated_numbers = <<>>
  /\ verdict = "probing"
  /\ read = <<>>

Reject(outcome) ==
  /\ verdict' = outcome
  /\ UNCHANGED <<capture_format, total_size, position, record_count, snaplen,
                 idb_snaplens, truncated_numbers>>

(***************************************************************************)
(* The magic, the global header of classic pcap, and the byte order magic  *)
(* of the first pcapng block.                                              *)
(***************************************************************************)
HeaderLen == IF total_size < 4 THEN 4
             ELSE CASE capture_format = "pcap"   -> PcapGlobalHeaderLen
                    [] capture_format = "pcapng" -> 12
                    [] OTHER                     -> 4

RejectHeader ==
  /\ verdict = "probing"
  /\ UNCHANGED read
  /\ \/ total_size < HeaderLen /\ Reject("truncated")
     \/ total_size >= HeaderLen /\ capture_format = "unknown"
          /\ Reject("unsupported")
     \/ total_size >= HeaderLen /\ capture_format = "pcapng"
          /\ Reject("unsupported")    \* unrecognised byte order magic

AcceptHeader ==
  /\ verdict = "probing"
  /\ capture_format # "unknown"
  /\ total_size >= HeaderLen
  /\ verdict' = "reading"
  /\ IF capture_format = "pcap"
     THEN snaplen' \in Snaplens /\ position' = PcapGlobalHeaderLen
     ELSE UNCHANGED <<snaplen, position>>
  /\ UNCHANGED <<capture_format, total_size, record_count, idb_snaplens,
                 truncated_numbers, read>>

Remaining == total_size - position

\* A record whose captured length is below its original length was cut by
\* the snaplen: a legal case, remembered by its number (Z-14).
ZeroBasedNumber(incl, orig) ==                                 \* mutant
  IF incl < orig THEN Append(truncated_numbers, record_count)
  ELSE truncated_numbers
NumbersAfter(incl, orig) ==
  IF incl < orig THEN Append(truncated_numbers, record_count + 1)
  ELSE truncated_numbers

(***************************************************************************)
(* One record of classic pcap.  The snaplen is checked before the size.    *)
(***************************************************************************)
FitsWithoutHeader(incl) == incl <= Remaining                   \* mutant
RecordFits(incl) == incl <= Remaining - PcapRecordHeaderLen

ReadRecord ==
  /\ verdict = "reading"
  /\ capture_format = "pcap"
  /\ Remaining > 0
  /\ IF Remaining < PcapRecordHeaderLen
     THEN Reject("truncated") /\ UNCHANGED read
     ELSE \E incl, orig \in Lengths :
            /\ read' = Append(read, [kind |-> "record", captured |-> incl,
                                     original |-> orig,
                                     length |-> PcapRecordHeaderLen + incl])
            /\ \/ incl > snaplen /\ Reject("corrupt")
               \/ incl <= snaplen /\ ~RecordFits(incl) /\ Reject("truncated")
               \/ /\ incl <= snaplen /\ RecordFits(incl)
                  /\ truncated_numbers' = NumbersAfter(incl, orig)
                  /\ position' = position + PcapRecordHeaderLen + incl
                  /\ record_count' = record_count + 1
                  /\ UNCHANGED <<capture_format, total_size, snaplen,
                                 idb_snaplens, verdict>>

(***************************************************************************)
(* One block of pcapng.  Only Enhanced Packet Blocks count as records;     *)
(* Simple Packet Blocks and all other kinds are stepped over.              *)
(***************************************************************************)
BlockKind == IF position = 0 THEN {"section"}
             ELSE {"section", "interface", "packet", "simple packet", "other"}

\* A block has the kind its type names, if it has room for what makes it one.
KindsOf(len) == BlockKind \ (IF len < SpbMinLen THEN {"simple packet"} ELSE {})

AnyMultipleOfFour(len) == len % 4 = 0                          \* mutant
LengthIsValid(len) == len >= 12 /\ len % 4 = 0

BlockFits(len) == len <= Remaining

\* In a first block of 12 bytes the trailing length would lie where the byte
\* order magic was found, which is no 12.
MayEndAlike(len) == position = 0 => len > 12

SkipBlock(len) ==
  /\ position' = position + len
  /\ UNCHANGED <<capture_format, total_size, record_count, snaplen,
                 idb_snaplens, truncated_numbers, verdict>>

PacketBlock(len, captured, original) ==
  IF len < EpbMinLen THEN Reject("corrupt")
  ELSE /\ truncated_numbers' = NumbersAfter(captured, original)
       /\ record_count' = record_count + 1
       /\ position' = position + len
       /\ UNCHANGED <<capture_format, total_size, snaplen, idb_snaplens,
                      verdict>>

InterfacesAfter(s) == idb_snaplens \cup {s}

InterfaceBlock(len, s) ==
  IF len < IdbMinLen THEN Reject("truncated")
  ELSE /\ idb_snaplens' = InterfacesAfter(s)
       /\ position' = position + len
       /\ UNCHANGED <<capture_format, total_size, record_count, snaplen,
                      truncated_numbers, verdict>>

ReadBlock ==
  /\ verdict = "reading"
  /\ capture_format = "pcapng"
  /\ Remaining > 0
  /\ IF Remaining < PcapngBlockHeaderLen
     THEN Reject("truncated") /\ UNCHANGED read
     ELSE \E len \in Lengths : \E kind \in KindsOf(len) :
            \/ /\ ~(LengthIsValid(len) /\ BlockFits(len))
               /\ read' = Append(read, [kind |-> kind, length |-> len])
               /\ Reject(IF LengthIsValid(len) THEN "truncated" ELSE "corrupt")
            \/ /\ LengthIsValid(len) /\ BlockFits(len)
               /\ \/ /\ read' = Append(read, [kind |-> kind, length |-> len])
                     /\ Reject("corrupt")   \* the trailing length differs
                  \/ /\ kind = "packet" /\ MayEndAlike(len)
                     /\ \E captured, original \in {0, len} :
                          /\ read' = Append(read, [kind |-> kind,
                                            length |-> len,
                                            captured |-> captured,
                                            original |-> original])
                          /\ PacketBlock(len, captured, original)
                  \/ /\ kind = "interface" /\ MayEndAlike(len)
                     /\ \E s \in Snaplens :
                          /\ read' = Append(read, [kind |-> kind,
                                            length |-> len, snaplen |-> s])
                          /\ InterfaceBlock(len, s)
                  \/ /\ kind \notin {"packet", "interface"} /\ MayEndAlike(len)
                     /\ read' = Append(read, [kind |-> kind, length |-> len])
                     /\ SkipBlock(len)

\* The whole file has been read.  A pcapng snaplen is established only if
\* all interface blocks carry the same.
AcceptCapture ==
  /\ verdict = "reading"
  /\ Remaining <= 0
  /\ verdict' = "accepted"
  /\ snaplen' = IF capture_format = "pcap" THEN snaplen
                ELSE IF Cardinality(idb_snaplens) = 1
                THEN CHOOSE s \in idb_snaplens : TRUE
                ELSE None
  /\ UNCHANGED <<capture_format, total_size, position, record_count,
                 idb_snaplens, truncated_numbers, read>>

AuditNext ==
  \/ RejectHeader
  \/ AcceptHeader
  \/ ReadRecord
  \/ ReadBlock
  \/ AcceptCapture

AuditSpec == AuditInit /\ [][AuditNext]_auditVars

-----------------------------------------------------------------------------
Accepted == verdict = "accepted"
IsStructurallyEmpty == Accepted /\ record_count = 0

\* Type invariant; the audit never reads past the end of the file.
AuditTypeOK ==
  /\ capture_format \in {"pcap", "pcapng", "unknown"}
  /\ total_size \in Sizes
  /\ position \in 0 .. total_size
  /\ record_count \in 0 .. Len(read)
  /\ snaplen \in Snaplens \cup {None}
  /\ idb_snaplens \subseteq Snaplens
  /\ truncated_numbers \in Seq(1 .. Len(read))
  /\ verdict \in {"probing", "reading", "accepted", "truncated", "corrupt",
                  "unsupported"}

\* How far the records or blocks reach that were read.
Extent == (IF capture_format = "pcap" THEN 24 ELSE 0)
            + SumFunction([i \in DOMAIN read |-> read[i].length])

(***************************************************************************)
(* Gate D-01: what is accepted is whole.  The records or blocks of an      *)
(* accepted file fill it to its last byte, one after the other; a file     *)
(* that ends inside one of them never reaches the decoder.                 *)
(***************************************************************************)
AcceptedIsWhole == Accepted => total_size = Extent

(***************************************************************************)
(* The numbers of truncated packets are those a reader of the capture      *)
(* counts, from 1: the n-th record that carries a packet is listed exactly *)
(* when its captured length is below its original length.                  *)
(***************************************************************************)
Counted == {i \in DOMAIN read : read[i].kind \in {"record", "packet"}}
NumberOf(i) == Cardinality({j \in Counted : j <= i})

TruncatedNumbersMatch ==
  Accepted =>
    /\ record_count = Cardinality(Counted)
    /\ Range(truncated_numbers) =
         {NumberOf(i) : i \in {j \in Counted : read[j].captured < read[j].original}}
    /\ \A i \in 1 .. Len(truncated_numbers) - 1 :
         truncated_numbers[i] < truncated_numbers[i + 1]

(***************************************************************************)
(* The audit ends on every file, whatever its length fields say: a step    *)
(* that does not end it moves at least twelve bytes ahead in the file and  *)
(* never past its end.                                                     *)
(***************************************************************************)
AuditAdvances ==
  [][verdict = "reading" /\ verdict' = "reading" =>
       position' >= position + 12 /\ position' <= total_size]_auditVars

(***************************************************************************)
(* "is_structurally_empty: valid header, zero records with a packet"       *)
(* (CaptureStructure), and so the warning that the capture "contains no    *)
(* packets at all": no block of such a file carries a packet.              *)
(***************************************************************************)
EmptyMeansNoPackets ==
  IsStructurallyEmpty =>
    \A i \in DOMAIN read :
      read[i].kind \notin {"record", "packet", "simple packet"}
=============================================================================
