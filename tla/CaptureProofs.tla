--------------------------- MODULE CaptureProofs ---------------------------
(***************************************************************************)
(* Proofs about the capture, in two parts.                                 *)
(*                                                                         *)
(* CaptureAudit, for files of every size and with every value in their     *)
(* length fields: an accepted file is whole, the numbers of its truncated  *)
(* packets are those a reader counts, and the audit always moves ahead.    *)
(*                                                                         *)
(* Coverage, for captures of every length and any number of sessions: the  *)
(* window spans every measured cycle, and two repetitions are the limit of *)
(* the warning.                                                            *)
(***************************************************************************)
EXTENDS CaptureAudit, Coverage, DataLemmas, SequenceTheorems

-----------------------------------------------------------------------------
(***************************************************************************)
(* The inductive invariant.  What was read is a sequence of records and    *)
(* blocks; until the audit ends, their lengths add up to the position and  *)
(* the counter and the list of numbers describe exactly what was read.     *)
(***************************************************************************)
CarriesPacket == {"record", "packet"}
BlockKinds == {"section", "interface", "packet", "simple packet", "other"}

Item == [kind : {"record"}, captured : Lengths, original : Lengths, length : Nat]
          \cup [kind : BlockKinds, length : Nat]
          \cup [kind : {"packet"}, length : Nat, captured : Nat, original : Nat]
          \cup [kind : {"interface"}, length : Nat, snaplen : Snaplens]

SoundSoFar == verdict \in {"reading", "accepted"}
LengthsRead == [i \in DOMAIN read |-> read[i].length]
Start == IF capture_format = "pcap" THEN 24 ELSE 0

ReadTypeOK == read \in Seq(Item)

\* Nothing is read before the header is accepted, and an unknown format
\* never is.
HeaderFirst ==
  /\ verdict = "probing" =>
       /\ read = <<>> /\ position = 0
       /\ record_count = 0 /\ truncated_numbers = <<>>
  /\ SoundSoFar => capture_format # "unknown"
  /\ capture_format = "pcap" /\ verdict = "reading" => snaplen \in Snaplens

Consumed == SoundSoFar => position = Start + SumFunction(LengthsRead)

NothingLeft == verdict = "accepted" => position = total_size

Cut(i) == read[i].captured < read[i].original

Tallied ==
  SoundSoFar =>
    /\ record_count = Cardinality(Counted)
    /\ Range(truncated_numbers) = {NumberOf(i) : i \in {j \in Counted : Cut(j)}}
    /\ \A i \in 1 .. Len(truncated_numbers) : truncated_numbers[i] <= record_count
    /\ \A i \in 1 .. Len(truncated_numbers) - 1 :
         truncated_numbers[i] < truncated_numbers[i + 1]

AuditInv ==
  /\ AuditTypeOK
  /\ ReadTypeOK
  /\ HeaderFirst
  /\ Consumed
  /\ NothingLeft
  /\ Tallied

-----------------------------------------------------------------------------
(***************************************************************************)
(* One more record or block.                                               *)
(***************************************************************************)

\* What was read before stays in place.
LEMMA ReadGrows ==
  ASSUME ReadTypeOK, NEW item \in Item, read' = Append(read, item)
  PROVE  /\ ReadTypeOK'
         /\ Len(read) \in Nat /\ Len(read') = Len(read) + 1
         /\ DOMAIN read = 1 .. Len(read) /\ DOMAIN read' = 1 .. Len(read) + 1
         /\ read'[Len(read) + 1] = item
         /\ \A i \in 1 .. Len(read) : read'[i] = read[i]
  BY DEF ReadTypeOK

\* Every record and block has a length.
LEMMA ItemLength ==
  ASSUME NEW item \in Item
  PROVE  item.length \in Nat
  BY DEF Item

\* Its length is added to the sum.
LEMMA SumGrows ==
  ASSUME ReadTypeOK, NEW item \in Item, read' = Append(read, item)
  PROVE  /\ SumFunction(LengthsRead) \in Int
         /\ SumFunction(LengthsRead') = SumFunction(LengthsRead) + item.length
  <1> DEFINE n == Len(read)
             f == LengthsRead
             g == LengthsRead'
  <1>1. n \in Nat /\ \A i \in 1 .. n : read[i] \in Item
    BY DEF ReadTypeOK
  <1>2. f = [i \in 1 .. n |-> read[i].length]
    BY ReadGrows DEF LengthsRead
  <1>3. g = [i \in 1 .. n + 1 |-> read'[i].length]
    BY ReadGrows DEF LengthsRead
  <1>4. \A i \in 1 .. n : read'[i].length = read[i].length /\ read[i].length \in Nat
    BY <1>1, ReadGrows, ItemLength
  <1>5. read'[n + 1].length = item.length /\ item.length \in Nat
    BY ReadGrows, ItemLength
  <1>6. \A i \in 1 .. n + 1 : read'[i].length \in Int
    <2>1. \A i \in 1 .. n + 1 : i \in 1 .. n \/ i = n + 1
      BY <1>1
    <2> QED
      BY <1>4, <1>5, <2>1
  <1> HIDE DEF f, g, n
  <1>7. /\ f \in [1 .. n -> Int] /\ g \in [1 .. n + 1 -> Int]
        /\ \A i \in 1 .. n : g[i] = f[i]
        /\ g[n + 1] = item.length
    <2>1. n \in Nat /\ n + 1 \in 1 .. n + 1 /\ \A i \in 1 .. n : i \in 1 .. n + 1
      BY <1>1
    <2>2. f \in [1 .. n -> Int]
      BY <1>2, <1>4
    <2>3. g \in [1 .. n + 1 -> Int]
      BY <1>3, <1>6
    <2>4. \A i \in 1 .. n : g[i] = f[i]
      BY <1>2, <1>3, <1>4, <2>1
    <2>5. g[n + 1] = item.length
      BY <1>3, <1>5, <2>1
    <2> QED
      BY <2>2, <2>3, <2>4, <2>5
  <1>8. SumFunction(g) = SumFunction(f) + g[n + 1] /\ SumFunction(f) \in Int
    BY <1>1, <1>7, SumAppend
  <1> QED
    BY <1>7, <1>8 DEF f, g

\* A record without a packet is not counted.
LEMMA CountsSame ==
  ASSUME ReadTypeOK, NEW item \in Item, read' = Append(read, item),
         item.kind \notin CarriesPacket
  PROVE  Counted' = Counted
  <1>1. \A i \in 1 .. Len(read) + 1 : i \in 1 .. Len(read) \/ i = Len(read) + 1
    BY ReadGrows
  <1> QED
    BY <1>1, ReadGrows DEF Counted, CarriesPacket

\* A record with a packet is counted last.
LEMMA CountsMore ==
  ASSUME ReadTypeOK, NEW item \in Item, read' = Append(read, item),
         item.kind \in CarriesPacket
  PROVE  /\ Counted' = Counted \cup {Len(read) + 1}
         /\ Counted \subseteq 1 .. Len(read)
         /\ IsFiniteSet(Counted)
         /\ Cardinality(Counted) \in 0 .. Len(read)
         /\ Cardinality(Counted') = Cardinality(Counted) + 1
  <1>1. \A i \in 1 .. Len(read) + 1 : i \in 1 .. Len(read) \/ i = Len(read) + 1
    BY ReadGrows
  <1>2. Counted' = Counted \cup {Len(read) + 1}
    BY <1>1, ReadGrows DEF Counted, CarriesPacket
  <1>3. Counted \subseteq 1 .. Len(read) /\ Len(read) + 1 \notin Counted
    BY ReadGrows DEF Counted
  <1>4. IsFiniteSet(Counted) /\ Cardinality(Counted) \in 0 .. Len(read)
    BY <1>3, ReadGrows, FinitePositions
  <1> QED
    BY <1>2, <1>3, <1>4, OneMore

\* The numbers of the records that were counted before do not change.
LEMMA NumbersKept ==
  ASSUME ReadTypeOK, NEW item \in Item, read' = Append(read, item)
  PROVE  \A i \in Counted : /\ NumberOf(i)' = NumberOf(i)
                            /\ Cut(i)' = Cut(i)
                            /\ i \in 1 .. Len(read)
  <1> TAKE i \in Counted
  <1>1. i \in 1 .. Len(read)
    BY ReadGrows DEF Counted
  <1>2. \A j \in 1 .. Len(read) + 1 : j \in 1 .. Len(read) \/ j = Len(read) + 1
    BY ReadGrows
  <1>3. {j \in Counted : j <= i}' = {j \in Counted : j <= i}
    BY <1>1, <1>2, ReadGrows DEF Counted
  <1>4. NumberOf(i)' = NumberOf(i)
    BY <1>3 DEF NumberOf
  <1> QED
    BY <1>1, <1>4, ReadGrows DEF Cut

\* A packet that is counted gets the next number, and the number is listed
\* when the packet was cut.
LEMMA TalliesMore ==
  ASSUME AuditTypeOK, ReadTypeOK, Tallied, SoundSoFar,
         NEW item \in Item, read' = Append(read, item), item.kind \in CarriesPacket,
         record_count' = record_count + 1,
         truncated_numbers' = NumbersAfter(item.captured, item.original)
  PROVE  Tallied'
  <1>0. PICK new \in Nat : new = Len(read) + 1
    BY ReadGrows
  <1> DEFINE old == {NumberOf(i) : i \in {j \in Counted : Cut(j)}}
             cut == item.captured < item.original
             t   == truncated_numbers
  <1>n. /\ Len(read) \in Nat /\ Cardinality(Counted) \in Nat
        /\ Cardinality(Counted') = Cardinality(Counted) + 1
        /\ Counted' = Counted \cup {new} /\ Counted \subseteq 1 .. Len(read)
        /\ read'[new] = item /\ new \notin Counted
    BY <1>0, CountsMore, ReadGrows
  <1>t. t \in Seq(1 .. Len(read)) /\ Len(t) \in Nat
    BY DEF AuditTypeOK
  <1>1. record_count' = Cardinality(Counted')
    BY <1>n DEF Tallied
  <1>2. NumberOf(new)' = record_count + 1
    <2>1. {j \in Counted' : j <= new} = Counted'
      <3>1. \A j \in 1 .. Len(read) : j <= new
        BY <1>0, <1>n
      <3>2. \A j \in Counted' : j <= new
        BY <1>n, <3>1
      <3> QED
        BY <3>2
    <2>2. NumberOf(new)' = Cardinality({j \in Counted' : j <= new})
      BY DEF NumberOf
    <2> QED
      BY <1>n, <2>1, <2>2 DEF Tallied
  <1>3. Cut(new)' = cut
    BY <1>n DEF Cut
  <1>4. {NumberOf(i)' : i \in {j \in Counted' : Cut(j)'}}
          = IF cut THEN old \cup {record_count + 1} ELSE old
    <2>1. CASE cut
      <3>1. {j \in Counted' : Cut(j)'} = {j \in Counted : Cut(j)} \cup {new}
        BY <1>n, <1>3, <2>1, NumbersKept
      <3>2. \A i \in Counted : NumberOf(i)' = NumberOf(i)
        BY NumbersKept
      <3> QED
        BY <1>2, <2>1, <3>1, <3>2
    <2>2. CASE ~cut
      <3>1. {j \in Counted' : Cut(j)'} = {j \in Counted : Cut(j)}
        BY <1>n, <1>3, <2>2, NumbersKept
      <3>2. \A i \in Counted : NumberOf(i)' = NumberOf(i)
        BY NumbersKept
      <3> QED
        BY <2>2, <3>1, <3>2
    <2> QED
      BY <2>1, <2>2
  <1>5. Range(t') = IF cut THEN Range(t) \cup {record_count + 1} ELSE Range(t)
    <2>1. CASE cut
      <3>1. t' = Append(t, record_count + 1)
        BY <2>1 DEF NumbersAfter
      <3>2. Range(t') = Range(t) \cup {record_count + 1}
        BY <1>t, <3>1, RangeAppend
      <3> QED
        BY <2>1, <3>2
    <2>2. CASE ~cut
      BY <2>2 DEF NumbersAfter
    <2> QED
      BY <2>1, <2>2
  <1>6. Range(t') = {NumberOf(i)' : i \in {j \in Counted' : Cut(j)'}}
    BY <1>4, <1>5 DEF Tallied
  <1>7. /\ \A i \in 1 .. Len(t') : t'[i] <= record_count'
        /\ \A i \in 1 .. Len(t') - 1 : t'[i] < t'[i + 1]
    <2>1. /\ \A i \in 1 .. Len(t) : t[i] <= record_count /\ t[i] \in Nat
          /\ \A i \in 1 .. Len(t) - 1 : t[i] < t[i + 1]
          /\ record_count \in Nat
      BY <1>t, <1>n DEF Tallied
    <2>2. CASE cut
      <3>1. t' = Append(t, record_count + 1)
        BY <2>2 DEF NumbersAfter
      <3>2. /\ Len(t') = Len(t) + 1
            /\ \A i \in 1 .. Len(t) : t'[i] = t[i]
            /\ t'[Len(t) + 1] = record_count + 1
        BY <1>t, <3>1
      <3>3. t' = truncated_numbers' /\ t = truncated_numbers
        OBVIOUS
      <3> HIDE DEF t, cut
      <3>4. ASSUME NEW i \in 1 .. Len(t) + 1 PROVE t'[i] <= record_count + 1
        <4>1. i \in 1 .. Len(t) \/ i = Len(t) + 1
          BY <1>t
        <4> QED
          BY <2>1, <3>2, <4>1
      <3>5. ASSUME NEW i \in 1 .. Len(t) PROVE t'[i] < t'[i + 1]
        <4>1. i \in 1 .. Len(t) - 1 \/ i = Len(t)
          BY <1>t
        <4>2. i \in 1 .. Len(t) - 1 => i + 1 \in 1 .. Len(t)
          BY <1>t
        <4>3. t'[i] = t[i] /\ t[i] <= record_count /\ t[i] \in Nat
          BY <2>1, <3>2
        <4> QED
          BY <2>1, <3>2, <4>1, <4>2, <4>3
      <3>6. Len(t') - 1 = Len(t)
        BY <1>t, <3>2
      <3> QED
        BY <3>2, <3>4, <3>5, <3>6
    <2>3. CASE ~cut
      <3>1. t' = t
        BY <2>3 DEF NumbersAfter
      <3> HIDE DEF t, cut
      <3> QED
        BY <1>t, <2>1, <3>1
    <2> QED
      BY <2>2, <2>3
  <1> QED
    BY <1>1, <1>6, <1>7 DEF Tallied

\* What carries no packet leaves the tally alone.
LEMMA TalliesSame ==
  ASSUME ReadTypeOK, Tallied, SoundSoFar,
         NEW item \in Item, read' = Append(read, item), item.kind \notin CarriesPacket,
         UNCHANGED <<record_count, truncated_numbers>>
  PROVE  Tallied'
  <1>1. Counted' = Counted
    BY CountsSame
  <1>2. \A i \in Counted : NumberOf(i)' = NumberOf(i) /\ Cut(i)' = Cut(i)
    BY NumbersKept
  <1>3. {NumberOf(i)' : i \in {j \in Counted' : Cut(j)'}}
          = {NumberOf(i) : i \in {j \in Counted : Cut(j)}}
    BY <1>1, <1>2
  <1> QED
    BY <1>1, <1>3 DEF Tallied

-----------------------------------------------------------------------------
(***************************************************************************)
(* The invariant is inductive.                                             *)
(***************************************************************************)

\* The audit starts with nothing read.
LEMMA AuditInvInit == AuditInit => AuditInv
  <1> SUFFICES ASSUME AuditInit PROVE AuditInv
    OBVIOUS
  <1> USE DEF AuditInit
  <1>1. AuditTypeOK
    BY AuditAssumption DEF AuditTypeOK
  <1>2. ReadTypeOK /\ HeaderFirst
    BY DEF ReadTypeOK, HeaderFirst, SoundSoFar
  <1>3. Consumed /\ NothingLeft /\ Tallied
    BY DEF Consumed, NothingLeft, Tallied, SoundSoFar
  <1> QED
    BY <1>1, <1>2, <1>3 DEF AuditInv

\* A file that is rejected is not read any further.
LEMMA RejectKeepsInv ==
  ASSUME AuditInv, NEW outcome \in {"truncated", "corrupt", "unsupported"},
         Reject(outcome),
         read' = read \/ \E item \in Item : read' = Append(read, item)
  PROVE  AuditInv'
  <1> USE DEF AuditInv
  <1>1. ReadTypeOK' /\ Len(read) \in Nat /\ Len(read') \in Nat
        /\ (Len(read') = Len(read) \/ Len(read') = Len(read) + 1)
    BY ReadGrows DEF ReadTypeOK
  <1>2. AuditTypeOK'
    BY <1>1 DEF AuditTypeOK, Reject
  <1>3. HeaderFirst' /\ Consumed' /\ NothingLeft' /\ Tallied'
    BY DEF HeaderFirst, Consumed, NothingLeft, Tallied, SoundSoFar, Reject
  <1> QED
    BY <1>1, <1>2, <1>3

\* A record or block that was read whole moves the position past it.
LEMMA StepKeepsInv ==
  ASSUME AuditInv, verdict = "reading", verdict' = "reading",
         NEW item \in Item, read' = Append(read, item),
         item.length <= Remaining, position' = position + item.length,
         UNCHANGED <<capture_format, total_size, snaplen>>,
         idb_snaplens' \subseteq Snaplens,
         \/ /\ item.kind \in CarriesPacket
            /\ record_count' = record_count + 1
            /\ truncated_numbers' = NumbersAfter(item.captured, item.original)
         \/ /\ item.kind \notin CarriesPacket
            /\ UNCHANGED <<record_count, truncated_numbers>>
  PROVE  AuditInv'
  <1> USE DEF AuditInv
  <1>1. ReadTypeOK' /\ Len(read) \in Nat /\ Len(read') = Len(read) + 1
    BY ReadGrows
  <1>2. /\ total_size \in Nat /\ position \in 0 .. total_size
        /\ item.length \in Nat
    BY ItemLength, AuditAssumption DEF AuditTypeOK
  <1>3. position' \in 0 .. total_size'
    BY <1>2 DEF Remaining
  <1>4. record_count' \in 0 .. Len(read') /\ truncated_numbers' \in Seq(1 .. Len(read'))
    <2>1. record_count \in 0 .. Len(read) /\ truncated_numbers \in Seq(1 .. Len(read))
      BY DEF AuditTypeOK
    <2>2. record_count + 1 \in 1 .. Len(read') /\ 1 .. Len(read) \subseteq 1 .. Len(read')
      BY <1>1, <2>1
    <2>3. truncated_numbers \in Seq(1 .. Len(read'))
      BY <2>1, <2>2
    <2>4. Append(truncated_numbers, record_count + 1) \in Seq(1 .. Len(read'))
      BY <2>2, <2>3
    <2>5. record_count' = record_count \/ record_count' = record_count + 1
      OBVIOUS
    <2>6. \/ truncated_numbers' = truncated_numbers
          \/ truncated_numbers' = Append(truncated_numbers, record_count + 1)
      BY DEF NumbersAfter
    <2>7. record_count' \in 0 .. Len(read')
      BY <1>1, <2>1, <2>5
    <2> QED
      BY <2>3, <2>4, <2>6, <2>7
  <1>5. AuditTypeOK'
    BY <1>3, <1>4 DEF AuditTypeOK
  <1>6. HeaderFirst' /\ NothingLeft'
    BY DEF HeaderFirst, NothingLeft, SoundSoFar
  <1>7. Consumed'
    <2>1. position = Start + SumFunction(LengthsRead) /\ Start' = Start /\ Start \in Nat
      BY DEF Consumed, SoundSoFar, Start
    <2>2. /\ SumFunction(LengthsRead) \in Int
          /\ SumFunction(LengthsRead') = SumFunction(LengthsRead) + item.length
      BY SumGrows
    <2>3. position' = Start' + SumFunction(LengthsRead')
      BY <1>2, <2>1, <2>2
    <2> QED
      BY <2>3 DEF Consumed
  <1>8. Tallied'
    BY TalliesMore, TalliesSame DEF SoundSoFar
  <1> QED
    BY <1>1, <1>5, <1>6, <1>7, <1>8

\* A pcapng block that was read, rejected or stepped over.
LEMMA BlockKeepsInv ==
  ASSUME AuditInv, ReadBlock
  PROVE  AuditInv'
  <1> USE DEF ReadBlock
  <1>1. CASE Remaining < PcapngBlockHeaderLen
    BY <1>1, RejectKeepsInv
  <1>2. CASE ~(Remaining < PcapngBlockHeaderLen)
    <2>0. PICK len \in Lengths : \E kind \in KindsOf(len) :
            \/ /\ ~(LengthIsValid(len) /\ BlockFits(len))
               /\ read' = Append(read, [kind |-> kind, length |-> len])
               /\ Reject(IF LengthIsValid(len) THEN "truncated" ELSE "corrupt")
            \/ /\ LengthIsValid(len) /\ BlockFits(len)
               /\ \/ /\ read' = Append(read, [kind |-> kind, length |-> len])
                     /\ Reject("corrupt")
                  \/ /\ kind = "packet" /\ MayEndAlike(len)
                     /\ \E captured, original \in {0, len} :
                          /\ read' = Append(read, [kind |-> kind,
                                            length |-> len,
                                            captured |-> captured,
                                            original |-> original])
                          /\ PacketBlock(len, captured, original)
                  \/ /\ kind = "interface" /\ MayEndAlike(len)
                     /\ \E s \in Snaplens :
                          /\ read' = Append(read, [kind |-> kind,
                                            length |-> len, snaplen |-> s])
                          /\ InterfaceBlock(len, s)
                  \/ /\ kind \notin {"packet", "interface"} /\ MayEndAlike(len)
                     /\ read' = Append(read, [kind |-> kind, length |-> len])
                     /\ SkipBlock(len)
      BY <1>2
    <2>1. PICK kind \in KindsOf(len) :
            \/ /\ ~(LengthIsValid(len) /\ BlockFits(len))
               /\ read' = Append(read, [kind |-> kind, length |-> len])
               /\ Reject(IF LengthIsValid(len) THEN "truncated" ELSE "corrupt")
            \/ /\ LengthIsValid(len) /\ BlockFits(len)
               /\ \/ /\ read' = Append(read, [kind |-> kind, length |-> len])
                     /\ Reject("corrupt")
                  \/ /\ kind = "packet" /\ MayEndAlike(len)
                     /\ \E captured, original \in {0, len} :
                          /\ read' = Append(read, [kind |-> kind,
                                            length |-> len,
                                            captured |-> captured,
                                            original |-> original])
                          /\ PacketBlock(len, captured, original)
                  \/ /\ kind = "interface" /\ MayEndAlike(len)
                     /\ \E s \in Snaplens :
                          /\ read' = Append(read, [kind |-> kind,
                                            length |-> len, snaplen |-> s])
                          /\ InterfaceBlock(len, s)
                  \/ /\ kind \notin {"packet", "interface"} /\ MayEndAlike(len)
                     /\ read' = Append(read, [kind |-> kind, length |-> len])
                     /\ SkipBlock(len)
      BY <2>0
    <2>t. /\ verdict = "reading" /\ len \in Nat /\ kind \in BlockKinds
          /\ idb_snaplens \subseteq Snaplens
      BY AuditAssumption DEF KindsOf, BlockKind, BlockKinds, AuditInv, AuditTypeOK
    <2> DEFINE plain == [kind |-> kind, length |-> len]
    <2>p. plain \in Item /\ plain.kind = kind /\ plain.length = len
      BY <2>t DEF Item
    <2> HIDE DEF ReadBlock
    <2>2. CASE /\ read' = Append(read, plain)
               /\ (Reject("truncated") \/ Reject("corrupt"))
      BY <2>2, <2>p, RejectKeepsInv
    <2>3. ASSUME LengthIsValid(len), BlockFits(len), kind = "packet",
                 NEW captured \in {0, len}, NEW original \in {0, len},
                 read' = Append(read, [kind |-> kind, length |-> len,
                                       captured |-> captured, original |-> original]),
                 PacketBlock(len, captured, original)
          PROVE  AuditInv'
      <3> DEFINE item == [kind |-> kind, length |-> len,
                          captured |-> captured, original |-> original]
      <3>1. item \in Item
        BY <2>t, <2>3 DEF Item
      <3>2. CASE len < EpbMinLen
        BY <2>3, <3>1, <3>2, RejectKeepsInv DEF PacketBlock
      <3>3. CASE ~(len < EpbMinLen)
        <4>1. /\ item.kind \in CarriesPacket /\ item.length = len
              /\ item.captured = captured /\ item.original = original
          BY <2>3 DEF CarriesPacket
        <4>2. /\ item.length <= Remaining /\ position' = position + item.length
              /\ verdict' = "reading" /\ UNCHANGED <<capture_format, total_size, snaplen>>
              /\ idb_snaplens' \subseteq Snaplens
              /\ record_count' = record_count + 1
              /\ truncated_numbers' = NumbersAfter(item.captured, item.original)
          BY <2>t, <2>3, <3>3, <4>1 DEF PacketBlock, BlockFits
        <4>3. read' = Append(read, item)
          BY <2>3
        <4> HIDE DEF item
        <4> QED
          BY <2>t, <3>1, <4>1, <4>2, <4>3, StepKeepsInv
      <3> QED
        BY <3>2, <3>3
    <2>4. ASSUME LengthIsValid(len), BlockFits(len), kind = "interface", NEW s \in Snaplens,
                 read' = Append(read, [kind |-> kind, length |-> len, snaplen |-> s]),
                 InterfaceBlock(len, s)
          PROVE  AuditInv'
      <3> DEFINE item == [kind |-> kind, length |-> len, snaplen |-> s]
      <3>1. item \in Item
        BY <2>t, <2>4 DEF Item
      <3>2. CASE len < IdbMinLen
        BY <2>4, <3>1, <3>2, RejectKeepsInv DEF InterfaceBlock
      <3>3. CASE ~(len < IdbMinLen)
        <4>1. item.kind \notin CarriesPacket /\ item.length = len
          BY <2>4 DEF CarriesPacket
        <4>2. /\ item.length <= Remaining /\ position' = position + item.length
              /\ verdict' = "reading" /\ UNCHANGED <<capture_format, total_size, snaplen>>
              /\ idb_snaplens' \subseteq Snaplens
              /\ UNCHANGED <<record_count, truncated_numbers>>
          BY <2>t, <2>4, <3>3, <4>1 DEF InterfaceBlock, InterfacesAfter, BlockFits
        <4>3. read' = Append(read, item)
          BY <2>4
        <4> HIDE DEF item
        <4> QED
          BY <2>t, <3>1, <4>1, <4>2, <4>3, StepKeepsInv
      <3> QED
        BY <3>2, <3>3
    <2>5. ASSUME LengthIsValid(len), BlockFits(len), kind \notin {"packet", "interface"},
                 read' = Append(read, plain), SkipBlock(len)
          PROVE  AuditInv'
      <3>1. plain.kind \notin CarriesPacket
        BY <2>t, <2>p, <2>5 DEF CarriesPacket, BlockKinds
      <3>2. /\ plain.length <= Remaining /\ position' = position + plain.length
            /\ verdict' = "reading" /\ UNCHANGED <<capture_format, total_size, snaplen>>
            /\ idb_snaplens' \subseteq Snaplens
            /\ UNCHANGED <<record_count, truncated_numbers>>
        BY <2>t, <2>p, <2>5 DEF SkipBlock, BlockFits
      <3> HIDE DEF plain
      <3> QED
        BY <2>t, <2>p, <2>5, <3>1, <3>2, StepKeepsInv
    <2> QED
      BY <2>1, <2>2, <2>3, <2>4, <2>5
  <1> QED
    BY <1>1, <1>2

\* Every step of the audit preserves the invariant.
LEMMA AuditInvNext ==
  ASSUME AuditInv, [AuditNext]_auditVars
  PROVE  AuditInv'
  <1>1. CASE RejectHeader
    <2>1. PICK outcome \in {"truncated", "corrupt", "unsupported"} : Reject(outcome)
      BY <1>1 DEF RejectHeader
    <2> QED
      BY <1>1, <2>1, RejectKeepsInv DEF RejectHeader
  <1>2. CASE AcceptHeader
    <2> USE DEF AuditInv
    <2>1. /\ read = <<>> /\ position = 0 /\ record_count = 0
          /\ truncated_numbers = <<>> /\ total_size \in Nat
      BY <1>2, AuditAssumption DEF AcceptHeader, HeaderFirst, AuditTypeOK
    <2>2. AuditTypeOK' /\ ReadTypeOK'
      <3>1. position' \in 0 .. total_size /\ snaplen' \in Snaplens \cup {None}
        BY <1>2, <2>1 DEF AcceptHeader, HeaderLen, PcapGlobalHeaderLen, AuditTypeOK
      <3> QED
        BY <1>2, <3>1 DEF AcceptHeader, AuditTypeOK, ReadTypeOK
    <2>3. HeaderFirst' /\ NothingLeft'
      BY <1>2 DEF AcceptHeader, HeaderFirst, NothingLeft, SoundSoFar
    <2>4. Consumed'
      <3>1. LengthsRead' \in [{} -> Int]
        BY <1>2, <2>1 DEF AcceptHeader, LengthsRead
      <3>2. SumFunction(LengthsRead') = 0
        BY <3>1, SumEmpty
      <3>3. position' = Start' + 0
        BY <1>2, <2>1 DEF AcceptHeader, Start, PcapGlobalHeaderLen
      <3>4. position' = Start' + SumFunction(LengthsRead')
        BY ONLY <3>2, <3>3
      <3> QED
        BY <3>4 DEF Consumed
    <2>5. Tallied'
      <3>1. Counted' = {} /\ truncated_numbers' = <<>> /\ record_count' = 0
        BY <1>2, <2>1 DEF AcceptHeader, Counted
      <3> QED
        BY <3>1, FS_EmptySet DEF Tallied, Range
    <2> QED
      BY <2>2, <2>3, <2>4, <2>5
  <1>3. CASE ReadRecord
    <2> USE <1>3 DEF ReadRecord
    <2>1. CASE Remaining < PcapRecordHeaderLen
      BY <2>1, RejectKeepsInv
    <2>2. CASE ~(Remaining < PcapRecordHeaderLen)
      <3>1. PICK incl \in Lengths, orig \in Lengths :
              /\ read' = Append(read, [kind |-> "record", captured |-> incl,
                                       original |-> orig,
                                       length |-> PcapRecordHeaderLen + incl])
              /\ \/ incl > snaplen /\ Reject("corrupt")
                 \/ incl <= snaplen /\ ~RecordFits(incl) /\ Reject("truncated")
                 \/ /\ incl <= snaplen /\ RecordFits(incl)
                    /\ truncated_numbers' = NumbersAfter(incl, orig)
                    /\ position' = position + PcapRecordHeaderLen + incl
                    /\ record_count' = record_count + 1
                    /\ UNCHANGED <<capture_format, total_size, snaplen,
                                   idb_snaplens, verdict>>
        BY <2>2
      <3> DEFINE item == [kind |-> "record", captured |-> incl, original |-> orig,
                          length |-> PcapRecordHeaderLen + incl]
      <3>2. incl \in Nat /\ item \in Item
        BY AuditAssumption DEF Item, PcapRecordHeaderLen
      <3>3. CASE Reject("corrupt") \/ Reject("truncated")
        BY <3>1, <3>2, <3>3, RejectKeepsInv
      <3>4. CASE ~(Reject("corrupt") \/ Reject("truncated"))
        <4>1. position \in Nat /\ total_size \in Nat /\ idb_snaplens \subseteq Snaplens
          BY AuditAssumption DEF AuditInv, AuditTypeOK
        <4>2. item.length <= Remaining /\ position' = position + item.length
          BY <3>1, <3>2, <3>4, <4>1 DEF RecordFits, Remaining, PcapRecordHeaderLen
        <4>3. /\ item.kind \in CarriesPacket /\ item.captured = incl /\ item.original = orig
              /\ read' = Append(read, item)
          BY <3>1 DEF CarriesPacket
        <4>4. /\ verdict = "reading" /\ verdict' = "reading"
              /\ UNCHANGED <<capture_format, total_size, snaplen>>
              /\ idb_snaplens' \subseteq Snaplens
              /\ record_count' = record_count + 1
              /\ truncated_numbers' = NumbersAfter(item.captured, item.original)
          BY <3>1, <3>4, <4>1, <4>3
        <4> HIDE DEF item, ReadRecord
        <4> QED
          BY <3>2, <4>2, <4>3, <4>4, StepKeepsInv
      <3> QED
        BY <3>3, <3>4
    <2> QED
      BY <2>1, <2>2
  <1>4. CASE ReadBlock
    BY <1>4, BlockKeepsInv
  <1>5. CASE AcceptCapture
    <2> USE <1>5 DEF AcceptCapture, AuditInv
    <2>1. /\ total_size \in Nat /\ position \in 0 .. total_size
          /\ idb_snaplens \subseteq Snaplens /\ snaplen \in Snaplens \cup {None}
      BY AuditAssumption DEF AuditTypeOK
    <2>2. snaplen' \in Snaplens \cup {None}
      <3>1. Cardinality(idb_snaplens) = 1 => idb_snaplens # {}
        BY FS_EmptySet
      <3> QED
        BY <2>1, <3>1
    <2>3. AuditTypeOK' /\ ReadTypeOK'
      BY <2>2 DEF AuditTypeOK, ReadTypeOK
    <2>4. position = total_size
      BY <2>1 DEF Remaining
    <2>5. HeaderFirst' /\ NothingLeft'
      BY <2>4 DEF HeaderFirst, NothingLeft, SoundSoFar
    <2>6. LengthsRead' = LengthsRead /\ Start' = Start /\ position' = position
      BY DEF LengthsRead, Start
    <2>7. Consumed'
      BY <2>6 DEF Consumed, SoundSoFar
    <2>8. Tallied'
      BY DEF Tallied, SoundSoFar, Counted, NumberOf, Cut
    <2> QED
      BY <2>3, <2>5, <2>7, <2>8
  <1>6. CASE UNCHANGED auditVars
    <2> USE <1>6 DEF auditVars, AuditInv
    <2>1. AuditTypeOK' /\ ReadTypeOK' /\ HeaderFirst' /\ NothingLeft'
      BY DEF AuditTypeOK, ReadTypeOK, HeaderFirst, NothingLeft, SoundSoFar
    <2>2. Consumed'
      <3>1. LengthsRead' = LengthsRead /\ Start' = Start /\ position' = position
        BY DEF LengthsRead, Start
      <3> QED
        BY <3>1 DEF Consumed, SoundSoFar
    <2>3. Tallied'
      <3>1. UNCHANGED <<read, record_count, truncated_numbers, verdict>>
        OBVIOUS
      <3>2. Counted' = Counted /\ SoundSoFar' = SoundSoFar
        BY <3>1 DEF Counted, SoundSoFar
      <3>3. ASSUME NEW i PROVE NumberOf(i)' = NumberOf(i) /\ Cut(i)' = Cut(i)
        BY <3>1, <3>2 DEF NumberOf, Cut
      <3>4. Tallied
        OBVIOUS
      <3> QED
        BY ONLY <3>1, <3>2, <3>3, <3>4 DEF Tallied
    <2> QED
      BY <2>1, <2>2, <2>3
  <1> QED
    BY <1>1, <1>2, <1>3, <1>4, <1>5, <1>6 DEF AuditNext

LEMMA AuditInvAlways == AuditSpec => []AuditInv
  <1>1. AuditInv /\ [AuditNext]_auditVars => AuditInv'
    BY AuditInvNext
  <1> QED
    BY AuditInvInit, <1>1, PTL DEF AuditSpec

-----------------------------------------------------------------------------
(***************************************************************************)
(* Theorems.                                                               *)
(***************************************************************************)

\* Every variable keeps its type, and the audit never reads past the end of
\* the file: audit_capture_structure of pcap.py.
THEOREM AuditTypeCorrect == AuditSpec => []AuditTypeOK
  <1>1. AuditInv => AuditTypeOK
    BY DEF AuditInv
  <1> QED
    BY AuditInvAlways, <1>1, PTL

\* Gate D-01: the records or blocks of an accepted file fill it to its last
\* byte.
THEOREM AcceptedFilesAreWhole == AuditSpec => []AcceptedIsWhole
  <1>1. AuditInv => AcceptedIsWhole
    BY DEF AuditInv, Consumed, NothingLeft, SoundSoFar, AcceptedIsWhole, Extent, Accepted,
           Start, LengthsRead
  <1> QED
    BY AuditInvAlways, <1>1, PTL

\* The numbers of the packets that the snaplen cut are those a reader of the
\* capture counts: snaplen_truncated_packet_numbers of pcap.py.
THEOREM TruncatedPacketsAreNumbered == AuditSpec => []TruncatedNumbersMatch
  <1>1. AuditInv => TruncatedNumbersMatch
    BY DEF AuditInv, Tallied, SoundSoFar, TruncatedNumbersMatch, Accepted, Cut
  <1> QED
    BY AuditInvAlways, <1>1, PTL

\* A step that does not end the audit moves at least twelve bytes ahead and
\* never past the end: the loops of _audit_pcap and _audit_pcapng end on
\* every file.
THEOREM TheAuditAdvances == AuditSpec => AuditAdvances
  <1>1. AuditInv /\ [AuditNext]_auditVars
          => [verdict = "reading" /\ verdict' = "reading" =>
                position' >= position + 12 /\ position' <= total_size]_auditVars
    <2> SUFFICES ASSUME AuditInv, AuditNext, verdict = "reading", verdict' = "reading"
                 PROVE  position' >= position + 12 /\ position' <= total_size
      OBVIOUS
    <2>1. position \in Nat /\ total_size \in Nat
      BY AuditAssumption DEF AuditInv, AuditTypeOK
    <2>2. CASE ReadRecord
      <3>1. PICK incl \in Lengths : RecordFits(incl) /\
                   position' = position + PcapRecordHeaderLen + incl
        BY <2>2 DEF ReadRecord, Reject
      <3> QED
        BY <2>1, <3>1, AuditAssumption DEF RecordFits, Remaining, PcapRecordHeaderLen
    <2>3. CASE ReadBlock
      <3>1. PICK len \in Lengths : LengthIsValid(len) /\ BlockFits(len) /\
                                   position' = position + len
        BY <2>3 DEF ReadBlock, Reject, PacketBlock, InterfaceBlock, SkipBlock
      <3> QED
        BY <2>1, <3>1, AuditAssumption DEF LengthIsValid, BlockFits, Remaining
    <2> QED
      BY <2>2, <2>3 DEF AuditNext, RejectHeader, AcceptHeader, AcceptCapture, Reject
  <1> QED
    BY AuditInvAlways, <1>1, PTL DEF AuditSpec, AuditAdvances

-----------------------------------------------------------------------------
(***************************************************************************)
(* The inductive invariant of the window's coverage.  After m packets, a   *)
(* session has as many times as the requests among them, those of these    *)
(* requests and no others; they ascend when those of the file do.  The     *)
(* cycles are those of the first sessions in order, and the warnings those *)
(* of the first cycles.                                                    *)
(***************************************************************************)
Visited == IF task = "grouping" THEN ahead - 1 ELSE Len(capture)

RequestsUpTo(s, m) == {q \in RequestsOf(s) : q[1] <= m}

Ascending(t) == \A i, j \in DOMAIN t : i <= j => t[i] <= t[j]

TimesOf(s, m) ==
  /\ Len(sessions[s]) = Cardinality(RequestsUpTo(s, m))
  /\ Len(sessions[s]) <= 2 * m
  /\ \A i \in DOMAIN sessions[s] :
       \E q \in RequestsUpTo(s, m) : sessions[s][i] = capture[q[1]].time
  /\ \A q \in RequestsUpTo(s, m) :
       \E i \in DOMAIN sessions[s] : sessions[s][i] = capture[q[1]].time
  /\ Chronological => Ascending(sessions[s])

CaptureTypeOK ==
  /\ capture \in Seq(Packet) /\ Len(capture) <= MaxPackets
  /\ sessions \in [Session -> Seq(Time)]

Grouped ==
  /\ task = "grouping" => ahead \in 1 .. Len(capture) + 1 /\ cycles = <<>>
  /\ \A s \in Session : TimesOf(s, Visited)

CycleOf(s) == [session_id |-> s, measured_cycle_s |-> Longest(sessions[s]),
               request_count |-> Len(sessions[s])]

Measured ==
  CASE task = "grouping"  -> 0
    [] task = "measuring" -> ahead - 1
    [] OTHER              -> Cardinality(Session)

MeasuredSoFar ==
  /\ task = "measuring" => ahead \in 1 .. Cardinality(Session) + 1
  /\ cycles \in Seq({CycleOf(s) : s \in {r \in Session : Measurable(sessions[r])}})
  /\ \A i \in DOMAIN cycles : \E n \in 1 .. Measured : InOrder[n] = cycles[i].session_id
  /\ \A n \in 1 .. Measured :
       Measurable(sessions[InOrder[n]])
         => \E i \in DOMAIN cycles : cycles[i].session_id = InOrder[n]
  /\ \A i, j \in DOMAIN cycles :
       i < j => cycles[i].session_id < cycles[j].session_id
  /\ Len(cycles) <= Measured

Reviewed ==
  CASE task = "assessing" -> ahead - 1
    [] task = "assessed"  -> Len(cycles)
    [] OTHER              -> 0

WarnedSoFar ==
  /\ task \in {"grouping", "measuring", "assessing", "assessed"}
  /\ task = "assessing" => ahead \in 1 .. Len(cycles) + 1
  /\ task = "assessed" => ahead = 1
  /\ warned = {cycles[i].session_id :
                 i \in {j \in 1 .. Reviewed : TooShortFor(cycles[j])}}

CoverageInv ==
  /\ CaptureTypeOK
  /\ Grouped
  /\ MeasuredSoFar
  /\ WarnedSoFar

-----------------------------------------------------------------------------
(***************************************************************************)
(* The greatest and the least of finitely many integers.                   *)
(***************************************************************************)
LEMMA Extremes ==
  ASSUME NEW n \in Nat \ {0}, NEW f \in [1 .. n -> Int]
  PROVE  LET S == {f[i] : i \in 1 .. n}
         IN  /\ Max(S) \in S /\ \A x \in S : x <= Max(S)
             /\ Min(S) \in S /\ \A x \in S : Min(S) <= x
             /\ S \subseteq Int
  <1> DEFINE S == {f[i] : i \in 1 .. n}
  <1>1. S \subseteq Int
    OBVIOUS
  <1>2. \E x \in S : \A y \in S : x >= y
    <2>1. PICK i \in 1 .. n : \A j \in 1 .. n : f[j] <= f[i]
      BY GreatestValue
    <2>2. f[i] \in S /\ \A y \in S : y \in Int /\ y <= f[i] /\ f[i] \in Int
      BY <2>1
    <2> HIDE DEF S
    <2> QED
      BY <2>2
  <1>3. \E x \in S : \A y \in S : x =< y
    <2> DEFINE g == [i \in 1 .. n |-> -f[i]]
    <2>1. g \in [1 .. n -> Int] /\ \A i \in 1 .. n : g[i] = -f[i] /\ f[i] \in Int
      OBVIOUS
    <2> HIDE DEF g
    <2>2. PICK i \in 1 .. n : \A j \in 1 .. n : g[j] <= g[i]
      BY <2>1, GreatestValue
    <2>3. \A j \in 1 .. n : f[i] <= f[j]
      BY <2>1, <2>2
    <2> QED
      BY <2>3
  <1> HIDE DEF S
  <1>4. Max(S) \in S /\ \A y \in S : Max(S) >= y
    BY <1>2 DEF Max
  <1>5. Min(S) \in S /\ \A y \in S : Min(S) =< y
    BY <1>3 DEF Min
  <1>6. \A x \in S : x <= Max(S)
    BY <1>1, <1>4
  <1> QED
    BY <1>1, <1>4, <1>5, <1>6 DEF S

\* The longest interval is one of the intervals and no other is longer.
LEMMA LongestInterval ==
  ASSUME NEW t \in Seq(Int), Len(t) >= 2
  PROVE  /\ Longest(t) \in Int
         /\ \E i \in 1 .. Len(t) - 1 : Longest(t) = t[i + 1] - t[i]
         /\ \A i \in 1 .. Len(t) - 1 : t[i + 1] - t[i] <= Longest(t)
  <1>1. PICK n \in Nat \ {0} : n = Len(t) - 1
    OBVIOUS
  <1> DEFINE f == [i \in 1 .. n |-> t[i + 1] - t[i]]
  <1>2. \A i \in 1 .. n : t[i] \in Int /\ t[i + 1] \in Int
    BY <1>1
  <1>3. f \in [1 .. n -> Int] /\ \A i \in 1 .. n : f[i] = t[i + 1] - t[i]
    BY <1>2
  <1>4. Longest(t) = Max({f[i] : i \in 1 .. n})
    BY <1>1 DEF Longest
  <1> HIDE DEF f
  <1>5. LET S == {f[i] : i \in 1 .. n}
        IN  Max(S) \in S /\ (\A x \in S : x <= Max(S)) /\ S \subseteq Int
    BY <1>3, Extremes
  <1> QED
    BY <1>1, <1>3, <1>4, <1>5

\* What a packet is.
LEMMA PacketParts ==
  ASSUME NEW p \in Packet
  PROVE  /\ p.time \in Time /\ p.time \in Nat
         /\ p.session \in Session
         /\ p.events.requests \in 0 .. 2
  <1>1. p.time \in Time /\ p.session \in Session /\ p.events \in Kinds
    BY DEF Packet
  <1>2. p.events \in [requests : 0 .. 2, responses : 0 .. 2] /\ p.time \in Nat
    BY <1>1, CoverageAssumption
  <1> QED
    BY <1>1, <1>2

LEMMA CaptureLength ==
  ASSUME CaptureTypeOK
  PROVE  /\ Len(capture) \in Nat /\ DOMAIN capture = 1 .. Len(capture)
         /\ \A i \in DOMAIN capture : capture[i] \in Packet
  BY DEF CaptureTypeOK

\* The window runs from the earliest of the times to the latest.
LEMMA WindowEnds ==
  ASSUME CaptureTypeOK, capture # <<>>
  PROVE  /\ WindowDuration = Max(Times) - Min(Times)
         /\ Max(Times) \in Nat /\ Min(Times) \in Nat
         /\ \A i \in DOMAIN capture :
              Min(Times) <= capture[i].time /\ capture[i].time <= Max(Times)
  <1>1. PICK n \in Nat \ {0} : n = Len(capture) /\ DOMAIN capture = 1 .. n
    BY DEF CaptureTypeOK
  <1> DEFINE f == [i \in 1 .. n |-> capture[i].time]
  <1>2. \A i \in 1 .. n : capture[i].time \in Nat
    BY <1>1, CaptureLength, PacketParts
  <1>3. f \in [1 .. n -> Int] /\ (\A i \in 1 .. n : f[i] = capture[i].time)
        /\ Times = {f[i] : i \in 1 .. n}
    BY <1>1, <1>2 DEF Times
  <1> HIDE DEF f
  <1>4. LET S == {f[i] : i \in 1 .. n}
        IN  /\ Max(S) \in S /\ \A x \in S : x <= Max(S)
            /\ Min(S) \in S /\ \A x \in S : Min(S) <= x
    BY <1>3, Extremes
  <1>5. Max(Times) \in Times /\ Min(Times) \in Times /\ Times \subseteq Nat
    BY <1>2, <1>3, <1>4
  <1>6. \A i \in DOMAIN capture : capture[i].time \in Times
    BY DEF Times
  <1> QED
    BY <1>3, <1>4, <1>5, <1>6 DEF WindowDuration

-----------------------------------------------------------------------------
(***************************************************************************)
(* The sessions in order.  Every session has a rank of its own, and every  *)
(* number up to the number of sessions is a rank.                          *)
(***************************************************************************)
LEMMA Ranks ==
  /\ \A s \in Session : Rank(s) \in 1 .. Cardinality(Session)
  /\ \A r, s \in Session : r < s => Rank(r) < Rank(s)
  <1> DEFINE UpToId(s) == {r \in Session : r <= s}
  <1>0. \A s \in Session : s \in Nat
    BY CoverageAssumption
  <1>1. \A S \in SUBSET Session :
          IsFiniteSet(S) /\ Cardinality(S) \in 0 .. Cardinality(Session)
    <2>1. IsFiniteSet(Session) /\ Cardinality(Session) \in Nat
      BY CoverageAssumption, FS_CardinalityType
    <2>2. ASSUME NEW S \in SUBSET Session
          PROVE  IsFiniteSet(S) /\ Cardinality(S) \in 0 .. Cardinality(Session)
      <3>1. IsFiniteSet(S) /\ Cardinality(S) <= Cardinality(Session)
        BY <2>1, FS_Subset
      <3>2. Cardinality(S) \in Nat
        BY <3>1, FS_CardinalityType
      <3> QED
        BY <2>1, <3>1, <3>2
    <2> QED
      BY <2>2
  <1>2. ASSUME NEW s \in Session PROVE Rank(s) \in 1 .. Cardinality(Session)
    <2>1. s \in UpToId(s) /\ UpToId(s) \in SUBSET Session
      BY <1>0
    <2>2. Cardinality(UpToId(s)) # 0 /\ Cardinality(UpToId(s)) \in 0 .. Cardinality(Session)
      BY <1>1, <2>1, FS_EmptySet
    <2>3. Rank(s) = Cardinality(UpToId(s))
      BY DEF Rank
    <2> HIDE DEF UpToId
    <2> QED
      BY <2>2, <2>3
  <1>3. ASSUME NEW r \in Session, NEW s \in Session, r < s PROVE Rank(r) < Rank(s)
    <2>1. UpToId(r) \cup {s} \subseteq UpToId(s) /\ s \notin UpToId(r)
      BY <1>0, <1>3
    <2>2. UpToId(r) \in SUBSET Session /\ UpToId(s) \in SUBSET Session
      OBVIOUS
    <2>3. Rank(r) = Cardinality(UpToId(r)) /\ Rank(s) = Cardinality(UpToId(s))
      BY DEF Rank
    <2> HIDE DEF UpToId
    <2>4. Cardinality(UpToId(r) \cup {s}) = Cardinality(UpToId(r)) + 1
      BY <1>1, <2>1, <2>2, OneMore
    <2>5. Cardinality(UpToId(r) \cup {s}) <= Cardinality(UpToId(s))
      BY <1>1, <2>1, <2>2, FS_Subset
    <2>6. Cardinality(UpToId(r)) \in Int /\ Cardinality(UpToId(s)) \in Int
      BY <1>1, <2>2
    <2> QED
      BY <2>3, <2>4, <2>5, <2>6
  <1> QED
    BY <1>2, <1>3

LEMMA SessionsInOrder ==
  /\ Cardinality(Session) \in Nat
  /\ Len(InOrder) = Cardinality(Session)
  /\ DOMAIN InOrder = 1 .. Cardinality(Session)
  /\ \A n \in 1 .. Cardinality(Session) : InOrder[n] \in Session
  /\ \A s \in Session : \E n \in 1 .. Cardinality(Session) : InOrder[n] = s
  /\ \A m, n \in 1 .. Cardinality(Session) : m < n => InOrder[m] < InOrder[n]
  <1> DEFINE rank == [s \in Session |-> Rank(s)]
  <1>0. PICK N \in Nat : N = Cardinality(Session)
    BY CoverageAssumption, FS_CardinalityType
  <1>1. \A s \in Session : s \in Nat
    BY CoverageAssumption
  <1>2. \A s \in Session : Rank(s) \in 1 .. N /\ Rank(s) \in Nat
    BY <1>0, Ranks
  <1>3. ASSUME NEW r \in Session, NEW s \in Session, Rank(r) = Rank(s) PROVE r = s
    <2>1. ~(Rank(r) < Rank(s)) /\ ~(Rank(s) < Rank(r))
      BY <1>2, <1>3
    <2>2. ~(r < s) /\ ~(s < r)
      BY <2>1, Ranks
    <2> QED
      BY <1>1, <2>2
  <1>4. \A n \in 1 .. N : \E s \in Session : Rank(s) = n
    <2>1. rank \in Injection(Session, 1 .. N)
      BY <1>2, <1>3 DEF Injection, IsInjective
    <2>2. IsFiniteSet(1 .. N) /\ Cardinality(1 .. N) = N
      BY FS_Interval
    <2>3. rank \in Surjection(Session, 1 .. N)
      BY <1>0, <2>1, <2>2, FS_Injection
    <2> QED
      BY <2>3 DEF Surjection
  <1>5. InOrder = [n \in 1 .. N |-> CHOOSE s \in Session : Rank(s) = n]
    BY <1>0 DEF InOrder
  <1>6. \A n \in 1 .. N : InOrder[n] \in Session /\ Rank(InOrder[n]) = n
    BY <1>4, <1>5
  <1>7. \A s \in Session : Rank(s) \in 1 .. N /\ InOrder[Rank(s)] = s
    BY <1>2, <1>3, <1>6
  <1>8. ASSUME NEW m \in 1 .. N, NEW n \in 1 .. N, m < n PROVE InOrder[m] < InOrder[n]
    <2>1. PICK r \in Session, s \in Session :
            r = InOrder[m] /\ s = InOrder[n] /\ Rank(r) = m /\ Rank(s) = n
      BY <1>6
    <2>2. r \in Nat /\ s \in Nat /\ r # s
      BY <1>1, <1>8, <2>1
    <2>3. ~(s < r)
      <3>1. s < r => Rank(s) < Rank(r)
        BY Ranks
      <3> QED
        BY <1>8, <2>1, <3>1
    <2> QED
      BY <2>1, <2>2, <2>3
  <1>9. Len(InOrder) = N /\ DOMAIN InOrder = 1 .. N
    BY <1>5
  <1> QED
    BY <1>0, <1>6, <1>7, <1>8, <1>9

-----------------------------------------------------------------------------
(***************************************************************************)
(* Grouping: one packet more.                                              *)
(***************************************************************************)

\* When neighbours do not go back, no later packet does.
LEMMA LaterTimes ==
  ASSUME CaptureTypeOK, Chronological
  PROVE  \A i, j \in DOMAIN capture : i <= j => capture[i].time <= capture[j].time
  <1>1. PICK n \in Nat : n = Len(capture) /\ DOMAIN capture = 1 .. n
    BY CaptureLength
  <1> DEFINE time == [i \in 1 .. n |-> capture[i].time]
  <1>2. /\ \A i \in 1 .. n : time[i] = capture[i].time /\ time[i] \in Nat
        /\ \A i \in 1 .. n - 1 : time[i] <= time[i + 1]
    BY <1>1, CaptureLength, PacketParts DEF Chronological
  <1> HIDE DEF time
  <1> DEFINE Good == {d \in Nat : \A i \in 1 .. n : i + d <= n => time[i] <= time[i + d]}
  <1>3. 0 \in Good
    BY <1>2
  <1>4. ASSUME NEW d \in Nat, d \in Good PROVE d + 1 \in Good
    <2>1. ASSUME NEW i \in 1 .. n, i + (d + 1) <= n PROVE time[i] <= time[i + (d + 1)]
      <3>1. i + d \in 1 .. n - 1 /\ (i + d) + 1 = i + (d + 1) /\ i + (d + 1) \in 1 .. n
            /\ i + d \in 1 .. n
        BY <2>1
      <3>2. time[i] <= time[i + d] /\ time[i + d] <= time[i + (d + 1)]
        BY <1>2, <1>4, <3>1
      <3>3. time[i] \in Int /\ time[i + d] \in Int /\ time[i + (d + 1)] \in Int
        BY <1>2, <3>1
      <3> QED
        BY <3>2, <3>3
    <2> QED
      BY <2>1
  <1> HIDE DEF Good
  <1>5. Nat \subseteq Good
    BY <1>3, <1>4, Induction
  <1>6. ASSUME NEW i \in 1 .. n, NEW j \in 1 .. n, i <= j PROVE time[i] <= time[j]
    <2>1. j - i \in Nat /\ i + (j - i) = j
      BY <1>6
    <2>2. j - i \in Good
      BY <1>5, <2>1
    <2> QED
      BY <2>1, <2>2 DEF Good
  <1> QED
    BY <1>1, <1>2, <1>6

\* What a request of a session is.
LEMMA RequestParts ==
  ASSUME CaptureTypeOK, NEW s, NEW m \in Nat
  PROVE  /\ IsFiniteSet(RequestsUpTo(s, m))
         /\ Cardinality(RequestsUpTo(s, m)) \in Nat
         /\ \A i, k : <<i, k>> \in RequestsUpTo(s, m) <=>
              /\ i \in 1 .. Len(capture) /\ k \in 1 .. 2 /\ i <= m
              /\ capture[i].session = s /\ k <= capture[i].events.requests
         /\ \A q \in RequestsUpTo(s, m) :
              q = <<q[1], q[2]>> /\ q[1] \in 1 .. Len(capture) /\ q[1] <= m
  <1> DEFINE pairs == (1 .. Len(capture)) \X (1 .. 2)
  <1>1. DOMAIN capture = 1 .. Len(capture) /\ Len(capture) \in Nat
    BY CaptureLength
  <1>2. RequestsUpTo(s, m) = {q \in pairs : /\ capture[q[1]].session = s
                                            /\ q[2] <= capture[q[1]].events.requests
                                            /\ q[1] <= m}
    BY <1>1 DEF RequestsUpTo, RequestsOf
  <1>3. IsFiniteSet(pairs)
    <2>1. IsFiniteSet(1 .. Len(capture))
      BY <1>1, FS_Interval
    <2>2. IsFiniteSet(1 .. 2)
      <3>1. PICK two \in Int : two = 2
        OBVIOUS
      <3>2. IsFiniteSet(1 .. two)
        BY FS_Interval
      <3> QED
        BY <3>1, <3>2
    <2> QED
      BY <2>1, <2>2, FS_Product
  <1>4. IsFiniteSet(RequestsUpTo(s, m))
    BY <1>2, <1>3, FS_Subset
  <1> QED
    BY <1>2, <1>4, FS_CardinalityType

\* A packet adds its requests to its own session.
LEMMA MoreRequests ==
  ASSUME CaptureTypeOK, NEW n \in 1 .. Len(capture), NEW s \in Session
  PROVE  LET r == IF capture[n].session = s THEN capture[n].events.requests ELSE 0
         IN  /\ r \in 0 .. 2
             /\ RequestsUpTo(s, n) = RequestsUpTo(s, n - 1) \cup {<<n, k>> : k \in 1 .. r}
             /\ Cardinality(RequestsUpTo(s, n)) = Cardinality(RequestsUpTo(s, n - 1)) + r
  <1>1. capture[n].events.requests \in 0 .. 2 /\ n \in Nat /\ n - 1 \in Nat
    BY CaptureLength, PacketParts
  <1>2. PICK r \in 0 .. 2 :
          r = IF capture[n].session = s THEN capture[n].events.requests ELSE 0
    BY <1>1
  <1> DEFINE Old == RequestsUpTo(s, n - 1)
             New == RequestsUpTo(s, n)
  <1>3. New = Old \cup {<<n, k>> : k \in 1 .. r}
    <2>1. ASSUME NEW q \in New PROVE q \in Old \cup {<<n, k>> : k \in 1 .. r}
      <3>1. PICK i \in 1 .. Len(capture), k \in 1 .. 2 :
              /\ q = <<i, k>> /\ i <= n
              /\ capture[i].session = s /\ k <= capture[i].events.requests
        BY <1>1, RequestParts
      <3>2. CASE i = n
        <4>1. k \in 1 .. r
          BY <1>2, <3>1, <3>2
        <4> QED
          BY <3>1, <3>2, <4>1
      <3>3. CASE i # n
        <4>1. i <= n - 1
          BY <1>1, <3>1, <3>3
        <4> QED
          BY <1>1, <3>1, <4>1, RequestParts
      <3> QED
        BY <3>2, <3>3
    <2>2. ASSUME NEW q \in Old PROVE q \in New
      <3>1. PICK i \in 1 .. Len(capture), k \in 1 .. 2 :
              /\ q = <<i, k>> /\ i <= n - 1
              /\ capture[i].session = s /\ k <= capture[i].events.requests
        BY <1>1, RequestParts
      <3>2. i <= n
        BY <1>1, <3>1
      <3> QED
        BY <1>1, <3>1, <3>2, RequestParts
    <2>3. ASSUME NEW k \in 1 .. r PROVE <<n, k>> \in New
      <3>1. capture[n].session = s /\ k \in 1 .. 2 /\ k <= capture[n].events.requests
        BY <1>2
      <3> QED
        BY <1>1, <3>1, RequestParts
    <2> QED
      BY <2>1, <2>2, <2>3
  <1>4. IsFiniteSet(Old) /\ Cardinality(Old) \in Nat
    BY <1>1, RequestParts
  <1>5. \A k : <<n, k>> \notin Old
    <2>1. ~(n <= n - 1)
      BY <1>1
    <2> QED
      BY <1>1, <2>1, RequestParts
  <1> HIDE DEF Old, New
  <1>6. Cardinality(New) = Cardinality(Old) + r
    <2>1. CASE r = 0
      <3>1. New = Old
        BY <1>3, <2>1
      <3> QED
        BY <1>4, <2>1, <3>1
    <2>2. CASE r = 1
      <3>1. New = Old \cup {<<n, 1>>}
        BY <1>3, <2>2
      <3> QED
        BY <1>4, <1>5, <2>2, <3>1, OneMore
    <2>3. CASE r = 2
      <3> DEFINE Mid == Old \cup {<<n, 1>>}
      <3>1. New = Mid \cup {<<n, 2>>} /\ <<n, 2>> \notin Mid
        BY <1>3, <1>5, <2>3
      <3>2. IsFiniteSet(Mid) /\ Cardinality(Mid) = Cardinality(Old) + 1
        BY <1>4, <1>5, OneMore
      <3> HIDE DEF Mid
      <3>3. Cardinality(New) = Cardinality(Mid) + 1
        BY <3>1, <3>2, OneMore
      <3> QED
        BY <1>4, <2>3, <3>2, <3>3
    <2> QED
      BY <2>1, <2>2, <2>3
  <1> QED
    BY <1>2, <1>3, <1>6 DEF Old, New

\* The times of a session after one more packet.
LEMMA MoreTimes ==
  ASSUME CaptureTypeOK, CaptureTypeOK', UNCHANGED capture,
         NEW n \in 1 .. Len(capture), NEW s \in Session, TimesOf(s, n - 1),
         NEW r \in 0 .. 2,
         r = IF capture[n].session = s THEN capture[n].events.requests ELSE 0,
         Len(sessions'[s]) = Len(sessions[s]) + r,
         \A i \in 1 .. Len(sessions[s]) : sessions'[s][i] = sessions[s][i],
         \A k \in 1 .. r : sessions'[s][Len(sessions[s]) + k] = capture[n].time
  PROVE  TimesOf(s, n)'
  <1> DEFINE t == sessions[s]
             u == sessions'[s]
             Old == RequestsUpTo(s, n - 1)
             New == RequestsUpTo(s, n)
  <1>1. PICK l \in Nat : /\ l = Len(t) /\ DOMAIN t = 1 .. l
                         /\ Len(u) = l + r /\ DOMAIN u = 1 .. l + r
    BY DEF CaptureTypeOK
  <1>2. RequestsUpTo(s, n)' = New
    BY DEF RequestsUpTo, RequestsOf
  <1>3. /\ n \in Nat /\ n - 1 \in Nat /\ n \in DOMAIN capture
        /\ New = Old \cup {<<n, k>> : k \in 1 .. r}
        /\ Cardinality(New) = Cardinality(Old) + r
        /\ Cardinality(Old) \in Nat
    BY MoreRequests, RequestParts, CaptureLength
  <1>4. /\ l = Cardinality(Old) /\ l <= 2 * (n - 1)
        /\ \A i \in 1 .. l : \E q \in Old : t[i] = capture[q[1]].time
        /\ \A q \in Old : \E i \in 1 .. l : t[i] = capture[q[1]].time
        /\ Chronological => Ascending(t)
    BY <1>1 DEF TimesOf
  <1>5. /\ \A i \in 1 .. l : u[i] = t[i] /\ i \in 1 .. l + r
        /\ \A k \in 1 .. r : u[l + k] = capture[n].time /\ l + k \in 1 .. l + r
        /\ \A i \in 1 .. l + r : i \in 1 .. l \/ (i - l \in 1 .. r /\ i = l + (i - l))
    <2>1. \A i \in 1 .. l : u[i] = t[i]
      BY <1>1
    <2>2. \A k \in 1 .. r : u[l + k] = capture[n].time
      BY <1>1
    <2> HIDE DEF t, u
    <2> HIDE DEF Old, New
    <2>3. ASSUME NEW i \in 1 .. l PROVE i \in 1 .. l + r
      OBVIOUS
    <2>4. ASSUME NEW k \in 1 .. r PROVE l + k \in 1 .. l + r
      OBVIOUS
    <2>5. ASSUME NEW i \in 1 .. l + r
          PROVE  i \in 1 .. l \/ (i - l \in 1 .. r /\ i = l + (i - l))
      OBVIOUS
    <2> QED
      BY <2>1, <2>2, <2>3, <2>4, <2>5
  <1>6. \A q \in Old : q[1] \in DOMAIN capture /\ q[1] <= n
    BY <1>3, RequestParts, CaptureLength
  <1> HIDE DEF t, u, Old, New
  <1>7. l + r = Cardinality(New) /\ l + r <= 2 * n
    BY <1>3, <1>4
  <1>8. ASSUME NEW i \in 1 .. l + r PROVE \E q \in New : u[i] = capture[q[1]].time
    <2>1. CASE i \in 1 .. l
      <3>1. PICK q \in Old : t[i] = capture[q[1]].time
        BY <1>4, <2>1
      <3>2. q \in New /\ u[i] = t[i]
        BY <1>3, <1>5, <2>1
      <3> QED
        BY <3>1, <3>2
    <2>2. CASE i - l \in 1 .. r /\ i = l + (i - l)
      <3>1. PICK k \in 1 .. r : i = l + k
        BY <2>2
      <3>2. <<n, k>> \in New
        BY <1>3
      <3>3. u[i] = capture[n].time
        BY <1>5, <3>1
      <3> QED
        BY <3>2, <3>3
    <2> QED
      BY <1>5, <2>1, <2>2
  <1>9. ASSUME NEW q \in New PROVE \E i \in 1 .. l + r : u[i] = capture[q[1]].time
    <2>1. CASE q \in Old
      BY <1>4, <1>5, <2>1
    <2>2. ASSUME NEW k \in 1 .. r, q = <<n, k>>
          PROVE  \E i \in 1 .. l + r : u[i] = capture[q[1]].time
      <3>1. u[l + k] = capture[q[1]].time /\ l + k \in 1 .. l + r
        BY <1>5, <2>2
      <3> QED
        BY <3>1
    <2> QED
      BY <1>3, <2>1, <2>2
  <1>10. ASSUME Chronological, NEW i \in 1 .. l + r, NEW j \in 1 .. l + r, i <= j
         PROVE  u[i] <= u[j]
    <2>1. \A k \in 1 .. l : t[k] <= capture[n].time
      <3>1. \A q \in Old : capture[q[1]].time <= capture[n].time
        BY <1>3, <1>6, <1>10, LaterTimes
      <3> QED
        BY <1>4, <3>1
    <2>2. capture[n].time \in Nat
      BY <1>3, CaptureLength, PacketParts
    <2>3. CASE j \in 1 .. l
      <3>1. i \in 1 .. l
        BY <1>10, <2>3
      <3> QED
        BY <1>1, <1>4, <1>5, <1>10, <2>3, <3>1 DEF Ascending
    <2>4. CASE j - l \in 1 .. r /\ j = l + (j - l)
      <3>1. u[j] = capture[n].time
        BY <1>5, <2>4
      <3>2. CASE i \in 1 .. l
        BY <1>5, <2>1, <3>1, <3>2
      <3>3. CASE i - l \in 1 .. r /\ i = l + (i - l)
        <4>1. u[i] = capture[n].time
          BY <1>5, <3>3
        <4> QED
          BY <2>2, <3>1, <4>1
      <3> QED
        BY <1>5, <3>2, <3>3
    <2> QED
      BY <1>5, <2>3, <2>4
  <1>11. Chronological' = Chronological
    BY DEF Chronological
  <1>12. Chronological' => Ascending(u)
    BY <1>1, <1>10, <1>11 DEF Ascending
  <1> QED
    <2>1. u = sessions'[s] /\ New = RequestsUpTo(s, n)'
      BY <1>2 DEF u, New
    <2>2. /\ Len(u) = Cardinality(New)
          /\ Len(u) <= 2 * n
          /\ \A i \in DOMAIN u : \E q \in New : u[i] = capture'[q[1]].time
          /\ \A q \in New : \E i \in DOMAIN u : u[i] = capture'[q[1]].time
      BY <1>1, <1>7, <1>8, <1>9
    <2>3. Ascending(sessions[s])' <=> Ascending(sessions'[s])
      BY DEF Ascending
    <2> QED
      BY <1>12, <2>1, <2>2, <2>3 DEF TimesOf

\* A packet belongs to one session; the times of the others stay.
LEMMA GroupKeeps ==
  CoverageInv /\ GroupEvents => CoverageInv'
  <1> SUFFICES ASSUME CoverageInv, GroupEvents PROVE CoverageInv'
    OBVIOUS
  <1>0. CaptureTypeOK /\ Grouped /\ MeasuredSoFar /\ WarnedSoFar
    BY DEF CoverageInv
  <1>g. /\ task = "grouping" /\ task' = "grouping"
        /\ capture' = capture /\ cycles' = cycles /\ warned' = warned
        /\ ahead' = ahead + 1 /\ ahead <= Len(capture)
    BY DEF GroupEvents
  <1>1. PICK n \in 1 .. Len(capture) : n = ahead
    BY <1>0, <1>g, CaptureLength DEF Grouped
  <1>2. PICK p \in Packet : p = capture[n]
    BY <1>0, CaptureLength
  <1>3. /\ p.session \in Session /\ p.time \in Time
        /\ p.events.requests \in 0 .. 2 /\ n \in Nat
    BY <1>0, <1>2, PacketParts, CaptureLength
  <1>4. PICK r \in 0 .. 2 : r = p.events.requests
    BY <1>3
  <1>5. sessions' = [sessions EXCEPT ![p.session] =
                       sessions[p.session] \o [k \in 1 .. r |-> p.time]]
    BY <1>1, <1>2, <1>4 DEF GroupEvents, RequestEvents
  <1>6. sessions \in [Session -> Seq(Time)]
    BY <1>0 DEF CaptureTypeOK
  <1>7. PICK t \in Seq(Time) : t = sessions[p.session]
    BY <1>3, <1>6
  <1> DEFINE w == [k \in 1 .. r |-> p.time]
  <1>8. w \in Seq(Time) /\ Len(w) = r /\ \A k \in 1 .. r : w[k] = p.time
    BY <1>3
  <1>9. sessions' = [sessions EXCEPT ![p.session] = t \o w]
    BY <1>5, <1>7
  <1> HIDE DEF w
  <1>10. /\ t \o w \in Seq(Time) /\ Len(t \o w) = Len(t) + r
         /\ \A i \in 1 .. Len(t) : (t \o w)[i] = t[i]
         /\ \A k \in 1 .. r : (t \o w)[Len(t) + k] = p.time
    BY <1>8
  <1>11. /\ sessions' \in [Session -> Seq(Time)]
         /\ sessions'[p.session] = t \o w
         /\ \A s \in Session : s # p.session => sessions'[s] = sessions[s]
    BY <1>3, <1>6, <1>9, <1>10
  <1>12. CaptureTypeOK'
    BY <1>0, <1>g, <1>11 DEF CaptureTypeOK
  <1>13. Visited = n - 1 /\ Visited' = n
    BY <1>g, <1>1, <1>3 DEF Visited
  <1>14. ASSUME NEW s \in Session PROVE TimesOf(s, n)'
    <2>1. TimesOf(s, n - 1)
      BY <1>0, <1>13 DEF Grouped
    <2>2. CASE s = p.session
      <3>1. r = IF capture[n].session = s THEN capture[n].events.requests ELSE 0
        BY <1>2, <1>4, <2>2
      <3>2. /\ Len(sessions'[s]) = Len(sessions[s]) + r
            /\ \A i \in 1 .. Len(sessions[s]) : sessions'[s][i] = sessions[s][i]
            /\ \A k \in 1 .. r : sessions'[s][Len(sessions[s]) + k] = capture[n].time
        BY <1>2, <1>7, <1>10, <1>11, <2>2
      <3> QED
        BY <1>0, <1>12, <1>g, <2>1, <3>1, <3>2, MoreTimes
    <2>3. CASE s # p.session
      <3>1. 0 \in 0 .. 2 /\ 0 = IF capture[n].session = s THEN capture[n].events.requests ELSE 0
        BY <1>2, <2>3
      <3>2. sessions'[s] = sessions[s] /\ Len(sessions[s]) \in Nat
        BY <1>6, <1>11, <2>3
      <3>3. /\ Len(sessions'[s]) = Len(sessions[s]) + 0
            /\ \A i \in 1 .. Len(sessions[s]) : sessions'[s][i] = sessions[s][i]
            /\ \A k \in 1 .. 0 : sessions'[s][Len(sessions[s]) + k] = capture[n].time
        BY <3>2
      <3> QED
        BY <1>0, <1>12, <1>g, <2>1, <3>1, <3>3, MoreTimes
    <2> QED
      BY <2>2, <2>3
  <1>15. Grouped'
    <2>1. (ahead \in 1 .. Len(capture) + 1 /\ cycles = <<>>)'
      <3>1. n + 1 \in 1 .. Len(capture) + 1
        BY <1>0, CaptureLength
      <3> QED
        BY <1>0, <1>g, <1>1, <3>1 DEF Grouped
    <2> QED
      BY <1>13, <1>14, <2>1 DEF Grouped
  <1>16. MeasuredSoFar'
    <2>1. cycles' = <<>> /\ Measured' = 0
      BY <1>0, <1>g DEF Grouped, Measured
    <2>2. \A S : <<>> \in Seq(S)
      BY EmptySeq
    <2>3. DOMAIN cycles' = {} /\ Len(cycles') = 0
      BY <2>1
    <2> QED
      BY <1>g, <2>1, <2>2, <2>3 DEF MeasuredSoFar
  <1>17. WarnedSoFar'
    <2>1. Reviewed = 0 /\ Reviewed' = 0
      BY <1>g DEF Reviewed
    <2>2. warned' = {}
      BY <1>0, <1>g, <2>1 DEF WarnedSoFar
    <2> QED
      BY <1>g, <2>1, <2>2 DEF WarnedSoFar
  <1> QED
    BY <1>12, <1>15, <1>16, <1>17 DEF CoverageInv

-----------------------------------------------------------------------------
(***************************************************************************)
(* Measuring and warning leave what was grouped alone.                     *)
(***************************************************************************)
LEMMA TimesStay ==
  ASSUME UNCHANGED <<capture, sessions>>, NEW s, NEW m, TimesOf(s, m)
  PROVE  TimesOf(s, m)'
  BY DEF TimesOf, RequestsUpTo, RequestsOf, Chronological, Ascending

LEMMA GroupedStays ==
  ASSUME CaptureTypeOK, Grouped, UNCHANGED <<capture, sessions>>,
         Visited = Len(capture), task' # "grouping"
  PROVE  CaptureTypeOK' /\ Grouped'
  <1>1. CaptureTypeOK'
    BY DEF CaptureTypeOK
  <1>2. Visited' = Len(capture)
    BY DEF Visited
  <1>4. \A s \in Session : TimesOf(s, Len(capture))
    BY DEF Grouped
  <1>5. \A s \in Session : TimesOf(s, Len(capture))'
    BY <1>4, TimesStay
  <1> QED
    BY <1>1, <1>2, <1>5 DEF Grouped

\* The times are integers, and a session that can be measured has an interval.
LEMMA SessionTimes ==
  ASSUME CaptureTypeOK, NEW s \in Session
  PROVE  /\ sessions[s] \in Seq(Time) /\ sessions[s] \in Seq(Int)
         /\ Len(sessions[s]) \in Nat /\ DOMAIN sessions[s] = 1 .. Len(sessions[s])
         /\ \A i \in DOMAIN sessions[s] : sessions[s][i] \in Nat
         /\ Measurable(sessions[s]) <=> Len(sessions[s]) >= 2
  <1>1. PICK t \in Seq(Time) : t = sessions[s]
    BY DEF CaptureTypeOK
  <1>2. Len(t) \in Nat /\ DOMAIN t = 1 .. Len(t) /\ \A i \in 1 .. Len(t) : t[i] \in Time
    OBVIOUS
  <1>3. \A i \in 1 .. Len(t) : t[i] \in Nat /\ t[i] \in Int
    <2>1. \A x \in Time : x \in Nat /\ x \in Int
      BY CoverageAssumption
    <2> QED
      BY <1>2, <2>1
  <1>4. t \in Seq(Int)
    BY <1>2, <1>3
  <1> QED
    BY <1>1, <1>2, <1>3, <1>4 DEF Measurable, MinRequestsForCycle

CyclesOfSessions == {CycleOf(s) : s \in {r \in Session : Measurable(sessions[r])}}

LEMMA CyclesType ==
  ASSUME CaptureTypeOK, cycles \in Seq(CyclesOfSessions)
  PROVE  /\ Len(cycles) \in Nat /\ DOMAIN cycles = 1 .. Len(cycles)
         /\ \A i \in DOMAIN cycles :
              /\ cycles[i].session_id \in Session
              /\ cycles[i].session_id \in Nat
              /\ Measurable(sessions[cycles[i].session_id])
              /\ cycles[i] = CycleOf(cycles[i].session_id)
  <1>1. Len(cycles) \in Nat /\ DOMAIN cycles = 1 .. Len(cycles)
        /\ \A i \in DOMAIN cycles : cycles[i] \in CyclesOfSessions
    OBVIOUS
  <1>2. ASSUME NEW c \in CyclesOfSessions
        PROVE  /\ c.session_id \in Session
               /\ c.session_id \in Nat
               /\ Measurable(sessions[c.session_id])
               /\ c = CycleOf(c.session_id)
    <2>1. PICK s \in Session : Measurable(sessions[s]) /\ c = CycleOf(s)
      BY DEF CyclesOfSessions
    <2>2. c.session_id = s
      BY <2>1 DEF CycleOf
    <2> QED
      BY <2>1, <2>2, CoverageAssumption
  <1> QED
    BY <1>1, <1>2

LEMMA MeasureKeeps ==
  CoverageInv /\ MeasureSession => CoverageInv'
  <1> SUFFICES ASSUME CoverageInv, MeasureSession PROVE CoverageInv'
    OBVIOUS
  <1>0. CaptureTypeOK /\ Grouped /\ MeasuredSoFar /\ WarnedSoFar
    BY DEF CoverageInv
  <1>m. /\ task = "measuring" /\ task' = "measuring"
        /\ capture' = capture /\ sessions' = sessions /\ warned' = warned
        /\ ahead' = ahead + 1 /\ ahead <= Len(InOrder)
    BY DEF MeasureSession
  <1>1. PICK n \in Nat : n = Cardinality(Session)
    BY SessionsInOrder
  <1>2. PICK a \in 1 .. n : a = ahead
    BY <1>0, <1>m, <1>1, SessionsInOrder DEF MeasuredSoFar
  <1>3. Measured = a - 1 /\ Measured' = a
    BY <1>m, <1>2 DEF Measured
  <1>4. CaptureTypeOK' /\ Grouped'
    <2>1. Visited = Len(capture)
      BY <1>m DEF Visited
    <2> QED
      BY <1>0, <1>m, <2>1, GroupedStays
  <1>5. PICK s \in Session : s = InOrder[a]
    BY <1>1, SessionsInOrder
  <1> DEFINE C == CyclesOfSessions
  <1>6. cycles \in Seq(C) /\ C' = C
    BY <1>0, <1>m DEF MeasuredSoFar, CyclesOfSessions, CycleOf
  <1>7. PICK l \in Nat : l = Len(cycles) /\ DOMAIN cycles = 1 .. l /\ l <= a - 1
    BY <1>0, <1>3, <1>6 DEF MeasuredSoFar
  <1>8. cycles' = IF Measurable(sessions[s]) THEN Append(cycles, CycleOf(s)) ELSE cycles
    BY <1>2, <1>5 DEF MeasureSession, CycleOf
  <1>9. /\ \A i \in 1 .. l : \E k \in 1 .. a - 1 : InOrder[k] = cycles[i].session_id
        /\ \A k \in 1 .. a - 1 :
             Measurable(sessions[InOrder[k]])
               => \E i \in 1 .. l : cycles[i].session_id = InOrder[k]
        /\ \A i, j \in 1 .. l : i < j => cycles[i].session_id < cycles[j].session_id
    BY <1>0, <1>3, <1>7 DEF MeasuredSoFar
  <1>10. /\ a \in Nat /\ a \in 1 .. a /\ \A k \in 1 .. a - 1 : k \in 1 .. a /\ k \in 1 .. n /\ k < a
         /\ \A k \in 1 .. a : k \in 1 .. a - 1 \/ k = a
    BY <1>1
  <1>11. \A k \in 1 .. a - 1 : InOrder[k] < s
    BY <1>1, <1>5, <1>10, SessionsInOrder
  <1>12. MeasuredSoFar'
    <2>1. ahead' \in 1 .. n + 1
      BY <1>m, <1>1, <1>2
    <2>2. CASE ~Measurable(sessions[s])
      <3>1. cycles' = cycles
        BY <1>8, <2>2
      <3>2. /\ \A i \in 1 .. l : \E k \in 1 .. a : InOrder[k] = cycles[i].session_id
            /\ \A k \in 1 .. a :
                 Measurable(sessions[InOrder[k]])
                   => \E i \in 1 .. l : cycles[i].session_id = InOrder[k]
        BY <1>5, <1>9, <1>10, <2>2
      <3>3. l <= a
        BY <1>7, <1>10
      <3>4. InOrder' = InOrder
        BY DEF InOrder, Rank
      <3> HIDE DEF C
      <3> QED
        BY <1>m, <1>1, <1>3, <1>6, <1>7, <1>9, <2>1, <3>1, <3>2, <3>3, <3>4
           DEF MeasuredSoFar, C, CyclesOfSessions
    <2>3. CASE Measurable(sessions[s])
      <3>1. CycleOf(s) \in C /\ CycleOf(s).session_id = s
        BY <2>3 DEF CyclesOfSessions, CycleOf
      <3> HIDE DEF C
      <3>2. /\ cycles' \in Seq(C) /\ Len(cycles') = l + 1 /\ DOMAIN cycles' = 1 .. l + 1
            /\ \A i \in 1 .. l : cycles'[i] = cycles[i] /\ i \in 1 .. l + 1
            /\ cycles'[l + 1] = CycleOf(s) /\ l + 1 \in 1 .. l + 1
        BY <1>6, <1>7, <1>8, <2>3, <3>1
      <3>3. \A i \in 1 .. l + 1 : i \in 1 .. l \/ i = l + 1
        BY <1>7
      <3>4. /\ \A i \in 1 .. l : cycles'[i].session_id = cycles[i].session_id
            /\ cycles'[l + 1].session_id = s
        BY <3>1, <3>2
      <3>5. \A i \in 1 .. l + 1 : \E k \in 1 .. a : InOrder[k] = cycles'[i].session_id
        BY <1>5, <1>9, <1>10, <3>3, <3>4
      <3>6. \A k \in 1 .. a :
              Measurable(sessions[InOrder[k]])
                => \E i \in 1 .. l + 1 : cycles'[i].session_id = InOrder[k]
        <4>1. ASSUME NEW k \in 1 .. a - 1, Measurable(sessions[InOrder[k]])
              PROVE  \E i \in 1 .. l + 1 : cycles'[i].session_id = InOrder[k]
          <5>1. PICK i \in 1 .. l : cycles[i].session_id = InOrder[k]
            BY <1>9, <4>1
          <5> QED
            BY <3>2, <3>4, <5>1
        <4>2. \E i \in 1 .. l + 1 : cycles'[i].session_id = InOrder[a]
          BY <1>5, <3>2, <3>4
        <4> QED
          BY <1>10, <4>1, <4>2
      <3>7. ASSUME NEW i \in 1 .. l + 1, NEW j \in 1 .. l + 1, i < j
            PROVE  cycles'[i].session_id < cycles'[j].session_id
        <4>1. i \in 1 .. l
          BY <1>7, <3>7
        <4>2. CASE j \in 1 .. l
          BY <1>9, <3>4, <3>7, <4>1, <4>2
        <4>3. CASE j = l + 1
          BY <1>9, <1>11, <3>4, <4>1, <4>3
        <4> QED
          BY <3>3, <4>2, <4>3
      <3>8. l + 1 <= a
        BY <1>7, <1>10
      <3>9. InOrder' = InOrder
        BY DEF InOrder, Rank
      <3>10. cycles' \in Seq({CycleOf(r)' : r \in {q \in Session : Measurable(sessions'[q])}})
        BY <1>6, <3>2 DEF C, CyclesOfSessions
      <3> QED
        BY <1>m, <1>1, <1>3, <2>1, <3>2, <3>5, <3>6, <3>7, <3>8, <3>9, <3>10
           DEF MeasuredSoFar
    <2> QED
      BY <2>2, <2>3
  <1>13. WarnedSoFar'
    <2>1. Reviewed = 0 /\ Reviewed' = 0
      BY <1>m DEF Reviewed
    <2>2. warned' = {}
      BY <1>0, <1>m, <2>1 DEF WarnedSoFar
    <2> QED
      BY <1>m, <2>1, <2>2 DEF WarnedSoFar
  <1> QED
    BY <1>4, <1>12, <1>13 DEF CoverageInv

-----------------------------------------------------------------------------
(***************************************************************************)
(* The ends of the three loops, and the warnings.                          *)
(***************************************************************************)
LEMMA GroupingEnds ==
  CoverageInv /\ EndTask("grouping", "measuring", Len(capture)) => CoverageInv'
  <1> SUFFICES ASSUME CoverageInv, EndTask("grouping", "measuring", Len(capture))
               PROVE  CoverageInv'
    OBVIOUS
  <1>0. CaptureTypeOK /\ Grouped /\ MeasuredSoFar /\ WarnedSoFar
    BY DEF CoverageInv
  <1>e. /\ task = "grouping" /\ ahead > Len(capture) /\ task' = "measuring" /\ ahead' = 1
        /\ capture' = capture /\ sessions' = sessions
        /\ cycles' = cycles /\ warned' = warned
    BY DEF EndTask
  <1>1. Visited = Len(capture)
    <2>1. ahead \in 1 .. Len(capture) + 1 /\ Len(capture) \in Nat
      BY <1>0, <1>e, CaptureLength DEF Grouped
    <2> QED
      BY <1>e, <2>1 DEF Visited
  <1>2. CaptureTypeOK' /\ Grouped'
    BY <1>0, <1>e, <1>1, GroupedStays
  <1>3. MeasuredSoFar'
    <2>1. cycles' = <<>> /\ Measured' = 0 /\ Cardinality(Session) \in Nat
      BY <1>0, <1>e, SessionsInOrder DEF Grouped, Measured
    <2>2. \A S : <<>> \in Seq(S)
      BY EmptySeq
    <2>3. DOMAIN cycles' = {} /\ Len(cycles') = 0 /\ 1 \in 1 .. Cardinality(Session) + 1
      BY <2>1
    <2> QED
      BY <1>e, <2>1, <2>2, <2>3 DEF MeasuredSoFar
  <1>4. WarnedSoFar'
    <2>1. Reviewed = 0 /\ Reviewed' = 0
      BY <1>e DEF Reviewed
    <2>2. warned' = {}
      BY <1>0, <1>e, <2>1 DEF WarnedSoFar
    <2> QED
      BY <1>e, <2>1, <2>2 DEF WarnedSoFar
  <1> QED
    BY <1>2, <1>3, <1>4 DEF CoverageInv

\* When no session is measured, the cycles stay.
LEMMA CyclesStay ==
  ASSUME MeasuredSoFar, UNCHANGED <<sessions, cycles>>, Measured' = Measured,
         task' = "measuring" => task = "measuring" /\ ahead' = ahead
  PROVE  MeasuredSoFar'
  <1>1. CyclesOfSessions' = CyclesOfSessions
    BY DEF CyclesOfSessions, CycleOf
  <1>2. InOrder' = InOrder
    BY DEF InOrder, Rank
  <1> QED
    BY <1>1, <1>2 DEF MeasuredSoFar, CyclesOfSessions

LEMMA MeasuringEnds ==
  CoverageInv /\ EndTask("measuring", "assessing", Cardinality(Session)) => CoverageInv'
  <1> SUFFICES ASSUME CoverageInv,
                      EndTask("measuring", "assessing", Cardinality(Session))
               PROVE  CoverageInv'
    OBVIOUS
  <1>0. CaptureTypeOK /\ Grouped /\ MeasuredSoFar /\ WarnedSoFar
    BY DEF CoverageInv
  <1>e. /\ task = "measuring" /\ ahead > Cardinality(Session)
        /\ task' = "assessing" /\ ahead' = 1
        /\ capture' = capture /\ sessions' = sessions
        /\ cycles' = cycles /\ warned' = warned
    BY DEF EndTask
  <1>1. Visited = Len(capture) /\ task' # "grouping"
    BY <1>e DEF Visited
  <1>2. CaptureTypeOK' /\ Grouped'
    BY <1>0, <1>e, <1>1, GroupedStays
  <1>3. Measured = Cardinality(Session)
    <2>1. ahead \in 1 .. Cardinality(Session) + 1 /\ Cardinality(Session) \in Nat
      BY <1>0, <1>e, SessionsInOrder DEF MeasuredSoFar
    <2> QED
      BY <1>e, <2>1 DEF Measured
  <1>4. MeasuredSoFar'
    <2>1. Measured' = Measured
      BY <1>e, <1>3 DEF Measured
    <2> QED
      BY <1>0, <1>e, <2>1, CyclesStay
  <1>5. WarnedSoFar'
    <2>1. Reviewed = 0 /\ Reviewed' = 0
      BY <1>e DEF Reviewed
    <2>2. warned' = {}
      BY <1>0, <1>e, <2>1 DEF WarnedSoFar
    <2>3. Len(cycles') \in Nat
      BY <1>0, <1>e, CyclesType DEF MeasuredSoFar, CyclesOfSessions
    <2> QED
      BY <1>e, <2>1, <2>2, <2>3 DEF WarnedSoFar
  <1> QED
    BY <1>2, <1>4, <1>5 DEF CoverageInv

LEMMA AssessKeeps ==
  CoverageInv /\ AssessCycle => CoverageInv'
  <1> SUFFICES ASSUME CoverageInv, AssessCycle PROVE CoverageInv'
    OBVIOUS
  <1>0. CaptureTypeOK /\ Grouped /\ MeasuredSoFar /\ WarnedSoFar
    BY DEF CoverageInv
  <1>a. /\ task = "assessing" /\ task' = "assessing" /\ ahead <= Len(cycles)
        /\ ahead' = ahead + 1 /\ capture' = capture /\ sessions' = sessions
        /\ cycles' = cycles
        /\ warned' = IF TooShortFor(cycles[ahead])
                     THEN warned \cup {cycles[ahead].session_id} ELSE warned
    BY DEF AssessCycle
  <1>1. Visited = Len(capture) /\ Measured = Cardinality(Session) /\ task' # "grouping"
    BY <1>a DEF Visited, Measured
  <1>2. CaptureTypeOK' /\ Grouped'
    BY <1>0, <1>a, <1>1, GroupedStays
  <1>3. MeasuredSoFar'
    <2>1. Measured' = Measured
      BY <1>a DEF Measured
    <2> QED
      BY <1>0, <1>a, <2>1, CyclesStay
  <1>4. PICK l \in Nat : l = Len(cycles)
    BY <1>0, CyclesType DEF MeasuredSoFar, CyclesOfSessions
  <1>5. PICK n \in 1 .. l : n = ahead
    BY <1>0, <1>a, <1>4 DEF WarnedSoFar
  <1>6. WarnedSoFar'
    <2>1. Reviewed = n - 1 /\ Reviewed' = n
      BY <1>a, <1>5 DEF Reviewed
    <2>2. WindowDuration' = WindowDuration
      BY <1>a DEF WindowDuration, Times
    <2> DEFINE Short(m) == {j \in 1 .. m : TooShortFor(cycles[j])}
    <2>3. warned = {cycles[i].session_id : i \in Short(n - 1)}
      BY <1>0, <2>1 DEF WarnedSoFar
    <2>4. Short(n) = IF TooShortFor(cycles[n]) THEN Short(n - 1) \cup {n} ELSE Short(n - 1)
      <3>1. \A j \in 1 .. n : j \in 1 .. n - 1 \/ j = n
        OBVIOUS
      <3>2. n \in 1 .. n /\ \A j \in 1 .. n - 1 : j \in 1 .. n
        OBVIOUS
      <3> QED
        BY <3>1, <3>2
    <2> HIDE DEF Short
    <2>5. warned' = {cycles[i].session_id : i \in Short(n)}
      BY <1>a, <1>5, <2>3, <2>4
    <2>6. {j \in 1 .. Reviewed : TooShortFor(cycles[j])}' = Short(n)
      BY <1>a, <2>1, <2>2 DEF Short, TooShortFor
    <2>7. ahead' \in 1 .. Len(cycles') + 1
      BY <1>a, <1>4, <1>5
    <2> QED
      BY <1>a, <2>5, <2>6, <2>7 DEF WarnedSoFar
  <1> QED
    BY <1>2, <1>3, <1>6 DEF CoverageInv

LEMMA AssessingEnds ==
  CoverageInv /\ EndTask("assessing", "assessed", Len(cycles)) => CoverageInv'
  <1> SUFFICES ASSUME CoverageInv, EndTask("assessing", "assessed", Len(cycles))
               PROVE  CoverageInv'
    OBVIOUS
  <1>0. CaptureTypeOK /\ Grouped /\ MeasuredSoFar /\ WarnedSoFar
    BY DEF CoverageInv
  <1>e. /\ task = "assessing" /\ ahead > Len(cycles)
        /\ task' = "assessed" /\ ahead' = 1
        /\ capture' = capture /\ sessions' = sessions
        /\ cycles' = cycles /\ warned' = warned
    BY DEF EndTask
  <1>1. Visited = Len(capture) /\ Measured = Cardinality(Session) /\ task' # "grouping"
    BY <1>e DEF Visited, Measured
  <1>2. CaptureTypeOK' /\ Grouped'
    BY <1>0, <1>e, <1>1, GroupedStays
  <1>3. MeasuredSoFar'
    <2>1. Measured' = Measured
      BY <1>e DEF Measured
    <2> QED
      BY <1>0, <1>e, <2>1, CyclesStay
  <1>4. WarnedSoFar'
    <2>1. Len(cycles) \in Nat /\ ahead \in 1 .. Len(cycles) + 1
      BY <1>0, <1>e, CyclesType DEF MeasuredSoFar, CyclesOfSessions, WarnedSoFar
    <2>2. Reviewed = Len(cycles) /\ Reviewed' = Len(cycles)
      BY <1>e, <2>1 DEF Reviewed
    <2>3. \A c : TooShortFor(c)' <=> TooShortFor(c)
      BY <1>e DEF TooShortFor, WindowDuration, Times
    <2> QED
      BY <1>0, <1>e, <2>2, <2>3 DEF WarnedSoFar
  <1> QED
    BY <1>2, <1>3, <1>4 DEF CoverageInv

-----------------------------------------------------------------------------
(***************************************************************************)
(* The invariant holds at first and is kept.                               *)
(***************************************************************************)
LEMMA CoverageInvInit == CoverageInit => CoverageInv
  <1> SUFFICES ASSUME CoverageInit PROVE CoverageInv
    OBVIOUS
  <1> USE DEF CoverageInit
  <1>e. <<>> \in Seq(Time) /\ \A S : <<>> \in Seq(S)
    BY EmptySeq
  <1>1. CaptureTypeOK
    <2>1. PICK n \in 0 .. MaxPackets : capture \in [1 .. n -> Packet]
      OBVIOUS
    <2>2. n \in Nat /\ n <= MaxPackets
      BY CoverageAssumption
    <2>3. capture \in Seq(Packet) /\ Len(capture) = n
      BY <2>1, <2>2
    <2> QED
      BY <1>e, <2>2, <2>3 DEF CaptureTypeOK
  <1>2. Grouped
    <2>1. Visited = 0
      BY DEF Visited
    <2>2. ASSUME NEW s \in Session PROVE TimesOf(s, 0)
      <3>1. sessions[s] = <<>>
        OBVIOUS
      <3>2. RequestsUpTo(s, 0) = {}
        BY <1>1, RequestParts
      <3>3. Cardinality(RequestsUpTo(s, 0)) = 0
        BY <3>2, FS_EmptySet
      <3> QED
        BY <3>1, <3>2, <3>3 DEF TimesOf, Ascending
    <2>3. 1 \in 1 .. Len(capture) + 1
      BY <1>1, CaptureLength
    <2> QED
      BY <2>1, <2>2, <2>3 DEF Grouped
  <1>3. MeasuredSoFar
    <2>1. Measured = 0 /\ DOMAIN cycles = {} /\ Len(cycles) = 0
      BY DEF Measured
    <2> QED
      BY <1>e, <2>1 DEF MeasuredSoFar
  <1>4. WarnedSoFar
    <2>1. Reviewed = 0
      BY DEF Reviewed
    <2> QED
      BY <2>1 DEF WarnedSoFar
  <1> QED
    BY <1>1, <1>2, <1>3, <1>4 DEF CoverageInv

LEMMA CoverageInvNext == CoverageInv /\ [CoverageNext]_coverageVars => CoverageInv'
  <1>1. ASSUME CoverageInv, UNCHANGED coverageVars PROVE CoverageInv'
    <2> USE <1>1 DEF CoverageInv, coverageVars
    <2>1. CaptureTypeOK'
      BY DEF CaptureTypeOK
    <2>2. Grouped'
      <3>1. Visited' = Visited
        BY DEF Visited
      <3>2. \A s \in Session : TimesOf(s, Visited)
        BY DEF Grouped
      <3>3. \A s \in Session : TimesOf(s, Visited)'
        BY <3>1, <3>2, TimesStay
      <3> QED
        BY <3>3 DEF Grouped
    <2>3. MeasuredSoFar'
      <3>1. Measured' = Measured
        BY DEF Measured
      <3> QED
        BY <3>1, CyclesStay
    <2>4. WarnedSoFar'
      BY DEF WarnedSoFar, Reviewed, TooShortFor, WindowDuration, Times
    <2> QED
      BY <2>1, <2>2, <2>3, <2>4
  <1> QED
    BY <1>1, GroupKeeps, GroupingEnds, MeasureKeeps, MeasuringEnds, AssessKeeps,
       AssessingEnds DEF CoverageNext

-----------------------------------------------------------------------------
(***************************************************************************)
(* What the invariant says of the state.                                   *)
(***************************************************************************)

\* As soon as there is a cycle, the whole capture was grouped.
LEMMA MeasuredCycle ==
  ASSUME CoverageInv, NEW c \in Cycles
  PROVE  /\ c.session_id \in Session
         /\ Len(sessions[c.session_id]) >= 2
         /\ c.measured_cycle_s = Longest(sessions[c.session_id])
         /\ c.request_count = Len(sessions[c.session_id])
         /\ Visited = Len(capture)
  <1>0. CaptureTypeOK /\ Grouped /\ MeasuredSoFar
    BY DEF CoverageInv
  <1>1. cycles \in Seq(CyclesOfSessions)
    BY <1>0 DEF MeasuredSoFar, CyclesOfSessions
  <1>2. PICK i \in DOMAIN cycles : c = cycles[i]
    BY DEF Cycles
  <1>3. /\ c.session_id \in Session /\ Measurable(sessions[c.session_id])
        /\ c = CycleOf(c.session_id)
    BY <1>0, <1>1, <1>2, CyclesType
  <1>4. PICK s \in Session : s = c.session_id
    BY <1>3
  <1>5. c.measured_cycle_s = Longest(sessions[s]) /\ c.request_count = Len(sessions[s])
    BY <1>3, <1>4 DEF CycleOf
  <1>6. task # "grouping"
    <2>1. cycles # <<>>
      BY <1>2
    <2> QED
      BY <1>0, <2>1 DEF Grouped
  <1> QED
    BY <1>0, <1>3, <1>4, <1>5, <1>6, SessionTimes DEF Visited

\* The requests up to the last packet are all of them.
LEMMA AllRequests ==
  ASSUME CaptureTypeOK, NEW s
  PROVE  /\ RequestsUpTo(s, Len(capture)) = RequestsOf(s)
         /\ \A q \in RequestsOf(s) : q[1] \in DOMAIN capture
  <1>1. \A q \in RequestsOf(s) : q[1] \in DOMAIN capture
    BY DEF RequestsOf
  <1>2. \A q \in RequestsOf(s) : q[1] <= Len(capture)
    BY <1>1, CaptureLength
  <1> QED
    BY <1>1, <1>2 DEF RequestsUpTo

\* A time of a session is a time of the capture.
LEMMA TimesInWindow ==
  ASSUME CoverageInv, Visited = Len(capture), NEW s \in Session,
         NEW i \in DOMAIN sessions[s]
  PROVE  /\ capture # <<>>
         /\ sessions[s][i] \in Nat
         /\ Min(Times) <= sessions[s][i] /\ sessions[s][i] <= Max(Times)
  <1>0. CaptureTypeOK /\ Grouped
    BY DEF CoverageInv
  <1>1. TimesOf(s, Len(capture))
    BY <1>0 DEF Grouped
  <1>2. PICK q \in RequestsOf(s) : sessions[s][i] = capture[q[1]].time
    BY <1>0, <1>1, AllRequests DEF TimesOf
  <1>3. q[1] \in DOMAIN capture
    BY <1>0, <1>2, AllRequests
  <1>4. capture # <<>>
    BY <1>3
  <1> QED
    BY <1>0, <1>2, <1>3, <1>4, WindowEnds, SessionTimes

LEMMA InvSpans == CoverageInv => WindowSpansCycles
  <1> SUFFICES ASSUME CoverageInv, NEW c \in Cycles
               PROVE  /\ c.measured_cycle_s <= WindowDuration
                      /\ c.request_count = Cardinality(RequestsOf(c.session_id))
    BY DEF WindowSpansCycles
  <1>0. CaptureTypeOK /\ Grouped
    BY DEF CoverageInv
  <1>1. PICK s \in Session : s = c.session_id
    BY MeasuredCycle
  <1>2. /\ Len(sessions[s]) >= 2 /\ Visited = Len(capture)
        /\ c.measured_cycle_s = Longest(sessions[s])
        /\ c.request_count = Len(sessions[s])
    BY <1>1, MeasuredCycle
  <1>3. PICK n \in Nat : n = Len(sessions[s]) /\ DOMAIN sessions[s] = 1 .. n /\ n >= 2
    BY <1>0, <1>2, SessionTimes
  <1>4. PICK i \in 1 .. n - 1 : Longest(sessions[s]) = sessions[s][i + 1] - sessions[s][i]
    BY <1>0, <1>3, SessionTimes, LongestInterval
  <1>5. i \in 1 .. n /\ i + 1 \in 1 .. n
    BY <1>3
  <1>6. c.measured_cycle_s <= WindowDuration
    <2>1. /\ capture # <<>>
          /\ sessions[s][i] \in Nat /\ Min(Times) <= sessions[s][i]
          /\ sessions[s][i + 1] \in Nat /\ sessions[s][i + 1] <= Max(Times)
      BY <1>2, <1>3, <1>5, TimesInWindow
    <2>2. /\ WindowDuration = Max(Times) - Min(Times)
          /\ Max(Times) \in Nat /\ Min(Times) \in Nat
      BY <1>0, <2>1, WindowEnds
    <2>3. PICK a \in Nat, b \in Nat, lo \in Nat, hi \in Nat :
            /\ a = sessions[s][i] /\ b = sessions[s][i + 1]
            /\ lo = Min(Times) /\ hi = Max(Times)
      BY <2>1, <2>2
    <2>4. b - a <= hi - lo
      <3>1. lo <= a /\ b <= hi
        BY <2>1, <2>3
      <3> QED
        BY <3>1
    <2> QED
      BY <1>2, <1>4, <2>2, <2>3, <2>4
  <1>7. c.request_count = Cardinality(RequestsOf(s))
    <2>1. TimesOf(s, Len(capture))
      BY <1>0, <1>2 DEF Grouped
    <2> QED
      BY <1>0, <1>2, <2>1, AllRequests DEF TimesOf
  <1> QED
    BY <1>1, <1>6, <1>7

\* The type invariant.
LEMMA InvTypes == CoverageInv => CoverageTypeOK
  <1> SUFFICES ASSUME CoverageInv PROVE CoverageTypeOK
    OBVIOUS
  <1>0. CaptureTypeOK /\ Grouped /\ MeasuredSoFar /\ WarnedSoFar
    BY DEF CoverageInv
  <1>1. cycles \in Seq(CyclesOfSessions)
    BY <1>0 DEF MeasuredSoFar, CyclesOfSessions
  <1>2. PICK n \in Nat, l \in Nat, k \in Nat :
          /\ n = Len(capture) /\ n <= MaxPackets
          /\ l = Len(cycles) /\ DOMAIN cycles = 1 .. l
          /\ k = Cardinality(Session)
    BY <1>0, <1>1, CaptureLength, CyclesType, SessionsInOrder DEF CaptureTypeOK
  <1>3. l <= k
    <2>1. task # "grouping" /\ task # "measuring" => Measured = k
      BY <1>2 DEF Measured
    <2>2. task = "measuring" => Measured <= k
      BY <1>0, <1>2 DEF Measured, MeasuredSoFar
    <2>3. task = "grouping" => l = 0
      BY <1>0, <1>2 DEF Grouped
    <2>4. l <= Measured
      BY <1>0, <1>2 DEF MeasuredSoFar
    <2>5. task = "measuring" => Measured \in Int
      BY <1>0, <1>2 DEF Measured, MeasuredSoFar
    <2> QED
      BY <1>2, <2>1, <2>2, <2>3, <2>4, <2>5
  <1>4. ahead \in 1 .. MaxPackets + k + 1
    <2>1. /\ task = "grouping" => ahead \in 1 .. n + 1
          /\ task = "measuring" => ahead \in 1 .. k + 1
          /\ task = "assessing" => ahead \in 1 .. l + 1
          /\ task = "assessed" => ahead = 1
          /\ task \in {"grouping", "measuring", "assessing", "assessed"}
      BY <1>0, <1>2 DEF Grouped, MeasuredSoFar, WarnedSoFar
    <2>2. MaxPackets \in Nat
      BY CoverageAssumption
    <2>3. ahead \in 1 .. n + 1 \/ ahead \in 1 .. k + 1 \/ ahead \in 1 .. l + 1 \/ ahead = 1
      BY <2>1
    <2> QED
      BY <1>2, <1>3, <2>2, <2>3
  <1>5. ASSUME NEW i \in DOMAIN cycles
        PROVE  cycles[i] \in [session_id : Session, measured_cycle_s : Int,
                              request_count : 2 .. 2 * MaxPackets]
    <2>1. /\ cycles[i] \in Cycles
          /\ cycles[i] = CycleOf(cycles[i].session_id)
      BY <1>0, <1>1, CyclesType DEF Cycles
    <2>2. PICK s \in Session : s = cycles[i].session_id
      BY <2>1, MeasuredCycle
    <2>3. /\ Len(sessions[s]) >= 2 /\ Visited = Len(capture)
      BY <2>1, <2>2, MeasuredCycle
    <2>4. Len(sessions[s]) \in Nat /\ Longest(sessions[s]) \in Int
      BY <1>0, <2>3, SessionTimes, LongestInterval
    <2>5. Len(sessions[s]) <= 2 * n
      BY <1>0, <1>2, <2>3 DEF Grouped, TimesOf
    <2>6. MaxPackets \in Nat
      BY CoverageAssumption
    <2>7. Len(sessions[s]) \in 2 .. 2 * MaxPackets
      <3>1. PICK m \in Nat : m = Len(sessions[s])
        BY <2>4
      <3> QED
        BY <1>2, <2>3, <2>5, <2>6, <3>1
    <2> QED
      BY <2>1, <2>2, <2>4, <2>7 DEF CycleOf
  <1>6. cycles \in Seq([session_id : Session, measured_cycle_s : Int,
                        request_count : 2 .. 2 * MaxPackets])
    <2> DEFINE R == [session_id : Session, measured_cycle_s : Int,
                     request_count : 2 .. 2 * MaxPackets]
    <2>1. \A i \in 1 .. l : cycles[i] \in R
      BY <1>2, <1>5
    <2> HIDE DEF R
    <2>2. cycles = [i \in 1 .. l |-> cycles[i]]
      BY <1>1, <1>2
    <2>3. [i \in 1 .. l |-> cycles[i]] \in Seq(R)
      BY <2>1
    <2> QED
      BY <2>2, <2>3 DEF R
  <1>7. warned \subseteq {c.session_id : c \in Cycles}
    <2>1. task = "assessing" => Reviewed <= l /\ Reviewed \in Int
      BY <1>0, <1>2 DEF Reviewed, WarnedSoFar
    <2>2. task # "assessing" => Reviewed = 0 \/ Reviewed = l
      BY <1>2 DEF Reviewed
    <2>3. \A j \in 1 .. Reviewed : j \in DOMAIN cycles
      BY <1>2, <2>1, <2>2
    <2> QED
      BY <1>0, <2>3 DEF WarnedSoFar, Cycles
  <1> QED
    BY <1>0, <1>2, <1>4, <1>6, <1>7 DEF CoverageTypeOK, CaptureTypeOK, MeasuredSoFar, WarnedSoFar

-----------------------------------------------------------------------------
(***************************************************************************)
(* Two repetitions.  Both halves are about the times of one session, which *)
(* ascend.                                                                 *)
(***************************************************************************)

\* A steady poller seen at three instants: no interval is longer than the
\* period, as the instant in the middle lies between its neighbours.
LEMMA SteadyIntervals ==
  ASSUME NEW t \in Seq(Nat), Len(t) >= 2, Ascending(t),
         NEW first \in Nat, NEW period \in Nat, period > 0,
         \A i \in DOMAIN t : t[i] \in {first, first + period, first + 2 * period},
         \E i \in DOMAIN t : t[i] = first + period
  PROVE  Longest(t) \in Int /\ Longest(t) <= period
  <1>1. PICK n \in Nat : n = Len(t) /\ DOMAIN t = 1 .. n
    OBVIOUS
  <1>2. t \in Seq(Int) /\ \A i \in 1 .. n : t[i] \in Nat
    BY <1>1
  <1>3. PICK i \in 1 .. n - 1 : Longest(t) \in Int /\ Longest(t) = t[i + 1] - t[i]
    BY <1>1, <1>2, LongestInterval
  <1>4. i \in 1 .. n /\ i + 1 \in 1 .. n
    BY <1>1
  <1>5. PICK a \in Nat, b \in Nat : a = t[i] /\ b = t[i + 1]
    BY <1>2, <1>4
  <1>6. /\ a = first \/ a = first + period \/ a = first + 2 * period
        /\ b = first \/ b = first + period \/ b = first + 2 * period
    BY <1>1, <1>4, <1>5
  <1>7. PICK m \in 1 .. n : t[m] = first + period
    BY <1>1
  <1>8. first + period <= a \/ b <= first + period
    <2>1. CASE m <= i
      BY <1>1, <1>4, <1>5, <1>7, <2>1 DEF Ascending
    <2>2. CASE i + 1 <= m
      BY <1>1, <1>4, <1>5, <1>7, <2>2 DEF Ascending
    <2>3. m <= i \/ i + 1 <= m
      OBVIOUS
    <2> QED
      BY <2>1, <2>2, <2>3
  <1>9. b - a <= period
    BY <1>6, <1>8
  <1> QED
    BY <1>3, <1>5, <1>9

\* A session seen at two instants only: one of its intervals is all of the
\* time between them.
LEMMA WholeInterval ==
  ASSUME NEW t \in Seq(Nat), Ascending(t), NEW lo \in Nat, NEW hi \in Nat, lo < hi,
         \A i \in DOMAIN t : t[i] \in {lo, hi},
         \E i \in DOMAIN t : t[i] = lo, \E i \in DOMAIN t : t[i] = hi
  PROVE  Len(t) >= 2 /\ Longest(t) \in Int /\ hi - lo <= Longest(t)
  <1>1. PICK n \in Nat : n = Len(t) /\ DOMAIN t = 1 .. n
    OBVIOUS
  <1> DEFINE Late == {i \in 1 .. n : t[i] = hi}
  <1>2. PICK k \in Late : \A j \in Late : k <= j
    <2>1. Late \subseteq Nat /\ Late # {}
      BY <1>1
    <2> QED
      BY <2>1, Least
  <1>3. k \in 1 .. n /\ t[k] = hi
    BY <1>2
  <1>4. PICK j \in 1 .. n : t[j] = lo
    BY <1>1
  <1>5. j < k
    <2>1. CASE k <= j
      <3>1. t[k] <= t[j]
        BY <1>1, <1>3, <1>4, <2>1 DEF Ascending
      <3> QED
        BY <1>3, <1>4, <3>1
    <2> QED
      BY <1>3, <2>1
  <1>6. k - 1 \in 1 .. n - 1 /\ k - 1 \in 1 .. n /\ (k - 1) + 1 = k /\ n >= 2
    BY <1>3, <1>5
  <1>7. t[k - 1] = lo
    <2>1. k - 1 \notin Late
      BY <1>2, <1>6
    <2> QED
      BY <1>1, <1>6, <2>1
  <1>8. t \in Seq(Int)
    BY <1>1
  <1>9. Longest(t) \in Int /\ t[(k - 1) + 1] - t[k - 1] <= Longest(t)
    BY <1>1, <1>6, <1>8, LongestInterval
  <1> QED
    BY <1>1, <1>3, <1>6, <1>7, <1>9

\* A session is warned about exactly when it was measured and the window is
\* shorter than twice its longest interval.
LEMMA WarnedExactly ==
  ASSUME CoverageInv, Assessed, NEW s \in Session
  PROVE  s \in warned <=> /\ Len(sessions[s]) >= 2
                         /\ Longest(sessions[s]) # 0
                         /\ WindowDuration < 2 * Longest(sessions[s])
  <1>0. CaptureTypeOK /\ Grouped /\ MeasuredSoFar /\ WarnedSoFar /\ task = "assessed"
    BY DEF CoverageInv, Assessed
  <1>1. cycles \in Seq(CyclesOfSessions)
    BY <1>0 DEF MeasuredSoFar, CyclesOfSessions
  <1>2. PICK l \in Nat : l = Len(cycles) /\ DOMAIN cycles = 1 .. l
    BY <1>0, <1>1, CyclesType
  <1>3. warned = {cycles[i].session_id : i \in {j \in 1 .. l : TooShortFor(cycles[j])}}
    BY <1>0, <1>2 DEF WarnedSoFar, Reviewed
  <1>4. \A i \in 1 .. l :
          LET c == cycles[i]
          IN  /\ Len(sessions[c.session_id]) >= 2
              /\ TooShortFor(c) <=> /\ Longest(sessions[c.session_id]) # 0
                                    /\ WindowDuration < 2 * Longest(sessions[c.session_id])
    <2> TAKE i \in 1 .. l
    <2>1. cycles[i] \in Cycles
      BY <1>2 DEF Cycles
    <2>2. cycles[i].measured_cycle_s = Longest(sessions[cycles[i].session_id])
          /\ Len(sessions[cycles[i].session_id]) >= 2
      BY <2>1, MeasuredCycle
    <2> QED
      BY <2>2 DEF TooShortFor, WindowMultiplierThreshold
  <1>5. Len(sessions[s]) >= 2 => \E i \in 1 .. l : cycles[i].session_id = s
    <2>1. PICK n \in 1 .. Cardinality(Session) : InOrder[n] = s
      BY SessionsInOrder
    <2>2. Measured = Cardinality(Session)
      BY <1>0 DEF Measured
    <2>3. Measurable(sessions[s]) => \E i \in DOMAIN cycles : cycles[i].session_id = s
      BY <1>0, <2>1, <2>2 DEF MeasuredSoFar
    <2> QED
      BY <1>0, <1>2, <2>3, SessionTimes
  <1> QED
    BY <1>3, <1>4, <1>5

LEMMA InvRepetitions == CoverageInv => TwoRepetitionsSuffice
  <1> SUFFICES ASSUME CoverageInv, Assessed, Chronological, NEW s \in Session,
                      NEW times, times = {capture[q[1]].time : q \in RequestsOf(s)}
               PROVE  /\ (\E first, next \in times :
                            /\ first < next
                            /\ times = {first, next, next + (next - first)})
                           => s \notin warned
                      /\ times # {} /\ times = {Min(Times), Max(Times)}
                           /\ Cardinality(times) = 2 => s \in warned
    BY DEF TwoRepetitionsSuffice
  <1>0. CaptureTypeOK /\ Grouped
    BY DEF CoverageInv
  <1>1. Visited = Len(capture)
    BY DEF Visited, Assessed
  <1>2. TimesOf(s, Len(capture))
    BY <1>0, <1>1 DEF Grouped
  <1>3. PICK u \in Seq(Nat) : u = sessions[s]
    <2>1. /\ sessions[s] \in Seq(Time)
          /\ \A i \in 1 .. Len(sessions[s]) : sessions[s][i] \in Nat
      BY <1>0, SessionTimes
    <2>2. sessions[s] \in Seq(Nat)
      BY <2>1
    <2> QED
      BY <2>2
  <1>4. /\ \A i \in DOMAIN u : u[i] \in times
        /\ \A x \in times : \E i \in DOMAIN u : u[i] = x
        /\ \A x \in times : x \in Nat
        /\ Ascending(u)
    <2> DEFINE R == RequestsOf(s)
    <2>1. /\ \A i \in DOMAIN u : \E q \in R : u[i] = capture[q[1]].time
          /\ \A q \in R : \E i \in DOMAIN u : u[i] = capture[q[1]].time
          /\ Ascending(u)
      BY <1>0, <1>2, <1>3, AllRequests DEF TimesOf
    <2> HIDE DEF R
    <2>2. times = {capture[q[1]].time : q \in R}
      BY DEF R
    <2>3. ASSUME NEW x \in times PROVE \E i \in DOMAIN u : u[i] = x
      <3>1. PICK q \in R : x = capture[q[1]].time
        BY <2>2
      <3>2. PICK i \in DOMAIN u : u[i] = capture[q[1]].time
        BY <2>1
      <3> QED
        BY <3>1, <3>2
    <2>4. \A i \in DOMAIN u : u[i] \in times
      BY <2>1, <2>2
    <2>5. \A i \in DOMAIN u : u[i] \in Nat
      OBVIOUS
    <2> QED
      BY <2>1, <2>3, <2>4, <2>5
  <1>5. \A i \in DOMAIN u :
          capture # <<>> /\ Min(Times) <= u[i] /\ u[i] <= Max(Times)
    BY <1>1, <1>3, TimesInWindow
  <1>6. s \in warned <=> Len(u) >= 2 /\ Longest(u) # 0 /\ WindowDuration < 2 * Longest(u)
    BY <1>3, WarnedExactly
  <1>7. ASSUME NEW t \in times, NEW next \in times, t < next,
               times = {t, next, next + (next - t)}, s \in warned
        PROVE  FALSE
    <2>0. t \in Nat /\ next \in Nat
      BY <1>4
    <2>1. PICK period \in Nat :
            /\ period > 0 /\ next = t + period
            /\ next + (next - t) = t + 2 * period
      <3>1. next - t \in Nat /\ next - t > 0 /\ next = t + (next - t)
        BY <1>7, <2>0
      <3>2. next + (next - t) = t + 2 * (next - t)
        BY <2>0
      <3> QED
        BY <3>1, <3>2
    <2>s. times = {t, t + period, t + 2 * period} /\ t \in Nat
      BY <1>7, <2>0, <2>1
    <2>2. Len(u) >= 2 /\ WindowDuration < 2 * Longest(u)
      BY <1>6, <1>7
    <2>3. Longest(u) \in Int /\ Longest(u) <= period
      <3>1. \A i \in DOMAIN u : u[i] \in {t, t + period, t + 2 * period}
        BY <1>4, <2>s
      <3>2. \E i \in DOMAIN u : u[i] = t + period
        BY <1>4, <2>s
      <3> QED
        BY <1>4, <2>s, <2>1, <2>2, <3>1, <3>2, SteadyIntervals
    <2>4. PICK i \in DOMAIN u, j \in DOMAIN u : u[i] = t /\ u[j] = t + 2 * period
      BY <1>4, <2>s
    <2>5. /\ capture # <<>> /\ Min(Times) <= t /\ t + 2 * period <= Max(Times)
      BY <1>5, <2>4
    <2>6. /\ WindowDuration = Max(Times) - Min(Times)
          /\ Max(Times) \in Nat /\ Min(Times) \in Nat
      BY <1>0, <2>5, WindowEnds
    <2>7. PICK lo \in Nat, hi \in Nat, longest \in Int :
            lo = Min(Times) /\ hi = Max(Times) /\ longest = Longest(u)
      BY <2>3, <2>6
    <2>8. /\ hi - lo < 2 * longest /\ longest <= period
          /\ lo <= t /\ t + 2 * period <= hi
      BY <2>2, <2>3, <2>5, <2>6, <2>7
    <2> QED
      BY <2>s, <2>8
  <1>8. ASSUME times # {}, times = {Min(Times), Max(Times)}, Cardinality(times) = 2
        PROVE  s \in warned
    <2>1. capture # <<>>
      BY <1>4, <1>5, <1>8
    <2>2. /\ WindowDuration = Max(Times) - Min(Times)
          /\ Max(Times) \in Nat /\ Min(Times) \in Nat
      BY <1>0, <2>1, WindowEnds
    <2>3. PICK lo \in Nat, hi \in Nat : lo = Min(Times) /\ hi = Max(Times)
      BY <2>2
    <2>4. lo # hi
      <3>1. CASE lo = hi
        <4>1. times = {lo}
          BY <1>8, <2>3, <3>1
        <4>2. Cardinality(times) = 1
          BY <4>1, FS_Singleton
        <4> QED
          BY <1>8, <4>2
      <3> QED
        BY <3>1
    <2>5. lo <= hi
      BY <1>4, <1>5, <1>8, <2>3
    <2>6. lo < hi
      BY <2>4, <2>5
    <2>7. Len(u) >= 2 /\ Longest(u) \in Int /\ hi - lo <= Longest(u)
      <3>1. \A i \in DOMAIN u : u[i] \in {lo, hi}
        BY <1>4, <1>8, <2>3
      <3>2. (\E i \in DOMAIN u : u[i] = lo) /\ (\E i \in DOMAIN u : u[i] = hi)
        BY <1>4, <1>8, <2>3
      <3> QED
        BY <1>4, <2>6, <3>1, <3>2, WholeInterval
    <2>8. Longest(u) # 0 /\ WindowDuration < 2 * Longest(u)
      <3>1. PICK longest \in Int : longest = Longest(u) /\ hi - lo <= longest
        BY <2>7
      <3>2. longest # 0 /\ hi - lo < 2 * longest
        BY <2>6, <3>1
      <3> QED
        BY <2>2, <2>3, <3>1, <3>2
    <2> QED
      BY <1>6, <2>7, <2>8
  <1> QED
    BY <1>7, <1>8

-----------------------------------------------------------------------------
LEMMA CoverageInvHolds == CoverageSpec => []CoverageInv
  BY CoverageInvInit, CoverageInvNext, PTL DEF CoverageSpec

(***************************************************************************)
(* The state keeps its type: the cycles name each session once, ascending, *)
(* and a warning is only ever about a measured session                     *)
(* (measure_polling_cycles and coverage_warnings).                         *)
(***************************************************************************)
THEOREM CoverageTypes == CoverageSpec => []CoverageTypeOK
  BY CoverageInvHolds, InvTypes, PTL

(***************************************************************************)
(* For captures of every length, with any sessions and any order of the    *)
(* timestamps: the window spans every measured cycle, and the requests of  *)
(* a cycle are counted exactly (the docstring of coverage.py).             *)
(***************************************************************************)
THEOREM WindowSpans == CoverageSpec => []WindowSpansCycles
  BY CoverageInvHolds, InvSpans, PTL

(***************************************************************************)
(* A steady poller seen three times is never warned about, one seen at the *)
(* two ends of the capture only always is, whatever the period and however *)
(* many other sessions interleave with it (POLL_CYCLE_WINDOW_MULTIPLIER).  *)
(***************************************************************************)
THEOREM RepetitionsSuffice == CoverageSpec => []TwoRepetitionsSuffice
  BY CoverageInvHolds, InvRepetitions, PTL
=============================================================================
