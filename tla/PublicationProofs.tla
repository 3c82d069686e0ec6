------------------------- MODULE PublicationProofs -------------------------
(***************************************************************************)
(* Theorems about Guard and Gates: what may be committed and what may be   *)
(* pushed, for every text, corpus, exception list and record, and for      *)
(* behaviours of any length.                                               *)
(***************************************************************************)
EXTENDS Guard, Gates, DataLemmas, SequenceTheorems

-----------------------------------------------------------------------------
(***************************************************************************)
(* Shingles.  The guard flattens the words of a text together with their   *)
(* lines; the properties speak of the words alone.  Both lists are the     *)
(* same as far as the words go.                                            *)
(***************************************************************************)
LEMMA FlattenByParts ==
  ASSUME NEW files, NEW n \in Nat, Len(files) = n, n # 0
  PROVE  \E parts : Flattened(files, n, parts) /\ FlattenSeq(files) = parts[n]
  <1> DEFINE parts == CHOOSE p : p = [i \in 1 .. n |-> IF i = 1 THEN files[i]
                                                       ELSE p[i - 1] \o files[i]]
  <1>1. Flattened(files, n, parts)
    BY FlattenExists DEF Flattened
  <1>2. FlattenSeq(files) = parts[n]
    BY DEF FlattenSeq
  <1> QED
    BY <1>1, <1>2

\* The first components of `left` are `right`.
Parallel(left, right) ==
  /\ Len(left) = Len(right)
  /\ \A i \in 1 .. Len(right) : left[i][1] = right[i]

LEMMA ParallelAppend ==
  ASSUME NEW S, NEW T, NEW a \in Seq(S), NEW b \in Seq(T), Parallel(a, b),
         NEW c \in Seq(S), NEW d \in Seq(T), Parallel(c, d)
  PROVE  Parallel(a \o c, b \o d)
  <1>1. PICK k \in Nat, l \in Nat : /\ k = Len(a) /\ k = Len(b)
                                   /\ l = Len(c) /\ l = Len(d)
    BY DEF Parallel
  <1>2. /\ Len(a \o c) = k + l
        /\ \A i \in 1 .. k + l : (a \o c)[i] = IF i <= k THEN a[i] ELSE c[i - k]
    <2>1. /\ Len(a \o c) = Len(a) + Len(c)
          /\ \A i \in 1 .. Len(a) + Len(c) :
               (a \o c)[i] = IF i <= Len(a) THEN a[i] ELSE c[i - Len(a)]
      BY ConcatProperties
    <2> QED
      BY <1>1, <2>1
  <1>3. /\ Len(b \o d) = k + l
         /\ \A i \in 1 .. k + l : (b \o d)[i] = IF i <= k THEN b[i] ELSE d[i - k]
    <2>1. /\ Len(b \o d) = Len(b) + Len(d)
          /\ \A i \in 1 .. Len(b) + Len(d) :
               (b \o d)[i] = IF i <= Len(b) THEN b[i] ELSE d[i - Len(b)]
      BY ConcatProperties
    <2> QED
      BY <1>1, <2>1
  <1>4. ASSUME NEW i \in 1 .. k + l PROVE (a \o c)[i][1] = (b \o d)[i]
    <2>1. CASE i <= k
      <3>1. (a \o c)[i] = a[i] /\ (b \o d)[i] = b[i]
        BY <1>2, <1>3, <2>1
      <3> QED
        BY <1>1, <2>1, <3>1 DEF Parallel
    <2>2. CASE ~(i <= k)
      <3>1. (a \o c)[i] = c[i - k] /\ (b \o d)[i] = d[i - k]
        BY <1>2, <1>3, <2>2
      <3>2. i - k \in 1 .. l
        BY <2>2
      <3> QED
        BY <1>1, <3>1, <3>2 DEF Parallel
    <2> QED
      BY <2>1, <2>2
  <1> QED
    BY <1>2, <1>3, <1>4 DEF Parallel

LEMMA ParallelFlatten ==
  ASSUME NEW S, NEW T, NEW files \in Seq(Seq(S)), NEW others \in Seq(Seq(T)),
         Len(files) = Len(others),
         \A n \in 1 .. Len(others) : Parallel(files[n], others[n])
  PROVE  /\ FlattenSeq(files) \in Seq(S)
         /\ FlattenSeq(others) \in Seq(T)
         /\ Parallel(FlattenSeq(files), FlattenSeq(others))
  <1>1. PICK n \in Nat : n = Len(files) /\ n = Len(others)
    OBVIOUS
  <1>2. CASE n = 0
    <2>1. files = <<>> /\ others = <<>>
      BY <1>1, <1>2, EmptySeq
    <2>2. FlattenSeq(files) = <<>> /\ FlattenSeq(others) = <<>>
      BY <1>1, <1>2, <2>1 DEF FlattenSeq
    <2>3. <<>> \in Seq(S) /\ <<>> \in Seq(T)
      BY EmptySeq
    <2> QED
      BY <2>2, <2>3 DEF Parallel
  <1>3. CASE n # 0
    <2>1. PICK parts : Flattened(files, n, parts) /\ FlattenSeq(files) = parts[n]
      BY <1>1, <1>3, FlattenByParts
    <2>2. PICK pieces : Flattened(others, n, pieces) /\ FlattenSeq(others) = pieces[n]
      BY <1>1, <1>3, FlattenByParts
    <2> DEFINE Done(k) == /\ parts[k] \in Seq(S) /\ pieces[k] \in Seq(T)
                          /\ Parallel(parts[k], pieces[k])
               Reached == {k \in Nat : k + 1 <= n => Done(k + 1)}
    <2>3. ASSUME NEW i \in 1 .. n
          PROVE  /\ parts[i] = IF i = 1 THEN files[i] ELSE parts[i - 1] \o files[i]
                 /\ pieces[i] = IF i = 1 THEN others[i] ELSE pieces[i - 1] \o others[i]
                 /\ files[i] \in Seq(S) /\ others[i] \in Seq(T)
                 /\ Parallel(files[i], others[i])
      <3>1. parts[i] = IF i = 1 THEN files[i] ELSE parts[i - 1] \o files[i]
        BY <2>1 DEF Flattened
      <3>2. pieces[i] = IF i = 1 THEN others[i] ELSE pieces[i - 1] \o others[i]
        BY <2>2 DEF Flattened
      <3>3. files[i] \in Seq(S) /\ others[i] \in Seq(T)
        BY <1>1
      <3> QED
        BY <1>1, <3>1, <3>2, <3>3
    <2>4. 0 \in Reached
      <3>1. 1 \in 1 .. n
        BY <1>3
      <3> QED
        BY <2>3, <3>1
    <2>5. ASSUME NEW k \in Nat, k \in Reached PROVE k + 1 \in Reached
      <3> SUFFICES ASSUME k + 2 <= n PROVE Done(k + 2)
        OBVIOUS
      <3>1. Done(k + 1)
        BY <2>5
      <3>2. /\ k + 2 \in 1 .. n /\ k + 2 # 1 /\ (k + 2) - 1 = k + 1
        BY <2>5
      <3>3. /\ parts[k + 2] = parts[k + 1] \o files[k + 2]
            /\ pieces[k + 2] = pieces[k + 1] \o others[k + 2]
        BY <2>3, <3>2
      <3> QED
        BY <2>3, <3>1, <3>2, <3>3, ParallelAppend
    <2> HIDE DEF Reached
    <2>6. n - 1 \in Reached
      <3>1. n - 1 \in Nat
        BY <1>3
      <3> QED
        BY <2>4, <2>5, <3>1, Induction
    <2>7. Done(n)
      BY <1>3, <2>6 DEF Reached
    <2> QED
      BY <2>1, <2>2, <2>7
  <1> QED
    BY <1>2, <1>3

WordsOf(text) == FlattenSeq([n \in DOMAIN text |-> text[n].words])

\* Every run of SHINGLE_SIZE words of a text is one of its shingles.
LEMMA RunsAreShingles ==
  ASSUME NEW text, IsText(text)
  PROVE  \E T : /\ WordsOf(text) \in Seq(T)
                /\ \A i \in 1 .. (Len(WordsOf(text)) - SHINGLE_SIZE + 1) :
                     \E s \in Shingles(text) :
                       s[1] = SubSeq(WordsOf(text), i, i + SHINGLE_SIZE - 1)
  <1> DEFINE T == UNION {Range(text[n].words) : n \in DOMAIN text}
             marked == [n \in DOMAIN text |->
                          [i \in DOMAIN text[n].words |-> <<text[n].words[i], n>>]]
             plain == [n \in DOMAIN text |-> text[n].words]
             tokens == FlattenSeq(marked)
             words == [i \in DOMAIN tokens |-> tokens[i][1]]
  <1>1. PICK m \in Nat : m = Len(text) /\ DOMAIN text = 1 .. m
    <2>1. text \in Seq(Range(text))
      BY DEF IsText
    <2> QED
      BY <2>1
  <1>2. ASSUME NEW n \in 1 .. m
        PROVE  /\ text[n].words \in Seq(T)
               /\ marked[n] \in Seq(T \X Nat)
               /\ Parallel(marked[n], text[n].words)
    <2>1. text[n].words \in Seq(Range(text[n].words))
      BY <1>1 DEF IsText
    <2>2. Range(text[n].words) \subseteq T
      BY <1>1
    <2>3. text[n].words \in Seq(T)
      BY <2>1, <2>2
    <2>4. marked[n] = [i \in DOMAIN text[n].words |-> <<text[n].words[i], n>>]
      BY <1>1
    <2> HIDE DEF T, marked
    <2>5. PICK w \in Seq(T) : w = text[n].words
      BY <2>3
    <2>6. marked[n] = [i \in 1 .. Len(w) |-> <<w[i], n>>]
      BY <2>4, <2>5
    <2>7. \A i \in 1 .. Len(w) : <<w[i], n>> \in T \X Nat
      OBVIOUS
    <2>8. marked[n] \in Seq(T \X Nat) /\ Len(marked[n]) = Len(w)
      BY <2>6, <2>7
    <2> QED
      BY <2>3, <2>5, <2>6, <2>8 DEF Parallel
  <1>3. /\ marked \in Seq(Seq(T \X Nat)) /\ plain \in Seq(Seq(T))
        /\ Len(marked) = m /\ Len(plain) = m
        /\ \A n \in 1 .. m : Parallel(marked[n], plain[n])
    <2>1. plain = [n \in 1 .. m |-> text[n].words]
      BY <1>1
    <2>2. marked = [n \in 1 .. m |-> marked[n]]
      BY <1>1
    <2> HIDE DEF T, marked, plain
    <2>3. plain \in Seq(Seq(T)) /\ Len(plain) = m
      BY <1>2, <2>1
    <2>4. marked \in Seq(Seq(T \X Nat)) /\ Len(marked) = m
      BY <1>2, <2>2
    <2> QED
      BY <1>2, <2>1, <2>3, <2>4
  <1>4. WordsOf(text) = FlattenSeq(plain)
    BY DEF WordsOf
  <1>5. Shingles(text) = {<<SubSeq(words, i, i + SHINGLE_SIZE - 1), tokens[i][2]>> :
                            i \in 1 .. (Len(tokens) - SHINGLE_SIZE + 1)}
    BY DEF Shingles
  <1> HIDE DEF T, marked, plain
  <1>6. /\ tokens \in Seq(T \X Nat) /\ WordsOf(text) \in Seq(T)
        /\ Parallel(tokens, WordsOf(text))
    BY <1>3, <1>4, ParallelFlatten
  <1>7. words = WordsOf(text)
    <2> HIDE DEF tokens
    <2>1. PICK k \in Nat : /\ k = Len(tokens) /\ k = Len(WordsOf(text))
                           /\ DOMAIN tokens = 1 .. k
      BY <1>6 DEF Parallel
    <2>2. WordsOf(text) = [i \in 1 .. k |-> WordsOf(text)[i]]
      BY <1>6, <2>1
    <2> QED
      BY <1>6, <2>1, <2>2 DEF Parallel
  <1> HIDE DEF tokens, words
  <1>8. ASSUME NEW i \in 1 .. (Len(WordsOf(text)) - SHINGLE_SIZE + 1)
        PROVE  \E s \in Shingles(text) :
                 s[1] = SubSeq(WordsOf(text), i, i + SHINGLE_SIZE - 1)
    <2>1. Len(tokens) = Len(WordsOf(text))
      BY <1>6 DEF Parallel
    <2>2. <<SubSeq(words, i, i + SHINGLE_SIZE - 1), tokens[i][2]>> \in Shingles(text)
      BY <1>5, <2>1
    <2> QED
      BY <1>7, <2>2
  <1> QED
    BY <1>6, <1>8

LEMMA RunOf ==
  ASSUME NEW S, NEW s \in Seq(S), NEW z \in Nat \ {0}, NEW i \in 1 .. (Len(s) - z + 1)
  PROVE  SubSeq(s, i, i + z - 1) = [k \in 1 .. z |-> s[i + k - 1]]
  <1>1. PICK m \in Int, n \in Int : m = i /\ n = i + z - 1
    OBVIOUS
  <1>2. \A k \in m .. n : s[k] \in S
    BY <1>1
  <1>3. /\ SubSeq(s, m, n) \in Seq(S)
        /\ Len(SubSeq(s, m, n)) = IF m <= n THEN n - m + 1 ELSE 0
        /\ \A k \in 1 .. n - m + 1 : SubSeq(s, m, n)[k] = s[m + k - 1]
    BY <1>2, SubSeqProperties
  <1>4. n - m + 1 = z /\ m <= n
    BY <1>1
  <1>5. PICK run \in Seq(S) : run = SubSeq(s, m, n)
    BY <1>3
  <1>6. Len(run) = z /\ \A k \in 1 .. z : run[k] = s[m + k - 1]
    BY <1>3, <1>4, <1>5
  <1>7. run = [k \in 1 .. z |-> s[m + k - 1]]
    BY <1>6
  <1> QED
    BY <1>1, <1>5, <1>7

\* Two texts with a run of words in common have a shingle in common.
LEMMA SharedRunShows ==
  ASSUME NEW text, NEW other, IsText(text), IsText(other), SharesRun(text, other)
  PROVE  \E s \in Shingles(text), r \in Shingles(other) : s[1] = r[1]
  <1>1. PICK T : /\ WordsOf(text) \in Seq(T)
                 /\ \A i \in 1 .. (Len(WordsOf(text)) - SHINGLE_SIZE + 1) :
                      \E s \in Shingles(text) :
                        s[1] = SubSeq(WordsOf(text), i, i + SHINGLE_SIZE - 1)
    BY RunsAreShingles
  <1>2. PICK U : /\ WordsOf(other) \in Seq(U)
                 /\ \A i \in 1 .. (Len(WordsOf(other)) - SHINGLE_SIZE + 1) :
                      \E s \in Shingles(other) :
                        s[1] = SubSeq(WordsOf(other), i, i + SHINGLE_SIZE - 1)
    BY RunsAreShingles
  <1>3. PICK i \in DOMAIN WordsOf(text), j \in DOMAIN WordsOf(other) :
          \A k \in 0 .. SHINGLE_SIZE - 1 :
            /\ i + k \in DOMAIN WordsOf(text) /\ j + k \in DOMAIN WordsOf(other)
            /\ WordsOf(text)[i + k] = WordsOf(other)[j + k]
    BY DEF SharesRun, WordsOf
  <1>4. PICK a \in Seq(T), b \in Seq(U), z \in Nat \ {0} :
          a = WordsOf(text) /\ b = WordsOf(other) /\ z = SHINGLE_SIZE
    BY <1>1, <1>2, GuardAssumption
  <1>5. /\ i \in 1 .. Len(a) /\ j \in 1 .. Len(b)
        /\ \A k \in 0 .. z - 1 : /\ i + k \in 1 .. Len(a) /\ j + k \in 1 .. Len(b)
                                 /\ a[i + k] = b[j + k]
    BY <1>3, <1>4
  <1>6. /\ i \in 1 .. (Len(a) - z + 1) /\ j \in 1 .. (Len(b) - z + 1)
    <2>1. z - 1 \in 0 .. z - 1
      OBVIOUS
    <2>2. i + (z - 1) <= Len(a) /\ j + (z - 1) <= Len(b)
      BY <1>5, <2>1
    <2> QED
      BY <1>5, <2>2
  <1>7. SubSeq(a, i, i + z - 1) = SubSeq(b, j, j + z - 1)
    <2>1. /\ SubSeq(a, i, i + z - 1) = [k \in 1 .. z |-> a[i + k - 1]]
          /\ SubSeq(b, j, j + z - 1) = [k \in 1 .. z |-> b[j + k - 1]]
      <3>1. SubSeq(a, i, i + z - 1) = [k \in 1 .. z |-> a[i + k - 1]]
        <4>1. \A k \in 1 .. (Len(a) - z + 1) :
                SubSeq(a, k, k + z - 1) = [l \in 1 .. z |-> a[k + l - 1]]
          BY RunOf
        <4> QED
          BY <1>6, <4>1
      <3>2. SubSeq(b, j, j + z - 1) = [k \in 1 .. z |-> b[j + k - 1]]
        <4>1. \A k \in 1 .. (Len(b) - z + 1) :
                SubSeq(b, k, k + z - 1) = [l \in 1 .. z |-> b[k + l - 1]]
          BY RunOf
        <4> QED
          BY <1>6, <4>1
      <3> QED
        BY <3>1, <3>2
    <2>2. ASSUME NEW k \in 1 .. z PROVE a[i + k - 1] = b[j + k - 1]
      <3>1. k - 1 \in 0 .. z - 1 /\ i + (k - 1) = i + k - 1 /\ j + (k - 1) = j + k - 1
        BY <1>5
      <3> QED
        BY <1>5, <3>1
    <2> QED
      BY <2>1, <2>2
  <1> QED
    BY <1>1, <1>2, <1>4, <1>6, <1>7

-----------------------------------------------------------------------------
(***************************************************************************)
(* What a file has passed when the hook let it in, said of this file alone *)
(* and of the exception list and the literals of that moment.              *)
(***************************************************************************)
Passed(p, content, lines, local_literals) ==
  /\ WellShaped(lines)
  /\ Fold(p) \notin LocalCorpus
  /\ content \in Text =>
       /\ ScanTextCorpus(content, p, corpus) = {}
       /\ \/ ScanTextStructural(content, p) = {}
          \/ MatchesAllowList(p, StructuralAllowPatterns(lines))
       /\ \A v \in ScanTextIdentity(content, p, IdentityDeclaredValues(lines),
                                    local_literals) :
            IdentityRuleIsSuppressed(p, v.rule, IdentityPathExceptions(lines))

\* The guard judges each file of a commit by itself.
LEMMA AcceptedHasPassed ==
  ASSUME NEW tree, NEW paths, NEW p \in paths, NEW lines, NEW local_literals,
         Accepts(tree, paths, corpus, lines, local_literals)
  PROVE  Passed(p, tree[p], lines, local_literals)
  <1> DEFINE exceptions == IdentityPathExceptions(lines)
             declared == IdentityDeclaredValues(lines)
             Readable == {q \in paths : tree[q] \in Text}
             structural == StructuralAllowPatterns(lines)
  <1> DEFINE scans ==
               {ScanPaths(paths)}
               \cup {ScanTextCorpus(tree[q], q, corpus) : q \in Readable}
               \cup {ScanTextStructural(tree[q], q) :
                       q \in {r \in Readable : ~MatchesAllowList(r, structural)}}
               \cup {{v \in ScanTextIdentity(tree[q], q, declared, local_literals) :
                        ~IdentityRuleIsSuppressed(q, v.rule, exceptions)} :
                       q \in Readable}
  <1>0. UNION scans = {} /\ WellShaped(lines)
    BY DEF Accepts, ScanFiles
  <1>1. \A scan \in scans : scan = {}
    <2> HIDE DEF scans
    <2> QED
      BY <1>0
  <1> HIDE DEF exceptions, declared, structural
  <1>2. Fold(p) \notin LocalCorpus
    <2>1. ScanPaths(paths) = {}
      BY <1>1
    <2> QED
      BY <2>1 DEF ScanPaths
  <1>3. ASSUME tree[p] \in Text
        PROVE  /\ ScanTextCorpus(tree[p], p, corpus) = {}
               /\ \/ ScanTextStructural(tree[p], p) = {}
                  \/ MatchesAllowList(p, structural)
               /\ \A v \in ScanTextIdentity(tree[p], p, declared, local_literals) :
                    IdentityRuleIsSuppressed(p, v.rule, exceptions)
    <2>1. p \in Readable
      BY <1>3
    <2> HIDE DEF Readable
    <2>2. ScanTextCorpus(tree[p], p, corpus) = {}
      BY <1>1, <2>1
    <2>3. ScanTextStructural(tree[p], p) = {} \/ MatchesAllowList(p, structural)
      BY <1>1, <2>1
    <2>4. ASSUME NEW v \in ScanTextIdentity(tree[p], p, declared, local_literals)
          PROVE  IdentityRuleIsSuppressed(p, v.rule, exceptions)
      <3>1. {w \in ScanTextIdentity(tree[p], p, declared, local_literals) :
               ~IdentityRuleIsSuppressed(p, w.rule, exceptions)} \in scans
        BY <2>1, Zenon
      <3> HIDE DEF scans
      <3> QED
        BY <1>1, <3>1
    <2> QED
      BY <2>2, <2>3, <2>4
  <1> QED
    BY <1>0, <1>2, <1>3 DEF Passed, exceptions, declared, structural

-----------------------------------------------------------------------------
(***************************************************************************)
(* The inductive invariant: what is let in has passed under the list and   *)
(* the literals of its voucher.                                            *)
(***************************************************************************)
KnownList(lines) == lines \in AllowList \cup {{}}

GuardInv ==
  /\ GuardTypeOK
  /\ \A p \in LetIn : /\ KnownList(vouched[p].allow)
                      /\ Passed(p, head[p], vouched[p].allow, vouched[p].literals)

LEMMA GuardInvInit == GuardInit => GuardInv
  <1> SUFFICES ASSUME GuardInit PROVE GuardInv
    OBVIOUS
  <1>1. GuardTypeOK
    BY GuardAssumption DEF GuardInit, GuardTypeOK
  <1>2. LetIn = {}
    BY DEF GuardInit, LetIn, Tracked
  <1> QED
    BY <1>1, <1>2 DEF GuardInv

LEMMA GuardTypeStep == GuardTypeOK /\ [GuardNext]_guardVars => GuardTypeOK'
  <1> SUFFICES ASSUME GuardTypeOK, [GuardNext]_guardVars PROVE GuardTypeOK'
    OBVIOUS
  <1> USE DEF GuardTypeOK
  <1>1. ASSUME NEW p \in Path, NEW content \in MayHold[p], Stage(p, content)
        PROVE  GuardTypeOK'
    <2>1. content \in Text \cup {Binary, Absent}
      BY GuardAssumption
    <2> QED
      BY <1>1, <2>1 DEF Stage
  <1>2. ASSUME NEW lines \in AllowList, StageAllow(lines) PROVE GuardTypeOK'
    BY <1>2 DEF StageAllow
  <1>3. ASSUME NEW voucher, NEW skipped \in SUBSET Path, Record(Changed, voucher, skipped)
        PROVE  GuardTypeOK'
    <2>1. commits + 1 \in 0 .. MaxCommits
      BY <1>3, GuardAssumption DEF Record
    <2> QED
      BY <1>3, <2>1 DEF Record
  <1>4. unchecked \ Changed \in SUBSET Path /\ unchecked \cup Changed \in SUBSET Path
    BY DEF Changed
  <1>5. CASE Commit
    BY <1>3, <1>4, <1>5 DEF Commit
  <1>6. CASE CommitUnchecked
    BY <1>3, <1>4, <1>6 DEF CommitUnchecked
  <1>7. CASE UNCHANGED guardVars
    BY <1>7 DEF guardVars
  <1> QED
    BY <1>1, <1>2, <1>5, <1>6, <1>7 DEF GuardNext

LEMMA GuardInvStep == GuardInv /\ [GuardNext]_guardVars => GuardInv'
  <1> SUFFICES ASSUME GuardInv, [GuardNext]_guardVars PROVE GuardInv'
    OBVIOUS
  <1>1. GuardTypeOK'
    BY GuardTypeStep DEF GuardInv
  <1>2. ASSUME UNCHANGED <<head, vouched, unchecked, corpus>> PROVE GuardInv'
    BY <1>1, <1>2 DEF GuardInv, LetIn, Tracked, Passed
  <1>3. ASSUME NEW p \in LetIn', NEW voucher, NEW skipped,
               Record(Changed, voucher, skipped), p \notin Changed, p \notin unchecked
        PROVE  /\ KnownList(vouched[p].allow)'
               /\ Passed(p, head[p], vouched[p].allow, vouched[p].literals)'
    <2>1. p \in Path /\ index[p] # Absent
      BY <1>3 DEF LetIn, Tracked, Record
    <2>2. head'[p] = head[p] /\ vouched'[p] = vouched[p] /\ head[p] # Absent
      BY <1>3, <2>1 DEF Record, Changed
    <2>3. p \in LetIn
      BY <1>3, <2>1, <2>2 DEF LetIn, Tracked
    <2>4. corpus' = corpus
      BY <1>3 DEF Record
    <2> QED
      BY <2>2, <2>3, <2>4 DEF GuardInv, Passed
  <1>4. CASE Commit
    <2> SUFFICES ASSUME NEW p \in LetIn'
                 PROVE  /\ KnownList(vouched[p].allow)'
                        /\ Passed(p, head[p], vouched[p].allow, vouched[p].literals)'
      BY <1>1 DEF GuardInv
    <2> DEFINE voucher == [allow |-> allow, literals |-> literals]
    <2>1. Record(Changed, voucher, unchecked \ Changed)
      BY <1>4 DEF Commit
    <2>2. CASE p \in Changed
      <3>1. Accepts(index, Changed, corpus, allow, literals)
        BY <1>4, <2>2 DEF Commit, HookRuns
      <3>2. Passed(p, index[p], allow, literals)
        BY <2>2, <3>1, AcceptedHasPassed
      <3>3. p \in Path
        BY <2>2 DEF Changed
      <3>4. /\ head'[p] = index[p] /\ vouched'[p] = voucher /\ corpus' = corpus
        BY <2>1, <2>2, <3>3 DEF Record
      <3>5. KnownList(allow)
        BY DEF GuardInv, GuardTypeOK, KnownList
      <3> QED
        BY <3>2, <3>4, <3>5 DEF Passed
    <2>3. CASE p \notin Changed
      <3>1. p \notin unchecked
        BY <2>1, <2>3 DEF LetIn, Record
      <3> QED
        BY <1>3, <2>1, <2>3, <3>1
    <2> QED
      BY <2>2, <2>3
  <1>5. CASE CommitUnchecked
    <2> SUFFICES ASSUME NEW p \in LetIn'
                 PROVE  /\ KnownList(vouched[p].allow)'
                        /\ Passed(p, head[p], vouched[p].allow, vouched[p].literals)'
      BY <1>1 DEF GuardInv
    <2>1. Record(Changed, NoVoucher, unchecked \cup Changed)
      BY <1>5 DEF CommitUnchecked
    <2>2. p \notin Changed /\ p \notin unchecked
      BY <2>1 DEF LetIn, Record
    <2> QED
      BY <1>3, <2>1, <2>2
  <1>6. CASE \E p \in Path : \E content \in MayHold[p] : Stage(p, content)
    BY <1>2, <1>6 DEF Stage
  <1>7. CASE \E lines \in AllowList : StageAllow(lines)
    BY <1>2, <1>7 DEF StageAllow
  <1>8. CASE UNCHANGED guardVars
    BY <1>2, <1>8 DEF guardVars
  <1> QED
    BY <1>4, <1>5, <1>6, <1>7, <1>8 DEF GuardNext

LEMMA GuardInvAlways == GuardSpec => []GuardInv
  BY GuardInvInit, GuardInvStep, PTL DEF GuardSpec

-----------------------------------------------------------------------------
(***************************************************************************)
(* From the invariant to the properties.                                   *)
(***************************************************************************)
LEMMA CorpusFromInv == GuardInv => CorpusStaysLocal
  <1> SUFFICES ASSUME GuardInv, NEW p \in LetIn
               PROVE  /\ Folded[p] \notin LocalCorpus
                      /\ head[p] \in Text => \A t \in corpus : ~SharesRun(head[p], t)
    BY DEF CorpusStaysLocal
  <1>1. Passed(p, head[p], vouched[p].allow, vouched[p].literals)
    BY DEF GuardInv
  <1>2. Folded[p] \notin LocalCorpus
    BY <1>1 DEF Passed, Fold
  <1>3. ASSUME head[p] \in Text, NEW t \in corpus, SharesRun(head[p], t) PROVE FALSE
    <2>1. IsText(head[p]) /\ IsText(t)
      BY <1>3, GuardAssumption DEF GuardInv, GuardTypeOK
    <2>2. PICK s \in Shingles(head[p]), r \in Shingles(t) : s[1] = r[1]
      BY <1>3, <2>1, SharedRunShows
    <2>3. s[1] \in CorpusShingles(corpus)
      BY <1>3, <2>2 DEF CorpusShingles
    <2>4. ScanTextCorpus(head[p], p, corpus) # {}
      BY <2>3 DEF ScanTextCorpus
    <2> QED
      BY <1>1, <1>3, <2>4 DEF Passed
  <1> QED
    BY <1>2, <1>3

\* What the exception list says of a rule and a path.
LEMMA SuppressedIsExempt ==
  ASSUME NEW p, NEW lines, NEW rule \in IDENTITY_RULE_IDS,
         IdentityRuleIsSuppressed(p, rule, IdentityPathExceptions(lines))
  PROVE  Exempt(lines, p, rule)
  <1> DEFINE exceptions == IdentityPathExceptions(lines)
             PatternsFor(r) == {x.pattern : x \in {y \in LinesOf(lines, "exempt") :
                                                     y.rule = r}}
  <1>1. exceptions[rule] = PatternsFor(rule) /\ exceptions["all"] = PatternsFor("all")
    BY DEF IdentityPathExceptions
  <1> HIDE DEF exceptions
  <1>2. PICK pattern \in exceptions[rule] \cup exceptions["all"] :
          Fold(p) \in Covers[pattern]
    BY DEF IdentityRuleIsSuppressed, MatchesAllowList, exceptions
  <1>3. PICK x \in lines : /\ x.form = "exempt" /\ x.rule \in {rule, "all"}
                           /\ x.pattern = pattern
    BY <1>1, <1>2 DEF LinesOf
  <1> QED
    BY <1>2, <1>3 DEF Exempt, Fold

\* A declaration names an address up to its separators, and no other.
LEMMA DeclaredByName ==
  ASSUME NEW lines, KnownList(lines), NEW a, IsAddress(a),
         NormalizeIdentityValue(a) \in IdentityDeclaredValues(lines)
  PROVE  Declared(lines, a)
  <1>1. PICK x \in lines :
          x.form = "value" /\ NormalizeIdentityValue(x.address) = NormalizeIdentityValue(a)
    BY DEF IdentityDeclaredValues, LinesOf
  <1>2. IsAddress(x.address)
    BY <1>1, GuardAssumption DEF KnownList
  <1>3. ASSUME NEW b, IsAddress(b)
        PROVE  /\ NormalizeIdentityValue(b).shape = b.shape
               /\ NormalizeIdentityValue(b).value = b.value
    <2>1. PICK shape, value, sep : b = [shape |-> shape, value |-> value, sep |-> sep]
      BY <1>3 DEF IsAddress
    <2>2. b.shape = shape /\ b.value = value
      BY <2>1
    <2>3. \/ NormalizeIdentityValue(b) = b
          \/ NormalizeIdentityValue(b) = [shape |-> shape, value |-> value, sep |-> ":"]
      BY <2>1 DEF NormalizeIdentityValue
    <2> QED
      BY <2>2, <2>3
  <1>4. x.address.shape = a.shape /\ x.address.value = a.value
    BY <1>1, <1>2, <1>3
  <1> QED
    BY <1>1, <1>4 DEF Declared

LEMMA ExemptionsFromInv == GuardInv => OnlyNamedExemptions
  <1> SUFFICES ASSUME GuardInv, NEW p \in LetIn, head[p] \in Text
               PROVE  /\ \A x \in vouched[p].allow : x.form # "malformed"
                      /\ \A n \in DOMAIN head[p] :
                           NamedFor(p, head[p][n], vouched[p].allow, vouched[p].literals)
    BY DEF OnlyNamedExemptions
  <1> DEFINE text == head[p]
             lines == vouched[p].allow
             secrets == vouched[p].literals
             declared == IdentityDeclaredValues(lines)
  <1>1. Passed(p, text, lines, secrets) /\ KnownList(lines) /\ text \in Text
    BY DEF GuardInv
  <1> HIDE DEF text, lines, secrets
  <1>2. \A x \in lines : x.form # "malformed"
    BY <1>1 DEF Passed, WellShaped, LinesOf
  <1>3. ASSUME NEW n \in DOMAIN text,
               NEW rule \in RulesHit(text[n], declared, secrets), rule \in IDENTITY_RULE_IDS
        PROVE  Exempt(lines, p, rule)
    <2>1. Violation(p, n, rule) \in ScanTextIdentity(text, p, declared, secrets)
      BY <1>3 DEF ScanTextIdentity
    <2>2. Violation(p, n, rule).rule = rule
      BY DEF Violation
    <2>3. IdentityRuleIsSuppressed(p, rule, IdentityPathExceptions(lines))
      BY <1>1, <2>1, <2>2 DEF Passed
    <2> QED
      BY <1>3, <2>3, SuppressedIsExempt
  <1>4. ASSUME NEW n \in DOMAIN text PROVE NamedFor(p, text[n], lines, secrets)
    <2>1. ASSUME NEW f \in text[n].fragments, f.long /\ f.clause /\ f.modal
          PROVE  \E x \in lines : x.form = "path" /\ Folded[p] \in Covers[x.pattern]
      <3>1. Violation(p, n, "structural-clause-modal") \in ScanTextStructural(text, p)
        BY <2>1 DEF ScanTextStructural
      <3>2. MatchesAllowList(p, StructuralAllowPatterns(lines))
        BY <1>1, <3>1 DEF Passed
      <3> QED
        BY <3>2 DEF MatchesAllowList, StructuralAllowPatterns, LinesOf, Fold
    <2>2. ASSUME NEW a \in text[n].addresses
          PROVE  Declared(lines, a) \/ Exempt(lines, p, RuleOfShape[a.shape])
      <3>1. IsAddress(a) /\ a.shape \in {"ipv4", "mac"}
        BY <1>1, GuardAssumption
      <3>2. CASE NormalizeIdentityValue(a) \in declared
        BY <1>1, <3>1, <3>2, DeclaredByName
      <3>3. CASE NormalizeIdentityValue(a) \notin declared
        <4>1. RuleOfShape[a.shape] \in RulesHit(text[n], declared, secrets)
          BY <3>3 DEF RulesHit
        <4>2. RuleOfShape[a.shape] \in IDENTITY_RULE_IDS
          BY <3>1 DEF RuleOfShape, IDENTITY_RULE_IDS
        <4> QED
          BY <1>3, <4>1, <4>2
      <3> QED
        BY <3>2, <3>3
    <2>3. /\ text[n].device => Exempt(lines, p, "identity-device-name")
          /\ text[n].project => Exempt(lines, p, "identity-project-name")
          /\ text[n].literals \cap secrets # {} => Exempt(lines, p, "identity-local-literal")
      <3>1. {"identity-device-name", "identity-project-name", "identity-local-literal"}
              \subseteq IDENTITY_RULE_IDS
        BY DEF IDENTITY_RULE_IDS
      <3>2. /\ text[n].device =>
                 "identity-device-name" \in RulesHit(text[n], declared, secrets)
            /\ text[n].project =>
                 "identity-project-name" \in RulesHit(text[n], declared, secrets)
            /\ text[n].literals \cap secrets # {} =>
                 "identity-local-literal" \in RulesHit(text[n], declared, secrets)
        BY DEF RulesHit
      <3> QED
        BY <1>3, <3>1, <3>2
    <2> QED
      BY <2>1, <2>2, <2>3 DEF NamedFor
  <1> QED
    BY <1>2, <1>4 DEF text, lines, secrets

\* A longer list forgives no less.
LEMMA MoreLinesForgiveMore ==
  ASSUME NEW p, NEW few, NEW lines, few \subseteq lines
  PROVE  /\ MatchesAllowList(p, StructuralAllowPatterns(few))
              => MatchesAllowList(p, StructuralAllowPatterns(lines))
         /\ IdentityDeclaredValues(few) \subseteq IdentityDeclaredValues(lines)
         /\ \A rule \in IDENTITY_RULE_IDS :
              IdentityRuleIsSuppressed(p, rule, IdentityPathExceptions(few))
                => IdentityRuleIsSuppressed(p, rule, IdentityPathExceptions(lines))
  <1>1. \A form : LinesOf(few, form) \subseteq LinesOf(lines, form)
    BY DEF LinesOf
  <1>2. StructuralAllowPatterns(few) \subseteq StructuralAllowPatterns(lines)
    BY <1>1 DEF StructuralAllowPatterns
  <1>3. IdentityDeclaredValues(few) \subseteq IdentityDeclaredValues(lines)
    BY <1>1 DEF IdentityDeclaredValues
  <1>4. \A rule \in IDENTITY_RULE_IDS \cup {"all"} :
          IdentityPathExceptions(few)[rule] \subseteq IdentityPathExceptions(lines)[rule]
    BY <1>1 DEF IdentityPathExceptions
  <1> QED
    BY <1>2, <1>3, <1>4 DEF MatchesAllowList, IdentityRuleIsSuppressed

LEMMA BackstopFromInv == GuardInv => BackstopAgrees
  <1> SUFFICES ASSUME GuardInv, NEW v \in BackstopReports,
                      v.path \notin unchecked, vouched[v.path].allow \subseteq head_allow
               PROVE  FALSE
    BY DEF BackstopAgrees
  <1> DEFINE Readable == {q \in Tracked : head[q] \in Text}
             structural == StructuralAllowPatterns(head_allow)
             declared == IdentityDeclaredValues(head_allow)
             exceptions == IdentityPathExceptions(head_allow)
             IdentityHits(q) == {w \in ScanTextIdentity(head[q], q, declared, {}) :
                                   ~IdentityRuleIsSuppressed(q, w.rule, exceptions)}
  <1>1. \/ v \in ScanPaths(Tracked)
        \/ \E q \in Readable : v \in ScanTextCorpus(head[q], q, {})
        \/ \E q \in Readable : /\ ~MatchesAllowList(q, structural)
                               /\ v \in ScanTextStructural(head[q], q)
        \/ \E q \in Readable : v \in IdentityHits(q)
    BY DEF BackstopReports, ScanFiles
  <1> HIDE DEF structural, declared, exceptions
  <1>2. ASSUME NEW q \in Tracked, v.path = q
        PROVE  /\ Passed(q, head[q], vouched[q].allow, vouched[q].literals)
               /\ vouched[q].allow \subseteq head_allow
    BY <1>2 DEF GuardInv, LetIn
  <1>3. CASE v \in ScanPaths(Tracked)
    <2>1. v.path \in Tracked /\ Fold(v.path) \in LocalCorpus
      BY <1>3 DEF ScanPaths, Violation
    <2> QED
      BY <1>2, <2>1 DEF Passed
  <1>4. CASE \E q \in Readable : v \in ScanTextCorpus(head[q], q, {})
    BY <1>4 DEF ScanTextCorpus, CorpusShingles
  <1>5. ASSUME NEW q \in Readable, ~MatchesAllowList(q, structural),
               v \in ScanTextStructural(head[q], q)
        PROVE  FALSE
    <2>1. v.path = q
      BY <1>5 DEF ScanTextStructural, Violation
    <2>2. MatchesAllowList(q, StructuralAllowPatterns(vouched[q].allow))
      BY <1>2, <1>5, <2>1 DEF Passed
    <2> QED
      BY <1>2, <1>5, <2>1, <2>2, MoreLinesForgiveMore DEF structural
  <1>6. ASSUME NEW q \in Readable, v \in IdentityHits(q) PROVE FALSE
    <2> DEFINE few == vouched[q].allow
               secrets == vouched[q].literals
    <2>0. PICK n \in DOMAIN head[q] :
            v \in {Violation(q, n, r) : r \in RulesHit(head[q][n], declared, {})}
      BY <1>6 DEF ScanTextIdentity
    <2>1. PICK rule \in RulesHit(head[q][n], declared, {}) : v = Violation(q, n, rule)
      BY <2>0
    <2>2. v.path = q /\ v.rule = rule
      BY <2>1 DEF Violation
    <2>3. Passed(q, head[q], few, secrets) /\ few \subseteq head_allow
      BY <1>2, <2>2
    <2>4. rule \in RulesHit(head[q][n], IdentityDeclaredValues(few), secrets)
      <3>1. IdentityDeclaredValues(few) \subseteq declared
        BY <2>3, MoreLinesForgiveMore DEF declared
      <3> HIDE DEF few, secrets
      <3> QED
        BY <3>1 DEF RulesHit
    <2>5. rule \in IDENTITY_RULE_IDS
      <3>1. \A a \in head[q][n].addresses : RuleOfShape[a.shape] \in IDENTITY_RULE_IDS
        BY GuardAssumption DEF RuleOfShape, IDENTITY_RULE_IDS
      <3> QED
        BY <3>1 DEF RulesHit, IDENTITY_RULE_IDS
    <2>6. Violation(q, n, rule)
            \in ScanTextIdentity(head[q], q, IdentityDeclaredValues(few), secrets)
      BY <2>4 DEF ScanTextIdentity
    <2>7. IdentityRuleIsSuppressed(q, rule, IdentityPathExceptions(few))
      BY <2>1, <2>2, <2>3, <2>6 DEF Passed
    <2>8. IdentityRuleIsSuppressed(q, rule, exceptions)
      BY <2>3, <2>5, <2>7, MoreLinesForgiveMore DEF exceptions
    <2> QED
      BY <1>6, <2>2, <2>8
  <1> QED
    BY <1>1, <1>3, <1>4, <1>5, <1>6

-----------------------------------------------------------------------------
(***************************************************************************)
(* Type correctness of the repository's history.                           *)
(***************************************************************************)
THEOREM GuardTypeCorrect == GuardSpec => []GuardTypeOK
  <1>1. GuardInv => GuardTypeOK
    BY DEF GuardInv
  <1> QED
    BY <1>1, GuardInvAlways, PTL

(***************************************************************************)
(* No file of the local corpus and no run of its words passes the hook,    *)
(* whatever the exception list says and however lines are broken.          *)
(***************************************************************************)
THEOREM NothingOfTheCorpus == GuardSpec => []CorpusStaysLocal
  BY CorpusFromInv, GuardInvAlways, PTL

(***************************************************************************)
(* A match that the hook let in is one that a line of a well-formed list   *)
(* names: an exception of one rule or layer lifts no other.                *)
(***************************************************************************)
THEOREM ExemptedByName == GuardSpec => []OnlyNamedExemptions
  BY ExemptionsFromInv, GuardInvAlways, PTL

(***************************************************************************)
(* What the backstop reports came in without the hook or under a line that *)
(* is no longer in the list.                                               *)
(***************************************************************************)
THEOREM BackstopConfirms == GuardSpec => []BackstopAgrees
  BY BackstopFromInv, GuardInvAlways, PTL

-----------------------------------------------------------------------------
(***************************************************************************)
(* Gates: of several lines for a key the last one counts, everywhere.      *)
(***************************************************************************)
LastFor(lines, key, i) ==
  /\ i \in DOMAIN lines /\ lines[i].key = key
  /\ \A j \in i + 1 .. Len(lines) : lines[j].key # key

LEMMA LastLine ==
  ASSUME NEW S, NEW lines \in Seq(S), NEW key, NEW k \in DOMAIN lines, lines[k].key = key
  PROVE  \E i \in DOMAIN lines : LastFor(lines, key, i)
  <1>1. PICK n \in Nat : n = Len(lines) /\ DOMAIN lines = 1 .. n
    OBVIOUS
  <1> DEFINE fromEnd == {m \in Nat : n - m \in 1 .. n /\ lines[n - m].key = key}
  <1>2. n - k \in fromEnd
    <2>1. n - k \in Nat /\ n - (n - k) = k
      BY <1>1
    <2> QED
      BY <1>1, <2>1
  <1>3. PICK m \in fromEnd : \A l \in fromEnd : m <= l
    BY <1>2, Least
  <1>4. ASSUME NEW j \in (n - m) + 1 .. n PROVE lines[j].key # key
    <2>1. n - j \in Nat /\ n - (n - j) = j /\ j \in 1 .. n /\ n - j < m
      BY <1>3
    <2>2. n - j \notin fromEnd
      <3>1. m \in Nat
        BY <1>3
      <3> HIDE DEF fromEnd
      <3> QED
        BY <1>3, <2>1, <3>1
    <2> QED
      BY <2>1, <2>2
  <1> QED
    BY <1>1, <1>3, <1>4 DEF LastFor

LEMMA SaysIsFields ==
  ASSUME NEW file, file.lines \in Seq(RecordLine), NEW key, NEW values
  PROVE  Says(file, key, values) <=> /\ key \in DOMAIN Fields(file.lines)
                                     /\ Fields(file.lines)[key] \in values
  <1>1. PICK lines \in Seq(RecordLine), n \in Nat :
          lines = file.lines /\ n = Len(lines) /\ DOMAIN lines = 1 .. n
    OBVIOUS
  <1>2. DOMAIN Fields(lines) = {lines[i].key : i \in DOMAIN lines}
    BY DEF Fields
  <1>3. ASSUME key \in DOMAIN Fields(lines)
        PROVE  \E i \in DOMAIN lines : LastFor(lines, key, i)
                                       /\ Fields(lines)[key] = lines[i].value
    <2>1. PICK k \in DOMAIN lines : lines[k].key = key
      BY <1>2, <1>3
    <2> DEFINE i == CHOOSE i \in DOMAIN lines :
                      /\ lines[i].key = key
                      /\ \A j \in i + 1 .. Len(lines) : lines[j].key # key
    <2>2. i \in DOMAIN lines /\ LastFor(lines, key, i)
      <3>1. \E l \in DOMAIN lines : LastFor(lines, key, l)
        BY <2>1, LastLine
      <3>2. \E l \in DOMAIN lines : /\ lines[l].key = key
                                    /\ \A j \in l + 1 .. Len(lines) : lines[j].key # key
        BY <3>1 DEF LastFor
      <3> QED
        BY <3>2 DEF LastFor
    <2>3. Fields(lines)[key] = lines[i].value
      BY <1>2, <1>3 DEF Fields
    <2> HIDE DEF i
    <2> QED
      BY <2>2, <2>3
  <1>4. ASSUME NEW i \in DOMAIN lines, NEW j \in DOMAIN lines,
               LastFor(lines, key, i), LastFor(lines, key, j)
        PROVE  i = j
    BY <1>1, <1>4 DEF LastFor
  <1>5. Says(file, key, values) <=>
          \E i \in DOMAIN lines : LastFor(lines, key, i) /\ lines[i].value \in values
    <2>1. ASSUME NEW i \in DOMAIN lines
          PROVE  (\A j \in DOMAIN lines : j > i => lines[j].key # key)
                   <=> \A j \in i + 1 .. Len(lines) : lines[j].key # key
      <3>1. \A j : j \in DOMAIN lines /\ j > i <=> j \in i + 1 .. Len(lines)
        BY <1>1
      <3> QED
        BY <3>1
    <2> QED
      BY <1>1, <2>1, Zenon DEF Says, LastFor
  <1>6. ASSUME NEW i \in DOMAIN lines, LastFor(lines, key, i)
        PROVE  key \in DOMAIN Fields(lines) /\ Fields(lines)[key] = lines[i].value
    <2>1. key \in DOMAIN Fields(lines)
      BY <1>2, <1>6 DEF LastFor
    <2> QED
      BY <1>3, <1>4, <1>6, <2>1
  <1> QED
    BY <1>1, <1>3, <1>5, <1>6

-----------------------------------------------------------------------------
(***************************************************************************)
(* The inductive invariant of the gates.  A record can name only commits   *)
(* that exist, and the one in HEAD only those before HEAD.                 *)
(***************************************************************************)
NamesUpTo(file, n) ==
  file # NoRecord =>
    \A i \in DOMAIN file.lines :
      file.lines[i].key = "head_sha" =>
        file.lines[i].value \in {""} \cup {Sha[m] : m \in 1 .. n}

GatesInv ==
  /\ GatesTypeOK
  /\ NamesUpTo(record["history"], tip)
  /\ NamesUpTo(committed["history"], tip - 1)

LEMMA HashesCounted == \E n \in Nat \ {0} : Len(Sha) = n /\ DOMAIN Sha = 1 .. n
  <1>1. Sha \in Seq(Range(Sha)) /\ Sha # <<>>
    BY GatesAssumption
  <1>2. Len(Sha) \in Nat /\ DOMAIN Sha = 1 .. Len(Sha) /\ Len(Sha) # 0
    BY <1>1, EmptySeq
  <1> QED
    BY <1>2

LEMMA ValuesTyped ==
  ASSUME GatesTypeOK, NEW key \in Keys, NEW value \in Values(key)
  PROVE  /\ Line(key, value) \in RecordLine
         /\ key = "head_sha" => value \in {""} \cup {Sha[m] : m \in 1 .. tip}
  <1>1. {Sha[m] : m \in 1 .. tip} \subseteq Range(Sha)
    <2>1. 1 .. tip \subseteq DOMAIN Sha
      BY HashesCounted DEF GatesTypeOK
    <2> QED
      BY <2>1 DEF Range
  <1>2. key = "head_sha" => Values(key) = {""} \cup {Sha[m] : m \in 1 .. tip}
    BY DEF Values
  <1>3. \/ Values(key) = {"", "human", "agent"}
        \/ Values(key) = {"", "date", "no date"}
        \/ Values(key) = VALID_VERDICTS \cup {"other"}
        \/ Values(key) = VALID_RESULTS \cup {"other"}
        \/ Values(key) = {""} \cup {Sha[m] : m \in 1 .. tip}
        \/ Values(key) = {"all", "some"}
        \/ Values(key) = {"there"}
    BY DEF Values
  <1> QED
    BY <1>1, <1>2, <1>3 DEF Line, RecordLine

LEMMA GatesInvInit == GatesInit => GatesInv
  <1> SUFFICES ASSUME GatesInit PROVE GatesInv
    OBVIOUS
  <1>1. 1 \in 1 .. Len(Sha) /\ Sha[1] \in Range(Sha)
    BY HashesCounted DEF Range
  <1>2. Template["pub"] \in Seq(RecordLine)
    BY DEF Template, Line, RecordLine, Keys, REQUIRED_KEYS, VALID_VERDICTS
  <1>3. Template["history"] \in Seq(RecordLine)
    <2>1. /\ Line("required", "there") \in RecordLine
          /\ Line("audited_on", "date") \in RecordLine
          /\ Line("head_sha", Sha[1]) \in RecordLine
          /\ Line("surfaces", "all") \in RecordLine
          /\ Line("rules_checked", "all") \in RecordLine
          /\ Line("result", "clean") \in RecordLine
          /\ Line("author", "") \in RecordLine
          /\ Line("confirmed_on", "") \in RecordLine
      BY <1>1 DEF Line, RecordLine, Keys, REQUIRED_KEYS, VALID_RESULTS
    <2>2. \A a, b, c, d, e, f, g, h \in RecordLine :
            <<a, b, c, d, e, f, g, h>> \in Seq(RecordLine)
      OBVIOUS
    <2> QED
      BY <2>1, <2>2 DEF Template
  <1>4. ASSUME NEW i \in DOMAIN Template["history"], Template["history"][i].key = "head_sha"
        PROVE  Template["history"][i].value = Sha[1]
    <2> DEFINE t == Template["history"]
    <2>1. /\ t[1].key = "required" /\ t[2].key = "audited_on"
          /\ t[3] = Line("head_sha", Sha[1])
          /\ t[4].key = "surfaces" /\ t[5].key = "rules_checked"
          /\ t[6].key = "result" /\ t[7].key = "author" /\ t[8].key = "confirmed_on"
      BY DEF Template, Line
    <2>2. DOMAIN t = 1 .. 8
      BY DEF Template
    <2>3. i \in {1, 2, 3, 4, 5, 6, 7, 8} /\ t[i].key = "head_sha"
      BY <1>4, <2>2
    <2>4. t[3].value = Sha[1]
      BY <2>1 DEF Line
    <2> HIDE DEF t
    <2>5. i = 3
      BY <2>1, <2>3
    <2> QED
      BY <2>4, <2>5 DEF t
  <1>5. GatesTypeOK
    <2>1. \A g \in Gate : record[g] \in RecordFile
      BY <1>2, <1>3 DEF GatesInit, RecordFile, Gate
    <2>2. MaxEdits \in Nat
      BY GatesAssumption
    <2> QED
      BY <1>1, <2>1, <2>2 DEF GatesInit, GatesTypeOK
  <1>6. NamesUpTo(record["history"], tip)
    <2>1. record["history"].lines = Template["history"]
      BY DEF GatesInit, Gate
    <2>2. Sha[1] \in {Sha[m] : m \in 1 .. tip}
      BY DEF GatesInit
    <2> QED
      BY <1>4, <2>1, <2>2 DEF NamesUpTo
  <1>7. NamesUpTo(committed["history"], tip - 1)
    BY DEF GatesInit, Gate, NamesUpTo
  <1> QED
    BY <1>5, <1>6, <1>7 DEF GatesInv

\* What an edit has to keep to.
Editable(file) ==
  file # NoRecord => /\ file \in RecordFile
                     /\ edited = "history" => NamesUpTo(file, tip)

LEMMA EditKeeps ==
  ASSUME GatesInv, NEW file, Edit(file), Editable(file)
  PROVE  GatesInv'
  <1>1. /\ record' = [record EXCEPT ![edited] = file] /\ edits' = edits + 1
        /\ edits < MaxEdits /\ UNCHANGED <<committed, edited, tip>>
    BY DEF Edit
  <1>2. record'["history"] = IF edited = "history" THEN file ELSE record["history"]
    BY <1>1 DEF GatesInv, GatesTypeOK, Gate
  <1>3. GatesTypeOK'
    <2>1. record' \in [Gate -> RecordFile \cup {NoRecord}]
      BY <1>1 DEF GatesInv, GatesTypeOK, Editable
    <2>2. edits' \in 0 .. MaxEdits
      <3>1. MaxEdits \in Nat
        BY GatesAssumption
      <3>2. edits \in 0 .. MaxEdits
        BY DEF GatesInv, GatesTypeOK
      <3> QED
        BY <1>1, <3>1, <3>2
    <2> QED
      BY <1>1, <2>1, <2>2 DEF GatesInv, GatesTypeOK
  <1>4. NamesUpTo(record["history"], tip)'
    BY <1>1, <1>2 DEF GatesInv, Editable, NamesUpTo
  <1>5. NamesUpTo(committed["history"], tip - 1)'
    BY <1>1 DEF GatesInv, NamesUpTo
  <1> QED
    BY <1>3, <1>4, <1>5 DEF GatesInv

\* An edit of the lines alone.
LEMMA LinesEditable ==
  ASSUME GatesInv, Present, NEW lines \in Seq(RecordLine),
         edited = "history" =>
           \A i \in DOMAIN lines :
             lines[i].key = "head_sha" =>
               lines[i].value \in {""} \cup {Sha[m] : m \in 1 .. tip}
  PROVE  Editable(WithLines(lines))
  <1>1. record[edited] \in RecordFile
    BY DEF GatesInv, GatesTypeOK, Present
  <1>2. WithLines(lines) \in RecordFile /\ WithLines(lines).lines = lines
    BY <1>1 DEF WithLines, RecordFile
  <1> QED
    BY <1>2 DEF Editable, NamesUpTo

LEMMA PresentLines ==
  ASSUME GatesInv, Present
  PROVE  /\ record[edited] \in RecordFile
         /\ Lines \in Seq(RecordLine)
         /\ edited = "history" =>
              \A i \in DOMAIN Lines :
                Lines[i].key = "head_sha" =>
                  Lines[i].value \in {""} \cup {Sha[m] : m \in 1 .. tip}
  <1>1. record[edited] \in RecordFile
    BY DEF GatesInv, GatesTypeOK, Present
  <1> QED
    BY <1>1 DEF GatesInv, RecordFile, Lines, NamesUpTo, Present

LEMMA SetLineKeeps == GatesInv /\ SetLine => GatesInv'
  <1> SUFFICES ASSUME GatesInv, Present, NEW i \in DOMAIN Lines,
                      NEW value \in Values(Lines[i].key),
                      Edit(WithLines([Lines EXCEPT ![i].value = value]))
               PROVE  GatesInv'
    BY DEF SetLine
  <1>0. PICK lines \in Seq(RecordLine) : lines = Lines
    BY PresentLines
  <1>1. PICK n \in Nat : lines = Lines /\ n = Len(lines) /\ DOMAIN lines = 1 .. n
    BY <1>0
  <1>2. lines[i] \in RecordLine /\ lines[i].key \in Keys
    <2>1. lines[i] \in RecordLine
      BY <1>1
    <2> QED
      BY <2>1 DEF RecordLine
  <1> DEFINE new == Line(lines[i].key, value)
             changed == [lines EXCEPT ![i] = new]
  <1>3. [Lines EXCEPT ![i].value = value] = changed
    <2>1. PICK k, v : lines[i] = [key |-> k, value |-> v]
      BY <1>2 DEF RecordLine
    <2>2. [lines[i] EXCEPT !.value = value] = [key |-> k, value |-> value]
      BY <2>1
    <2>3. [lines[i] EXCEPT !.value = value] = new
      BY <2>1, <2>2 DEF Line
    <2> HIDE DEF new
    <2> QED
      BY <1>1, <2>3
  <1>4. /\ new \in RecordLine
        /\ new.key = "head_sha" => new.value \in {""} \cup {Sha[m] : m \in 1 .. tip}
    <2>1. GatesTypeOK
      BY DEF GatesInv
    <2> QED
      BY <1>1, <1>2, <2>1, ValuesTyped DEF Line
  <1> HIDE DEF new
  <1>5. changed \in Seq(RecordLine) /\ DOMAIN changed = DOMAIN lines
    BY <1>0, <1>1, <1>4, ExceptSeq
  <1>6. \A j \in DOMAIN changed : changed[j] = IF j = i THEN new ELSE lines[j]
    BY <1>1
  <1> HIDE DEF changed
  <1>7. Editable(WithLines(changed))
    BY <1>1, <1>4, <1>5, <1>6, LinesEditable, PresentLines
  <1> QED
    BY <1>3, <1>7, EditKeeps

LEMMA LineAppended ==
  ASSUME NEW seq \in Seq(RecordLine), NEW elt \in RecordLine
  PROVE  /\ Append(seq, elt) \in Seq(RecordLine)
         /\ Len(Append(seq, elt)) = Len(seq) + 1
         /\ \A i \in 1 .. Len(seq) : Append(seq, elt)[i] = seq[i]
         /\ Append(seq, elt)[Len(seq) + 1] = elt
  OBVIOUS

LEMMA RepeatLineKeeps == GatesInv /\ RepeatLine => GatesInv'
  <1> SUFFICES ASSUME GatesInv, Present, NEW key \in REQUIRED_KEYS[edited],
                      NEW value \in Values(key),
                      Edit(WithLines(Append(Lines, Line(key, value))))
               PROVE  GatesInv'
    BY DEF RepeatLine
  <1>0. PICK lines \in Seq(RecordLine) : lines = Lines
    BY PresentLines
  <1>1. PICK n \in Nat : lines = Lines /\ n = Len(lines) /\ DOMAIN lines = 1 .. n
    BY <1>0
  <1>2. key \in Keys
    BY DEF GatesInv, GatesTypeOK, Gate, Keys
  <1> DEFINE new == Line(key, value)
             longer == Append(lines, new)
  <1>3. /\ new \in RecordLine
        /\ new.key = "head_sha" => new.value \in {""} \cup {Sha[m] : m \in 1 .. tip}
    <2>1. GatesTypeOK
      BY DEF GatesInv
    <2> QED
      BY <1>2, <2>1, ValuesTyped DEF Line
  <1> HIDE DEF new
  <1>4. /\ longer \in Seq(RecordLine) /\ DOMAIN longer = 1 .. n + 1
        /\ \A j \in 1 .. n + 1 : longer[j] = IF j = n + 1 THEN new ELSE lines[j]
    <2>1. /\ longer \in Seq(RecordLine) /\ Len(longer) = Len(lines) + 1
          /\ \A j \in 1 .. Len(lines) : longer[j] = lines[j]
          /\ longer[Len(lines) + 1] = new
      BY <1>3, LineAppended
    <2> HIDE DEF longer
    <2>2. DOMAIN longer = 1 .. n + 1
      BY <1>1, <2>1
    <2>3. ASSUME NEW j \in 1 .. n + 1
          PROVE  longer[j] = IF j = n + 1 THEN new ELSE lines[j]
      BY <1>1, <2>1
    <2> QED
      BY <2>1, <2>2, <2>3
  <1>5. Append(Lines, Line(key, value)) = longer
    BY <1>1 DEF new
  <1> HIDE DEF longer
  <1>6. \A j \in 1 .. n + 1 : j # n + 1 => j \in DOMAIN lines
    BY <1>1
  <1>7. Editable(WithLines(longer))
    BY <1>1, <1>3, <1>4, <1>6, LinesEditable, PresentLines
  <1> QED
    BY <1>5, <1>7, EditKeeps

LEMMA DropLineKeeps == GatesInv /\ DropLine => GatesInv'
  <1> SUFFICES ASSUME GatesInv, Present, NEW i \in DOMAIN Lines,
                      Edit(WithLines(RemoveAt(Lines, i)))
               PROVE  GatesInv'
    BY DEF DropLine
  <1>0. PICK lines \in Seq(RecordLine) : lines = Lines
    BY PresentLines
  <1>1. PICK n \in Nat : lines = Lines /\ n = Len(lines) /\ DOMAIN lines = 1 .. n
    BY <1>0
  <1> DEFINE before == SubSeq(lines, 1, i - 1)
             behind == SubSeq(lines, i + 1, n)
  <1>2. i \in 1 .. n
    BY <1>1
  <1>3. /\ before \in Seq(RecordLine) /\ Len(before) = i - 1
        /\ \A j \in 1 .. i - 1 : before[j] = lines[j]
    <2>1. PICK a \in Int, b \in Int : a = 1 /\ b = i - 1
      BY <1>2
    <2>2. \A j \in a .. b : lines[j] \in RecordLine
      BY <1>1, <1>2, <2>1
    <2>3. /\ SubSeq(lines, a, b) \in Seq(RecordLine)
          /\ Len(SubSeq(lines, a, b)) = IF a <= b THEN b - a + 1 ELSE 0
          /\ \A j \in 1 .. b - a + 1 : SubSeq(lines, a, b)[j] = lines[a + j - 1]
      BY <2>2, SubSeqProperties
    <2> QED
      BY <1>2, <2>1, <2>3
  <1>4. /\ behind \in Seq(RecordLine) /\ Len(behind) = n - i
        /\ \A j \in 1 .. n - i : behind[j] = lines[i + j]
    <2>1. PICK a \in Int, b \in Int : a = i + 1 /\ b = n
      BY <1>2
    <2>2. \A j \in a .. b : lines[j] \in RecordLine
      BY <1>1, <1>2, <2>1
    <2>3. /\ SubSeq(lines, a, b) \in Seq(RecordLine)
          /\ Len(SubSeq(lines, a, b)) = IF a <= b THEN b - a + 1 ELSE 0
          /\ \A j \in 1 .. b - a + 1 : SubSeq(lines, a, b)[j] = lines[a + j - 1]
      BY <2>2, SubSeqProperties
    <2>4. i + 1 <= n => n - (i + 1) + 1 = n - i
      BY <1>2
    <2>5. n - i \in Nat /\ (~(i + 1 <= n) => n - i = 0)
      BY <1>2
    <2>6. /\ behind \in Seq(RecordLine)
          /\ Len(behind) = IF i + 1 <= n THEN n - (i + 1) + 1 ELSE 0
          /\ \A j \in 1 .. n - (i + 1) + 1 : behind[j] = lines[(i + 1) + j - 1]
      BY <2>1, <2>3
    <2> HIDE DEF behind
    <2>7. ASSUME NEW j \in 1 .. n - i PROVE behind[j] = lines[i + j]
      <3>1. j \in 1 .. n - (i + 1) + 1 /\ (i + 1) + j - 1 = i + j
        BY <1>2
      <3> QED
        BY <2>6, <3>1
    <2> QED
      BY <2>4, <2>5, <2>6, <2>7
  <1>5. RemoveAt(Lines, i) = before \o behind
    BY <1>1 DEF RemoveAt
  <1> HIDE DEF before, behind
  <1>6. /\ before \o behind \in Seq(RecordLine)
        /\ \A j \in DOMAIN (before \o behind) :
             \E l \in DOMAIN lines : (before \o behind)[j] = lines[l]
    <2>1. /\ before \o behind \in Seq(RecordLine)
          /\ Len(before \o behind) = Len(before) + Len(behind)
          /\ \A j \in 1 .. Len(before) + Len(behind) :
               (before \o behind)[j] =
                  IF j <= Len(before) THEN before[j] ELSE behind[j - Len(before)]
      BY <1>3, <1>4, ConcatProperties
    <2>2. ASSUME NEW j \in DOMAIN (before \o behind)
          PROVE  \E l \in DOMAIN lines : (before \o behind)[j] = lines[l]
      <3>1. j \in 1 .. n - 1
        BY <1>2, <1>3, <1>4, <2>1, <2>2
      <3>2. CASE j <= i - 1
        <4>1. (before \o behind)[j] = lines[j] /\ j \in DOMAIN lines
          BY <1>1, <1>2, <1>3, <1>4, <2>1, <3>1, <3>2
        <4> QED
          BY <4>1
      <3>3. CASE ~(j <= i - 1)
        <4>1. j - (i - 1) \in 1 .. n - i /\ i + (j - (i - 1)) = j + 1
          BY <1>2, <3>1, <3>3
        <4>2. (before \o behind)[j] = behind[j - (i - 1)]
          <5>1. j \in 1 .. Len(before) + Len(behind) /\ ~(j <= Len(before))
            BY <1>2, <1>3, <1>4, <3>1, <3>3
          <5> QED
            BY <1>3, <2>1, <5>1
        <4>3. behind[j - (i - 1)] = lines[j + 1]
          BY <1>4, <4>1
        <4>4. j + 1 \in DOMAIN lines
          BY <1>1, <3>1
        <4> QED
          BY <4>2, <4>3, <4>4
      <3> QED
        BY <3>2, <3>3
    <2> QED
      BY <2>1, <2>2
  <1>7. Editable(WithLines(before \o behind))
    <2>1. PICK kept \in Seq(RecordLine) : kept = before \o behind
      BY <1>6
    <2>2. \A j \in DOMAIN kept : \E l \in DOMAIN Lines : kept[j] = Lines[l]
      BY <1>1, <1>6, <2>1
    <2>3. edited = "history" =>
            \A j \in DOMAIN kept :
              kept[j].key = "head_sha" =>
                kept[j].value \in {""} \cup {Sha[m] : m \in 1 .. tip}
      BY <2>2, PresentLines
    <2>4. Editable(WithLines(kept))
      BY <2>3, LinesEditable
    <2> QED
      BY <2>1, <2>4
  <1> QED
    BY <1>5, <1>7, EditKeeps

LEMMA OtherEditsKeep ==
  GatesInv /\ (ChangeFrame \/ ChangeEncoding \/ QuoteSource \/ RemoveFile) => GatesInv'
  <1> SUFFICES ASSUME GatesInv, Present,
                      ChangeFrame \/ ChangeEncoding \/ QuoteSource \/ RemoveFile
               PROVE  GatesInv'
    BY DEF ChangeFrame, ChangeEncoding, QuoteSource, RemoveFile
  <1>1. PICK readable \in BOOLEAN, framed \in BOOLEAN, lines \in Seq(RecordLine),
             quote \in BOOLEAN :
          record[edited] = [readable |-> readable, framed |-> framed, lines |-> lines,
                            quote |-> quote]
    BY PresentLines DEF RecordFile
  <1>2. ASSUME NEW e \in BOOLEAN, NEW f \in BOOLEAN, NEW q \in BOOLEAN
        PROVE  Editable([readable |-> e, framed |-> f, lines |-> lines, quote |-> q])
    <2>1. Lines = lines
      BY <1>1 DEF Lines
    <2> QED
      BY <2>1, PresentLines DEF Editable, RecordFile, NamesUpTo
  <1>3. CASE ChangeFrame
    <2>1. PICK b \in BOOLEAN : b = ~framed
      OBVIOUS
    <2>2. [record[edited] EXCEPT !.framed = ~@]
            = [readable |-> readable, framed |-> b, lines |-> lines, quote |-> quote]
      BY <1>1, <2>1
    <2>3. PICK file :
            /\ file = [record[edited] EXCEPT !.framed = ~@]
            /\ Editable(file)
      BY <1>2, <2>1, <2>2
    <2> QED
      BY <1>3, <2>3, EditKeeps DEF ChangeFrame
  <1>4. CASE ChangeEncoding
    <2>1. PICK b \in BOOLEAN : b = ~readable
      OBVIOUS
    <2>2. [record[edited] EXCEPT !.readable = ~@]
            = [readable |-> b, framed |-> framed, lines |-> lines, quote |-> quote]
      BY <1>1, <2>1
    <2>3. PICK file :
            /\ file = [record[edited] EXCEPT !.readable = ~@]
            /\ Editable(file)
      BY <1>2, <2>1, <2>2
    <2> QED
      BY <1>4, <2>3, EditKeeps DEF ChangeEncoding
  <1>5. CASE QuoteSource
    <2>1. PICK q \in BOOLEAN : q = TRUE
      OBVIOUS
    <2>2. [record[edited] EXCEPT !.quote = q]
            = [readable |-> readable, framed |-> framed, lines |-> lines, quote |-> q]
      BY <1>1
    <2> QED
      BY <1>2, <1>5, <2>1, <2>2, EditKeeps DEF QuoteSource
  <1>6. CASE RemoveFile
    BY <1>6, EditKeeps DEF RemoveFile, Editable
  <1> QED
    BY <1>3, <1>4, <1>5, <1>6

LEMMA AuditKeeps == GatesInv /\ Audit => GatesInv'
  <1> SUFFICES ASSUME GatesInv, Audit PROVE GatesInv'
    OBVIOUS
  <1>1. PICK file : file = record["history"] /\ file \in RecordFile
    BY DEF Audit, GatesInv, GatesTypeOK, Gate
  <1>2. PICK lines \in Seq(RecordLine), n \in Nat :
          lines = file.lines /\ n = Len(lines) /\ DOMAIN lines = 1 .. n
    BY <1>1 DEF RecordFile
  <1>3. PICK result \in {"clean", "hits-outside-exceptions"} :
          LET found == [audited_on |-> "date", head_sha |-> Sha[tip], result |-> result]
          IN  record' = [record EXCEPT !["history"].lines =
                           [i \in DOMAIN @ |-> IF @[i].key \in DOMAIN found
                                               THEN Line(@[i].key, found[@[i].key])
                                               ELSE @[i]]]
    BY DEF Audit
  <1> DEFINE found == [audited_on |-> "date", head_sha |-> Sha[tip], result |-> result]
             written == [i \in DOMAIN lines |->
                           IF lines[i].key \in DOMAIN found
                           THEN Line(lines[i].key, found[lines[i].key])
                           ELSE lines[i]]
  <1>4. /\ record' = [record EXCEPT !["history"] = [file EXCEPT !.lines = written]]
        /\ UNCHANGED <<committed, edited, tip, edits>>
    BY <1>1, <1>2, <1>3 DEF Audit
  <1>5. ASSUME NEW i \in DOMAIN lines
        PROVE  /\ written[i] \in RecordLine
               /\ written[i].key = "head_sha" => written[i].value = Sha[tip]
    <2>1. lines[i] \in RecordLine /\ lines[i].key \in Keys
      <3>1. lines[i] \in RecordLine
        BY <1>2
      <3> QED
        BY <3>1 DEF RecordLine
    <2>2. Sha[tip] \in Range(Sha)
      BY HashesCounted DEF GatesInv, GatesTypeOK, Range
    <2>3. DOMAIN found = {"audited_on", "head_sha", "result"}
      OBVIOUS
    <2>4. CASE lines[i].key \in DOMAIN found
      <3>1. written[i] = Line(lines[i].key, found[lines[i].key])
        BY <2>4
      <3>2. found[lines[i].key] \in {"date", "clean", "hits-outside-exceptions", Sha[tip]}
        BY <2>3, <2>4
      <3>3. written[i] \in RecordLine
        BY <2>1, <2>2, <3>1, <3>2 DEF Line, RecordLine, VALID_RESULTS
      <3>4. written[i].key = lines[i].key /\ written[i].value = found[lines[i].key]
        BY <3>1 DEF Line
      <3> QED
        BY <3>3, <3>4
    <2>5. CASE lines[i].key \notin DOMAIN found
      <3>1. written[i] = lines[i]
        BY <2>5
      <3> QED
        BY <2>1, <2>3, <2>5, <3>1
    <2> QED
      BY <2>4, <2>5
  <1> HIDE DEF found
  <1>6. written \in Seq(RecordLine) /\ DOMAIN written = DOMAIN lines
    <2>1. written = [i \in 1 .. n |-> written[i]] /\ DOMAIN written = DOMAIN lines
      BY <1>2
    <2> HIDE DEF written
    <2>2. \A i \in 1 .. n : written[i] \in RecordLine
      BY <1>2, <1>5
    <2>3. \A w : w = [i \in 1 .. n |-> w[i]] /\ (\A i \in 1 .. n : w[i] \in RecordLine)
                   => w \in Seq(RecordLine)
      BY ONLY n \in Nat
    <2> QED
      BY <2>1, <2>2, <2>3
  <1> HIDE DEF written
  <1>7. /\ [file EXCEPT !.lines = written] \in RecordFile
        /\ [file EXCEPT !.lines = written].lines = written
    BY <1>1, <1>6 DEF RecordFile
  <1>8. GatesTypeOK'
    BY <1>4, <1>7 DEF GatesInv, GatesTypeOK, Gate
  <1>9. NamesUpTo(record["history"], tip)'
    <2>1. record'["history"] = [file EXCEPT !.lines = written] /\ tip' = tip
      BY <1>4 DEF GatesInv, GatesTypeOK, Gate
    <2>2. Sha[tip] \in {Sha[m] : m \in 1 .. tip}
      BY HashesCounted DEF GatesInv, GatesTypeOK
    <2> QED
      BY <1>5, <1>6, <1>7, <2>1, <2>2 DEF NamesUpTo
  <1>10. NamesUpTo(committed["history"], tip - 1)'
    BY <1>4 DEF GatesInv, NamesUpTo
  <1> QED
    BY <1>8, <1>9, <1>10 DEF GatesInv

LEMMA GatesInvStep == GatesInv /\ [GatesNext]_gatesVars => GatesInv'
  <1> SUFFICES ASSUME GatesInv, [GatesNext]_gatesVars PROVE GatesInv'
    OBVIOUS
  <1>1. CASE SetLine
    BY <1>1, SetLineKeeps
  <1>2. CASE RepeatLine
    BY <1>2, RepeatLineKeeps
  <1>3. CASE DropLine
    BY <1>3, DropLineKeeps
  <1>4. CASE ChangeFrame \/ ChangeEncoding \/ QuoteSource \/ RemoveFile
    BY <1>4, OtherEditsKeep
  <1>5. CASE Audit
    BY <1>5, AuditKeeps
  <1>6. CASE CommitRecords
    <2>1. PICK n \in Nat : n = Len(Sha)
      BY HashesCounted
    <2>2. tip \in 1 .. n /\ tip + 1 \in 1 .. n /\ (tip + 1) - 1 = tip
      BY <1>6, <2>1 DEF CommitRecords, GatesInv, GatesTypeOK
    <2>3. GatesTypeOK'
      BY <1>6, <2>1, <2>2 DEF CommitRecords, GatesInv, GatesTypeOK
    <2>4. NamesUpTo(record["history"], tip)'
      <3>1. {Sha[m] : m \in 1 .. tip} \subseteq {Sha[m] : m \in 1 .. tip + 1}
        BY <2>2
      <3> QED
        BY <1>6, <3>1 DEF CommitRecords, GatesInv, NamesUpTo
    <2>5. NamesUpTo(committed["history"], tip - 1)'
      BY <1>6, <2>2 DEF CommitRecords, GatesInv, NamesUpTo
    <2> QED
      BY <2>3, <2>4, <2>5 DEF GatesInv
  <1>7. CASE UNCHANGED gatesVars
    BY <1>7 DEF gatesVars, GatesInv, GatesTypeOK, NamesUpTo
  <1> QED
    BY <1>1, <1>2, <1>3, <1>4, <1>5, <1>6, <1>7 DEF GatesNext

LEMMA GatesInvAlways == GatesSpec => []GatesInv
  BY GatesInvInit, GatesInvStep, PTL DEF GatesSpec

-----------------------------------------------------------------------------
\* A gate that looks at a field looks at what the record says.
LEMMA FieldsSay ==
  ASSUME NEW file \in RecordFile, NEW gate \in Gate,
         Missing(Fields(file.lines), gate) = {}
  PROVE  /\ REQUIRED_KEYS[gate] \subseteq {file.lines[i].key : i \in DOMAIN file.lines}
         /\ \A key \in REQUIRED_KEYS[gate] : \A values :
              Says(file, key, values) <=> Fields(file.lines)[key] \in values
  <1>1. file.lines \in Seq(RecordLine)
    BY DEF RecordFile
  <1>2. REQUIRED_KEYS[gate] \subseteq DOMAIN Fields(file.lines)
    BY DEF Missing
  <1>3. DOMAIN Fields(file.lines) = {file.lines[i].key : i \in DOMAIN file.lines}
    BY DEF Fields
  <1>4. ASSUME NEW key \in REQUIRED_KEYS[gate], NEW values
        PROVE  Says(file, key, values) <=> Fields(file.lines)[key] \in values
    BY <1>1, <1>2, SaysIsFields
  <1> QED
    BY <1>2, <1>3, <1>4

\* A record in order lacks no field that its gate asks for, and quotes nothing.
LEMMA OrderIsNothingMissing ==
  ASSUME NEW gate \in Gate, InOrder(gate)
  PROVE  /\ Missing(Fields(record[gate].lines), gate) = {}
         /\ gate = "pub" => ~record[gate].quote
  BY DEF InOrder, Missing, Fields

\* The code of check_pub_gate, by the cases that its checks tell apart.
LEMMA PubCodeFromInv ==
  ASSUME GatesInv, NEW require_go \in BOOLEAN
  PROVE  PubCodeIsRight(require_go)
  <1> DEFINE file == record["pub"]
             fields == Fields(file.lines)
             code == PubCode(file, require_go)
             shape == InOrder("pub") /\ Says(file, "verdict", VALID_VERDICTS)
             pending == Says(file, "verdict", {"pending"})
             decided == /\ Says(file, "reviewer", {"human"})
                        /\ Says(file, "reviewed_on", {"date"})
             refused == require_go /\ Says(file, "verdict", {"no-go"})
  <1>1. file = NoRecord \/ file \in RecordFile
    BY DEF GatesInv, GatesTypeOK, Gate
  <1>2. SUFFICES /\ code \in {0, 1, 3, 4, 5}
                 /\ code = 0 <=> shape /\ ~pending /\ decided /\ ~refused
                 /\ code = 1 <=> \/ Unreadable("pub")
                                 \/ shape /\ ~pending /\ decided /\ refused
                 /\ code = 3 <=> file = NoRecord
                 /\ code = 5 <=> shape /\ pending
    BY Zenon DEF PubCodeIsRight
  <1>3. CASE file = NoRecord
    BY <1>3 DEF PubCode, InOrder, Unreadable
  <1>4. CASE file # NoRecord /\ ~file.readable
    <2>1. code = 1 /\ ~InOrder("pub") /\ Unreadable("pub")
      BY <1>4 DEF PubCode, InOrder, Unreadable, Uncaught
    <2> QED
      BY <1>4, <2>1
  <1>5. CASE file # NoRecord /\ file.readable /\ ~file.framed
    <2>1. code = 4 /\ ~InOrder("pub") /\ ~Unreadable("pub")
      BY <1>5 DEF PubCode, InOrder, Unreadable
    <2> QED
      BY <1>5, <2>1
  <1>6. CASE file # NoRecord /\ file.readable /\ file.framed
    <2>1. file \in RecordFile /\ ~Unreadable("pub")
      BY <1>1, <1>6 DEF Unreadable
    <2>2. code = LET c == ValidatePub(fields, file.quote)
                 IN  IF c = 0 /\ require_go /\ fields["verdict"] # "go" THEN 1 ELSE c
      BY <1>6 DEF PubCode
    <2>3. CASE Missing(fields, "pub") # {} \/ file.quote
      <3>1. code = 4
        BY <2>2, <2>3 DEF ValidatePub
      <3>2. ~InOrder("pub")
        BY <2>3, OrderIsNothingMissing DEF Gate
      <3> QED
        BY <1>6, <2>1, <3>1, <3>2
    <2>4. CASE Missing(fields, "pub") = {} /\ ~file.quote
      <3>1. InOrder("pub")
        BY <1>6, <2>1, <2>4, FieldsSay DEF InOrder, Gate
      <3>2. /\ Says(file, "verdict", VALID_VERDICTS) <=> fields["verdict"] \in VALID_VERDICTS
            /\ pending <=> fields["verdict"] \in {"pending"}
            /\ Says(file, "verdict", {"no-go"}) <=> fields["verdict"] \in {"no-go"}
            /\ Says(file, "reviewer", {"human"}) <=> fields["reviewer"] \in {"human"}
            /\ Says(file, "reviewed_on", {"date"}) <=> fields["reviewed_on"] \in {"date"}
        <4>1. /\ "pub" \in Gate
              /\ {"verdict", "reviewer", "reviewed_on"} \subseteq REQUIRED_KEYS["pub"]
          BY DEF Gate, REQUIRED_KEYS
        <4> QED
          BY <2>1, <2>4, <4>1, FieldsSay
      <3>3. PICK verdict, reviewer, date :
              /\ verdict = fields["verdict"]
              /\ reviewer = fields["reviewer"]
              /\ date = fields["reviewed_on"]
        OBVIOUS
      <3>4. PICK valid, waits, right, no :
              /\ valid <=> verdict \in VALID_VERDICTS
              /\ waits <=> verdict = "pending"
              /\ right <=> reviewer = "human" /\ date = "date"
              /\ no <=> verdict = "no-go"
        BY Zenon
      <3>5. /\ code = IF ~valid THEN 4
                      ELSE IF waits THEN 5
                      ELSE IF ~right THEN 4
                      ELSE IF require_go /\ no THEN 1 ELSE 0
            /\ waits => valid
            /\ no => valid /\ ~waits
        <4> HIDE DEF code, fields, file, pending
        <4> QED
          BY <2>2, <2>4, <3>3, <3>4
             DEF ValidatePub, VALID_VERDICTS, ReviewerIsInvalid, IsDate
      <3>6. /\ shape <=> valid
            /\ pending <=> waits
            /\ decided <=> right
            /\ refused <=> require_go /\ no
        BY <3>1, <3>2, <3>3, <3>4, Zenon
      <3> HIDE DEF code, fields, file, shape, pending, decided, refused
      <3> QED
        BY <1>6, <2>1, <3>5, <3>6
    <2> QED
      BY <2>3, <2>4
  <1> QED
    BY <1>3, <1>4, <1>5, <1>6

\* The code of check_history_audit_gate, by the cases that its checks tell apart.
LEMMA HistoryCodeFromInv ==
  ASSUME GatesInv, NEW require_clean \in BOOLEAN, NEW require_current \in BOOLEAN,
         NEW git_answers \in BOOLEAN
  PROVE  HistoryCodeIsRight(require_clean, require_current, git_answers)
  <1> DEFINE file == record["history"]
             fields == Fields(file.lines)
             code == HistoryCode(file, require_clean, require_current, git_answers)
             shape == /\ InOrder("history")
                      /\ Says(file, "result", VALID_RESULTS)
                      /\ Says(file, "surfaces", {"all"})
                      /\ Says(file, "rules_checked", {"all"})
                      /\ Says(file, "audited_on", {"date"})
                      /\ Says(file, "author", {"", "human"})
                      /\ Says(file, "confirmed_on", {"", "date"})
             signed == /\ Says(file, "author", {"human"})
                       /\ Says(file, "confirmed_on", {"date"})
             failed == require_current /\ ~git_answers
             stale == /\ require_current /\ git_answers
                      /\ ~Says(file, "head_sha", {Sha[tip]})
             refused == require_clean /\ ~Says(file, "result", {"clean"})
  <1>1. file = NoRecord \/ file \in RecordFile
    BY DEF GatesInv, GatesTypeOK, Gate
  <1>2. SUFFICES /\ code \in {0, 1, 3, 4, 5, 6}
                 /\ code = 0 <=> shape /\ signed /\ ~failed /\ ~stale /\ ~refused
                 /\ code = 1 <=> \/ Unreadable("history")
                                 \/ shape /\ signed /\ failed
                                 \/ shape /\ signed /\ ~failed /\ ~stale /\ refused
                 /\ code = 3 <=> file = NoRecord
                 /\ code = 5 <=> shape /\ ~signed
                 /\ code = 6 <=> shape /\ signed /\ stale
    BY Zenon DEF HistoryCodeIsRight
  <1>3. CASE file = NoRecord
    BY <1>3 DEF HistoryCode, InOrder, Unreadable
  <1>4. CASE file # NoRecord /\ ~file.readable
    <2>1. code = 1 /\ ~InOrder("history") /\ Unreadable("history")
      BY <1>4 DEF HistoryCode, InOrder, Unreadable, Uncaught
    <2>2. ~shape
      BY <2>1
    <2> HIDE DEF code, file, shape, signed, failed, stale, refused
    <2> QED
      BY <1>4, <2>1, <2>2
  <1>5. CASE file # NoRecord /\ file.readable /\ ~file.framed
    <2>1. code = 4 /\ ~InOrder("history") /\ ~Unreadable("history")
      BY <1>5 DEF HistoryCode, InOrder, Unreadable
    <2>2. ~shape
      BY <2>1
    <2> HIDE DEF code, file, shape, signed, failed, stale, refused
    <2> QED
      BY <1>5, <2>1, <2>2
  <1>6. CASE file # NoRecord /\ file.readable /\ file.framed
    <2>1. file \in RecordFile /\ ~Unreadable("history")
      BY <1>1, <1>6 DEF Unreadable
    <2>2. CASE Missing(fields, "history") # {}
      <3>1. code = 4
        BY <1>6, <2>2 DEF HistoryCode, HistoryShapeErrors
      <3>2. ~InOrder("history")
        BY <2>2, OrderIsNothingMissing DEF Gate
      <3>3. ~shape
        BY <3>2
      <3> HIDE DEF code, file, shape, signed, failed, stale, refused
      <3> QED
        BY <1>6, <2>1, <3>1, <3>3
    <2>3. CASE Missing(fields, "history") = {}
      <3>1. InOrder("history")
        BY <1>6, <2>1, <2>3, FieldsSay DEF InOrder, Gate
      <3>2. /\ Says(file, "result", VALID_RESULTS) <=> fields["result"] \in VALID_RESULTS
            /\ Says(file, "result", {"clean"}) <=> fields["result"] \in {"clean"}
            /\ Says(file, "surfaces", {"all"}) <=> fields["surfaces"] \in {"all"}
            /\ Says(file, "rules_checked", {"all"}) <=> fields["rules_checked"] \in {"all"}
            /\ Says(file, "audited_on", {"date"}) <=> fields["audited_on"] \in {"date"}
            /\ Says(file, "author", {"", "human"}) <=> fields["author"] \in {"", "human"}
            /\ Says(file, "author", {"human"}) <=> fields["author"] \in {"human"}
            /\ Says(file, "confirmed_on", {"", "date"})
                 <=> fields["confirmed_on"] \in {"", "date"}
            /\ Says(file, "confirmed_on", {"date"}) <=> fields["confirmed_on"] \in {"date"}
            /\ Says(file, "head_sha", {Sha[tip]}) <=> fields["head_sha"] \in {Sha[tip]}
        <4>1. /\ "history" \in Gate
              /\ {"result", "surfaces", "rules_checked", "audited_on", "author",
                  "confirmed_on", "head_sha"} \subseteq REQUIRED_KEYS["history"]
          BY DEF Gate, REQUIRED_KEYS
        <4> HIDE DEF file
        <4>2. \A key \in REQUIRED_KEYS["history"] : \A values :
                Says(file, key, values) <=> fields[key] \in values
          BY <2>1, <2>3, <4>1, FieldsSay
        <4> HIDE DEF fields
        <4> QED
          BY <4>1, <4>2
      <3>3. PICK result, surfaces, rules, audited, author, date, sha :
              /\ result = fields["result"]
              /\ surfaces = fields["surfaces"]
              /\ rules = fields["rules_checked"]
              /\ audited = fields["audited_on"]
              /\ author = fields["author"]
              /\ date = fields["confirmed_on"]
              /\ sha = fields["head_sha"]
        OBVIOUS
      <3>4. PICK right, unsigned, old, unclean :
              /\ right <=> /\ result \in VALID_RESULTS
                           /\ surfaces = "all" /\ rules = "all" /\ audited = "date"
                           /\ author \in {"", "human"} /\ date \in {"", "date"}
              /\ unsigned <=> author = "" \/ date = ""
              /\ old <=> sha # Sha[tip]
              /\ unclean <=> result # "clean"
        BY Zenon
      <3>5. HistoryShapeErrors(fields) <=> ~right
        <4> HIDE DEF fields
        <4> QED
          BY <2>3, <3>3, <3>4 DEF HistoryShapeErrors, ReviewerIsInvalid, IsDate
      <3>6. code = IF ~right THEN 4
                   ELSE IF unsigned THEN 5
                   ELSE IF require_current /\ ~git_answers THEN 1
                   ELSE IF require_current /\ old THEN 6
                   ELSE IF require_clean /\ unclean THEN 1
                   ELSE 0
        BY <1>6, <3>3, <3>4, <3>5, Zenon DEF HistoryCode, StaleHead, Uncaught
      <3>7. /\ shape <=> right
            /\ stale <=> require_current /\ git_answers /\ old
            /\ refused <=> require_clean /\ unclean
        <4>1. PICK there \in BOOLEAN : there <=> InOrder("history")
          BY Zenon
        <4> QED
          BY <3>1, <3>2, <3>3, <3>4, Zenon
      <3>8. right => (signed <=> ~unsigned)
        <4> HIDE DEF fields, file
        <4>1. right => author \in {"", "human"} /\ date \in {"", "date"}
          BY <3>4
        <4>2. signed <=> author = "human" /\ date = "date"
          BY <3>2, <3>3, Zenon
        <4> QED
          BY <3>4, <4>1, <4>2
      <3> HIDE DEF code, fields, file, shape, signed, stale, refused
      <3> QED
        BY <1>6, <2>1, <3>6, <3>7, <3>8
    <2> QED
      BY <2>2, <2>3
  <1> QED
    BY <1>3, <1>4, <1>5, <1>6

LEMMA CodesFromInv == GatesInv => CodesTellApart
  BY PubCodeFromInv, HistoryCodeFromInv DEF CodesTellApart

\* The commit that HEAD is cannot be named by a record that it holds.
LEMMA CurrentFromInv == GatesInv => CurrentIsNotYetCommitted
  <1> DEFINE file == record["history"]
             fields == Fields(file.lines)
  <1> SUFFICES ASSUME GatesInv, file # NoRecord, HistoryCode(file, FALSE, TRUE, TRUE) = 0
               PROVE  Says(file, "head_sha", {Sha[tip]}) /\ file # committed["history"]
    BY DEF CurrentIsNotYetCommitted
  <1>1. file \in RecordFile
    BY DEF GatesInv, GatesTypeOK, Gate
  <1>2. ~HistoryShapeErrors(fields) /\ fields["head_sha"] = Sha[tip]
    <2>1. CASE ~file.readable \/ ~file.framed
      <3>1. HistoryCode(file, FALSE, TRUE, TRUE)
              = IF ~file.readable THEN 1 ELSE 4
        BY <2>1, Zenon DEF HistoryCode, Uncaught
      <3>2. PICK code : code = HistoryCode(file, FALSE, TRUE, TRUE)
        OBVIOUS
      <3> HIDE DEF file, fields
      <3>3. code = 0 /\ code = IF ~file.readable THEN 1 ELSE 4
        BY <3>1, <3>2, Zenon
      <3> QED
        BY <3>3
    <2>2. CASE file.readable /\ file.framed /\ HistoryShapeErrors(fields)
      BY <2>2 DEF HistoryCode
    <2>3. CASE file.readable /\ file.framed /\ ~HistoryShapeErrors(fields)
      <3>1. HistoryCode(file, FALSE, TRUE, TRUE)
              = IF fields["author"] = "" \/ fields["confirmed_on"] = "" THEN 5
                ELSE IF StaleHead(fields) THEN 6 ELSE 0
        BY <2>3 DEF HistoryCode
      <3>2. PICK unsigned \in BOOLEAN :
              unsigned <=> fields["author"] = "" \/ fields["confirmed_on"] = ""
        BY Zenon
      <3>3. HistoryCode(file, FALSE, TRUE, TRUE)
              = IF unsigned THEN 5 ELSE IF StaleHead(fields) THEN 6 ELSE 0
        BY <3>1, <3>2, Zenon
      <3>4. PICK code : code = HistoryCode(file, FALSE, TRUE, TRUE)
        OBVIOUS
      <3> HIDE DEF file, fields
      <3>5. code = 0 /\ code = IF unsigned THEN 5 ELSE IF StaleHead(fields) THEN 6 ELSE 0
        BY <3>3, <3>4, Zenon
      <3>6. ~StaleHead(fields)
        BY <3>5
      <3> QED
        BY <2>3, <3>6 DEF StaleHead
    <2> QED
      BY <2>1, <2>2, <2>3
  <1>3. Missing(fields, "history") = {} /\ "history" \in Gate
    BY <1>2 DEF HistoryShapeErrors, Gate
  <1>4. Says(file, "head_sha", {Sha[tip]})
    <2>1. "head_sha" \in REQUIRED_KEYS["history"]
      BY DEF REQUIRED_KEYS
    <2> QED
      BY <1>1, <1>2, <1>3, <2>1, FieldsSay
  <1>5. ASSUME file = committed["history"] PROVE FALSE
    <2>1. PICK i \in DOMAIN file.lines :
            file.lines[i].key = "head_sha" /\ file.lines[i].value = Sha[tip]
      BY <1>4 DEF Says
    <2>2. Sha[tip] \in {""} \cup {Sha[m] : m \in 1 .. tip - 1}
      BY <1>5, <2>1 DEF GatesInv, NamesUpTo
    <2>3. PICK n \in Nat \ {0} : Len(Sha) = n /\ DOMAIN Sha = 1 .. n
      BY HashesCounted
    <2>4. tip \in 1 .. n
      BY <2>3 DEF GatesInv, GatesTypeOK
    <2>5. Sha[tip] # ""
      BY <2>3, <2>4, GatesAssumption DEF Range
    <2>6. PICK m \in 1 .. tip - 1 : Sha[m] = Sha[tip]
      BY <2>2, <2>5
    <2>7. m \in DOMAIN Sha /\ tip \in DOMAIN Sha /\ m # tip
      BY <2>3, <2>4, <2>6
    <2> QED
      BY <2>6, <2>7, GatesAssumption
  <1> QED
    BY <1>4, <1>5

-----------------------------------------------------------------------------
(***************************************************************************)
(* Type correctness of the records, whatever is edited, audited and        *)
(* committed.                                                              *)
(***************************************************************************)
THEOREM GatesTypeCorrect == GatesSpec => []GatesTypeOK
  <1>1. GatesInv => GatesTypeOK
    BY DEF GatesInv
  <1> QED
    BY <1>1, GatesInvAlways, PTL

(***************************************************************************)
(* For which records, flags and answers of git each gate ends with each of *)
(* its exit codes, after any sequence of edits, audits and commits; the    *)
(* last of several lines for a key counts, and code 1 also stands for a    *)
(* record that cannot be read and for a git that does not answer.          *)
(***************************************************************************)
THEOREM CodesCharacterised == GatesSpec => []CodesTellApart
  BY CodesFromInv, GatesInvAlways, PTL

(***************************************************************************)
(* A history record that --require-current passes names HEAD, and is not   *)
(* the one in HEAD: it has still to be committed.                          *)
(***************************************************************************)
THEOREM CurrentBeforeItsCommit == GatesSpec => []CurrentIsNotYetCommitted
  BY CurrentFromInv, GatesInvAlways, PTL

=============================================================================
