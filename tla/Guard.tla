------------------------------- MODULE Guard -------------------------------
(***************************************************************************)
(* scripts/confidentiality_guard.py in the two places it runs: the         *)
(* pre-commit hook, over the staged files of a commit with everything that *)
(* only the author's machine has, and the backstop of the CI, over all     *)
(* tracked files without the local material.                               *)
(*                                                                         *)
(* A text is a sequence of lines; a line is the record of what the         *)
(* patterns of the guard find in it.  The exception list is tracked like   *)
(* any file and may change from commit to commit.                          *)
(***************************************************************************)
EXTENDS Sequences, SequencesExt

CONSTANTS
  Path,           \* the paths of the repository, as git writes them
  Folded,         \* path -> its form without case and separator differences
  LocalCorpus,    \* the folded paths under standards/.local
  Text,           \* the contents readable as UTF-8
  Binary,         \* a content that is not
  Absent,         \* no such file
  MayHold,        \* path -> the contents that are staged there
  AllowList,      \* the exception lists, sets of lines
  Covers,         \* path pattern -> the folded paths it matches
  Literal,        \* the local literals
  Corpus,         \* the texts of the local corpus
  SHINGLE_SIZE,   \* the words of a shingle, twelve in the code
  MaxCommits

\* What is found in a file is a sequence of lines with their words; an address
\* that the patterns find is one of IPv4 or of layer two, while a declaration
\* of the exception list may name anything.
IsText(t) ==
  /\ t \in Seq(Range(t))
  /\ \A n \in DOMAIN t : t[n].words \in Seq(Range(t[n].words))

IsAddress(a) == a = [shape |-> a.shape, value |-> a.value, sep |-> a.sep]

ASSUME GuardAssumption ==
  /\ SHINGLE_SIZE \in Nat \ {0}
  /\ MaxCommits \in Nat
  /\ \A p \in Path : MayHold[p] \subseteq Text \cup {Binary, Absent}
  /\ \A t \in Text \cup Corpus : IsText(t)
  /\ \A t \in Text : \A n \in DOMAIN t : \A a \in t[n].addresses :
       IsAddress(a) /\ a.shape \in {"ipv4", "mac"}
  /\ \A lines \in AllowList : \A x \in lines :
       x.form = "value" => IsAddress(x.address)

VARIABLES
  index,      \* path -> the staged content
  allow,      \* the staged exception list
  head,       \* path -> the content in HEAD
  head_allow, \* the exception list in HEAD
  literals,   \* .confidentiality-identity.local, {} without the file
  corpus,     \* what standards/.local holds on this machine, {} without it
  vouched,    \* path -> exception list and literals of the hook that let it in
  unchecked,  \* paths whose content came in without the hook
  commits

guardVars == <<index, allow, head, head_allow, literals, corpus, vouched,
               unchecked, commits>>

IDENTITY_RULE_IDS ==
  {"identity-private-ipv4", "identity-mac-address", "identity-device-name",
   "identity-project-name", "identity-local-literal"}

RuleOfShape == [ipv4 |-> "identity-private-ipv4", mac |-> "identity-mac-address"]

Violation(p, n, rule) == [path |-> p, line |-> n, rule |-> rule]

-----------------------------------------------------------------------------
(***************************************************************************)
(* Layer 0 looks at the path alone, the other layers at the lines.         *)
(***************************************************************************)
Fold(p) == Folded[p]

ScanPaths(paths) ==
  {Violation(p, 0, "path-local-corpus") : p \in {q \in paths : Fold(q) \in LocalCorpus}}

ScanTextStructural(text, p) ==
  {Violation(p, n, "structural-clause-modal") :
     n \in {m \in DOMAIN text : \E f \in text[m].fragments :
                                   f.long /\ f.clause /\ f.modal}}

\* Words with their lines, and the windows of SHINGLE_SIZE words over them:
\* a window may run across the end of a line.
LinesOfTheirOwn(text) ==                                       \* mutant
  UNION {{<<SubSeq(text[n].words, i, i + SHINGLE_SIZE - 1), n>> :
             i \in 1 .. (Len(text[n].words) - SHINGLE_SIZE + 1)} :
          n \in DOMAIN text}
Shingles(text) ==
  LET tokens == FlattenSeq([n \in DOMAIN text |->
                  [i \in DOMAIN text[n].words |-> <<text[n].words[i], n>>]])
      words == [i \in DOMAIN tokens |-> tokens[i][1]]
  IN  {<<SubSeq(words, i, i + SHINGLE_SIZE - 1), tokens[i][2]>> :
          i \in 1 .. (Len(tokens) - SHINGLE_SIZE + 1)}

CorpusShingles(texts) == UNION {{s[1] : s \in Shingles(t)} : t \in texts}

\* Without a corpus the layer does not run, and says so.
ScanTextCorpus(text, p, texts) ==
  {Violation(p, s[2], "corpus-shingle") :
     s \in {x \in Shingles(text) : x[1] \in CorpusShingles(texts)}}

-----------------------------------------------------------------------------
(***************************************************************************)
(* The exception list: path patterns of the structural layer, declared     *)
(* addresses, and path exemptions of one identity rule or of all.          *)
(***************************************************************************)
LinesOf(lines, form) == {x \in lines : x.form = form}

StructuralAllowPatterns(lines) == {x.pattern : x \in LinesOf(lines, "path")}

NormalizeIdentityValue(a) ==
  IF a.shape = "mac" THEN [a EXCEPT !.sep = ":"] ELSE a

IdentityDeclaredValues(lines) ==
  {NormalizeIdentityValue(x.address) : x \in LinesOf(lines, "value")}

IdentityPathExceptions(lines) ==
  [rule \in IDENTITY_RULE_IDS \cup {"all"} |->
     {x.pattern : x \in {y \in LinesOf(lines, "exempt") : y.rule = rule}}]

\* A line that starts with identity- and has none of the known shapes, a
\* declaration that is no address, or an unknown rule: AllowListShapeError.
WellShaped(lines) ==
  /\ LinesOf(lines, "malformed") = {}
  /\ \A x \in LinesOf(lines, "value") : x.address.shape \in {"ipv4", "mac"}
  /\ \A x \in LinesOf(lines, "exempt") : x.rule \in IDENTITY_RULE_IDS \cup {"all"}

MatchesAllowList(p, patterns) == \E pattern \in patterns : Fold(p) \in Covers[pattern]

AnyRuleIsSuppressed(p, rule, exceptions) ==                    \* mutant
  \E r \in DOMAIN exceptions : MatchesAllowList(p, exceptions[r])
IdentityRuleIsSuppressed(p, rule, exceptions) ==
  MatchesAllowList(p, exceptions[rule] \cup exceptions["all"])

-----------------------------------------------------------------------------
\* The declarations hold for addresses only.
RulesHit(line, declared, local_literals) ==
  {RuleOfShape[a.shape] :
     a \in {b \in line.addresses : NormalizeIdentityValue(b) \notin declared}}
  \cup {r \in {"identity-device-name"} : line.device}
  \cup {r \in {"identity-project-name"} : line.project}
  \cup {r \in {"identity-local-literal"} : line.literals \cap local_literals # {}}

ScanTextIdentity(text, p, declared, local_literals) ==
  UNION {{Violation(p, n, r) : r \in RulesHit(text[n], declared, local_literals)} :
         n \in DOMAIN text}

(***************************************************************************)
(* scan_files: layer 0 over every path, the rest over the readable files;  *)
(* the exceptions of layers 2 and 3 are independent of each other, and     *)
(* layers 0 and 1 have none.                                               *)
(***************************************************************************)
ScanFiles(tree, paths, texts, lines, local_literals) ==
  LET exceptions == IdentityPathExceptions(lines)
      Readable == {p \in paths : tree[p] \in Text}
  IN  UNION ({ScanPaths(paths)}
             \cup {ScanTextCorpus(tree[p], p, texts) : p \in Readable}
             \cup {ScanTextStructural(tree[p], p) :
                     p \in {q \in Readable :
                              ~MatchesAllowList(q, StructuralAllowPatterns(lines))}}
             \cup {{v \in ScanTextIdentity(tree[p], p,
                              IdentityDeclaredValues(lines), local_literals) :
                      ~IdentityRuleIsSuppressed(p, v.rule, exceptions)} :
                     p \in Readable})

\* Code 0; violations end with code 1, a shape error with a traceback.
Accepts(tree, paths, texts, lines, local_literals) ==
  /\ WellShaped(lines)
  /\ ScanFiles(tree, paths, texts, lines, local_literals) = {}

-----------------------------------------------------------------------------
(***************************************************************************)
(* The author stages files and exception lists and commits what is staged. *)
(***************************************************************************)
NoVoucher == [allow |-> {}, literals |-> {}]

GuardInit ==
  /\ index = [p \in Path |-> Absent] /\ head = index
  /\ allow = {} /\ head_allow = {}
  /\ literals \in SUBSET Literal
  /\ corpus \in {{}, Corpus}
  /\ vouched = [p \in Path |-> NoVoucher]
  /\ unchecked = {}
  /\ commits = 0

Stage(p, content) ==
  /\ index' = [index EXCEPT ![p] = content]
  /\ UNCHANGED <<allow, head, head_allow, literals, corpus, vouched, unchecked,
                 commits>>

StageAllow(lines) ==
  /\ allow' = lines
  /\ UNCHANGED <<index, head, head_allow, literals, corpus, vouched, unchecked,
                 commits>>

\* The hook is given what a commit adds or changes, not what it removes.
AddedOnly == {p \in Path : head[p] = Absent /\ index[p] # Absent}   \* mutant
Changed == {p \in Path : index[p] # head[p] /\ index[p] # Absent}

Record(paths, voucher, skipped) ==
  /\ commits < MaxCommits
  /\ <<index, allow>> # <<head, head_allow>>
  /\ head' = index
  /\ head_allow' = allow
  /\ vouched' = [p \in Path |-> IF p \in paths THEN voucher ELSE vouched[p]]
  /\ unchecked' = skipped
  /\ commits' = commits + 1
  /\ UNCHANGED <<index, allow, literals, corpus>>

\* A commit that only removes files has nothing for the hook to look at.
HookRuns == Changed # {} \/ allow # head_allow

Commit ==
  /\ HookRuns => Accepts(index, Changed, corpus, allow, literals)
  /\ Record(Changed, [allow |-> allow, literals |-> literals], unchecked \ Changed)

\* git commit --no-verify; the backstop exists because of it.
CommitUnchecked == Record(Changed, NoVoucher, unchecked \cup Changed)

GuardNext ==
  \/ \E p \in Path : \E content \in MayHold[p] : Stage(p, content)
  \/ \E lines \in AllowList : StageAllow(lines)
  \/ Commit
  \/ CommitUnchecked

GuardSpec == GuardInit /\ [][GuardNext]_guardVars

\* The CI job confidentiality-backstop: --no-corpus, no literals, all files.
Tracked == {p \in Path : head[p] # Absent}
BackstopReports == ScanFiles(head, Tracked, {}, head_allow, {})

-----------------------------------------------------------------------------
GuardTypeOK ==
  /\ {index, head} \subseteq [Path -> Text \cup {Binary, Absent}]
  /\ {allow, head_allow} \subseteq AllowList \cup {{}}
  /\ literals \subseteq Literal
  /\ corpus \in {{}, Corpus}
  /\ unchecked \subseteq Path
  /\ commits \in 0 .. MaxCommits

LetIn == Tracked \ unchecked

(***************************************************************************)
(* The local corpus never leaves the machine (layers 0 and 1 "have NO      *)
(* exceptions here and never will", .confidentiality-allow): whatever the  *)
(* exception list says, no file under standards/.local, however its path   *)
(* is written, and no run of SHINGLE_SIZE words of the corpus, however the *)
(* lines are broken, passes the hook of a machine that has the corpus.     *)
(***************************************************************************)
SharesRun(text, other) ==
  LET words == FlattenSeq([n \in DOMAIN text |-> text[n].words])
      others == FlattenSeq([n \in DOMAIN other |-> other[n].words])
  IN  \E i \in DOMAIN words, j \in DOMAIN others :
        \A k \in 0 .. SHINGLE_SIZE - 1 :
          /\ i + k \in DOMAIN words /\ j + k \in DOMAIN others
          /\ words[i + k] = others[j + k]

CorpusStaysLocal ==
  \A p \in LetIn :
    /\ Folded[p] \notin LocalCorpus
    /\ head[p] \in Text => \A t \in corpus : ~SharesRun(head[p], t)

(***************************************************************************)
(* A match that the hook let in was exempted by a line of a well-formed    *)
(* list that names exactly it: the path for the structural layer, the      *)
(* address, or the path for that identity rule or for all of them.  "An    *)
(* exception for one rule does NOT lift the others from the same path."    *)
(***************************************************************************)
Exempt(lines, p, rule) ==
  \E x \in lines : x.form = "exempt" /\ x.rule \in {rule, "all"}
                   /\ Folded[p] \in Covers[x.pattern]

Declared(lines, a) ==
  \E x \in lines : x.form = "value" /\ x.address.shape = a.shape
                   /\ x.address.value = a.value

NamedFor(p, line, lines, local_literals) ==
  /\ (\E f \in line.fragments : f.long /\ f.clause /\ f.modal)
       => \E x \in lines : x.form = "path" /\ Folded[p] \in Covers[x.pattern]
  /\ \A a \in line.addresses :
       Declared(lines, a) \/ Exempt(lines, p, RuleOfShape[a.shape])
  /\ line.device => Exempt(lines, p, "identity-device-name")
  /\ line.project => Exempt(lines, p, "identity-project-name")
  /\ line.literals \cap local_literals # {}
       => Exempt(lines, p, "identity-local-literal")

OnlyNamedExemptions ==
  \A p \in LetIn :
    head[p] \in Text =>
      /\ \A x \in vouched[p].allow : x.form # "malformed"
      /\ \A n \in DOMAIN head[p] :
           NamedFor(p, head[p][n], vouched[p].allow, vouched[p].literals)

(***************************************************************************)
(* The backstop disagrees with the hook only where it must: what it        *)
(* reports came in without the hook, or was exempted by a line that a      *)
(* later commit took out of the list.                                      *)
(***************************************************************************)
BackstopAgrees ==
  \A v \in BackstopReports :
    v.path \in unchecked \/ vouched[v.path].allow \ head_allow # {}
=============================================================================
