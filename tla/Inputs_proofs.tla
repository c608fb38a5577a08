--------------------------- MODULE Inputs_proofs ----------------------------
(***************************************************************************)
(* The properties of ReviewInputs, for all pull requests, sizes, limits and*)
(* interleavings; of DiffLines, for all patches and hunks; of CodeContext, *)
(* for all files, definitions, targets and limits.                         *)
(***************************************************************************)
EXTENDS ReviewInputs, DiffLines, CodeContext, FiniteOrders

Less(S) == {p \in S \X S : p[1] < p[2]}

ChangedFile == [lines : Nat, docs : BOOLEAN, read : {"text", "blank", "error", "other"}]
Text == {i \in DOMAIN files : files[i].read = "text"}
Fetching == stage \in {"fetch", "ready"}

\* What is listed is the beginning of what there is, and all of it once the list is taken to be complete.
ListInv ==
  /\ all \in Seq(ChangedFile) /\ files \in Seq(ChangedFile)
  /\ truncated \in BOOLEAN
  /\ stage \in {"list", "probe", "diff", "fetch", "ready", "shown", "skipped", "failed"}
  /\ files = SubSeq(all, 1, Len(files)) /\ Len(files) <= Len(all)
  /\ stage \in {"diff", "fetch", "ready", "shown", "skipped"} => truncated \/ files = all
  /\ stage = "skipped" => \A i \in DOMAIN all : all[i].docs

\* The lines that d shows of its first n files.
ShownUpTo(d, n) == UNION {{i} \X (1..d[i]) : i \in 1..n}
ShownIn(d) == ShownUpTo(d, Len(d))

\* What is shown of the diff, up to where it is cut off, is what the files have.  A patch
\* that is shown whole takes no more lines than it counts for.
LimitInv ==
  /\ IsFiniteSet(ShownIn(diff)) /\ linesLeft \in Int
  /\ mode = "tool_calling" => linesLeft \in Nat /\ Cardinality(ShownIn(diff)) + linesLeft = MaxDiffLines
  /\ mode = "legacy" => /\ Cardinality(ShownIn(diff)) + linesLeft <= MaxDiffLines
                        /\ diff # <<>> => Cardinality(ShownUpTo(diff, Len(diff) - 1)) < MaxDiffLines
WholeInv ==
  /\ mode \in {"legacy", "tool_calling"} /\ diff \in Seq(Nat) /\ diffCut \in BOOLEAN /\ Len(diff) <= Len(files)
  /\ stage \in {"list", "probe"} => diff = <<>>
  /\ ~diffCut \/ mode = "legacy" => \A i \in DOMAIN diff : diff[i] = files[i].lines
  /\ stage \in {"fetch", "ready", "shown"} => diffCut \/ Len(diff) = Len(files)
DiffMadeInv == LimitInv /\ WholeInv

\* The contents, then the batch, go through the list and, unless cancelled, leave no text out.
FetchTypeInv ==
  /\ nextFile \in 0..Len(files) /\ cancelled \in BOOLEAN
  /\ contents \in Seq(Text) /\ batch \in Seq(1..nextFile) /\ arrived \in Seq((1..nextFile) \X BOOLEAN)
  /\ Len(contents) + Len(batch) <= MaxFileContexts
  /\ ~Fetching => nextFile = 0 /\ contents = <<>>
  /\ stage # "fetch" => batch = <<>>
  /\ stage = "ready" => ~Wanted
ContentsInv ==
  /\ \A j, k \in DOMAIN contents : j < k => contents[j] < contents[k]
  /\ \A j, k \in DOMAIN batch : j < k => batch[j] < batch[k]
  /\ \A j \in DOMAIN contents : /\ contents[j] <= nextFile
                                /\ \A k \in DOMAIN batch : contents[j] < batch[k]
  /\ ~cancelled => \A i \in Text : i <= nextFile => \/ \E k \in DOMAIN contents : contents[k] = i
                                                    \/ \E k \in DOMAIN batch : batch[k] = i
ArrivedInv ==
  /\ \A k \in DOMAIN arrived : /\ \E j \in DOMAIN batch : batch[j] = arrived[k][1]
                               /\ arrived[k][2] => arrived[k][1] \in Text
                               /\ ~cancelled /\ arrived[k][1] \in Text => arrived[k][2]
  /\ \A j, k \in DOMAIN arrived : arrived[j][1] = arrived[k][1] => j = k

-----------------------------------------------------------------------------
\* InOrder gives the numbers of the set upwards, each of them, and so does a beginning
\* of it up to where it ends.
LEMMA LessOrders ==
  ASSUME NEW S \in SUBSET Nat
  PROVE  /\ Orders(Less(S), S)
         /\ \A a \in S : Below(a, Less(S), S) = {m \in S : m < a}
<1>1. \A a, b \in S : <<a, b>> \in Less(S) <=> a < b
  BY DEF Less
<1>2. S \subseteq Nat
  OBVIOUS
<1> HIDE DEF Less
<1>3. Orders(Less(S), S)
  BY <1>1, <1>2 DEF Orders
<1>4. \A a \in S : Below(a, Less(S), S) = {m \in S : m < a}
  BY <1>1 DEF Below
<1> QED BY <1>3, <1>4

FirstFew(S, n) == SubSeq(InOrder(S), 1, n)
Onto(s, S) == \A i \in S : \E j \in DOMAIN s : s[j] = i
LEMMA InOrderIsUpwards ==
  ASSUME NEW S \in SUBSET Nat, IsFiniteSet(S), NEW n \in 0..Cardinality(S), NEW s,
         s = FirstFew(S, n)
  PROVE  /\ s \in Seq(S) /\ Len(s) = n /\ Lists(s, Less(S), S)
         /\ \A j, k \in 1..n : j < k => s[j] < s[k]
         /\ \A k \in 1..n, i \in S : i < s[k] => \E j \in 1..n : s[j] = i
         /\ n = Cardinality(S) => s = InOrder(S) /\ Onto(s, S)
<1>1. Orders(Less(S), S) /\ \A a \in S : Below(a, Less(S), S) = {m \in S : m < a}
  BY LessOrders
<1>2. Cardinality(S) \in Nat /\ Cardinality(S) \in 0..Cardinality(S)
  BY FS_CardinalityType
<1> DEFINE u == InOrder(S)
<1>3. ASSUME NEW k \in 1..Cardinality(S)
      PROVE  u[k] \in S /\ Cardinality(Below(u[k], Less(S), S)) = k - 1
  <2>1. k - 1 \in 0..(Cardinality(S) - 1)
    BY <1>2
  <2>2. \E i \in S : Cardinality(Below(i, Less(S), S)) = k - 1
    BY <1>1, <2>1, PlacesAreTaken
  <2>3. \E i \in S : Cardinality({m \in S : m < i}) = k - 1
    BY <1>1, <2>2
  <2>4. u[k] = CHOOSE i \in S : Cardinality({m \in S : m < i}) = k - 1
    BY DEF InOrder
  <2> HIDE DEF u
  <2>5. u[k] \in S /\ Cardinality({m \in S : m < u[k]}) = k - 1
    BY <2>3, <2>4
  <2> QED BY <1>1, <2>5
<1>4. u \in Seq(S) /\ Len(u) = Cardinality(S) /\ Lists(u, Less(S), S)
  <2>1. u = [k \in 1..Cardinality(S) |-> CHOOSE i \in S : Cardinality({m \in S : m < i}) = k - 1]
    BY DEF InOrder
  <2>2. u \in [1..Cardinality(S) -> S]
    <3>1. \A k \in 1..Cardinality(S) : u[k] \in S
      BY <1>3
    <3> HIDE DEF u
    <3> QED BY <2>1, <3>1, Zenon
  <2> HIDE DEF u
  <2>3. u \in Seq(S) /\ Len(u) = Cardinality(S)
    BY <1>2, <2>2
  <2> QED BY <1>1, <1>3, <2>3, ByPlaceLists
<1> HIDE DEF u
<1>5. s = SubSeq(u, 1, n)
  BY DEF u, FirstFew
<1>6. s \in Seq(S) /\ Lists(s, Less(S), S)
  BY <1>1, <1>4, <1>5, BeginningLists
<1>7. Len(s) = n /\ DOMAIN s = 1..n /\ n \in Nat /\ \A k \in 1..n : s[k] \in S
  BY <1>2, <1>4, <1>5, <1>6
<1>8. ASSUME NEW j \in 1..n, NEW k \in 1..n, j < k PROVE s[j] < s[k]
  <2>1. <<s[j], s[k]>> \in Less(S)
    BY <1>6, <1>7, <1>8 DEF Lists
  <2> QED BY <2>1, <1>7 DEF Less
<1>9. ASSUME NEW k \in 1..n, NEW i \in S, i < s[k] PROVE \E j \in 1..n : s[j] = i
  <2>1. i \in Below(s[k], Less(S), S)
    BY <1>1, <1>7, <1>9
  <2> QED BY <1>6, <1>7, <2>1 DEF Lists
<1>10. n = Cardinality(S) => Onto(s, S)
  <2> HIDE DEF u
  <2>1. Orders(Less(S), S)
    BY <1>1
  <2>2. Len(s) = Cardinality(S) <=> \A a \in S : \E k \in DOMAIN s : s[k] = a
    BY <2>1, <1>6, ListedPlaces
  <2> QED BY <1>7, <2>2 DEF Onto
<1>11. n = Cardinality(S) => s = InOrder(S)
  <2>1. n = Cardinality(S) => s = u
    BY <1>4, <1>5, SubSeqFull
  <2> QED BY <2>1 DEF u
<1> QED BY <1>6, <1>7, <1>8, <1>9, <1>10, <1>11

\* The lines shown of one more file.
LEMMA OneMoreFile ==
  ASSUME NEW d \in Seq(Nat), NEW n \in Nat, IsFiniteSet(ShownIn(d))
  PROVE  /\ IsFiniteSet(ShownIn(Append(d, n)))
         /\ Cardinality(ShownIn(Append(d, n))) = Cardinality(ShownIn(d)) + n
<1> DEFINE i == Len(d) + 1
           e == Append(d, n)
           T == {i} \X (1..n)
           f == [k \in 1..n |-> <<i, k>>]
<1>1. /\ DOMAIN d = 1..Len(d) /\ Len(d) \in Nat /\ DOMAIN e = 1..i /\ Len(e) = i
      /\ e[i] = n /\ \A k \in 1..Len(d) : e[k] = d[k]
  OBVIOUS
<1>2. ShownIn(e) = ShownIn(d) \cup T
  <2> HIDE DEF e
  <2>1. ASSUME NEW t \in ShownIn(e) PROVE t \in ShownIn(d) \cup T
    <3>1. PICK k \in 1..i : t \in {k} \X (1..e[k])
      BY <1>1 DEF ShownIn, ShownUpTo
    <3>2. CASE k = i
      BY <1>1, <3>1, <3>2
    <3>3. CASE k # i
      <4>1. k \in 1..Len(d) /\ e[k] = d[k]
        BY <1>1, <3>3
      <4> QED BY <3>1, <4>1 DEF ShownIn, ShownUpTo
    <3> QED BY <3>2, <3>3
  <2>2. ASSUME NEW t \in ShownIn(d) PROVE t \in ShownIn(e)
    <3>1. PICK k \in 1..Len(d) : t \in {k} \X (1..d[k])
      BY <1>1 DEF ShownIn, ShownUpTo
    <3>2. k \in 1..Len(e) /\ e[k] = d[k]
      BY <1>1
    <3> QED BY <3>1, <3>2 DEF ShownIn, ShownUpTo
  <2>3. T \subseteq ShownIn(e)
    <3>1. i \in 1..Len(e) /\ T = {i} \X (1..e[i])
      BY <1>1
    <3> QED BY <3>1 DEF ShownIn, ShownUpTo
  <2> QED BY <2>1, <2>2, <2>3
<1>3. ShownIn(d) \cap T = {}
  <2>1. ASSUME NEW t \in ShownIn(d) PROVE t \notin T
    <3>1. PICK k \in 1..Len(d) : t \in {k} \X (1..d[k])
      BY <1>1 DEF ShownIn, ShownUpTo
    <3>2. t[1] = k /\ k # i
      BY <1>1, <3>1
    <3> QED BY <3>2
  <2> QED BY <2>1
<1>4. IsFiniteSet(T) /\ Cardinality(T) = n
  <2>1. f \in [1..n -> T] /\ \A j, k \in 1..n : f[j] = f[k] => j = k
    OBVIOUS
  <2>2. \A t \in T : \E k \in 1..n : f[k] = t
    OBVIOUS
  <2> HIDE DEF f, T
  <2>3. f \in Bijection(1..n, T)
    BY <2>1, <2>2, Fun_IsBij
  <2> QED BY <2>3, CountUpTo, FS_Bijection DEF ExistsBijection
<1>5. /\ IsFiniteSet(ShownIn(d) \cup T)
      /\ Cardinality(ShownIn(d) \cup T) = Cardinality(ShownIn(d)) + Cardinality(T) - Cardinality({})
  <2> HIDE DEF T
  <2> QED BY <1>3, <1>4, FS_Union
<1>6. Cardinality({}) = 0 /\ Cardinality(ShownIn(d)) \in Nat
  BY FS_EmptySet, FS_CardinalityType
<1> QED BY <1>2, <1>4, <1>5, <1>6
-----------------------------------------------------------------------------
LEMMA ListStarts == InputsInit => ListInv
<1>1. \A pr \in PullRequests : pr \in Seq(ChangedFile)
  BY InputsAssumption DEF ChangedFile
<1> SUFFICES ASSUME InputsInit PROVE ListInv
  OBVIOUS
<1>2. all \in Seq(ChangedFile) /\ files = <<>> /\ truncated = FALSE /\ stage = "list"
  BY <1>1 DEF InputsInit
<1>3. files \in Seq(ChangedFile) /\ Len(files) = 0 /\ Len(all) \in Nat
  BY <1>2
<1>4. SubSeq(all, 1, 0) = <<>>
  BY SubSeqEmpty
<1>5. files = SubSeq(all, 1, Len(files)) /\ Len(files) <= Len(all)
  BY <1>2, <1>3, <1>4
<1>6. truncated \in BOOLEAN /\ stage = "list"
  BY <1>2
<1> QED BY <1>2, <1>3, <1>5, <1>6, Zenon DEF ListInv

LEMMA ListKept == ListInv /\ [InputsNext]_inputVars => ListInv'
<1> SUFFICES ASSUME ListInv, [InputsNext]_inputVars PROVE ListInv'
  OBVIOUS
<1> USE DEF ListInv
<1>1. Len(all) \in Nat /\ Len(files) \in Nat /\ PageSize \in Nat \ {0}
  BY InputsAssumption
<1>2. ASSUME UNCHANGED listVars, \/ UNCHANGED stage
                                 \/ stage = "diff" /\ stage' \in {"fetch", "shown"}
                                 \/ stage = "fetch" /\ stage' = "ready"
      PROVE  ListInv'
  BY <1>2 DEF listVars
<1>3. CASE ListPage
  <2>1. PICK upTo : upTo = Smallest(Len(files) + PageSize, Len(all))
    OBVIOUS
  <2>2. upTo \in 0..Len(all) /\ (upTo < Len(files) + PageSize => upTo = Len(all))
    BY <1>1, <2>1 DEF Smallest
  <2>3. /\ files' = SubSeq(all, 1, upTo) /\ all' = all /\ truncated' = truncated
        /\ stage' = IF upTo < Len(files) + PageSize THEN AfterList(files', FALSE)
                    ELSE IF upTo = MaxPages * PageSize THEN "probe" ELSE "list"
    BY <1>3, <2>1 DEF ListPage, listVars
  <2>4. files' \in Seq(ChangedFile) /\ Len(files') = upTo
    BY <1>1, <2>2, <2>3
  <2>5. upTo = Len(all) => files' = all
    BY <2>3
  <2>6. \/ AfterList(files', FALSE) = "skipped" /\ \A i \in DOMAIN files' : files'[i].docs
        \/ AfterList(files', FALSE) = "diff"
    BY DEF AfterList
  <2>7. CASE upTo < Len(files) + PageSize
    <3>1. files' = all' /\ all' \in Seq(ChangedFile) /\ SubSeq(all', 1, Len(all')) = all'
      BY <2>2, <2>3, <2>5, <2>7, SubSeqFull
    <3>2. stage' = AfterList(files', FALSE)
      BY <2>3, <2>7
    <3>3. truncated' \in BOOLEAN
      BY <2>3
    <3>4. files' = SubSeq(all', 1, Len(files')) /\ Len(files') <= Len(all')
      BY <1>1, <2>2, <2>3, <2>4
    <3>5. stage' \in {"diff", "skipped"} /\ (stage' = "skipped" => \A i \in DOMAIN all' : all'[i].docs)
      BY <2>6, <3>1, <3>2, Zenon
    <3> QED BY <3>1, <3>3, <3>4, <3>5
  <2>8. CASE ~(upTo < Len(files) + PageSize)
    <3>1. stage' \in {"probe", "list"}
      BY <2>3, <2>8
    <3>2. files' = SubSeq(all', 1, Len(files')) /\ Len(files') <= Len(all') /\ all' \in Seq(ChangedFile)
      BY <1>1, <2>2, <2>3, <2>4
    <3>3. truncated' \in BOOLEAN
      BY <2>3
    <3> QED BY <2>4, <3>1, <3>2, <3>3
  <2> QED BY <2>7, <2>8
<1>4. CASE ListFails
  BY <1>4 DEF ListFails, Goes, listVars
<1>5. CASE Probe
  <2>0. (Len(files) < Len(all)) \in BOOLEAN
    BY <1>1
  <2> DEFINE short == Len(files) < Len(all)
  <2>a. truncated' \in {short, TRUE} /\ short \in BOOLEAN
    BY <1>5, <2>0, Zenon DEF Probe
  <2>1. all' = all /\ files' = files /\ truncated' \in BOOLEAN /\ stage' = AfterList(files, truncated')
    BY <1>5, <2>a, Zenon DEF Probe, Goes
  <2>2. ~truncated' => files = all
    <3>1. ~truncated' => ~(Len(files) < Len(all))
      BY <1>5 DEF Probe
    <3>2. Len(files) = Len(all) => files = all
      BY <1>1
    <3> QED BY <1>1, <3>1, <3>2
  <2>3. \/ stage' = "skipped" /\ ~truncated' /\ \A i \in DOMAIN files : files[i].docs
        \/ stage' = "diff"
    BY <2>1 DEF AfterList
  <2> QED BY <2>1, <2>2, <2>3
<1>6. CASE AppendPatch \/ AddPatch
  BY <1>2, <1>6 DEF AppendPatch, AddPatch
<1>7. CASE DiffDone
  BY <1>2, <1>7 DEF DiffDone, Goes
<1>8. CASE StartBatch
  BY <1>2, <1>8 DEF StartBatch
<1>9. CASE JoinBatch
  BY <1>2, <1>9 DEF JoinBatch
<1>10. CASE FetchDone
  BY <1>2, <1>10 DEF FetchDone, Goes
<1>11. CASE Cancel
  BY <1>2, <1>11 DEF Cancel
<1>12. ASSUME NEW i \in DOMAIN files, FetchEnds(i) PROVE ListInv'
  BY <1>2, <1>12 DEF FetchEnds
<1>13. CASE UNCHANGED inputVars
  BY <1>2, <1>13 DEF inputVars, listVars
<1> QED BY <1>3, <1>4, <1>5, <1>6, <1>7, <1>8, <1>9, <1>10, <1>11, <1>12, <1>13 DEF InputsNext
-----------------------------------------------------------------------------
LEMMA DiffStarts == InputsInit => DiffMadeInv
<1> SUFFICES ASSUME InputsInit PROVE DiffMadeInv
  OBVIOUS
<1>1. /\ mode \in {"legacy", "tool_calling"}
      /\ diff = <<>> /\ diffCut = FALSE /\ linesLeft = MaxDiffLines /\ stage = "list" /\ files = <<>>
  BY DEF InputsInit
<1>2. ShownIn(diff) = {}
  <2>1. 1..Len(diff) = {}
    BY <1>1
  <2> QED BY <2>1 DEF ShownIn, ShownUpTo
<1>3. IsFiniteSet(ShownIn(diff)) /\ Cardinality(ShownIn(diff)) = 0 /\ linesLeft \in Nat
  BY <1>1, <1>2, FS_EmptySet, InputsAssumption
<1>4. diff \in Seq(Nat) /\ Len(diff) = 0 /\ Len(files) = 0 /\ DOMAIN diff = {}
  BY <1>1
<1>5. LimitInv
  BY <1>1, <1>3 DEF LimitInv
<1>6. WholeInv
  <2>0. diffCut \in BOOLEAN
    BY <1>1, Zenon
  <2>1. Len(diff) <= Len(files)
    BY <1>4
  <2>2. \A i \in DOMAIN diff : diff[i] = files[i].lines
    BY <1>4
  <2>3. stage \notin {"fetch", "ready", "shown"}
    BY <1>1
  <2> QED BY <1>1, <1>4, <2>0, <2>1, <2>2, <2>3, Zenon DEF WholeInv
<1> QED BY <1>5, <1>6 DEF DiffMadeInv

\* One more patch is shown, up to n of its lines.
LEMMA PatchShown ==
  ASSUME DiffMadeInv, NEW n \in Nat, diff' = Append(diff, n)
  PROVE  /\ diff' \in Seq(Nat) /\ Len(diff') = Len(diff) + 1 /\ diff' # <<>>
         /\ \A k \in DOMAIN diff' : diff'[k] = IF k = Len(diff) + 1 THEN n ELSE diff[k]
         /\ IsFiniteSet(ShownIn(diff')) /\ Cardinality(ShownIn(diff')) = Cardinality(ShownIn(diff)) + n
         /\ ShownUpTo(diff', Len(diff') - 1) = ShownIn(diff) /\ Cardinality(ShownIn(diff)) \in Nat
<1>1. diff \in Seq(Nat) /\ IsFiniteSet(ShownIn(diff)) /\ Len(diff) \in Nat
  BY DEF DiffMadeInv, LimitInv, WholeInv
<1>2. diff' \in Seq(Nat) /\ Len(diff') = Len(diff) + 1 /\ diff' # <<>>
  BY <1>1
<1>3. \A k \in DOMAIN diff' : diff'[k] = IF k = Len(diff) + 1 THEN n ELSE diff[k]
  BY <1>1
<1>4. IsFiniteSet(ShownIn(diff')) /\ Cardinality(ShownIn(diff')) = Cardinality(ShownIn(diff)) + n
  BY <1>1, OneMoreFile
<1>5. ShownUpTo(diff', Len(diff') - 1) = ShownIn(diff)
  <2>1. Len(diff') - 1 = Len(diff) /\ \A k \in 1..Len(diff) : diff'[k] = diff[k]
    BY <1>1, <1>2
  <2> QED BY <2>1 DEF ShownIn, ShownUpTo
<1>6. Cardinality(ShownIn(diff)) \in Nat
  BY <1>1, FS_CardinalityType
<1> QED BY <1>2, <1>3, <1>4, <1>5, <1>6

LEMMA DiffKept == ListInv /\ DiffMadeInv /\ [InputsNext]_inputVars => DiffMadeInv'
<1> SUFFICES ASSUME ListInv, DiffMadeInv, [InputsNext]_inputVars PROVE DiffMadeInv'
  OBVIOUS
<1>1. Len(files) \in Nat /\ Len(diff) \in Nat /\ linesLeft \in Int /\ DOMAIN diff = 1..Len(diff) /\ MaxDiffLines \in Nat \ {0}
  BY InputsAssumption DEF ListInv, DiffMadeInv, LimitInv, WholeInv
<1>2. ASSUME UNCHANGED <<mode, files, diffParts>>, \/ UNCHANGED stage
                                                   \/ stage = "fetch" /\ stage' = "ready"
      PROVE  DiffMadeInv'
  BY <1>2 DEF diffParts, DiffMadeInv, LimitInv, WholeInv
<1>3. ASSUME UNCHANGED <<mode, diffParts>>, stage \in {"list", "probe"}, stage' \notin {"fetch", "ready", "shown"}
      PROVE  DiffMadeInv'
  <2>1. diff' = <<>> /\ diff = <<>> /\ Len(diff') = 0 /\ DOMAIN diff' = {}
    BY <1>3 DEF diffParts, DiffMadeInv, WholeInv
  <2>2. Len(files') >= 0
    <3>1. files' \in Seq(ChangedFile)
      BY ListKept DEF ListInv
    <3> QED BY <3>1
  <2> QED BY <1>3, <2>1, <2>2 DEF diffParts, DiffMadeInv, LimitInv, WholeInv
<1>4. CASE ListPage
  <2>1. stage' \notin {"fetch", "ready", "shown"}
    BY <1>4 DEF ListPage, AfterList
  <2> QED BY <1>3, <1>4, <2>1 DEF ListPage
<1>5. CASE ListFails
  BY <1>3, <1>5 DEF ListFails, Goes, listVars
<1>6. CASE Probe
  BY <1>3, <1>6 DEF Probe, Goes, AfterList
<1>7. MorePatches => NextPatch \in Nat /\ NextPatch = files[Len(diff) + 1].lines
  <2>1. SUFFICES ASSUME MorePatches PROVE NextPatch \in Nat
    BY DEF NextPatch
  <2>2. PICK i \in 1..Len(files) : i = Len(diff) + 1
    BY <1>1, <2>1 DEF MorePatches
  <2>3. files[i] \in ChangedFile
    BY ElementOfSeq DEF ListInv
  <2> QED BY <2>2, <2>3 DEF ChangedFile, NextPatch
<1>8. CASE AppendPatch
  <2>1. /\ mode = "legacy" /\ mode' = mode /\ files' = files /\ stage' = stage /\ stage = "diff"
        /\ ~diffCut /\ Len(diff) < Len(files) /\ MorePatches
    BY <1>8 DEF AppendPatch, MorePatches, listVars
  <2>2. CASE linesLeft <= 0 /\ diffCut' = TRUE /\ UNCHANGED <<diff, linesLeft>>
    BY <2>1, <2>2 DEF DiffMadeInv, LimitInv, WholeInv
  <2>3. CASE linesLeft > 0 /\ diff' = Append(diff, NextPatch) /\ UNCHANGED diffCut
             /\ linesLeft' = linesLeft - Largest(NextPatch, 1)
    <3>1. PICK n \in Nat : n = NextPatch /\ n = files[Len(diff) + 1].lines
      BY <1>7, <2>1
    <3>2. /\ diff' \in Seq(Nat) /\ Len(diff') = Len(diff) + 1 /\ diff' # <<>>
          /\ \A k \in DOMAIN diff' : diff'[k] = IF k = Len(diff) + 1 THEN n ELSE diff[k]
          /\ IsFiniteSet(ShownIn(diff')) /\ Cardinality(ShownIn(diff')) = Cardinality(ShownIn(diff)) + n
          /\ ShownUpTo(diff', Len(diff') - 1) = ShownIn(diff) /\ Cardinality(ShownIn(diff)) \in Nat
      BY <2>3, <3>1, PatchShown
    <3>3. linesLeft' \in Int /\ linesLeft' <= linesLeft - n
      BY <1>1, <2>3, <3>1 DEF Largest
    <3>4. Cardinality(ShownIn(diff)) + linesLeft <= MaxDiffLines
      BY <2>1 DEF DiffMadeInv, LimitInv
    <3>5. Cardinality(ShownIn(diff')) + linesLeft' <= MaxDiffLines /\ Cardinality(ShownIn(diff)) < MaxDiffLines
      BY <1>1, <2>3, <3>2, <3>3, <3>4
    <3>6. LimitInv'
      BY <2>1, <3>2, <3>3, <3>5 DEF LimitInv
    <3>7. \A k \in DOMAIN diff' : diff'[k] = files[k].lines
      <4>1. \A k \in DOMAIN diff : diff[k] = files[k].lines
        BY <2>1 DEF DiffMadeInv, WholeInv
      <4>2. DOMAIN diff' = 1..(Len(diff) + 1)
        BY <3>2
      <4> QED BY <1>1, <3>1, <3>2, <4>1, <4>2
    <3>8. WholeInv'
      BY <1>1, <2>1, <2>3, <3>2, <3>7 DEF DiffMadeInv, WholeInv
    <3> QED BY <3>6, <3>8 DEF DiffMadeInv
  <2> QED BY <1>8, <2>2, <2>3 DEF AppendPatch
<1>9. CASE AddPatch
  <2>1. /\ mode = "tool_calling" /\ mode' = mode /\ files' = files /\ stage' = stage /\ stage = "diff"
        /\ ~diffCut /\ Len(diff) < Len(files) /\ MorePatches
    BY <1>9 DEF AddPatch, MorePatches, listVars
  <2>2. PICK n \in Nat : n = NextPatch /\ n = files[Len(diff) + 1].lines
    BY <1>7, <2>1
  <2>3. PICK used : used = Smallest(n, linesLeft)
    OBVIOUS
  <2>4. linesLeft \in Nat /\ Cardinality(ShownIn(diff)) + linesLeft = MaxDiffLines
    BY <2>1 DEF DiffMadeInv, LimitInv
  <2>5. used \in 0..linesLeft /\ (n <= linesLeft => used = n)
    BY <2>2, <2>3, <2>4 DEF Smallest
  <2>6. /\ diff' = (IF linesLeft = 0 THEN diff ELSE Append(diff, used)) /\ linesLeft' = linesLeft - used
        /\ diffCut' = (linesLeft = 0 \/ n > linesLeft)
    BY <1>9, <2>2, <2>3 DEF AddPatch
  <2>7. CASE linesLeft = 0
    <3>1. diff' = diff /\ diffCut' = TRUE
      BY <2>6, <2>7, Zenon
    <3>2. linesLeft' = linesLeft
      <4>1. used = 0
        BY <2>5, <2>7
      <4>2. linesLeft' = linesLeft - used
        BY <2>6, Zenon
      <4> QED BY <2>7, <4>1, <4>2
    <3> QED BY <2>1, <3>1, <3>2 DEF DiffMadeInv, LimitInv, WholeInv
  <2>8. CASE linesLeft # 0
    <3>1. diff' = Append(diff, used) /\ linesLeft' \in Nat /\ linesLeft' = linesLeft - used /\ diffCut' \in BOOLEAN
      BY <2>4, <2>5, <2>6, <2>8
    <3>2. /\ diff' \in Seq(Nat) /\ Len(diff') = Len(diff) + 1 /\ diff' # <<>>
          /\ \A k \in DOMAIN diff' : diff'[k] = IF k = Len(diff) + 1 THEN used ELSE diff[k]
          /\ IsFiniteSet(ShownIn(diff')) /\ Cardinality(ShownIn(diff')) = Cardinality(ShownIn(diff)) + used
          /\ Cardinality(ShownIn(diff)) \in Nat
      <4>1. used \in Nat
        BY <2>4, <2>5
      <4> QED BY <3>1, <4>1, PatchShown
    <3>3. Cardinality(ShownIn(diff')) + linesLeft' = MaxDiffLines
      BY <2>4, <2>5, <3>1, <3>2
    <3>4. LimitInv'
      BY <2>1, <3>1, <3>2, <3>3 DEF LimitInv
    <3>5. ASSUME ~diffCut' PROVE \A k \in DOMAIN diff' : diff'[k] = files[k].lines
      <4>1. \A k \in DOMAIN diff : diff[k] = files[k].lines
        BY <2>1 DEF DiffMadeInv, WholeInv
      <4>2. DOMAIN diff' = 1..(Len(diff) + 1)
        BY <3>2
      <4>3. ~(n > linesLeft)
        BY <2>6, <3>5, Zenon
      <4>4. used = n
        BY <2>4, <2>5, <4>3
      <4> QED BY <1>1, <2>2, <3>2, <4>1, <4>2, <4>4
    <3>6. WholeInv'
      BY <1>1, <2>1, <3>1, <3>2, <3>5 DEF DiffMadeInv, WholeInv
    <3> QED BY <3>4, <3>6 DEF DiffMadeInv
  <2> QED BY <2>7, <2>8
<1>10. CASE DiffDone
  BY <1>10 DEF DiffDone, Goes, listVars, diffParts, DiffMadeInv, LimitInv, WholeInv
<1>11. CASE StartBatch
  BY <1>2, <1>11 DEF StartBatch, listVars
<1>12. CASE JoinBatch
  BY <1>2, <1>12 DEF JoinBatch, listVars
<1>13. CASE FetchDone
  BY <1>2, <1>13 DEF FetchDone, Goes, listVars
<1>14. CASE Cancel
  BY <1>2, <1>14 DEF Cancel, listVars
<1>15. ASSUME NEW i \in DOMAIN files, FetchEnds(i) PROVE DiffMadeInv'
  BY <1>2, <1>15 DEF FetchEnds, listVars
<1>16. CASE UNCHANGED inputVars
  BY <1>2, <1>16 DEF inputVars, diffParts
<1> QED BY <1>4, <1>5, <1>6, <1>8, <1>9, <1>10, <1>11, <1>12, <1>13, <1>14, <1>15, <1>16 DEF InputsNext
-----------------------------------------------------------------------------
\* Before the contents are fetched there is nothing of them.
FetchInv == FetchTypeInv /\ ContentsInv /\ ArrivedInv

LEMMA TextIsListed ==
  ListInv => Text \subseteq 1..Len(files) /\ Len(files) \in Nat /\ DOMAIN files = 1..Len(files)
BY DEF ListInv, Text

LEMMA NothingArrived ==
  FetchTypeInv /\ ArrivedInv /\ batch = <<>> => arrived = <<>>
<1> SUFFICES ASSUME FetchTypeInv, ArrivedInv, batch = <<>> PROVE arrived = <<>>
  OBVIOUS
<1>1. arrived \in Seq((1..nextFile) \X BOOLEAN) /\ DOMAIN batch = {}
  BY DEF FetchTypeInv
<1>2. DOMAIN arrived = {}
  BY <1>1 DEF ArrivedInv
<1> QED BY <1>1, <1>2

LEMMA FetchIdle ==
  ASSUME nextFile = 0, contents = <<>>, batch = <<>>, arrived = <<>>, cancelled \in BOOLEAN, ListInv,
         stage # "ready"
  PROVE  FetchInv
<1>1. Len(contents) = 0 /\ Len(batch) = 0 /\ DOMAIN contents = {} /\ DOMAIN batch = {} /\ DOMAIN arrived = {}
  OBVIOUS
<1>2. Text \subseteq 1..Len(files) /\ Len(files) \in Nat /\ MaxFileContexts \in Nat
  BY TextIsListed, InputsAssumption
<1>3. contents \in Seq(Text) /\ batch \in Seq(1..nextFile) /\ arrived \in Seq((1..nextFile) \X BOOLEAN)
  OBVIOUS
<1>4. FetchTypeInv
  BY <1>1, <1>2, <1>3 DEF FetchTypeInv, Fetching
<1>5. \A i \in Text : ~(i <= nextFile)
  BY <1>2
<1>6. ContentsInv
  BY <1>1, <1>5 DEF ContentsInv
<1>7. ArrivedInv
  BY <1>1 DEF ArrivedInv
<1> QED BY <1>4, <1>6, <1>7 DEF FetchInv
-----------------------------------------------------------------------------
\* The first of the numbers after one of them, as many as a batch takes, and how far that gets.
UpTo(b, size, last) == IF Len(b) < size THEN last ELSE b[Len(b)]
Covers(b, S, upTo) == \A i \in S : i <= upTo => \E k \in DOMAIN b : b[k] = i
LEMMA NextFew ==
  ASSUME NEW from \in Nat, NEW last \in Nat, from < last, NEW S \in SUBSET ((from + 1)..last),
         NEW size \in Nat \ {0}, NEW b, b = FirstFew(S, Smallest(size, Cardinality(S)))
  PROVE  /\ Len(b) \in 0..size
         /\ \A j, k \in DOMAIN b : j < k => b[j] < b[k]
         /\ UpTo(b, size, last) \in (from + 1)..last
         /\ b \in Seq((from + 1)..UpTo(b, size, last))
         /\ Covers(b, S, UpTo(b, size, last))
<1>1. IsFiniteSet(S) /\ Cardinality(S) \in Nat
  <2>1. IsFiniteSet(1..last) /\ S \in SUBSET (1..last)
    BY CountUpTo
  <2>2. IsFiniteSet(S)
    BY <2>1, FS_Subset
  <2> QED BY <2>2, FS_CardinalityType
<1>2. PICK n \in Nat : /\ n = Smallest(size, Cardinality(S)) /\ n \in 0..Cardinality(S)
                       /\ n <= size /\ (n < size => n = Cardinality(S))
  BY <1>1 DEF Smallest
<1>3. S \in SUBSET Nat
  OBVIOUS
<1>4. b = FirstFew(S, n)
  BY <1>2
<1>5. /\ b \in Seq(S) /\ Len(b) = n
      /\ \A j, k \in 1..n : j < k => b[j] < b[k]
      /\ \A k \in 1..n, i \in S : i < b[k] => \E j \in 1..n : b[j] = i
      /\ n = Cardinality(S) => Onto(b, S)
  BY <1>1, <1>2, <1>3, <1>4, InOrderIsUpwards
<1>6. n \in Nat /\ DOMAIN b = 1..n /\ b \in [1..n -> S]
  BY <1>1, <1>2, <1>5, LenProperties
<1>7. \A k \in 1..n : b[k] \in (from + 1)..last /\ b[k] \in S
  BY <1>6
<1>8. ASSUME NEW upTo \in (from + 1)..last, \A k \in 1..n : b[k] <= upTo
      PROVE  b \in Seq((from + 1)..upTo)
  <2>1. \A k \in 1..n : b[k] \in (from + 1)..upTo
    BY <1>7, <1>8
  <2>2. b \in [1..n -> (from + 1)..upTo]
    BY <1>6, <2>1
  <2> QED BY <1>6, <2>2
<1>9. CASE n < size
  <2>1. \A k \in 1..n : b[k] <= last
    BY <1>7
  <2>2. last \in (from + 1)..last
    OBVIOUS
  <2>3. \A i \in S : \E k \in DOMAIN b : b[k] = i
    BY <1>2, <1>5, <1>6, <1>9 DEF Onto
  <2>4. UpTo(b, size, last) = last
    BY <1>5, <1>9 DEF UpTo
  <2> QED BY <1>2, <1>5, <1>6, <1>8, <2>1, <2>2, <2>3, <2>4 DEF Covers
<1>10. CASE ~(n < size)
  <2>1. n \in 1..n /\ n = size
    BY <1>2, <1>6, <1>10
  <2>2. b[n] \in (from + 1)..last
    BY <1>7, <2>1
  <2>3. ASSUME NEW k \in 1..n PROVE b[k] <= b[n]
    <3>1. CASE k < n
      BY <1>5, <1>7, <2>1, <2>2, <3>1
    <3>2. CASE k = n
      BY <2>2, <3>2
    <3> QED BY <1>6, <3>1, <3>2
  <2>4. ASSUME NEW i \in S, i <= b[n] PROVE \E k \in DOMAIN b : b[k] = i
    <3>1. i = b[n] \/ i < b[n]
      BY <2>2, <2>4
    <3> QED BY <1>5, <1>6, <2>1, <3>1
  <2>5. b \in Seq((from + 1)..b[n])
    BY <1>8, <2>2, <2>3
  <2>6. b[n] = UpTo(b, size, last)
    BY <1>2, <1>5, <1>10 DEF UpTo
  <2> QED BY <1>2, <1>5, <1>6, <2>2, <2>4, <2>5, <2>6 DEF Covers
<1> QED BY <1>9, <1>10
-----------------------------------------------------------------------------
\* What is one-to-one from the numbers up to n to themselves takes each.
LEMMA OntoByCount ==
  ASSUME NEW n \in Nat, NEW g \in [1..n -> 1..n], \A h, k \in 1..n : g[h] = g[k] => h = k
  PROVE  \A t \in 1..n : \E k \in 1..n : g[k] = t
<1> DEFINE T == 1..n
<1>1. IsFiniteSet(T)
  BY CountUpTo
<1>2. g \in Injection(T, T)
  BY Fun_IsInj
<1> HIDE DEF T
<1>3. Cardinality(T) = Cardinality(T) <=> g \in Surjection(T, T)
  BY <1>1, <1>2, FS_Injection
<1>4. \A t \in T : \E k \in T : g[k] = t
  BY <1>3, Fun_SurjectionProperties
<1> QED BY <1>4 DEF T

\* When as many answers are in as were asked for, each has arrived.
LEMMA EachArrived ==
  ASSUME FetchTypeInv, ArrivedInv, Len(arrived) = Len(batch), NEW j \in DOMAIN batch
  PROVE  \E k \in DOMAIN arrived : arrived[k][1] = batch[j]
<1>1. PICK n \in Nat : n = Len(batch)
  BY DEF FetchTypeInv
<1>2. DOMAIN batch = 1..n /\ DOMAIN arrived = 1..n
  BY <1>1 DEF FetchTypeInv
<1> DEFINE g == [k \in 1..n |-> CHOOSE i \in 1..n : batch[i] = arrived[k][1]]
<1>3. ASSUME NEW k \in 1..n PROVE g[k] \in 1..n /\ batch[g[k]] = arrived[k][1]
  <2>1. \E i \in 1..n : batch[i] = arrived[k][1]
    BY <1>2 DEF ArrivedInv
  <2>2. g[k] = CHOOSE i \in 1..n : batch[i] = arrived[k][1]
    OBVIOUS
  <2> QED BY <2>1, <2>2
<1>4. g \in [1..n -> 1..n]
  BY <1>3
<1> HIDE DEF g
<1>5. ASSUME NEW h \in 1..n, NEW k \in 1..n, g[h] = g[k] PROVE h = k
  <2>1. arrived[h][1] = arrived[k][1]
    BY <1>3, <1>5
  <2> QED BY <1>2, <2>1 DEF ArrivedInv
<1>6. \A h, k \in 1..n : g[h] = g[k] => h = k
  BY <1>5
<1>7. \A i \in 1..n : \E k \in 1..n : g[k] = i
  BY <1>1, <1>4, <1>6, OntoByCount
<1>8. PICK k \in 1..n : g[k] = j
  BY <1>2, <1>7
<1> QED BY <1>2, <1>3, <1>8
-----------------------------------------------------------------------------
LEMMA StartKeepsFetch == ListInv /\ FetchInv /\ StartBatch => FetchInv'
<1> SUFFICES ASSUME ListInv, FetchTypeInv, ContentsInv, ArrivedInv, StartBatch PROVE FetchInv'
  BY DEF FetchInv
<1> DEFINE size == Smallest(FetchConcurrency, MaxFileContexts - Len(contents))
           S == {i \in DOMAIN files : i > nextFile /\ files[i].read # "other"}
<1>1. /\ Len(files) \in Nat /\ DOMAIN files = 1..Len(files) /\ nextFile \in Nat /\ Len(contents) \in Nat
      /\ FetchConcurrency \in Nat \ {0} /\ MaxFileContexts \in Nat
  BY InputsAssumption DEF ListInv, FetchTypeInv
<1>2. /\ stage = "fetch" /\ batch = <<>> /\ stage' = stage /\ files' = files /\ arrived' = arrived
      /\ contents' = contents /\ cancelled' = cancelled /\ ~cancelled
      /\ Len(contents) < MaxFileContexts /\ nextFile < Len(files)
  BY DEF StartBatch, Wanted, listVars
<1>3. batch' = FirstFew(S, Smallest(size, Cardinality(S)))
  BY DEF StartBatch, Selection, FirstFew
<1>4. nextFile' = UpTo(batch', size, Len(files))
  BY DEF StartBatch, UpTo
<1>5. size \in Nat \ {0} /\ Len(contents) + size <= MaxFileContexts
  BY <1>1, <1>2 DEF Smallest
<1>6. S \in SUBSET ((nextFile + 1)..Len(files)) /\ \A i \in Text : i > nextFile => i \in S
  BY <1>1 DEF Text
<1> HIDE DEF size, S
<1>7. /\ Len(batch') \in 0..size
      /\ \A j, k \in DOMAIN batch' : j < k => batch'[j] < batch'[k]
      /\ nextFile' \in (nextFile + 1)..Len(files)
      /\ batch' \in Seq((nextFile + 1)..nextFile')
      /\ \A i \in S : i <= nextFile' => \E k \in DOMAIN batch' : batch'[k] = i
  <2>1. PICK b : b = batch'
    OBVIOUS
  <2>2. b = FirstFew(S, Smallest(size, Cardinality(S)))
    BY <1>3, <2>1
  <2>3. PICK last \in Nat : last = Len(files)
    BY <1>1
  <2>4. /\ Len(b) \in 0..size
        /\ \A j, k \in DOMAIN b : j < k => b[j] < b[k]
        /\ UpTo(b, size, last) \in (nextFile + 1)..last
        /\ b \in Seq((nextFile + 1)..UpTo(b, size, last))
        /\ Covers(b, S, UpTo(b, size, last))
    <3>1. nextFile \in Nat /\ nextFile < last /\ S \in SUBSET ((nextFile + 1)..last) /\ size \in Nat \ {0}
      BY <1>1, <1>2, <1>5, <1>6, <2>3
    <3> QED BY <2>2, <3>1, NextFew
  <2> QED BY <1>4, <2>1, <2>3, <2>4 DEF Covers
<1>8. nextFile' \in Nat /\ nextFile < nextFile' /\ nextFile' <= Len(files)
  BY <1>1, <1>7
<1>9. arrived = <<>>
  BY <1>2, NothingArrived
<1>10. Text' = Text /\ Text \subseteq 1..Len(files)
  BY <1>2, TextIsListed DEF Text
<1>11. /\ Len(batch') \in Nat /\ DOMAIN batch' = 1..Len(batch')
       /\ \A k \in DOMAIN batch' : batch'[k] \in (nextFile + 1)..nextFile'
  <2>1. batch' \in Seq((nextFile + 1)..nextFile')
    BY <1>7
  <2>2. Len(batch') \in Nat /\ DOMAIN batch' = 1..Len(batch')
    BY <2>1
  <2> QED BY <2>1, <2>2, ElementOfSeq
<1>12. FetchTypeInv'
  <2>1. batch' \in Seq(1..nextFile')
    <3>1. (nextFile + 1)..nextFile' \subseteq 1..nextFile'
      BY <1>1, <1>8
    <3> QED BY <1>7, <3>1, SeqMonotonic
  <2>2. arrived' \in Seq((1..nextFile') \X BOOLEAN)
    BY <1>2, <1>9
  <2>3. contents' \in Seq(Text') /\ cancelled' \in BOOLEAN
    BY <1>2, <1>10 DEF FetchTypeInv
  <2>4. Len(contents') + Len(batch') <= MaxFileContexts
    BY <1>1, <1>2, <1>5, <1>7
  <2>5. nextFile' \in 0..Len(files')
    BY <1>1, <1>2, <1>8
  <2> QED BY <1>2, <2>1, <2>2, <2>3, <2>4, <2>5 DEF FetchTypeInv, Fetching
<1>13. contents \in Seq(Text) /\ DOMAIN contents = 1..Len(contents) /\ \A j \in DOMAIN contents : contents[j] \in Text /\ contents[j] \in Nat
  <2>1. contents \in Seq(Text)
    BY DEF FetchTypeInv
  <2>2. \A j \in 1..Len(contents) : contents[j] \in Text
    BY <2>1, ElementOfSeq
  <2>3. \A i \in Text : i \in Nat
    BY <1>1, <1>10
  <2> QED BY <2>1, <2>2, <2>3
<1>14. ContentsInv'
  <2>1. ASSUME NEW j \in DOMAIN contents
        PROVE  contents[j] <= nextFile' /\ \A k \in DOMAIN batch' : contents[j] < batch'[k]
    <3>1. contents[j] <= nextFile
      BY DEF ContentsInv
    <3> QED BY <1>1, <1>8, <1>11, <1>13, <3>1
  <2>2. ASSUME NEW i \in Text, i <= nextFile'
        PROVE  (\E k \in DOMAIN contents : contents[k] = i) \/ (\E k \in DOMAIN batch' : batch'[k] = i)
    <3>1. CASE i <= nextFile
      <4>1. DOMAIN batch = {}
        BY <1>2
      <4> QED BY <1>2, <3>1, <4>1 DEF ContentsInv
    <3>2. CASE ~(i <= nextFile)
      <4>1. i > nextFile
        BY <1>1, <1>10, <3>2
      <4> QED BY <1>6, <1>7, <2>2, <4>1
    <3> QED BY <3>1, <3>2
  <2>3. \A j, k \in DOMAIN contents : j < k => contents[j] < contents[k]
    BY DEF ContentsInv
  <2> QED BY <1>2, <1>7, <1>10, <2>1, <2>2, <2>3 DEF ContentsInv
<1>15. ArrivedInv'
  <2>1. DOMAIN arrived' = {}
    BY <1>2, <1>9
  <2> QED BY <2>1 DEF ArrivedInv
<1> QED BY <1>12, <1>14, <1>15 DEF FetchInv

LEMMA EndKeepsFetch ==
  ASSUME NEW i \in DOMAIN files, ListInv, FetchInv, FetchEnds(i)
  PROVE  FetchInv'
<1> USE DEF FetchInv
<1>1. /\ files' = files /\ stage' = stage /\ nextFile' = nextFile /\ batch' = batch /\ contents' = contents
      /\ cancelled' = cancelled
  BY DEF FetchEnds, listVars
<1>2. Text' = Text /\ Wanted' = Wanted
  BY <1>1 DEF Text, Wanted
<1>3. PICK ok \in {files[i].read = "text", files[i].read = "text" /\ ~cancelled} : arrived' = Append(arrived, <<i, ok>>)
  BY DEF FetchEnds
<1>4. (ok => i \in Text) /\ (~cancelled /\ i \in Text => ok) /\ ok \in BOOLEAN
  BY <1>3, Zenon DEF Text
<1>5. PICK j \in DOMAIN batch : batch[j] = i
  BY DEF FetchEnds
<1>6. i \in 1..nextFile
  <2>1. batch \in Seq(1..nextFile)
    BY DEF FetchTypeInv
  <2>2. j \in 1..Len(batch)
    BY <1>5, <2>1
  <2> QED BY <1>5, <2>1, <2>2, ElementOfSeq
<1>7. arrived \in Seq((1..nextFile) \X BOOLEAN)
  BY DEF FetchTypeInv
<1> DEFINE a == arrived'
           n == Len(arrived)
<1>8. /\ a \in Seq((1..nextFile) \X BOOLEAN) /\ n \in Nat /\ DOMAIN arrived = 1..n /\ DOMAIN a = 1..(n + 1)
      /\ a[n + 1] = <<i, ok>> /\ \A k \in 1..n : a[k] = arrived[k]
  BY <1>3, <1>4, <1>6, <1>7
<1>9. FetchTypeInv'
  BY <1>1, <1>2, <1>8 DEF FetchTypeInv, Fetching
<1>10. ContentsInv'
  BY <1>1, <1>2 DEF ContentsInv
<1>11. ASSUME NEW k \in 1..n PROVE arrived[k][1] # i
  <2>1. arrived[k] \in (1..nextFile) \X BOOLEAN
    BY <1>7, ElementOfSeq
  <2>2. arrived[k] # <<i, TRUE>> /\ arrived[k] # <<i, FALSE>>
    BY <1>8 DEF FetchEnds
  <2>3. PICK m \in 1..nextFile, b \in BOOLEAN : arrived[k] = <<m, b>>
    BY <2>1
  <2>4. b = TRUE \/ b = FALSE
    OBVIOUS
  <2>5. m # i
    BY <2>2, <2>3, <2>4, Zenon
  <2> QED BY <2>3, <2>5
<1> HIDE DEF a, n
<1>12. ASSUME NEW k \in 1..(n + 1)
       PROVE  /\ \E h \in DOMAIN batch : batch[h] = a[k][1]
              /\ a[k][2] => a[k][1] \in Text
              /\ ~cancelled /\ a[k][1] \in Text => a[k][2]
  <2>1. CASE k = n + 1
    <3>1. a[k] = <<i, ok>>
      BY <1>8, <2>1
    <3>2. a[k][1] = i /\ a[k][2] = ok
      BY <3>1
    <3> QED BY <1>4, <1>5, <3>2
  <2>2. CASE k # n + 1
    <3>1. k \in DOMAIN arrived /\ a[k] = arrived[k]
      BY <1>8, <2>2
    <3> QED BY <3>1 DEF ArrivedInv
  <2> QED BY <2>1, <2>2
<1>13. ASSUME NEW h \in 1..(n + 1), NEW k \in 1..(n + 1), a[h][1] = a[k][1] PROVE h = k
  <2>1. a[n + 1][1] = i
    BY <1>8
  <2>2. \A m \in 1..n : a[m][1] # i /\ a[m] = arrived[m] /\ m \in DOMAIN arrived
    BY <1>8, <1>11
  <2>3. CASE h \in 1..n /\ k \in 1..n
    BY <1>13, <2>2, <2>3 DEF ArrivedInv
  <2>4. CASE h = n + 1 \/ k = n + 1
    BY <1>8, <1>13, <2>1, <2>2, <2>4
  <2> QED BY <1>8, <2>3, <2>4
<1>14. ArrivedInv'
  BY <1>1, <1>2, <1>8, <1>12, <1>13 DEF ArrivedInv, a
<1> QED BY <1>9, <1>10, <1>14

\* The elements of a rising sequence at some places, in their order.
AtPlaces(b, K) == [k \in DOMAIN InOrder(K) |-> b[InOrder(K)[k]]]
LEMMA PlacesKeepOrder ==
  ASSUME NEW b \in Seq(Nat), \A j, k \in DOMAIN b : j < k => b[j] < b[k], NEW K \in SUBSET DOMAIN b,
         NEW a, a = AtPlaces(b, K)
  PROVE  /\ a \in Seq(Nat) /\ Len(a) <= Len(b)
         /\ \A j, k \in DOMAIN a : j < k => a[j] < a[k]
         /\ \A k \in DOMAIN a : \E j \in K : a[k] = b[j]
         /\ \A j \in K : \E k \in DOMAIN a : a[k] = b[j]
<1>1. PICK n \in Nat : n = Len(b) /\ DOMAIN b = 1..n
  OBVIOUS
<1>2. K \in SUBSET (1..n) /\ K \in SUBSET Nat
  BY <1>1
<1>3. IsFiniteSet(K) /\ Cardinality(K) \in Nat /\ Cardinality(K) <= n
  <2>1. IsFiniteSet(1..n) /\ Cardinality(1..n) = n
    BY CountUpTo
  <2> QED BY <1>2, <2>1, FS_Subset, FS_CardinalityType
<1>4. PICK m \in Nat : m = Cardinality(K) /\ m \in 0..Cardinality(K)
  BY <1>3
<1>5. PICK s : s = FirstFew(K, m)
  OBVIOUS
<1>6. /\ s \in Seq(K) /\ Len(s) = m /\ s = InOrder(K)
      /\ \A j, k \in 1..m : j < k => s[j] < s[k]
      /\ \A i \in K : \E j \in 1..m : s[j] = i
  <2>1. /\ s \in Seq(K) /\ Len(s) = m
        /\ \A j, k \in 1..m : j < k => s[j] < s[k]
        /\ m = Cardinality(K) => s = InOrder(K) /\ Onto(s, K)
    BY <1>2, <1>3, <1>4, <1>5, InOrderIsUpwards
  <2>2. DOMAIN s = 1..m
    BY <2>1
  <2> QED BY <1>4, <2>1, <2>2 DEF Onto
<1>7. DOMAIN s = 1..m /\ s \in [1..m -> K]
  BY <1>6, LenProperties
<1>8. ASSUME NEW k \in 1..m PROVE s[k] \in K /\ s[k] \in 1..n /\ b[s[k]] \in Nat
  BY <1>1, <1>2, <1>7
<1>9. a = [k \in 1..m |-> b[s[k]]]
  BY <1>6, <1>7 DEF AtPlaces
<1>10. a \in Seq(Nat) /\ Len(a) = m /\ DOMAIN a = 1..m
  BY <1>8, <1>9
<1>11. \A k \in 1..m : a[k] = b[s[k]]
  BY <1>9
<1>12. ASSUME NEW j \in 1..m, NEW k \in 1..m, j < k PROVE a[j] < a[k]
  <2>1. s[j] < s[k]
    BY <1>6, <1>12
  <2>2. b[s[j]] < b[s[k]]
    BY <1>1, <1>8, <2>1
  <2> QED BY <1>11, <2>2
<1>13. \A k \in 1..m : \E j \in K : a[k] = b[j]
  BY <1>8, <1>11
<1>14. ASSUME NEW j \in K PROVE \E k \in 1..m : a[k] = b[j]
  BY <1>6, <1>11
<1> QED BY <1>1, <1>3, <1>4, <1>10, <1>12, <1>13, <1>14

LEMMA JoinKeepsFetch == ListInv /\ FetchInv /\ JoinBatch => FetchInv'
<1> SUFFICES ASSUME ListInv, FetchTypeInv, ContentsInv, ArrivedInv, JoinBatch PROVE FetchInv'
  BY DEF FetchInv
<1> DEFINE K == {k \in DOMAIN batch : Read(batch[k])}
           a == AtPlaces(batch, K)
           c == contents'
           m == Len(contents)
           n == Len(a)
<1>1. /\ files' = files /\ stage' = stage /\ nextFile' = nextFile /\ cancelled' = cancelled
      /\ batch' = <<>> /\ arrived' = <<>> /\ Len(arrived) = Len(batch) /\ batch # <<>>
  BY DEF JoinBatch, listVars
<1>2. c = contents \o a
  BY DEF JoinBatch, ListOrder, AtPlaces
<1>3. Text' = Text /\ Text \subseteq 1..Len(files) /\ Len(files) \in Nat
  BY <1>1, TextIsListed DEF Text
<1>4. /\ batch \in Seq(1..nextFile) /\ DOMAIN batch = 1..Len(batch) /\ Len(batch) \in Nat
      /\ \A k \in DOMAIN batch : batch[k] \in 1..nextFile
  <2>1. batch \in Seq(1..nextFile)
    BY DEF FetchTypeInv
  <2>2. DOMAIN batch = 1..Len(batch) /\ Len(batch) \in Nat
    BY <2>1
  <2>3. ASSUME NEW k \in 1..Len(batch) PROVE batch[k] \in 1..nextFile
    BY <2>1, ElementOfSeq
  <2> QED BY <2>1, <2>2, <2>3
<1>5. stage = "fetch"
  BY <1>1 DEF FetchTypeInv
<1>6. nextFile \in Nat /\ MaxFileContexts \in Nat
  BY <1>3, InputsAssumption DEF FetchTypeInv
<1>7. \A j, k \in DOMAIN batch : j < k => batch[j] < batch[k]
  BY DEF ContentsInv
<1> HIDE DEF K, a, c, m, n
<1>8. K \in SUBSET DOMAIN batch
  BY DEF K
<1>9. /\ a \in Seq(Nat) /\ n <= Len(batch)
      /\ \A j, k \in DOMAIN a : j < k => a[j] < a[k]
      /\ \A k \in DOMAIN a : \E j \in K : a[k] = batch[j]
      /\ \A j \in K : \E k \in DOMAIN a : a[k] = batch[j]
  <2>1. batch \in Seq(Nat)
    <3>1. 1..nextFile \subseteq Nat
      OBVIOUS
    <3> QED BY <1>4, <3>1, SeqMonotonic
  <2>2. a = AtPlaces(batch, K)
    BY DEF a
  <2> QED BY <1>7, <1>8, <2>1, <2>2, PlacesKeepOrder DEF n
<1>10. ASSUME NEW j \in DOMAIN batch, j \in K PROVE batch[j] \in Text
  <2>1. PICK k \in DOMAIN arrived : arrived[k] = <<batch[j], TRUE>>
    BY <1>10 DEF K, Read
  <2>2. arrived[k][1] = batch[j] /\ arrived[k][2] = TRUE
    BY <2>1
  <2>3. arrived[k][2] => arrived[k][1] \in Text
    BY DEF ArrivedInv
  <2> QED BY <2>2, <2>3
<1>11. ASSUME ~cancelled, NEW j \in DOMAIN batch, batch[j] \in Text PROVE j \in K
  <2>1. PICK k \in DOMAIN arrived : arrived[k][1] = batch[j]
    BY <1>1, EachArrived
  <2>2. arrived[k][2]
    BY <1>11, <2>1 DEF ArrivedInv
  <2>3. arrived[k] \in (1..nextFile) \X BOOLEAN
    <3>1. arrived \in Seq((1..nextFile) \X BOOLEAN)
      BY DEF FetchTypeInv
    <3>2. k \in 1..Len(arrived)
      BY <2>1, <3>1
    <3> QED BY <3>1, <3>2, ElementOfSeq
  <2>4. arrived[k] = <<batch[j], TRUE>>
    <3>1. PICK i \in 1..nextFile, ok \in BOOLEAN : arrived[k] = <<i, ok>>
      BY <2>3
    <3>2. ok = TRUE
      BY <2>2, <3>1
    <3> QED BY <2>1, <3>1, <3>2
  <2> QED BY <1>11, <2>1, <2>4 DEF K, Read
<1>12. /\ contents \in Seq(Text) /\ m \in Nat /\ DOMAIN contents = 1..m
       /\ \A j \in 1..m : contents[j] \in Text /\ contents[j] \in Nat
  <2>1. contents \in Seq(Text)
    BY DEF FetchTypeInv
  <2>2. m \in Nat /\ DOMAIN contents = 1..m
    BY <2>1 DEF m
  <2>3. \A j \in 1..m : contents[j] \in Text
    BY <2>1, ElementOfSeq DEF m
  <2>4. \A i \in Text : i \in Nat
    BY <1>3
  <2> QED BY <2>1, <2>2, <2>3, <2>4
<1>13. n \in Nat /\ DOMAIN a = 1..n /\ \A k \in 1..n : a[k] \in Nat
  BY <1>9 DEF n
<1>14. \A k \in 1..n : a[k] \in Text /\ a[k] <= nextFile /\ \E j \in DOMAIN batch : a[k] = batch[j]
  <2>1. ASSUME NEW k \in 1..n PROVE a[k] \in Text /\ a[k] <= nextFile /\ \E j \in DOMAIN batch : a[k] = batch[j]
    <3>1. PICK j \in K : a[k] = batch[j]
      BY <1>9, <1>13
    <3>2. j \in DOMAIN batch /\ batch[j] \in 1..nextFile
      BY <1>4, <1>8, <3>1
    <3>3. batch[j] \in Text
      BY <1>10, <3>2
    <3> QED BY <1>6, <3>1, <3>2, <3>3
  <2> QED BY <2>1
<1>15. a \in Seq(Text)
  <2>1. a \in [1..n -> Text]
    <3>1. a \in [1..n -> Nat]
      BY <1>9, LenProperties DEF n
    <3> QED BY <1>14, <3>1
  <2> QED BY <1>13, <2>1
<1>16. /\ c \in Seq(Text) /\ Len(c) = m + n /\ DOMAIN c = 1..(m + n)
       /\ \A k \in 1..m : c[k] = contents[k]
       /\ \A k \in 1..n : c[m + k] = a[k]
  <2>1. c \in Seq(Text) /\ Len(c) = m + n /\ \A k \in 1..(m + n) : c[k] = IF k <= m THEN contents[k] ELSE a[k - m]
    BY <1>2, <1>12, <1>15, ConcatProperties DEF m, n
  <2>2. ASSUME NEW k \in 1..m PROVE c[k] = contents[k]
    BY <1>12, <1>13, <2>1
  <2>3. ASSUME NEW k \in 1..n PROVE c[m + k] = a[k]
    <3>1. m + k \in 1..(m + n) /\ ~(m + k <= m) /\ (m + k) - m = k
      BY <1>12, <1>13
    <3> QED BY <2>1, <3>1
  <2>4. DOMAIN c = 1..(m + n)
    BY <1>12, <1>13, <2>1
  <2> QED BY <2>1, <2>2, <2>3, <2>4
<1>17. FetchTypeInv'
  <2>1. m + Len(batch) <= MaxFileContexts
    BY DEF FetchTypeInv, m
  <2>2. Len(c) + Len(batch') <= MaxFileContexts
    <3>1. Len(batch') = 0
      BY <1>1
    <3> QED BY <1>4, <1>6, <1>9, <1>12, <1>13, <1>16, <2>1, <3>1
  <2>3. contents' \in Seq(Text') /\ batch' \in Seq(1..nextFile') /\ arrived' \in Seq((1..nextFile') \X BOOLEAN)
    BY <1>1, <1>3, <1>16 DEF c
  <2>4. nextFile' \in 0..Len(files') /\ cancelled' \in BOOLEAN
    BY <1>1 DEF FetchTypeInv
  <2>5. Len(contents') + Len(batch') <= MaxFileContexts
    BY <2>2 DEF c
  <2> QED BY <1>1, <1>5, <2>3, <2>4, <2>5 DEF FetchTypeInv, Fetching
<1>18. ASSUME NEW j \in 1..(m + n), NEW k \in 1..(m + n), j < k PROVE c[j] < c[k]
  <2>1. CASE k <= m
    <3>1. j \in 1..m /\ k \in 1..m
      BY <1>12, <1>13, <1>18, <2>1
    <3>2. contents[j] < contents[k]
      BY <1>12, <1>18, <3>1 DEF ContentsInv
    <3> QED BY <1>16, <3>1, <3>2
  <2>2. CASE m < j
    <3>1. PICK g \in 1..n, h \in 1..n : j = m + g /\ k = m + h /\ g < h
      <4>1. j - m \in 1..n /\ k - m \in 1..n /\ j = m + (j - m) /\ k = m + (k - m) /\ j - m < k - m
        BY <1>12, <1>13, <1>18, <2>2
      <4> QED BY <4>1
    <3>2. a[g] < a[h]
      BY <1>9, <1>13, <3>1
    <3> QED BY <1>16, <3>1, <3>2
  <2>3. CASE j <= m /\ m < k
    <3>1. j \in 1..m
      BY <1>12, <1>13, <1>18, <2>3
    <3>2. PICK h \in 1..n : k = m + h
      <4>1. k - m \in 1..n /\ k = m + (k - m)
        BY <1>12, <1>13, <1>18, <2>3
      <4> QED BY <4>1
    <3>3. PICK g \in DOMAIN batch : a[h] = batch[g]
      BY <1>14
    <3>4. contents[j] < batch[g]
      BY <1>12, <3>1 DEF ContentsInv
    <3> QED BY <1>16, <3>1, <3>2, <3>3, <3>4
  <2> QED BY <1>12, <1>13, <1>18, <2>1, <2>2, <2>3
<1>19. ASSUME NEW k \in 1..(m + n) PROVE c[k] <= nextFile
  <2>1. CASE k <= m
    <3>1. k \in 1..m
      BY <1>12, <1>13, <2>1
    <3> QED BY <1>12, <1>16, <3>1 DEF ContentsInv
  <2>2. CASE m < k
    <3>1. PICK h \in 1..n : k = m + h
      <4>1. k - m \in 1..n /\ k = m + (k - m)
        BY <1>12, <1>13, <2>2
      <4> QED BY <4>1
    <3> QED BY <1>14, <1>16, <3>1
  <2> QED BY <1>12, <1>13, <2>1, <2>2
<1>20. ASSUME ~cancelled, NEW i \in Text, i <= nextFile PROVE \E k \in 1..(m + n) : c[k] = i
  <2>1. CASE \E k \in DOMAIN contents : contents[k] = i
    <3>1. PICK k \in 1..m : contents[k] = i
      BY <1>12, <2>1
    <3>2. k \in 1..(m + n)
      BY <1>12, <1>13
    <3> QED BY <1>16, <3>1, <3>2
  <2>2. CASE \E k \in DOMAIN batch : batch[k] = i
    <3>1. PICK j \in DOMAIN batch : batch[j] = i
      BY <2>2
    <3>2. j \in K
      BY <1>11, <1>20, <3>1
    <3>3. PICK k \in 1..n : a[k] = i
      BY <1>9, <1>13, <3>1, <3>2
    <3>4. m + k \in 1..(m + n)
      BY <1>12, <1>13
    <3> QED BY <1>16, <3>3, <3>4
  <2> QED BY <1>20, <2>1, <2>2 DEF ContentsInv
<1>21. ContentsInv'
  <2>1. DOMAIN batch' = {}
    BY <1>1
  <2>2. DOMAIN contents' = 1..(m + n)
    BY <1>16 DEF c
  <2> QED BY <1>1, <1>3, <1>18, <1>19, <1>20, <2>1, <2>2 DEF ContentsInv, c
<1>22. ArrivedInv'
  <2>1. DOMAIN arrived' = {}
    BY <1>1
  <2> QED BY <2>1 DEF ArrivedInv
<1> QED BY <1>17, <1>21, <1>22 DEF FetchInv
-----------------------------------------------------------------------------
LEMMA FetchStarts == InputsInit => FetchInv
<1> SUFFICES ASSUME InputsInit PROVE FetchInv
  OBVIOUS
<1>1. /\ nextFile = 0 /\ contents = <<>> /\ batch = <<>> /\ arrived = <<>> /\ cancelled = FALSE
      /\ stage = "list"
  BY DEF InputsInit
<1>2. ListInv
  BY ListStarts
<1>3. cancelled \in BOOLEAN
  BY <1>1
<1> QED BY <1>1, <1>2, <1>3, FetchIdle

LEMMA FetchKept == ListInv /\ ListInv' /\ FetchInv /\ [InputsNext]_inputVars => FetchInv'
<1> SUFFICES ASSUME ListInv, ListInv', FetchInv, [InputsNext]_inputVars PROVE FetchInv'
  OBVIOUS
<1>1. ASSUME UNCHANGED <<files, fetchVars, stage>> PROVE FetchInv'
  <2>1. Text' = Text /\ Wanted' = Wanted
    BY <1>1 DEF Text, Wanted, fetchVars
  <2> QED BY <1>1, <2>1 DEF FetchInv, FetchTypeInv, ContentsInv, ArrivedInv, Fetching, fetchVars
\* Up to the diff there is nothing of the contents, and what starts to be fetched is nothing.
<1>2. ASSUME UNCHANGED fetchVars, ~Fetching, stage' # "ready"
      PROVE  FetchInv'
  <2>1. nextFile = 0 /\ contents = <<>> /\ batch = <<>> /\ cancelled \in BOOLEAN
    BY <1>2 DEF FetchInv, FetchTypeInv, Fetching
  <2>2. arrived = <<>>
    BY <2>1, NothingArrived DEF FetchInv
  <2>3. /\ nextFile' = 0 /\ contents' = <<>> /\ batch' = <<>> /\ arrived' = <<>> /\ cancelled' \in BOOLEAN
    BY <1>2, <2>1, <2>2 DEF fetchVars
  <2>4. Text' \subseteq 1..Len(files') /\ Len(files') \in Nat /\ MaxFileContexts \in Nat
    BY InputsAssumption DEF ListInv, Text
  <2>5. /\ Len(contents') = 0 /\ Len(batch') = 0
        /\ DOMAIN contents' = {} /\ DOMAIN batch' = {} /\ DOMAIN arrived' = {}
    BY <2>3
  <2>6. /\ contents' \in Seq(Text') /\ batch' \in Seq(1..nextFile') /\ arrived' \in Seq((1..nextFile') \X BOOLEAN)
    BY <2>3
  <2>7. FetchTypeInv'
    BY <1>2, <2>3, <2>4, <2>5, <2>6 DEF FetchTypeInv
  <2>8. \A i \in Text' : ~(i <= nextFile')
    BY <2>3, <2>4
  <2> QED BY <2>5, <2>7, <2>8 DEF FetchInv, ContentsInv, ArrivedInv
<1>3. CASE ListPage
  <2>1. stage = "list" /\ stage' # "ready" /\ UNCHANGED fetchVars
    BY <1>3 DEF ListPage, AfterList
  <2> QED BY <1>2, <2>1 DEF Fetching
<1>4. CASE ListFails
  BY <1>2, <1>4 DEF ListFails, Goes, Fetching
<1>5. CASE Probe
  BY <1>2, <1>5 DEF Probe, Goes, AfterList, Fetching
<1>6. CASE AppendPatch \/ AddPatch
  BY <1>1, <1>6 DEF AppendPatch, AddPatch, listVars
<1>7. CASE DiffDone
  BY <1>2, <1>7 DEF DiffDone, Goes, Fetching
<1>8. CASE StartBatch
  BY <1>8, StartKeepsFetch
<1>9. CASE JoinBatch
  BY <1>9, JoinKeepsFetch
<1>10. CASE FetchDone
  <2>1. /\ stage = "fetch" /\ stage' = "ready" /\ batch = <<>> /\ ~Wanted /\ UNCHANGED <<files, fetchVars>>
    BY <1>10 DEF FetchDone, Goes, listVars
  <2>2. Text' = Text /\ Wanted' = Wanted
    BY <2>1 DEF Text, Wanted, fetchVars
  <2> QED BY <2>1, <2>2 DEF FetchInv, FetchTypeInv, ContentsInv, ArrivedInv, Fetching, fetchVars
<1>11. CASE Cancel
  <2>1. /\ stage = "fetch" /\ cancelled' = TRUE /\ UNCHANGED <<files, stage, nextFile, batch, arrived, contents>>
    BY <1>11 DEF Cancel, listVars
  <2>2. Text' = Text
    BY <2>1 DEF Text
  <2> QED BY <2>1, <2>2 DEF FetchInv, FetchTypeInv, ContentsInv, ArrivedInv, Fetching
<1>12. ASSUME NEW i \in DOMAIN files, FetchEnds(i) PROVE FetchInv'
  BY <1>12, EndKeepsFetch
<1>13. CASE UNCHANGED inputVars
  BY <1>1, <1>13 DEF inputVars, fetchVars
<1> QED BY <1>3, <1>4, <1>5, <1>6, <1>7, <1>8, <1>9, <1>10, <1>11, <1>12, <1>13 DEF InputsNext

\* The list is a beginning of what there is, the diff what the list has, and the contents
\* and the batch go through the list and leave nothing out: in every state.
THEOREM InputsInvariant == InputsSpec => [](ListInv /\ DiffMadeInv /\ FetchInv)
<1>1. InputsInit => ListInv /\ DiffMadeInv /\ FetchInv
  BY ListStarts, DiffStarts, FetchStarts
<1>2. ListInv /\ DiffMadeInv /\ FetchInv /\ [InputsNext]_inputVars => (ListInv /\ DiffMadeInv /\ FetchInv)'
  BY ListKept, DiffKept, FetchKept
<1> QED BY <1>1, <1>2, PTL DEF InputsSpec
-----------------------------------------------------------------------------
LEMMA DiffFollows == ListInv /\ DiffMadeInv => DiffIsComplete
<1> SUFFICES ASSUME ListInv, DiffMadeInv PROVE DiffIsComplete
  OBVIOUS
<1> USE DEF DiffMadeInv, LimitInv, WholeInv
<1>1. stage = "skipped" => \A i \in DOMAIN all : all[i].docs
  BY DEF ListInv
<1>2. \A n : ShownOf(n) = ShownUpTo(diff, n)
  BY DEF ShownOf, ShownUpTo
<1>3. mode = "tool_calling" => Cardinality(ShownOf(Len(diff))) <= MaxDiffLines
  <2>1. Cardinality(ShownIn(diff)) \in Nat /\ ShownOf(Len(diff)) = ShownIn(diff)
    BY <1>2, FS_CardinalityType DEF ShownIn
  <2> QED BY <2>1
<1>4. mode = "legacy" => /\ \A i \in DOMAIN diff : diff[i] = files[i].lines
                         /\ diff # <<>> => Cardinality(ShownOf(Len(diff) - 1)) < MaxDiffLines
  BY <1>2
<1>5. ASSUME stage \in {"fetch", "ready", "shown"}, ~diffCut, ~truncated
      PROVE  diff = [i \in DOMAIN all |-> all[i].lines]
  <2>1. files = all /\ Len(diff) = Len(files)
    BY <1>5 DEF ListInv
  <2>2. \A i \in DOMAIN diff : diff[i] = all[i].lines
    BY <1>5, <2>1
  <2>3. diff \in Seq(Nat) /\ DOMAIN diff = DOMAIN all
    BY <2>1 DEF ListInv
  <2>4. diff = [i \in DOMAIN diff |-> diff[i]]
    BY <2>3
  <2> QED BY <2>2, <2>3, <2>4
<1> QED BY <1>1, <1>3, <1>4, <1>5 DEF DiffIsComplete

\* A review is skipped only when all the files of the pull request are documentation, a diff
\* that is not marked has every line of every file, and the diff of either mode keeps to the
\* limit in the way of that mode: for every list, page size and limit.
THEOREM DiffCompleteness == InputsSpec => []DiffIsComplete
BY InputsInvariant, DiffFollows, PTL

LEMMA ContentsFollow == ListInv /\ FetchInv => ContextsInOrder
<1> SUFFICES ASSUME ListInv, FetchTypeInv, ContentsInv, stage = "ready"
             PROVE  ContextsInOrder
  BY DEF FetchInv, ContextsInOrder
<1> DEFINE m == Smallest(Cardinality(Text), MaxFileContexts)
<1>1. Text \subseteq 1..Len(files) /\ Len(files) \in Nat /\ DOMAIN files = 1..Len(files) /\ MaxFileContexts \in Nat
  BY TextIsListed, InputsAssumption
<1>2. Text \in SUBSET Nat
  BY <1>1
<1>3. IsFiniteSet(Text) /\ Cardinality(Text) \in Nat
  <2>1. PICK L \in Nat : L = Len(files)
    BY <1>1
  <2>2. IsFiniteSet(1..L) /\ Text \in SUBSET (1..L)
    BY <1>1, <2>1, CountUpTo
  <2>3. IsFiniteSet(Text)
    BY <2>2, FS_Subset
  <2> QED BY <2>3, FS_CardinalityType
<1>4. /\ contents \in Seq(Text) /\ DOMAIN contents = 1..Len(contents) /\ Len(contents) \in Nat
      /\ \A j \in DOMAIN contents : contents[j] \in Text
  <2>1. contents \in Seq(Text)
    BY DEF FetchTypeInv
  <2>2. DOMAIN contents = 1..Len(contents) /\ Len(contents) \in Nat
    BY <2>1
  <2>3. ASSUME NEW j \in 1..Len(contents) PROVE contents[j] \in Text
    BY <2>1, ElementOfSeq
  <2> QED BY <2>1, <2>2, <2>3
<1>5. \A j, k \in DOMAIN contents : j < k => contents[j] < contents[k]
  BY DEF ContentsInv
<1>6. ASSUME ~cancelled PROVE contents = SubSeq(InOrder(Text), 1, m)
  <2>1. Orders(Less(Text), Text)
    BY <1>2, LessOrders
  <2>2. nextFile \in Nat /\ DOMAIN batch = {} /\ Len(contents) <= MaxFileContexts
    <3>1. batch = <<>>
      BY DEF FetchTypeInv
    <3>2. nextFile \in Nat /\ Len(batch) = 0
      BY <1>1, <3>1 DEF FetchTypeInv
    <3> QED BY <1>1, <1>4, <3>1, <3>2 DEF FetchTypeInv
  <2>3. ASSUME NEW k \in DOMAIN contents, NEW i \in Text, i < contents[k]
        PROVE  \E j \in DOMAIN contents : contents[j] = i
    <3>1. contents[k] <= nextFile
      BY DEF ContentsInv
    <3>2. i \in Nat /\ contents[k] \in Nat
      BY <1>2, <1>4
    <3>3. i <= nextFile
      BY <2>2, <2>3, <3>1, <3>2
    <3> QED BY <1>6, <2>2, <3>3 DEF ContentsInv
  <2>4. Lists(contents, Less(Text), Text)
    <3>1. \A j, k \in DOMAIN contents : j < k => <<contents[j], contents[k]>> \in Less(Text)
      BY <1>4, <1>5 DEF Less
    <3>2. ASSUME NEW k \in DOMAIN contents, NEW i \in Below(contents[k], Less(Text), Text)
          PROVE  \E j \in DOMAIN contents : contents[j] = i
      <4>1. i \in Text /\ i < contents[k]
        BY DEF Below, Less
      <4> QED BY <2>3, <4>1
    <3> QED BY <3>1, <3>2 DEF Lists
  <2>5. /\ Len(contents) <= Cardinality(Text)
        /\ Len(contents) = Cardinality(Text) <=> \A i \in Text : \E k \in DOMAIN contents : contents[k] = i
    BY <1>3, <1>4, <2>1, <2>4, ListedPlaces
  <2>6. Len(contents) = m
    <3>1. CASE Len(contents) >= MaxFileContexts
      <4>1. Len(contents) <= Cardinality(Text)
        BY <2>5
      <4>2. Len(contents) = MaxFileContexts
        <5>1. Len(contents) \in Nat /\ MaxFileContexts \in Nat /\ Len(contents) <= MaxFileContexts
          BY <1>1, <1>4, <2>2
        <5> HIDE DEF m
        <5> QED BY <3>1, <5>1
      <4>3. MaxFileContexts <= Cardinality(Text)
        BY <4>1, <4>2, Zenon
      <4>4. Smallest(Cardinality(Text), MaxFileContexts) = MaxFileContexts
        BY <1>1, <1>3, <4>3 DEF Smallest
      <4> QED BY <4>2, <4>4
    <3>2. CASE nextFile >= Len(files)
      <4>1. \A i \in Text : i <= nextFile
        BY <1>1, <2>2, <3>2
      <4>2. \A i \in Text : \E k \in DOMAIN contents : contents[k] = i
        BY <1>6, <2>2, <4>1 DEF ContentsInv
      <4>3. Len(contents) = Cardinality(Text)
        BY <2>5, <4>2
      <4> QED BY <1>1, <1>3, <1>4, <2>2, <4>3 DEF Smallest
    <3>3. ~(Len(contents) < MaxFileContexts /\ nextFile < Len(files))
      BY <1>6 DEF FetchTypeInv, Wanted
    <3> QED BY <1>1, <1>4, <2>2, <3>1, <3>2, <3>3
  <2> HIDE DEF m
  <2>7. m \in 0..Cardinality(Text)
    BY <1>3, <1>4, <2>5, <2>6
  <2>8. PICK s : s = FirstFew(Text, m)
    OBVIOUS
  <2>9. s \in Seq(Text) /\ Len(s) = m /\ Lists(s, Less(Text), Text)
    BY <1>2, <1>3, <2>7, <2>8, InOrderIsUpwards
  <2>10. contents = s
    BY <1>3, <1>4, <2>1, <2>4, <2>6, <2>9, ListsAreUnique
  <2> QED BY <2>8, <2>10 DEF FirstFew
<1>7. Len(InOrder(Text)) = Cardinality(Text)
  <2>1. PICK s : s = FirstFew(Text, Cardinality(Text))
    OBVIOUS
  <2>2. s \in Seq(Text) /\ Len(s) = Cardinality(Text) /\ s = InOrder(Text)
    <3>1. Cardinality(Text) \in 0..Cardinality(Text)
      BY <1>3
    <3> QED BY <1>2, <1>3, <2>1, <3>1, InOrderIsUpwards
  <2> QED BY <2>2
<1>8. ~cancelled => contents = SubSeq(InOrder(Text), 1, Smallest(Len(InOrder(Text)), MaxFileContexts))
  BY <1>6, <1>7
<1>9. Text = {i \in DOMAIN files : files[i].read = "text"}
  BY DEF Text
<1> QED BY <1>5, <1>8, <1>9, Zenon DEF ContextsInOrder

\* The model gets the first contents that can be read, in the order of the list, however
\* the fetches of a batch overtake each other: for every list, batch size and limit.
THEOREM ContentsOrdered == InputsSpec => []ContextsInOrder
BY InputsInvariant, ContentsFollow, PTL
-----------------------------------------------------------------------------
\* The format's operators, of any patch p: a step has to compare those of two patches.
NewKinds == Added \cup {"context"}
OldKinds == Removed \cup {"context"}
Header(p, i) == p[i].kind \in {"hunk", "badHunk"}
Opens(p, i, h) == (h # 0 => Header(p, h)) /\ \A j \in (h + 1)..i : ~Header(p, j)
HunkIn(p, i) == CHOOSE h \in 0..i : Opens(p, i, h)
SideLines(p, i, kinds) == {j \in HunkIn(p, i)..i : j # 0 /\ p[j].kind \in kinds}
SideIn(p, i, kinds) == Cardinality(SideLines(p, i, kinds))
NumberIn(p, i) == p[HunkIn(p, i)].hunk[1] + SideIn(p, i, NewKinds) - 1
WithinCounts(p, j, h) == p[j].kind # "empty" /\ SideIn(p, j, OldKinds) <= h[2] /\ SideIn(p, j, NewKinds) <= h[3]
FitsIn(p, i) ==
  /\ HunkIn(p, i) # 0 /\ p[HunkIn(p, i)].kind = "hunk"
  /\ p[HunkIn(p, i)].hunk[1] = 0 => p[HunkIn(p, i)].hunk[3] = 0
  /\ \A j \in HunkIn(p, i)..i : WithinCounts(p, j, p[HunkIn(p, i)].hunk)
Quotable(p) == {j \in DOMAIN p : p[j].kind \in NewKinds /\ FitsIn(p, j)}
SourceIn(p) == {<<NumberIn(p, i), i>> : i \in Quotable(p)}
AddedIn(p) == {NumberIn(p, i) : i \in {j \in DOMAIN p : p[j].kind = "+"}}
-----------------------------------------------------------------------------
\* A line has one hunk, which is 0 before the first header.
LEMMA HunkIsUnique ==
  ASSUME NEW p, NEW i \in Nat, NEW h \in 0..i, Opens(p, i, h)
  PROVE  HunkIn(p, i) = h
<1>1. HunkIn(p, i) \in 0..i /\ Opens(p, i, HunkIn(p, i))
  BY Zenon DEF HunkIn
<1>2. ASSUME NEW g \in 0..i, Opens(p, i, g) PROVE g = h
  <2>1. ~(g < h)
    <3>1. ASSUME g < h PROVE FALSE
      <4>1. h \in (g + 1)..i /\ h # 0
        BY <3>1
      <4> QED BY <1>2, <4>1 DEF Opens
    <3> QED BY <3>1
  <2>2. ~(h < g)
    <3>1. ASSUME h < g PROVE FALSE
      <4>1. g \in (h + 1)..i /\ g # 0
        BY <3>1
      <4> QED BY <1>2, <4>1 DEF Opens
    <3> QED BY <3>1
  <2> QED BY <2>1, <2>2
<1> QED BY <1>1, <1>2

LEMMA HunkDefined ==
  ASSUME NEW p, NEW i \in Nat
  PROVE  HunkIn(p, i) \in 0..i /\ Opens(p, i, HunkIn(p, i))
<1> DEFINE T == {h \in 0..i : h = 0 \/ Header(p, h)}
<1>1. PICK h \in T : \A g \in T : g <= h
  <2>1. T \subseteq Nat /\ T # {} /\ \A n \in T : n <= i
    OBVIOUS
  <2> HIDE DEF T
  <2> QED BY <2>1, GreatestOne
<1>2. h \in 0..i /\ Opens(p, i, h)
  BY <1>1 DEF Opens
<1> QED BY <1>2, HunkIsUnique

\* The hunk of a line is that of the line before, unless it opens one.
LEMMA HunkNext ==
  ASSUME NEW p, NEW i \in Nat
  PROVE  /\ Header(p, i + 1) => HunkIn(p, i + 1) = i + 1
         /\ ~Header(p, i + 1) => HunkIn(p, i + 1) = HunkIn(p, i)
<1>1. CASE Header(p, i + 1)
  <2>1. Opens(p, i + 1, i + 1) /\ i + 1 \in 0..(i + 1)
    BY <1>1 DEF Opens
  <2> QED BY <1>1, <2>1, HunkIsUnique
<1>2. CASE ~Header(p, i + 1)
  <2>1. HunkIn(p, i) \in 0..i /\ Opens(p, i, HunkIn(p, i))
    BY HunkDefined
  <2>2. PICK h \in 0..i : h = HunkIn(p, i)
    BY <2>1
  <2>3. Opens(p, i + 1, h) /\ h \in 0..(i + 1)
    BY <1>2, <2>1, <2>2 DEF Opens
  <2> QED BY <1>2, <2>2, <2>3, HunkIsUnique
<1> QED BY <1>1, <1>2

LEMMA HunkWithin ==
  ASSUME NEW p, NEW i \in Nat, NEW j \in HunkIn(p, i)..i
  PROVE  HunkIn(p, j) = HunkIn(p, i) /\ j \in 0..i
<1>1. HunkIn(p, i) \in 0..i /\ Opens(p, i, HunkIn(p, i))
  BY HunkDefined
<1>2. PICK h \in 0..i : h = HunkIn(p, i)
  BY <1>1
<1>3. j \in Nat /\ h \in 0..j /\ j \in 0..i
  BY <1>2
<1>4. Opens(p, j, h)
  BY <1>1, <1>2, <1>3 DEF Opens
<1> QED BY <1>2, <1>3, <1>4, HunkIsUnique

\* What is said of a line depends only on the lines up to it.
Alike(p, q, n) == \A j \in 1..n : q[j] = p[j]

LEMMA HunkAgain ==
  ASSUME NEW p, NEW q, NEW n \in Nat, Alike(p, q, n), NEW i \in 0..n
  PROVE  HunkIn(q, i) = HunkIn(p, i)
<1>1. HunkIn(p, i) \in 0..i /\ Opens(p, i, HunkIn(p, i))
  BY HunkDefined
<1>2. PICK h \in 0..i : h = HunkIn(p, i)
  BY <1>1
<1>3. Opens(q, i, h)
  <2>1. h # 0 => Header(p, h) /\ q[h] = p[h]
    BY <1>1, <1>2 DEF Opens, Alike
  <2>2. ASSUME NEW j \in (h + 1)..i PROVE ~Header(p, j) /\ q[j] = p[j]
    <3>1. j \in 1..n
      BY <1>2
    <3> QED BY <1>1, <1>2, <3>1 DEF Opens, Alike
  <2> QED BY <2>1, <2>2 DEF Opens, Header
<1> QED BY <1>2, <1>3, HunkIsUnique

LEMMA SideIsNatural ==
  ASSUME NEW p, NEW i \in Nat, NEW kinds
  PROVE  SideIn(p, i, kinds) \in Nat /\ IsFiniteSet(SideLines(p, i, kinds))
<1>1. HunkIn(p, i) \in 0..i
  BY HunkDefined
<1>2. IsFiniteSet(HunkIn(p, i)..i)
  BY <1>1, FS_Interval
<1>3. SideLines(p, i, kinds) \in SUBSET (HunkIn(p, i)..i)
  BY DEF SideLines
<1>4. IsFiniteSet(SideLines(p, i, kinds))
  BY <1>2, <1>3, FS_Subset
<1> QED BY <1>4, FS_CardinalityType DEF SideIn

LEMMA SideAgain ==
  ASSUME NEW p, NEW q, NEW n \in Nat, Alike(p, q, n), NEW i \in 0..n, NEW kinds
  PROVE  SideIn(q, i, kinds) = SideIn(p, i, kinds)
<1>1. HunkIn(q, i) = HunkIn(p, i) /\ HunkIn(p, i) \in 0..i
  BY HunkAgain, HunkDefined
<1>2. SideLines(q, i, kinds) = SideLines(p, i, kinds)
  BY <1>1 DEF SideLines, Alike
<1> QED BY <1>2 DEF SideIn

\* One side's lines of a hunk are counted from its header, which is of neither.
LEMMA SideNext ==
  ASSUME NEW p, NEW i \in Nat, NEW kinds, "hunk" \notin kinds, "badHunk" \notin kinds
  PROVE  /\ Header(p, i + 1) => SideIn(p, i + 1, kinds) = 0
         /\ ~Header(p, i + 1) /\ p[i + 1].kind \notin kinds => SideIn(p, i + 1, kinds) = SideIn(p, i, kinds)
         /\ ~Header(p, i + 1) /\ p[i + 1].kind \in kinds => SideIn(p, i + 1, kinds) = SideIn(p, i, kinds) + 1
<1>1. HunkIn(p, i) \in 0..i
  BY HunkDefined
<1>2. ASSUME Header(p, i + 1) PROVE SideIn(p, i + 1, kinds) = 0
  <2>1. HunkIn(p, i + 1) = i + 1
    BY <1>2, HunkNext
  <2>2. SideLines(p, i + 1, kinds) = {}
    <3>1. \A j \in (i + 1)..(i + 1) : j = i + 1
      OBVIOUS
    <3>2. p[i + 1].kind \notin kinds
      BY <1>2 DEF Header
    <3> QED BY <2>1, <3>1, <3>2 DEF SideLines
  <2> QED BY <2>2, FS_EmptySet DEF SideIn
<1>3. ASSUME ~Header(p, i + 1), p[i + 1].kind \notin kinds PROVE SideIn(p, i + 1, kinds) = SideIn(p, i, kinds)
  <2>1. HunkIn(p, i + 1) = HunkIn(p, i)
    BY <1>3, HunkNext
  <2>2. \A j : j \in HunkIn(p, i)..(i + 1) <=> j \in HunkIn(p, i)..i \/ j = i + 1
    BY <1>1
  <2>3. SideLines(p, i + 1, kinds) = SideLines(p, i, kinds)
    BY <1>3, <2>1, <2>2 DEF SideLines
  <2> QED BY <2>3 DEF SideIn
<1>4. ASSUME ~Header(p, i + 1), p[i + 1].kind \in kinds PROVE SideIn(p, i + 1, kinds) = SideIn(p, i, kinds) + 1
  <2>1. HunkIn(p, i + 1) = HunkIn(p, i)
    BY <1>4, HunkNext
  <2>2. SideLines(p, i + 1, kinds) = SideLines(p, i, kinds) \cup {i + 1} /\ i + 1 \notin SideLines(p, i, kinds)
    <3>1. \A j : j \in HunkIn(p, i)..(i + 1) <=> j \in HunkIn(p, i)..i \/ j = i + 1
      BY <1>1
    <3>2. i + 1 \notin HunkIn(p, i)..i /\ i + 1 # 0
      BY <1>1
    <3> QED BY <1>4, <2>1, <3>1, <3>2 DEF SideLines
  <2>3. IsFiniteSet(SideLines(p, i, kinds))
    BY SideIsNatural
  <2> QED BY <2>2, <2>3, FS_AddElement DEF SideIn
<1> QED BY <1>2, <1>3, <1>4

LEMMA FitsAgain ==
  ASSUME NEW p, NEW q, NEW n \in Nat, Alike(p, q, n), NEW i \in 0..n
  PROVE  FitsIn(q, i) <=> FitsIn(p, i)
<1>1. HunkIn(q, i) = HunkIn(p, i) /\ HunkIn(p, i) \in 0..i
  BY HunkAgain, HunkDefined
<1>2. HunkIn(p, i) # 0 => q[HunkIn(p, i)] = p[HunkIn(p, i)]
  BY <1>1 DEF Alike
<1>3. ASSUME NEW j \in HunkIn(p, i)..i, HunkIn(p, i) # 0, NEW h
      PROVE  WithinCounts(q, j, h) <=> WithinCounts(p, j, h)
  <2>1. j \in 1..n /\ j \in 0..n
    BY <1>1, <1>3
  <2>2. q[j] = p[j] /\ SideIn(q, j, OldKinds) = SideIn(p, j, OldKinds) /\ SideIn(q, j, NewKinds) = SideIn(p, j, NewKinds)
    BY <2>1, SideAgain DEF Alike
  <2> QED BY <2>2 DEF WithinCounts
<1> QED BY <1>1, <1>2, <1>3 DEF FitsIn

Ranges(h) == h \in Nat \X Nat \X Nat
\* A header that can open a hunk fits; another line does when it keeps to the counts of
\* the hunk and so did all before it.
LEMMA FitsNext ==
  ASSUME NEW p, NEW i \in Nat, \A j \in 1..(i + 1) : Ranges(p[j].hunk)
  PROVE  /\ Header(p, i + 1) =>
              (FitsIn(p, i + 1) <=> p[i + 1].kind = "hunk" /\ (p[i + 1].hunk[1] = 0 => p[i + 1].hunk[3] = 0))
         /\ ~Header(p, i + 1) =>
              (FitsIn(p, i + 1) <=> FitsIn(p, i) /\ WithinCounts(p, i + 1, p[HunkIn(p, i)].hunk))
<1>1. HunkIn(p, i) \in 0..i
  BY HunkDefined
<1>2. ASSUME Header(p, i + 1)
      PROVE  FitsIn(p, i + 1) <=> p[i + 1].kind = "hunk" /\ (p[i + 1].hunk[1] = 0 => p[i + 1].hunk[3] = 0)
  <2>1. HunkIn(p, i + 1) = i + 1
    BY <1>2, HunkNext
  <2>2. SideIn(p, i + 1, OldKinds) = 0 /\ SideIn(p, i + 1, NewKinds) = 0
    BY <1>2, SideNext DEF OldKinds, NewKinds, Added, Removed
  <2>3. p[i + 1].hunk[2] \in Nat /\ p[i + 1].hunk[3] \in Nat
    BY DEF Ranges
  <2>4. WithinCounts(p, i + 1, p[i + 1].hunk)
    <3>1. p[i + 1].kind # "empty"
      BY <1>2 DEF Header
    <3> QED BY <2>2, <2>3, <3>1 DEF WithinCounts
  <2>5. \A j \in (i + 1)..(i + 1) : j = i + 1
    OBVIOUS
  <2> QED BY <2>1, <2>4, <2>5 DEF FitsIn
<1>3. ASSUME ~Header(p, i + 1)
      PROVE  FitsIn(p, i + 1) <=> FitsIn(p, i) /\ WithinCounts(p, i + 1, p[HunkIn(p, i)].hunk)
  <2>1. HunkIn(p, i + 1) = HunkIn(p, i)
    BY <1>3, HunkNext
  <2>2. \A j : j \in HunkIn(p, i)..(i + 1) <=> j \in HunkIn(p, i)..i \/ j = i + 1
    BY <1>1
  <2> QED BY <2>1, <2>2 DEF FitsIn
<1> QED BY <1>2, <1>3

\* A line that fits keeps to the counts of its hunk.
LEMMA FitsWithin ==
  ASSUME NEW p, NEW i \in Nat, FitsIn(p, i)
  PROVE  HunkIn(p, i) \in 1..i /\ WithinCounts(p, i, p[HunkIn(p, i)].hunk)
<1>1. HunkIn(p, i) \in 0..i
  BY HunkDefined
<1>2. i \in HunkIn(p, i)..i
  BY <1>1
<1> QED BY <1>1, <1>2 DEF FitsIn
-----------------------------------------------------------------------------
\* The property's operators are these, of the patch read so far.
LEMMA FormatIsFormat ==
  /\ Source = SourceIn(patch)
  /\ {Number(i) : i \in {j \in DOMAIN patch : patch[j].kind = "+"}} = AddedIn(patch)
  /\ WellFormed => \A i \in DOMAIN patch : FitsIn(patch, i)
<1>1. \A i : HunkOf(i) = HunkIn(patch, i)
  BY Zenon DEF HunkOf, HunkIn, Opens, Header
<1>2. \A i, kinds : Side(i, kinds) = SideIn(patch, i, kinds)
  BY <1>1, Zenon DEF Side, SideIn, SideLines
<1>3. \A i : Number(i) = NumberIn(patch, i)
  BY <1>1, <1>2, Zenon DEF Number, NumberIn, NewKinds
<1>4. \A i : Fits(i) <=> FitsIn(patch, i)
  BY <1>1, <1>2, Zenon DEF Fits, FitsIn, WithinCounts, NewKinds, OldKinds
<1>5. {j \in DOMAIN patch : NewLine(j) /\ Fits(j)} = Quotable(patch)
  BY <1>4, Zenon DEF NewLine, Quotable, NewKinds
<1>6. Source = SourceIn(patch)
  BY <1>3, <1>5, Zenon DEF Source, SourceIn
<1>7. {Number(i) : i \in {j \in DOMAIN patch : patch[j].kind = "+"}} = AddedIn(patch)
  BY <1>3, Zenon DEF AddedIn
<1> QED BY <1>4, <1>6, <1>7, Zenon DEF WellFormed

\* What the source and the added lines are, one line on.
AllFit(p, n) == \A i \in 1..n : FitsIn(p, i)
SourceMove(line, p, q, n) ==
  SourceIn(q) = SourceIn(p) \cup (IF line.kind \in NewKinds /\ FitsIn(q, n + 1) THEN {<<NumberIn(q, n + 1), n + 1>>} ELSE {})
AddedMove(line, p, q, n) ==
  AllFit(p, n) => AddedIn(q) = AddedIn(p) \cup (IF line.kind = "+" THEN {NumberIn(q, n + 1)} ELSE {})

LEMMA SourceGrows ==
  ASSUME NEW p \in Seq(Line), NEW line \in Line, NEW q, q = Append(p, line), NEW n, n = Len(p)
  PROVE  /\ n \in Nat /\ Len(q) = n + 1 /\ Alike(p, q, n) /\ q[n + 1] = line /\ q \in Seq(Line)
         /\ SourceMove(line, p, q, n) /\ AddedMove(line, p, q, n)
<1>1. /\ n \in Nat /\ Len(q) = n + 1 /\ q[n + 1] = line /\ q \in Seq(Line)
      /\ DOMAIN p = 1..n /\ DOMAIN q = 1..(n + 1) /\ \A j \in 1..n : q[j] = p[j]
  OBVIOUS
<1>2. Alike(p, q, n)
  BY <1>1 DEF Alike
<1>3. \A j : j \in 1..(n + 1) <=> j \in 1..n \/ j = n + 1
  BY <1>1
<1>4. ASSUME NEW i \in 1..n
      PROVE  (FitsIn(q, i) <=> FitsIn(p, i)) /\ (FitsIn(p, i) => NumberIn(q, i) = NumberIn(p, i))
  <2>1. i \in 0..n
    OBVIOUS
  <2>2. /\ HunkIn(q, i) = HunkIn(p, i) /\ SideIn(q, i, NewKinds) = SideIn(p, i, NewKinds)
        /\ FitsIn(q, i) <=> FitsIn(p, i)
    BY <1>1, <1>2, <2>1, HunkAgain, SideAgain, FitsAgain
  <2>3. FitsIn(p, i) => HunkIn(p, i) \in 1..i
    BY FitsWithin
  <2>4. FitsIn(p, i) => q[HunkIn(p, i)] = p[HunkIn(p, i)]
    BY <1>1, <2>3
  <2> QED BY <2>2, <2>4 DEF NumberIn
<1>5. Quotable(q) = Quotable(p) \cup (IF line.kind \in NewKinds /\ FitsIn(q, n + 1) THEN {n + 1} ELSE {})
  BY <1>1, <1>3, <1>4 DEF Quotable
<1>6. \A i \in Quotable(p) : NumberIn(q, i) = NumberIn(p, i)
  BY <1>1, <1>4 DEF Quotable
<1>7. SourceIn(q) = SourceIn(p) \cup (IF line.kind \in NewKinds /\ FitsIn(q, n + 1) THEN {<<NumberIn(q, n + 1), n + 1>>} ELSE {})
  BY <1>5, <1>6 DEF SourceIn
<1>8. ASSUME AllFit(p, n)
      PROVE  AddedIn(q) = AddedIn(p) \cup (IF line.kind = "+" THEN {NumberIn(q, n + 1)} ELSE {})
  BY <1>1, <1>3, <1>4, <1>8 DEF AddedIn, AllFit
<1>9. SourceMove(line, p, q, n) /\ AddedMove(line, p, q, n)
  BY <1>7, <1>8, Zenon DEF SourceMove, AddedMove
<1> QED BY <1>1, <1>2, <1>9
\* The same for a hunk, its counts and whether its lines fit.
Hunk(p, i) == p[HunkIn(p, i)].hunk
AfterHeader(line, q, n) ==
  line.kind \in {"hunk", "badHunk"} =>
    /\ Hunk(q, n + 1) = line.hunk /\ SideIn(q, n + 1, OldKinds) = 0 /\ SideIn(q, n + 1, NewKinds) = 0
    /\ FitsIn(q, n + 1) <=> line.kind = "hunk" /\ (line.hunk[1] = 0 => line.hunk[3] = 0)
AfterLine(line, p, q, n) ==
  line.kind \notin {"hunk", "badHunk"} =>
    /\ SideIn(q, n + 1, OldKinds) = SideIn(p, n, OldKinds) + (IF line.kind \in OldKinds THEN 1 ELSE 0)
    /\ SideIn(q, n + 1, NewKinds) = SideIn(p, n, NewKinds) + (IF line.kind \in NewKinds THEN 1 ELSE 0)
    /\ FitsIn(q, n + 1) <=>
         FitsIn(p, n) /\ line.kind # "empty" /\ SideIn(q, n + 1, OldKinds) <= Hunk(p, n)[2]
                      /\ SideIn(q, n + 1, NewKinds) <= Hunk(p, n)[3]
    /\ FitsIn(p, n) => Hunk(q, n + 1) = Hunk(p, n)

LEMMA HunkGrows ==
  ASSUME NEW p \in Seq(Line), NEW line \in Line, NEW q, q = Append(p, line), NEW n, n = Len(p)
  PROVE  /\ Ranges(line.hunk) /\ line.kind \in Kinds
         /\ SideIn(p, n, OldKinds) \in Nat /\ SideIn(p, n, NewKinds) \in Nat
         /\ AfterHeader(line, q, n) /\ AfterLine(line, p, q, n)
         /\ FitsIn(p, n) => Ranges(Hunk(p, n)) /\ SideIn(p, n, OldKinds) <= Hunk(p, n)[2] /\ SideIn(p, n, NewKinds) <= Hunk(p, n)[3]
<1>1. /\ n \in Nat /\ Len(q) = n + 1 /\ Alike(p, q, n) /\ q[n + 1] = line /\ q \in Seq(Line)
  <2>1. /\ n \in Nat /\ Len(q) = n + 1 /\ q[n + 1] = line /\ q \in Seq(Line)
        /\ \A j \in 1..n : q[j] = p[j]
    OBVIOUS
  <2> QED BY <2>1 DEF Alike
<1>2. \A l \in Line : Ranges(l.hunk) /\ l.kind \in Kinds
  BY DiffAssumption DEF Line, Ranges, Kinds
<1>3. (\A j \in 1..(n + 1) : q[j] \in Line) /\ (\A j \in 1..n : p[j] \in Line /\ q[j] = p[j])
  BY <1>1 DEF Alike
<1>4. \A j \in 1..(n + 1) : Ranges(q[j].hunk)
  BY <1>2, <1>3
<1>5. Ranges(line.hunk) /\ line.kind \in Kinds /\ SideIn(p, n, OldKinds) \in Nat /\ SideIn(p, n, NewKinds) \in Nat
  BY <1>1, <1>2, SideIsNatural
<1>6. Header(q, n + 1) <=> line.kind \in {"hunk", "badHunk"}
  BY <1>1 DEF Header
<1>7. n \in 0..n
  BY <1>1
<1>8. /\ HunkIn(q, n) = HunkIn(p, n) /\ SideIn(q, n, OldKinds) = SideIn(p, n, OldKinds)
      /\ SideIn(q, n, NewKinds) = SideIn(p, n, NewKinds) /\ (FitsIn(q, n) <=> FitsIn(p, n))
  BY <1>1, <1>7, HunkAgain, SideAgain, FitsAgain
<1>9. \A kinds \in {OldKinds, NewKinds} : "hunk" \notin kinds /\ "badHunk" \notin kinds
  BY DEF OldKinds, NewKinds, Added, Removed
<1>10. FitsIn(p, n) => HunkIn(p, n) \in 1..n /\ WithinCounts(p, n, Hunk(p, n))
  BY <1>1, FitsWithin DEF Hunk
<1>11. ASSUME line.kind \in {"hunk", "badHunk"}
       PROVE  /\ Hunk(q, n + 1) = line.hunk /\ SideIn(q, n + 1, OldKinds) = 0 /\ SideIn(q, n + 1, NewKinds) = 0
              /\ FitsIn(q, n + 1) <=> line.kind = "hunk" /\ (line.hunk[1] = 0 => line.hunk[3] = 0)
  <2>1. HunkIn(q, n + 1) = n + 1
    BY <1>1, <1>6, <1>11, HunkNext
  <2>2. SideIn(q, n + 1, OldKinds) = 0 /\ SideIn(q, n + 1, NewKinds) = 0
    BY <1>1, <1>6, <1>9, <1>11, SideNext
  <2>3. FitsIn(q, n + 1) <=> q[n + 1].kind = "hunk" /\ (q[n + 1].hunk[1] = 0 => q[n + 1].hunk[3] = 0)
    BY <1>1, <1>4, <1>6, <1>11, FitsNext
  <2> QED BY <1>1, <2>1, <2>2, <2>3 DEF Hunk
<1>12. ASSUME line.kind \notin {"hunk", "badHunk"}
       PROVE  /\ SideIn(q, n + 1, OldKinds) = SideIn(p, n, OldKinds) + (IF line.kind \in OldKinds THEN 1 ELSE 0)
              /\ SideIn(q, n + 1, NewKinds) = SideIn(p, n, NewKinds) + (IF line.kind \in NewKinds THEN 1 ELSE 0)
              /\ FitsIn(q, n + 1) <=>
                   FitsIn(p, n) /\ line.kind # "empty" /\ SideIn(q, n + 1, OldKinds) <= Hunk(p, n)[2]
                                /\ SideIn(q, n + 1, NewKinds) <= Hunk(p, n)[3]
              /\ FitsIn(p, n) => Hunk(q, n + 1) = Hunk(p, n)
  <2>1. HunkIn(q, n + 1) = HunkIn(p, n)
    BY <1>1, <1>6, <1>8, <1>12, HunkNext
  <2>2. ASSUME NEW kinds \in {OldKinds, NewKinds}
        PROVE  SideIn(q, n + 1, kinds) = SideIn(p, n, kinds) + (IF line.kind \in kinds THEN 1 ELSE 0)
    <3>1. SideIn(q, n, kinds) = SideIn(p, n, kinds) /\ SideIn(p, n, kinds) \in Nat
      BY <1>5, <1>8
    <3>2. "hunk" \notin kinds /\ "badHunk" \notin kinds
      BY <1>9
    <3>3. /\ line.kind \notin kinds => SideIn(q, n + 1, kinds) = SideIn(q, n, kinds)
          /\ line.kind \in kinds => SideIn(q, n + 1, kinds) = SideIn(q, n, kinds) + 1
      BY <1>1, <1>6, <1>12, <3>2, SideNext
    <3> QED BY <3>1, <3>3
  <2>3. FitsIn(q, n + 1) <=> FitsIn(q, n) /\ WithinCounts(q, n + 1, q[HunkIn(q, n)].hunk)
    BY <1>1, <1>4, <1>6, <1>12, FitsNext
  <2>4. FitsIn(p, n) => q[HunkIn(p, n)] = p[HunkIn(p, n)]
    BY <1>3, <1>10
  <2>5. FitsIn(q, n + 1) <=>
          FitsIn(p, n) /\ line.kind # "empty" /\ SideIn(q, n + 1, OldKinds) <= Hunk(p, n)[2]
                       /\ SideIn(q, n + 1, NewKinds) <= Hunk(p, n)[3]
    BY <1>1, <1>8, <2>3, <2>4 DEF WithinCounts, Hunk
  <2> QED BY <2>1, <2>2, <2>4, <2>5 DEF Hunk
<1>13. ASSUME FitsIn(p, n)
       PROVE Ranges(Hunk(p, n)) /\ SideIn(p, n, OldKinds) <= Hunk(p, n)[2] /\ SideIn(p, n, NewKinds) <= Hunk(p, n)[3]
  <2>1. HunkIn(p, n) \in 1..n /\ WithinCounts(p, n, Hunk(p, n))
    BY <1>10, <1>13
  <2>2. Ranges(p[HunkIn(p, n)].hunk)
    BY <1>2, <1>3, <2>1
  <2> QED BY <2>1, <2>2 DEF WithinCounts, Hunk
<1>14. AfterHeader(line, q, n)
  BY <1>11 DEF AfterHeader
<1>15. AfterLine(line, p, q, n)
  BY <1>12, Zenon DEF AfterLine
<1> QED BY <1>5, <1>13, <1>14, <1>15
-----------------------------------------------------------------------------
\* Where patchEvidence stands: in a hunk that fits so far it has the number of the next
\* line and what is left of the counts; otherwise no line is one of the file until the
\* next header.
InStep ==
  LET n == Len(patch)
      h == Hunk(patch, n)
  IN /\ next # 0 => /\ FitsIn(patch, n) /\ next = h[1] + SideIn(patch, n, NewKinds)
                    /\ oldLeft + SideIn(patch, n, OldKinds) = h[2] /\ newLeft + SideIn(patch, n, NewKinds) = h[3]
     /\ next = 0 /\ FitsIn(patch, n) => h[1] = 0 /\ h[3] = 0

Regular(p) == \A i \in DOMAIN p : FitsIn(p, i) /\ p[i].kind \notin {"+++", "---"}
Together ==
  Regular(patch) =>
    rawNext = next /\ changedNext = next /\ rawQuoted = quoted /\ changedLines = AddedIn(patch)

DiffInv == DiffTypeOK /\ InStep /\ quoted = SourceIn(patch) /\ Together
LEMMA DiffStart == DiffInit => DiffInv
<1> SUFFICES ASSUME DiffInit PROVE DiffInv
  OBVIOUS
<1>1. patch = <<>> /\ Len(patch) = 0 /\ DOMAIN patch = {} /\ patch \in Seq(Line) /\ 0 <= MaxPatch
  BY DiffAssumption DEF DiffInit
<1>2. ~FitsIn(patch, 0)
  <2>1. HunkIn(patch, 0) \in 0..0
    BY HunkDefined
  <2> QED BY <2>1 DEF FitsIn
<1>3. SourceIn(patch) = {} /\ AddedIn(patch) = {}
  BY <1>1 DEF SourceIn, AddedIn, Quotable
<1> QED BY <1>1, <1>2, <1>3 DEF DiffInit, DiffInv, DiffTypeOK, InStep, Together

LEMMA CountsMove ==
  ASSUME NEW a \in Nat, NEW b \in Nat, NEW m \in Nat
  PROVE  (a - m) + (b + m) = a + b /\ (a + b) + m = a + (b + m)
OBVIOUS

\* One line on, patchEvidence is in step with the format and accepts a quote of the line
\* exactly if the format makes it one of the new file.
LEMMA EvidenceStep ==
  ASSUME DiffTypeOK, InStep, quoted = SourceIn(patch), NEW line \in Line, ReadLine(line)
  PROVE  /\ next' \in Nat /\ oldLeft' \in Nat /\ newLeft' \in Nat /\ quoted' \subseteq Nat \X Nat
         /\ InStep' /\ quoted' = SourceIn(patch')
<1>1. PICK p \in Seq(Line) : p = patch
  BY DEF DiffTypeOK
<1>2. PICK q : q = Append(p, line)
  OBVIOUS
<1>3. PICK n : n = Len(p)
  OBVIOUS
<1>4. patch' = q /\ n \in Nat /\ Len(q) = n + 1
  BY <1>1, <1>2, <1>3 DEF ReadLine
<1>5. SourceIn(q) = SourceIn(p) \cup (IF line.kind \in NewKinds /\ FitsIn(q, n + 1) THEN {<<NumberIn(q, n + 1), n + 1>>} ELSE {})
  <2>1. SourceMove(line, p, q, n)
    BY <1>2, <1>3, SourceGrows
  <2> QED BY <2>1 DEF SourceMove
<1>6. /\ Ranges(line.hunk) /\ line.kind \in Kinds
      /\ SideIn(p, n, OldKinds) \in Nat /\ SideIn(p, n, NewKinds) \in Nat
  BY <1>2, <1>3, HunkGrows
<1>18. AfterHeader(line, q, n) /\ AfterLine(line, p, q, n)
  BY <1>2, <1>3, HunkGrows
<1>7. line.kind \in {"hunk", "badHunk"} =>
        /\ Hunk(q, n + 1) = line.hunk /\ SideIn(q, n + 1, OldKinds) = 0 /\ SideIn(q, n + 1, NewKinds) = 0
        /\ FitsIn(q, n + 1) <=> line.kind = "hunk" /\ (line.hunk[1] = 0 => line.hunk[3] = 0)
  BY <1>18, Zenon DEF AfterHeader
<1>8. line.kind \notin {"hunk", "badHunk"} =>
        /\ SideIn(q, n + 1, OldKinds) = SideIn(p, n, OldKinds) + (IF line.kind \in OldKinds THEN 1 ELSE 0)
        /\ SideIn(q, n + 1, NewKinds) = SideIn(p, n, NewKinds) + (IF line.kind \in NewKinds THEN 1 ELSE 0)
        /\ FitsIn(q, n + 1) <=>
             FitsIn(p, n) /\ line.kind # "empty" /\ SideIn(q, n + 1, OldKinds) <= Hunk(p, n)[2]
                          /\ SideIn(q, n + 1, NewKinds) <= Hunk(p, n)[3]
        /\ FitsIn(p, n) => Hunk(q, n + 1) = Hunk(p, n)
  BY <1>18, Zenon DEF AfterLine
<1>9. FitsIn(p, n) => /\ Hunk(p, n) \in Nat \X Nat \X Nat
                      /\ SideIn(p, n, OldKinds) <= Hunk(p, n)[2] /\ SideIn(p, n, NewKinds) <= Hunk(p, n)[3]
  BY <1>2, <1>3, HunkGrows DEF Ranges
<1>10. NumberIn(q, n + 1) = Hunk(q, n + 1)[1] + SideIn(q, n + 1, NewKinds) - 1
  BY DEF NumberIn, Hunk
<1>11. /\ next \in Nat /\ oldLeft \in Nat /\ newLeft \in Nat /\ quoted \subseteq Nat \X Nat
       /\ quoted = SourceIn(p)
       /\ next # 0 => /\ FitsIn(p, n) /\ next = Hunk(p, n)[1] + SideIn(p, n, NewKinds)
                      /\ oldLeft + SideIn(p, n, OldKinds) = Hunk(p, n)[2] /\ newLeft + SideIn(p, n, NewKinds) = Hunk(p, n)[3]
       /\ next = 0 /\ FitsIn(p, n) => Hunk(p, n)[1] = 0 /\ Hunk(p, n)[3] = 0
  BY <1>1, <1>3, Zenon DEF DiffTypeOK, InStep
<1>12. SUFFICES
         /\ next' \in Nat /\ oldLeft' \in Nat /\ newLeft' \in Nat /\ quoted' \subseteq Nat \X Nat
         /\ quoted' = SourceIn(q)
         /\ next' # 0 => /\ FitsIn(q, n + 1) /\ next' = Hunk(q, n + 1)[1] + SideIn(q, n + 1, NewKinds)
                         /\ oldLeft' + SideIn(q, n + 1, OldKinds) = Hunk(q, n + 1)[2]
                         /\ newLeft' + SideIn(q, n + 1, NewKinds) = Hunk(q, n + 1)[3]
         /\ next' = 0 /\ FitsIn(q, n + 1) => Hunk(q, n + 1)[1] = 0 /\ Hunk(q, n + 1)[3] = 0
  BY <1>4, Zenon DEF InStep
<1>13. ReadEvidence(line) /\ Len(patch) = n
  BY <1>1, <1>3 DEF ReadLine
<1>14. CASE line.kind \in {"hunk", "badHunk"}
  <2>1. SourceIn(q) = SourceIn(p)
    BY <1>5, <1>14 DEF NewKinds, Added
  <2>2. quoted' = quoted
    BY <1>13, <1>14 DEF ReadEvidence
  <2>3. CASE Starts(line)
    <3>1. next' = line.hunk[1] /\ oldLeft' = line.hunk[2] /\ newLeft' = line.hunk[3]
      BY <1>13, <1>14, <2>3 DEF ReadEvidence, Starts
    <3>2. line.hunk[1] \in Nat /\ line.hunk[2] \in Nat /\ line.hunk[3] \in Nat
      BY <1>6 DEF Ranges
    <3>3. FitsIn(q, n + 1) /\ (line.hunk[1] = 0 => line.hunk[3] = 0)
      BY <1>7, <1>14, <2>3 DEF Starts
    <3>4. Hunk(q, n + 1) = line.hunk /\ SideIn(q, n + 1, OldKinds) = 0 /\ SideIn(q, n + 1, NewKinds) = 0
      BY <1>7, <1>14
    <3> QED BY <1>11, <2>1, <2>2, <3>1, <3>2, <3>3, <3>4
  <2>4. CASE ~Starts(line)
    <3>1. next' = 0 /\ oldLeft' = 0 /\ newLeft' = 0
      BY <1>13, <1>14, <2>4 DEF ReadEvidence
    <3>2. ~FitsIn(q, n + 1)
      BY <1>7, <1>14, <2>4 DEF Starts
    <3> QED BY <1>11, <2>1, <2>2, <3>1, <3>2
  <2> QED BY <2>3, <2>4
<1>15. CASE line.kind = "noNewline"
  <2>1. next' = next /\ oldLeft' = oldLeft /\ newLeft' = newLeft /\ quoted' = quoted
    BY <1>13, <1>15 DEF ReadEvidence, evidenceVars, Starts
  <2>2. SourceIn(q) = SourceIn(p)
    BY <1>5, <1>15 DEF NewKinds, Added
  <2>3. SideIn(q, n + 1, OldKinds) = SideIn(p, n, OldKinds) /\ SideIn(q, n + 1, NewKinds) = SideIn(p, n, NewKinds)
    BY <1>6, <1>8, <1>15 DEF NewKinds, OldKinds, Added, Removed
  <2>4. FitsIn(q, n + 1) <=> FitsIn(p, n)
    BY <1>8, <1>9, <1>15, <2>3
  <2>5. FitsIn(p, n) => Hunk(q, n + 1) = Hunk(p, n)
    BY <1>8, <1>15
  <2> QED BY <1>11, <2>1, <2>2, <2>3, <2>4, <2>5
<1>16. CASE line.kind = "empty"
  <2>1. next' = 0 /\ oldLeft' = oldLeft /\ newLeft' = newLeft /\ quoted' = quoted
    BY <1>13, <1>16 DEF ReadEvidence, Stop, Starts
  <2>2. SourceIn(q) = SourceIn(p)
    BY <1>5, <1>16 DEF NewKinds, Added
  <2>3. ~FitsIn(q, n + 1)
    BY <1>8, <1>16
  <2> QED BY <1>11, <2>1, <2>2, <2>3
<1>17. CASE line.kind \in {"+", "+++", "-", "---", "context"}
  <2>1. PICK o \in {0, 1} : o = (IF line.kind \in OldKinds THEN 1 ELSE 0)
    OBVIOUS
  <2>2. PICK m \in {0, 1} : m = (IF line.kind \in NewKinds THEN 1 ELSE 0)
    OBVIOUS
  <2>3. /\ SideIn(q, n + 1, OldKinds) = SideIn(p, n, OldKinds) + o
        /\ SideIn(q, n + 1, NewKinds) = SideIn(p, n, NewKinds) + m
    BY <1>8, <1>17, <2>1, <2>2
  <2>4. FitsIn(q, n + 1) <=>
          FitsIn(p, n) /\ SideIn(p, n, OldKinds) + o <= Hunk(p, n)[2] /\ SideIn(p, n, NewKinds) + m <= Hunk(p, n)[3]
    BY <1>8, <1>17, <2>3
  <2>5. FitsIn(p, n) => Hunk(q, n + 1) = Hunk(p, n)
    BY <1>8, <1>17
  <2>6. SourceIn(q) = SourceIn(p) \cup (IF m = 1 /\ FitsIn(q, n + 1) THEN {<<NumberIn(q, n + 1), n + 1>>} ELSE {})
    BY <1>5, <2>2
  <2>7. CASE next = 0
    <3>1. next' = next /\ oldLeft' = oldLeft /\ newLeft' = newLeft /\ quoted' = quoted
      BY <1>13, <1>17, <2>7 DEF ReadEvidence, evidenceVars, Starts
    <3>2. ~(m = 1 /\ FitsIn(q, n + 1))
      BY <1>6, <1>11, <2>4, <2>7
    <3> QED BY <1>11, <2>4, <2>5, <2>6, <2>7, <3>1, <3>2
  <2>8. CASE next # 0
    <3>1. EvidenceInHunk(line)
      BY <1>13, <1>17, <2>8 DEF ReadEvidence, Starts
    <3>2. (line.kind \in Removed \cup {"context"} <=> o = 1) /\ (line.kind \in Added \cup {"context"} <=> m = 1)
      BY <2>1, <2>2 DEF OldKinds, NewKinds
    <3>3. FitsIn(p, n) /\ Hunk(p, n)[1] \in Nat /\ Hunk(p, n)[2] \in Nat /\ Hunk(p, n)[3] \in Nat
      BY <1>9, <1>11, <2>8
    <3>4. FitsIn(q, n + 1) <=> o <= oldLeft /\ m <= newLeft
      BY <1>6, <1>11, <2>4, <2>8, <3>3
    <3>5. CASE (o = 1 /\ oldLeft = 0) \/ (m = 1 /\ newLeft = 0)
      <4>1. next' = 0 /\ oldLeft' = oldLeft /\ newLeft' = newLeft /\ quoted' = quoted
        BY <3>1, <3>2, <3>5 DEF EvidenceInHunk, Stop
      <4>2. ~FitsIn(q, n + 1)
        BY <1>11, <3>4, <3>5
      <4> QED BY <1>11, <2>6, <4>1, <4>2
    <3>6. CASE ~((o = 1 /\ oldLeft = 0) \/ (m = 1 /\ newLeft = 0))
      <4>1. /\ oldLeft' = oldLeft - o /\ newLeft' = newLeft - m /\ next' = next + m
            /\ quoted' = IF m = 1 THEN quoted \cup {<<next, n + 1>>} ELSE quoted
        BY <1>11, <1>13, <3>1, <3>2, <3>6 DEF EvidenceInHunk
      <4>2. FitsIn(q, n + 1)
        BY <1>11, <3>4, <3>6
      <4>3. NumberIn(q, n + 1) = next + m - 1
        <5>1. NumberIn(q, n + 1) = Hunk(p, n)[1] + (SideIn(p, n, NewKinds) + m) - 1
          BY <1>10, <2>3, <2>5, <3>3
        <5>2. next = Hunk(p, n)[1] + SideIn(p, n, NewKinds)
          BY <1>11, <2>8
        <5>3. SideIn(p, n, NewKinds) \in Nat /\ m \in Nat /\ Hunk(p, n)[1] \in Nat
          BY <1>6, <3>3
        <5> QED BY <5>1, <5>2, <5>3
      <4>4. quoted' = SourceIn(q)
        BY <1>11, <2>6, <4>1, <4>2, <4>3
      <4>5. quoted' \subseteq Nat \X Nat
        BY <1>4, <1>11, <4>1
      <4>6. next' \in Nat /\ oldLeft' \in Nat /\ newLeft' \in Nat /\ next' # 0
        BY <1>11, <2>8, <3>6, <4>1
      <4>7. Hunk(q, n + 1) = Hunk(p, n)
        BY <2>5, <3>3
      <4>8. /\ next' = Hunk(q, n + 1)[1] + SideIn(q, n + 1, NewKinds)
            /\ oldLeft' + SideIn(q, n + 1, OldKinds) = Hunk(q, n + 1)[2]
            /\ newLeft' + SideIn(q, n + 1, NewKinds) = Hunk(q, n + 1)[3]
        <5>1. /\ next = Hunk(p, n)[1] + SideIn(p, n, NewKinds)
              /\ oldLeft + SideIn(p, n, OldKinds) = Hunk(p, n)[2] /\ newLeft + SideIn(p, n, NewKinds) = Hunk(p, n)[3]
          BY <1>11, <2>8
        <5>2. /\ SideIn(p, n, NewKinds) \in Nat /\ SideIn(p, n, OldKinds) \in Nat /\ m \in Nat /\ o \in Nat
              /\ next \in Nat /\ oldLeft \in Nat /\ newLeft \in Nat /\ Hunk(p, n)[1] \in Nat
          BY <1>6, <1>11, <3>3
        <5>3. oldLeft' = oldLeft - o /\ newLeft' = newLeft - m /\ next' = next + m
          BY <4>1
        <5>4. (oldLeft - o) + (SideIn(p, n, OldKinds) + o) = oldLeft + SideIn(p, n, OldKinds)
          BY <5>2, CountsMove
        <5>5. (newLeft - m) + (SideIn(p, n, NewKinds) + m) = newLeft + SideIn(p, n, NewKinds)
          BY <5>2, CountsMove
        <5>6. (Hunk(p, n)[1] + SideIn(p, n, NewKinds)) + m = Hunk(p, n)[1] + (SideIn(p, n, NewKinds) + m)
          BY <5>2, CountsMove
        <5>7. /\ oldLeft' + (SideIn(p, n, OldKinds) + o) = Hunk(p, n)[2]
              /\ newLeft' + (SideIn(p, n, NewKinds) + m) = Hunk(p, n)[3]
              /\ next' = Hunk(p, n)[1] + (SideIn(p, n, NewKinds) + m)
          BY <5>1, <5>3, <5>4, <5>5, <5>6, Zenon
        <5> QED BY <2>3, <4>7, <5>7, Zenon
      <4> QED BY <4>2, <4>4, <4>5, <4>6, <4>8
    <3> QED BY <3>5, <3>6
  <2> QED BY <2>7, <2>8
<1> QED BY <1>6, <1>14, <1>15, <1>16, <1>17 DEF Kinds
LEMMA RegularBefore ==
  ASSUME NEW p \in Seq(Line), NEW line \in Line, NEW q, q = Append(p, line), NEW n, n = Len(p), Regular(q)
  PROVE  Regular(p) /\ FitsIn(q, n + 1) /\ line.kind \notin {"+++", "---"}
<1>1. /\ n \in Nat /\ q[n + 1] = line /\ Alike(p, q, n)
      /\ DOMAIN p = 1..n /\ DOMAIN q = 1..(n + 1) /\ \A j \in 1..n : q[j] = p[j]
  <2>1. /\ n \in Nat /\ q[n + 1] = line
        /\ DOMAIN p = 1..n /\ DOMAIN q = 1..(n + 1) /\ \A j \in 1..n : q[j] = p[j]
    OBVIOUS
  <2> QED BY <2>1 DEF Alike
<1>2. n + 1 \in DOMAIN q
  BY <1>1
<1>3. ASSUME NEW i \in DOMAIN p PROVE FitsIn(p, i) /\ p[i].kind \notin {"+++", "---"}
  <2>1. i \in DOMAIN q /\ i \in 0..n /\ q[i] = p[i]
    BY <1>1
  <2> QED BY <1>1, <2>1, FitsAgain DEF Regular
<1> QED BY <1>1, <1>2, <1>3 DEF Regular

\* In a patch that is regular so far, the other readers are where patchEvidence is.
LEMMA ReadersStep ==
  ASSUME DiffTypeOK, InStep, quoted = SourceIn(patch), Together, NEW line \in Line, ReadLine(line),
         next' \in Nat, InStep'
  PROVE  Together'
<1>1. PICK p \in Seq(Line) : p = patch
  BY DEF DiffTypeOK
<1>2. PICK q : q = Append(p, line)
  OBVIOUS
<1>3. PICK n : n = Len(p)
  OBVIOUS
<1>4. patch' = q /\ n \in Nat /\ Len(q) = n + 1 /\ ReadEvidence(line) /\ ReadRaw(line) /\ ReadChanged(line) /\ Len(patch) = n
  BY <1>1, <1>2, <1>3 DEF ReadLine
<1>5. SUFFICES ASSUME Regular(q)
               PROVE  /\ rawNext' = next' /\ changedNext' = next' /\ rawQuoted' = quoted'
                      /\ changedLines' = AddedIn(q)
  BY <1>4, Zenon DEF Together
<1>6. Regular(p) /\ FitsIn(q, n + 1) /\ line.kind \notin {"+++", "---"}
  BY <1>2, <1>3, <1>5, RegularBefore
<1>7. rawNext = next /\ changedNext = next /\ rawQuoted = quoted /\ changedLines = AddedIn(p) /\ next \in Nat
  BY <1>1, <1>6 DEF Together, DiffTypeOK
<1>8. AddedIn(q) = AddedIn(p) \cup (IF line.kind = "+" THEN {NumberIn(q, n + 1)} ELSE {})
  <2>1. AllFit(p, n)
    BY <1>3, <1>6 DEF Regular, AllFit
  <2>2. AddedMove(line, p, q, n)
    BY <1>2, <1>3, SourceGrows
  <2> QED BY <2>1, <2>2 DEF AddedMove
<1>9. /\ Ranges(line.hunk) /\ line.kind \in Kinds
      /\ SideIn(p, n, OldKinds) \in Nat /\ SideIn(p, n, NewKinds) \in Nat
      /\ AfterHeader(line, q, n) /\ AfterLine(line, p, q, n)
  BY <1>2, <1>3, HunkGrows
<1>10. CASE line.kind \in {"hunk", "badHunk"}
  <2>1. Starts(line)
    BY <1>6, <1>9, <1>10 DEF AfterHeader, Starts
  <2>2. next' = line.hunk[1] /\ quoted' = quoted
    BY <1>4, <1>10, <2>1 DEF ReadEvidence
  <2>3. rawNext' = line.hunk[1] /\ rawQuoted' = rawQuoted
    BY <1>4, <1>10 DEF ReadRaw
  <2>4. changedNext' = line.hunk[1] /\ changedLines' = changedLines
    BY <1>4, <1>10 DEF ReadChanged, Counts
  <2>5. AddedIn(q) = AddedIn(p)
    BY <1>8, <1>10
  <2> QED BY <1>7, <2>2, <2>3, <2>4, <2>5
<1>11. ASSUME line.kind \notin {"hunk", "badHunk"}
       PROVE  /\ FitsIn(p, n) /\ line.kind # "empty" /\ SideIn(q, n + 1, NewKinds) <= Hunk(p, n)[3]
              /\ SideIn(q, n + 1, NewKinds) = SideIn(p, n, NewKinds) + (IF line.kind \in NewKinds THEN 1 ELSE 0)
              /\ Hunk(q, n + 1) = Hunk(p, n)
  BY <1>6, <1>9, <1>11 DEF AfterLine
<1>12. CASE line.kind \in {"-", "noNewline"}
  <2>1. rawNext' = rawNext /\ rawQuoted' = rawQuoted
    BY <1>4, <1>12 DEF ReadRaw, rawVars
  <2>2. changedNext' = changedNext /\ changedLines' = changedLines
    BY <1>4, <1>12 DEF ReadChanged, Counts, changedVars
  <2>3. AddedIn(q) = AddedIn(p)
    BY <1>8, <1>12
  <2>4. quoted' = quoted /\ next' \in {0, next}
    BY <1>4, <1>12 DEF ReadEvidence, EvidenceInHunk, Stop, Starts, evidenceVars, Added
  <2>5. next' = next
    <3>1. SideIn(q, n + 1, NewKinds) = SideIn(p, n, NewKinds)
      BY <1>9, <1>11, <1>12 DEF NewKinds, Added
    <3>2. next = 0 \/ next = Hunk(p, n)[1] + SideIn(p, n, NewKinds)
      BY <1>1, <1>3 DEF InStep
    <3>3. next' = 0 => Hunk(p, n)[1] = 0 /\ Hunk(p, n)[3] = 0
      BY <1>4, <1>6, <1>11, <1>12 DEF InStep
    <3>4. SideIn(p, n, NewKinds) <= Hunk(p, n)[3]
      BY <1>11, <1>12, <3>1
    <3> QED BY <1>9, <2>4, <3>2, <3>3, <3>4
  <2> QED BY <1>7, <2>1, <2>2, <2>3, <2>4, <2>5
<1>13. CASE line.kind \in {"+", "context"}
  <2>1. SideIn(q, n + 1, NewKinds) = SideIn(p, n, NewKinds) + 1 /\ FitsIn(p, n) /\ Hunk(q, n + 1) = Hunk(p, n)
    BY <1>11, <1>13 DEF NewKinds, Added
  <2>2. next # 0
    <3>1. next = 0 => Hunk(p, n)[3] = 0
      BY <1>1, <1>3, <2>1 DEF InStep
    <3>2. SideIn(q, n + 1, NewKinds) <= Hunk(p, n)[3]
      BY <1>11, <1>13
    <3> QED BY <1>9, <2>1, <3>1, <3>2
  <2>3. next' # 0
    <3>1. next' = 0 => Hunk(q, n + 1)[3] = 0
      BY <1>4, <1>6 DEF InStep
    <3>2. SideIn(q, n + 1, NewKinds) <= Hunk(q, n + 1)[3]
      BY <1>11, <1>13
    <3> QED BY <1>9, <2>1, <3>1, <3>2
  <2>4. EvidenceInHunk(line)
    BY <1>4, <1>13, <2>2 DEF ReadEvidence, Starts
  <2>5. next' = next + 1 /\ quoted' = quoted \cup {<<next, n + 1>>}
    BY <1>4, <1>13, <2>3, <2>4 DEF EvidenceInHunk, Stop, Added
  <2>6. rawNext' = rawNext + 1 /\ rawQuoted' = rawQuoted \cup {<<rawNext, n + 1>>}
    BY <1>4, <1>7, <1>13, <2>2 DEF ReadRaw
  <2>7. changedNext' = changedNext + 1
    BY <1>4, <1>13 DEF ReadChanged, Counts
  <2>8. NumberIn(q, n + 1) = next
    <3>1. next' = Hunk(q, n + 1)[1] + SideIn(q, n + 1, NewKinds)
      BY <1>4, <2>3 DEF InStep
    <3>2. NumberIn(q, n + 1) = next' - 1
      <4>1. NumberIn(q, n + 1) = Hunk(q, n + 1)[1] + SideIn(q, n + 1, NewKinds) - 1
        BY DEF NumberIn, Hunk
      <4>2. Ranges(Hunk(p, n))
        BY <1>2, <1>3, <2>1, HunkGrows
      <4>3. Hunk(q, n + 1)[1] \in Nat /\ SideIn(q, n + 1, NewKinds) \in Nat
        BY <1>9, <2>1, <4>2 DEF Ranges
      <4> QED BY <3>1, <4>1, <4>3
    <3>3. (next + 1) - 1 = next
      BY <1>7
    <3> QED BY <2>5, <3>2, <3>3
  <2>9. changedLines' = AddedIn(q)
    <3>1. CASE line.kind = "+"
      <4>1. changedLines' = changedLines \cup {changedNext}
        BY <1>4, <1>7, <2>2, <3>1 DEF ReadChanged, Counts
      <4> QED BY <1>7, <1>8, <2>8, <3>1, <4>1
    <3>2. CASE line.kind = "context"
      <4>1. changedLines' = changedLines
        BY <1>4, <3>2 DEF ReadChanged, Counts
      <4> QED BY <1>7, <1>8, <3>2, <4>1
    <3> QED BY <1>13, <3>1, <3>2
  <2> QED BY <1>7, <2>5, <2>6, <2>7, <2>9
<1>14. line.kind # "empty"
  BY <1>11
<1> QED BY <1>6, <1>9, <1>10, <1>12, <1>13, <1>14 DEF Kinds
LEMMA DiffStep == DiffInv /\ [DiffNext]_diffVars => DiffInv'
<1> SUFFICES ASSUME DiffTypeOK, InStep, quoted = SourceIn(patch), Together, [DiffNext]_diffVars PROVE DiffInv'
  BY DEF DiffInv
<1>1. CASE UNCHANGED diffVars
  BY <1>1 DEF diffVars, evidenceVars, rawVars, changedVars, DiffInv, DiffTypeOK, InStep, Together
<1>2. ASSUME NEW line \in Line, ReadLine(line) PROVE DiffInv'
  <2>1. /\ next' \in Nat /\ oldLeft' \in Nat /\ newLeft' \in Nat /\ quoted' \subseteq Nat \X Nat
        /\ InStep' /\ quoted' = SourceIn(patch')
    BY <1>2, EvidenceStep
  <2>2. Together'
    BY <1>2, <2>1, ReadersStep
  <2>3. patch' \in Seq(Line) /\ Len(patch') <= MaxPatch /\ Len(patch) + 1 \in Nat \ {0}
    BY <1>2, DiffAssumption DEF ReadLine, DiffTypeOK
  <2>4. line.hunk[1] \in Nat
    <3>1. \A l \in Line : l.hunk \in Nat \X Nat \X Nat
      BY DiffAssumption DEF Line
    <3> QED BY <3>1
  <2>5. rawNext' \in Nat /\ rawQuoted' \subseteq Nat \X Nat
    BY <1>2, <2>3, <2>4 DEF ReadLine, ReadRaw, rawVars, DiffTypeOK
  <2>6. changedNext' \in Nat /\ changedLines' \subseteq Nat
    BY <1>2, <2>4 DEF ReadLine, ReadChanged, Counts, changedVars, DiffTypeOK
  <2> QED BY <2>1, <2>2, <2>3, <2>5, <2>6 DEF DiffInv, DiffTypeOK
<1> QED BY <1>1, <1>2 DEF DiffNext

\* The invariant of the three readers, and with it the types of their variables.
THEOREM DiffInvariant == DiffSpec => [](DiffTypeOK /\ DiffInv)
<1>1. DiffInv => DiffTypeOK
  BY DEF DiffInv
<1> QED BY DiffStart, DiffStep, <1>1, PTL DEF DiffSpec

LEMMA EvidenceFollows == DiffInv => EvidenceIsExact
BY FormatIsFormat, Zenon DEF DiffInv, EvidenceIsExact

\* patchEvidence takes a line for one of the new file, and under the right number, if
\* and only if the diff format does: for all headers and all patches, however broken.
THEOREM EvidenceExact == DiffSpec => []EvidenceIsExact
BY DiffInvariant, EvidenceFollows, PTL

LEMMA AgreementFollows == DiffInv => ReadersAgree
<1> SUFFICES ASSUME DiffInv, WellFormed, ~Headerlike
             PROVE  /\ rawQuoted = quoted
                    /\ changedLines = {Number(i) : i \in {j \in DOMAIN patch : patch[j].kind = "+"}}
  BY Zenon DEF ReadersAgree
<1>1. Regular(patch)
  BY FormatIsFormat, Zenon DEF Regular, Headerlike
<1>2. rawQuoted = quoted /\ changedLines = AddedIn(patch)
  BY <1>1 DEF DiffInv, Together
<1> QED BY <1>2, FormatIsFormat, Zenon

\* In a patch as git writes it, in which no line looks like a file header, the three
\* readers number the lines alike.
THEOREM ReadersAgreement == DiffSpec => []ReadersAgree
BY DiffInvariant, AgreementFollows, PTL
-----------------------------------------------------------------------------
Definition(d) == d[1] \in 1..FileLines /\ d[2] \in d[1]..FileLines
Starting(found) == {p \in found \X found : Before(p[1], p[2])}

LEMMA FileLinesIsNatural == FileLines \in Nat /\ MaxSymbols \in Nat \ {0}
BY ContextAssumption

\* Symbols that do not contain each other start on different lines.
LEMMA InnermostStartApart ==
  ASSUME NEW defs, \A d \in defs : Definition(d), NEW found, found = Innermost(defs)
  PROVE  Orders(Starting(found), found) /\ \A d \in found : Below(d, Starting(found), found) = {e \in found : Before(e, d)}
<1>1. \A d \in found : d \in defs /\ d[1] \in Int /\ d[2] \in Int
  BY FileLinesIsNatural DEF Innermost, Definition
<1>2. ASSUME NEW d \in found, NEW e \in found, d[1] = e[1] PROVE d = e
  <2>1. d[2] <= e[2] \/ e[2] <= d[2]
    BY <1>1
  <2>2. Inside(d, e) \/ Inside(e, d)
    BY <1>1, <1>2, <2>1 DEF Inside
  <2> QED BY <1>1, <2>2 DEF Innermost
<1>3. \A d, e \in found : <<d, e>> \in Starting(found) <=> d[1] < e[1]
  BY DEF Starting, Before
<1>4. \A a \in found : <<a, a>> \notin Starting(found)
  BY <1>1, <1>3
<1>5. \A a, b, c \in found : <<a, b>> \in Starting(found) /\ <<b, c>> \in Starting(found) => <<a, c>> \in Starting(found)
  BY <1>1, <1>3
<1>6. \A a, b \in found : a = b \/ <<a, b>> \in Starting(found) \/ <<b, a>> \in Starting(found)
  <2>1. ASSUME NEW a \in found, NEW b \in found PROVE a[1] = b[1] \/ a[1] < b[1] \/ b[1] < a[1]
    BY <1>1
  <2> QED BY <1>2, <1>3, <2>1
<1>7. \A d \in found : Below(d, Starting(found), found) = {e \in found : Before(e, d)}
  BY DEF Below, Starting
<1> QED BY <1>4, <1>5, <1>6, <1>7 DEF Orders
LEMMA SmallerIsLess ==
  ASSUME NEW a \in Int, NEW b \in Int
  PROVE  Smaller(a, b) \in {a, b} /\ Smaller(a, b) <= a /\ Smaller(a, b) <= b
BY DEF Smaller

\* The symbols to show are definitions with a target line in them.
LEMMA SymbolsFound ==
  ASSUME NEW defs \in Definitions, NEW T
  PROVE  /\ FindSymbols(defs, T) \in Seq(defs)
         /\ \A i \in DOMAIN FindSymbols(defs, T) :
              Definition(FindSymbols(defs, T)[i]) /\ \E n \in T : Holds(FindSymbols(defs, T)[i], n)
<1> DEFINE found == Innermost(Enclosing(defs, T))
           m == Smaller(Cardinality(found), MaxSymbols)
<1>1. IsFiniteSet(defs) /\ \A d \in defs : Definition(d)
  BY ContextAssumption DEF Definition
<1>2. found \in SUBSET defs /\ \A d \in found : \E n \in T : Holds(d, n)
  BY DEF Innermost, Enclosing
<1>3. Orders(Starting(found), found) /\ \A d \in found : Below(d, Starting(found), found) = {e \in found : Before(e, d)}
  <2>1. \A d \in Enclosing(defs, T) : Definition(d)
    BY <1>1 DEF Enclosing
  <2> QED BY <2>1, InnermostStartApart
<1>4. IsFiniteSet(found) /\ Cardinality(found) \in Nat
  <2>1. IsFiniteSet(found)
    BY <1>1, <1>2, FS_Subset
  <2> QED BY <2>1, FS_CardinalityType
<1>5. m \in Nat /\ m <= Cardinality(found)
  <2> HIDE DEF found
  <2> QED BY <1>4, FileLinesIsNatural, SmallerIsLess
<1> DEFINE At(k) == CHOOSE d \in found : Cardinality({e \in found : Before(e, d)}) = k - 1
<1>6. ASSUME NEW k \in 1..m PROVE At(k) \in found
  <2>1. k - 1 \in 0..(Cardinality(found) - 1)
    <3> HIDE DEF m, found
    <3> QED BY <1>4, <1>5
  <2>2. \E d \in found : Cardinality(Below(d, Starting(found), found)) = k - 1
    <3> HIDE DEF m, found
    <3> QED BY <1>3, <1>4, <2>1, PlacesAreTaken
  <2>3. \E d \in found : Cardinality({e \in found : Before(e, d)}) = k - 1
    <3> HIDE DEF m, found
    <3> QED BY <1>3, <2>2
  <2> HIDE DEF found, m
  <2> QED BY <2>3, Zenon
<1>7. FindSymbols(defs, T) = [k \in 1..m |-> At(k)]
  BY Zenon DEF FindSymbols
<1> HIDE DEF At, m, found
<1>8. \A k \in 1..m : At(k) \in defs /\ Definition(At(k)) /\ \E n \in T : Holds(At(k), n)
  BY <1>1, <1>2, <1>6
<1>9. [k \in 1..m |-> At(k)] \in Seq(defs)
  BY <1>5, <1>8, IsASeq
<1> QED BY <1>7, <1>8, <1>9

\* The part of a symbol that is shown is as long as there is room for, and has the
\* focus in it.
LEMMA WindowHolds ==
  ASSUME NEW d, d[1] \in Nat, d[2] \in Nat, NEW focus \in Nat, Holds(d, focus),
         NEW n \in Nat, n > 2, Size(d) > n, NEW w, w = Window(d, focus, n)
  PROVE  /\ w[1] \in Nat /\ w[2] \in Nat /\ d[1] <= w[1] /\ w[2] <= d[2]
         /\ w[1] <= focus /\ focus <= w[2] /\ Size(w) = n
<1>1. PICK h \in Nat : h = n \div 2 /\ h >= 1 /\ h <= n - 1
  <2>1. n \div 2 \in Nat /\ n \div 2 >= 1 /\ n \div 2 <= n - 1
    OBVIOUS
  <2> QED BY <2>1
<1>2. PICK start \in Int : start = Larger(d[1], focus - h)
  BY DEF Larger
<1>3. (start = d[1] /\ focus - h <= d[1]) \/ (start = focus - h /\ d[1] <= focus - h)
  BY <1>2 DEF Larger
<1>4. w = IF start + n - 1 > d[2] THEN <<Larger(d[1], d[2] - n + 1), d[2]>> ELSE <<start, start + n - 1>>
  BY <1>1, <1>2 DEF Window
<1>5. d[1] <= focus /\ focus <= d[2] /\ d[2] - d[1] + 1 > n
  BY DEF Holds, Size
<1>6. CASE start + n - 1 > d[2]
  <2>1. w = <<d[2] - n + 1, d[2]>>
    <3>1. Larger(d[1], d[2] - n + 1) = d[2] - n + 1
      BY <1>5 DEF Larger
    <3> QED BY <1>4, <1>6, <3>1
  <2>2. w[1] = d[2] - n + 1 /\ w[2] = d[2]
    BY <2>1
  <2> QED BY <1>1, <1>3, <1>5, <1>6, <2>2 DEF Size
<1>7. CASE ~(start + n - 1 > d[2])
  <2>1. w[1] = start /\ w[2] = start + n - 1
    BY <1>4, <1>7
  <2> QED BY <1>1, <1>3, <1>5, <1>7, <2>1 DEF Size
<1> QED BY <1>6, <1>7
-----------------------------------------------------------------------------
\* What the operators need of the variables, and what a symbol that is shown shows.
SymbolsOK ==
  \A i \in DOMAIN symbols : Definition(symbols[i]) /\ \E n \in targets : Holds(symbols[i], n)

ContextTypeOK ==
  /\ targets \in SUBSET (1..(FileLines + 1)) /\ maxLines \in Nat \ {0} /\ remainingLines \in Nat
  /\ symbols \in Seq(UNION Definitions) /\ snippets \in Seq(Nat \X Nat)
  /\ symbols # <<>> => Len(snippets) <= Len(symbols)
  /\ cut \in BOOLEAN /\ built \in BOOLEAN

FocusAt(d, T) == MinLine({n \in T : Holds(d, n)})
SnippetsOK ==
  \A i \in DOMAIN snippets :
    /\ 1 <= snippets[i][1] /\ snippets[i][2] <= FileLines
    /\ symbols = <<>> => MinLine(targets) \in snippets[i][1]..snippets[i][2]
    /\ symbols # <<>> =>
         /\ Inside(snippets[i], symbols[i]) /\ FocusAt(symbols[i], targets) \in snippets[i][1]..snippets[i][2]
         /\ ~cut => snippets[i] = <<symbols[i][1], symbols[i][2]>>

RoomKept ==
  /\ IsFiniteSet(Shown) /\ Cardinality(Shown) <= maxLines - remainingLines
  /\ Apart => Cardinality(Shown) = maxLines - remainingLines

BuiltOK ==
  /\ symbols = <<>> => IF built THEN ~cut => targets \cap 1..FileLines \subseteq Shown
                       ELSE snippets = <<>> /\ remainingLines = maxLines
  /\ symbols # <<>> /\ built /\ ~cut => Len(snippets) = Len(symbols)

ContextInv == SymbolsOK /\ ContextTypeOK /\ SnippetsOK /\ RoomKept /\ BuiltOK
-----------------------------------------------------------------------------
LEMMA LeastAndMost ==
  ASSUME NEW S, S \subseteq Nat, S # {}, NEW top \in Nat, \A n \in S : n <= top
  PROVE  /\ MinLine(S) \in S /\ \A n \in S : MinLine(S) <= n
         /\ MaxLine(S) \in S /\ \A n \in S : n <= MaxLine(S)
<1>1. \E n \in S : \A m \in S : n <= m
  BY LeastOne
<1>2. \E n \in S : \A m \in S : m <= n
  BY GreatestOne
<1> QED BY <1>1, <1>2 DEF MinLine, MaxLine

\* The focus of a symbol is a target line in it.
LEMMA FocusIsTarget ==
  ASSUME SymbolsOK, ContextTypeOK, NEW i \in DOMAIN symbols
  PROVE  /\ symbols[i][1] \in Nat /\ symbols[i][2] \in Nat /\ 1 <= symbols[i][1]
         /\ symbols[i][1] <= symbols[i][2] /\ symbols[i][2] <= FileLines
         /\ Focus(symbols[i]) \in Nat /\ Holds(symbols[i], Focus(symbols[i]))
<1> DEFINE S == {n \in targets : Holds(symbols[i], n)}
<1>1. symbols[i][1] \in 1..FileLines /\ symbols[i][2] \in symbols[i][1]..FileLines /\ S # {}
  BY DEF SymbolsOK, Definition
<1>2. S \subseteq Nat /\ FileLines + 1 \in Nat /\ \A n \in S : n <= FileLines + 1
  <2>1. targets \in SUBSET (1..(FileLines + 1))
    BY DEF ContextTypeOK
  <2>2. \A n \in targets : n \in Nat /\ n <= FileLines + 1
    BY <2>1, FileLinesIsNatural
  <2> QED BY <2>2, FileLinesIsNatural
<1>3. MinLine(S) \in S
  <2> HIDE DEF S
  <2> QED BY <1>1, <1>2, LeastAndMost
<1>4. Focus(symbols[i]) = MinLine(S)
  BY DEF Focus
<1> QED BY <1>1, <1>2, <1>3, <1>4, FileLinesIsNatural

SeenIn(sn) == UNION {s[1]..s[2] : s \in {sn[i] : i \in DOMAIN sn}}
LEMMA ShownGrows ==
  ASSUME NEW sn \in Seq(Nat \X Nat), NEW s \in Nat \X Nat, NEW t, t = Append(sn, s)
  PROVE  /\ SeenIn(t) = SeenIn(sn) \cup (s[1]..s[2])
         /\ IsFiniteSet(s[1]..s[2]) /\ (s[1] <= s[2] => Cardinality(s[1]..s[2]) = Size(s))
<1>1. /\ DOMAIN t = DOMAIN sn \cup {Len(sn) + 1} /\ t[Len(sn) + 1] = s /\ \A i \in DOMAIN sn : t[i] = sn[i]
  <2>1. DOMAIN t = 1..(Len(sn) + 1) /\ DOMAIN sn = 1..Len(sn) /\ Len(sn) \in Nat
    OBVIOUS
  <2>2. 1..(Len(sn) + 1) = 1..Len(sn) \cup {Len(sn) + 1}
    BY <2>1
  <2> QED BY <2>1, <2>2
<1>2. {t[i] : i \in DOMAIN t} = {sn[i] : i \in DOMAIN sn} \cup {s}
  BY <1>1
<1>3. SeenIn(t) = SeenIn(sn) \cup (s[1]..s[2])
  BY <1>2 DEF SeenIn
<1>4. s[1] \in Int /\ s[2] \in Int
  OBVIOUS
<1>5. IsFiniteSet(s[1]..s[2]) /\ Cardinality(s[1]..s[2]) = IF s[1] > s[2] THEN 0 ELSE s[2] - s[1] + 1
  BY <1>4, FS_Interval
<1> QED BY <1>3, <1>4, <1>5 DEF Size

\* What a snippet adds to the lines shown is at most its lines, and exactly those when
\* it shares none with the others.
LEMMA LinesAdd ==
  ASSUME NEW A, NEW B, IsFiniteSet(A), IsFiniteSet(B)
  PROVE  /\ IsFiniteSet(A \cup B) /\ Cardinality(A) \in Nat /\ Cardinality(B) \in Nat /\ Cardinality(A \cup B) \in Nat
         /\ Cardinality(A \cup B) <= Cardinality(A) + Cardinality(B)
         /\ A \cap B = {} => Cardinality(A \cup B) = Cardinality(A) + Cardinality(B)
<1>1. IsFiniteSet(A \cap B)
  BY FS_Intersection
<1>2. Cardinality(A \cap B) \in Nat /\ Cardinality(A) \in Nat /\ Cardinality(B) \in Nat
  BY <1>1, FS_CardinalityType
<1>3. IsFiniteSet(A \cup B) /\ Cardinality(A \cup B) = Cardinality(A) + Cardinality(B) - Cardinality(A \cap B)
  BY FS_Union
<1>4. A \cap B = {} => Cardinality(A \cap B) = 0
  BY FS_EmptySet
<1>5. Cardinality(A \cup B) \in Nat
  BY <1>3, FS_CardinalityType
<1> QED BY <1>2, <1>3, <1>4, <1>5
-----------------------------------------------------------------------------
LEMMA ContextStart == ContextInit => ContextInv
<1> SUFFICES ASSUME ContextInit PROVE ContextInv
  OBVIOUS
<1>1. PICK defs \in Definitions : symbols = FindSymbols(defs, targets)
  BY DEF ContextInit
<1>2. symbols \in Seq(defs) /\ SymbolsOK
  BY <1>1, SymbolsFound DEF SymbolsOK
<1>3. symbols \in Seq(UNION Definitions)
  <2>1. DOMAIN symbols = 1..Len(symbols) /\ Len(symbols) \in Nat
    BY <1>2
  <2>2. \A i \in 1..Len(symbols) : symbols[i] \in defs
    BY <1>2, ElementOfSeq
  <2>3. \A i \in 1..Len(symbols) : symbols[i] \in UNION Definitions
    BY <2>2
  <2> QED BY <1>2, <2>1, <2>3
<1>4. Len(snippets) = 0 /\ DOMAIN snippets = {} /\ snippets \in Seq(Nat \X Nat) /\ Len(symbols) \in Nat
  BY <1>2 DEF ContextInit
<1>5. maxLines \in Nat \ {0} /\ remainingLines = maxLines
  BY ContextAssumption DEF ContextInit
<1>6. ContextTypeOK
  <2>1. targets \in SUBSET (1..(FileLines + 1)) /\ cut = FALSE /\ built = FALSE
    BY DEF ContextInit
  <2>2. remainingLines \in Nat /\ Len(snippets) <= Len(symbols)
    BY <1>4, <1>5
  <2> QED BY <1>3, <1>4, <1>5, <2>1, <2>2 DEF ContextTypeOK
<1>7. Shown = {} /\ IsFiniteSet(Shown) /\ Cardinality(Shown) = 0
  BY <1>4, FS_EmptySet DEF Shown
<1>8. RoomKept
  BY <1>5, <1>7 DEF RoomKept
<1>9. SnippetsOK /\ BuiltOK
  BY <1>4 DEF SnippetsOK, BuiltOK, ContextInit
<1> QED BY <1>2, <1>6, <1>8, <1>9 DEF ContextInv

\* The range without symbols starts at the first target line and ends with the last one
\* in the file, or where there is no more room.
LEMMA RangeStep == ContextInv /\ ShowRange => ContextInv'
<1> SUFFICES ASSUME ContextInv, ShowRange PROVE ContextInv'
  OBVIOUS
<1>1. /\ symbols = <<>> /\ symbols' = symbols /\ targets' = targets /\ maxLines' = maxLines /\ built' = TRUE
      /\ snippets = <<>> /\ remainingLines = maxLines /\ maxLines \in Nat \ {0} /\ targets \in SUBSET (1..(FileLines + 1))
  BY DEF ShowRange, ContextInv, ContextTypeOK, BuiltOK
<1>2. SymbolsOK'
  BY <1>1 DEF SymbolsOK
<1>3. CASE targets = {} \/ FileLines = 0 \/ MinLine(targets) > FileLines
  <2>1. remainingLines' = remainingLines /\ snippets' = snippets /\ cut' = cut
    BY <1>3 DEF ShowRange
  <2>2. ContextTypeOK'
    BY <1>1, <2>1 DEF ContextInv, ContextTypeOK
  <2>3. SnippetsOK' /\ RoomKept'
    BY <1>1, <2>1 DEF ContextInv, SnippetsOK, RoomKept, Shown, Apart
  <2>4. targets \cap 1..FileLines = {}
    <3>1. CASE targets # {} /\ MinLine(targets) > FileLines
      <4>1. targets \subseteq Nat /\ FileLines + 1 \in Nat /\ \A n \in targets : n <= FileLines + 1
        BY <1>1, FileLinesIsNatural
      <4>2. MinLine(targets) \in targets /\ \A n \in targets : MinLine(targets) <= n
        BY <3>1, <4>1, LeastAndMost
      <4>3. ASSUME NEW n \in targets PROVE n > FileLines
        <5>1. n \in Nat /\ MinLine(targets) \in Nat /\ MinLine(targets) <= n
          BY <4>1, <4>2
        <5> QED BY <3>1, <5>1, FileLinesIsNatural
      <4> QED BY <4>1, <4>3, FileLinesIsNatural
    <3> QED BY <1>3, <3>1
  <2>5. BuiltOK'
    BY <1>1, <2>4 DEF BuiltOK
  <2> QED BY <1>2, <2>2, <2>3, <2>5 DEF ContextInv
<1>4. CASE ~(targets = {} \/ FileLines = 0 \/ MinLine(targets) > FileLines)
  <2>1. targets \subseteq Nat /\ FileLines + 1 \in Nat /\ targets # {} /\ (\A n \in targets : n <= FileLines + 1) /\ FileLines \in Nat
    BY <1>1, <1>4, FileLinesIsNatural
  <2>2. PICK first \in Nat : first = MinLine(targets) /\ first \in targets /\ \A n \in targets : first <= n
    BY <2>1, LeastAndMost
  <2>3. PICK most \in Nat : most = MaxLine(targets) /\ most \in targets /\ \A n \in targets : n <= most
    BY <2>1, LeastAndMost
  <2>4. PICK last \in Nat : last = Smaller(MaxLine(targets), FileLines) /\ first <= last /\ last <= FileLines /\ last <= most
                            /\ (last = most \/ last = FileLines)
    <3>1. first <= FileLines /\ first <= most
      BY <1>4, <2>1, <2>2, <2>3
    <3> QED BY <2>1, <2>2, <2>3, <3>1 DEF Smaller
  <2>5. PICK range : range = Fallback(targets, maxLines)
    OBVIOUS
  <2>6. range = <<first, IF last - first + 1 > maxLines THEN first + maxLines - 1 ELSE last>>
    BY <2>2, <2>4, <2>5 DEF Fallback
  <2>7. PICK end \in Nat : range = <<first, end>> /\ end = (IF last - first + 1 > maxLines THEN first + maxLines - 1 ELSE last)
    <3>1. (IF last - first + 1 > maxLines THEN first + maxLines - 1 ELSE last) \in Nat
      BY <1>1
    <3> QED BY <2>6, <3>1
  <2>8. first <= end /\ end <= last /\ Size(range) <= maxLines /\ Size(range) = end - first + 1
    BY <1>1, <2>4, <2>7 DEF Size
  <2>9. snippets' = <<range>> /\ cut' = (last > end) /\ remainingLines' = maxLines - Size(range)
    <3>1. range[2] = end
      BY <2>7
    <3> QED BY <1>1, <1>4, <2>4, <2>5, <3>1 DEF ShowRange
  <2>10. ContextTypeOK'
    BY <1>1, <2>7, <2>8, <2>9 DEF ContextInv, ContextTypeOK
  <2>11. Shown' = first..end
    BY <2>7, <2>9 DEF Shown
  <2>12. SnippetsOK'
    <3>1. DOMAIN snippets' = {1} /\ snippets'[1] = range /\ range[1] = first /\ range[2] = end
      BY <2>7, <2>9
    <3>2. 1 <= first /\ end <= FileLines /\ first \in first..end
      BY <1>1, <2>1, <2>2, <2>4, <2>8
    <3> QED BY <1>1, <2>2, <3>1, <3>2 DEF SnippetsOK
  <2>13. RoomKept'
    <3>1. IsFiniteSet(first..end) /\ Cardinality(first..end) = end - first + 1
      BY <2>8, FS_Interval
    <3> QED BY <1>1, <2>8, <2>9, <2>11, <3>1 DEF RoomKept
  <2>14. BuiltOK'
    <3>1. ASSUME ~(last > end), NEW n \in targets, n \in 1..FileLines PROVE n \in first..end
      BY <2>1, <2>2, <2>3, <2>4, <2>8, <3>1
    <3> QED BY <1>1, <2>9, <2>11, <3>1 DEF BuiltOK
  <2> QED BY <1>2, <2>10, <2>12, <2>13, <2>14 DEF ContextInv
<1> QED BY <1>3, <1>4
\* A symbol is shown as a whole, or as much of it as there is room for around its first
\* target line; what has been shown of the others stays.
LEMMA SymbolStep == ContextInv /\ ShowSymbol => ContextInv'
<1> SUFFICES ASSUME ContextInv, ShowSymbol PROVE ContextInv'
  OBVIOUS
<1>1. /\ symbols # <<>> /\ symbols' = symbols /\ targets' = targets /\ maxLines' = maxLines
      /\ ~built /\ Len(snippets) < Len(symbols)
  BY DEF ShowSymbol
<1>2. SymbolsOK'
  BY <1>1 DEF ContextInv, SymbolsOK
<1>3. CASE remainingLines <= 2
  <2>1. cut' = TRUE /\ built' = TRUE /\ remainingLines' = remainingLines /\ snippets' = snippets
    BY <1>3 DEF ShowSymbol
  <2>2. ContextTypeOK'
    BY <1>1, <2>1 DEF ContextInv, ContextTypeOK
  <2>3. SnippetsOK'
    BY <1>1, <2>1 DEF ContextInv, SnippetsOK
  <2>4. RoomKept'
    BY <1>1, <2>1 DEF ContextInv, RoomKept, Shown, Apart
  <2>5. BuiltOK'
    BY <1>1, <2>1 DEF BuiltOK
  <2> QED BY <1>2, <2>2, <2>3, <2>4, <2>5 DEF ContextInv
<1>4. CASE ~(remainingLines <= 2)
  <2>1. PICK k \in Nat : k = Len(snippets) /\ k + 1 \in DOMAIN symbols /\ DOMAIN snippets = 1..k
    <3>1. Len(snippets) \in Nat /\ DOMAIN snippets = 1..Len(snippets) /\ DOMAIN symbols = 1..Len(symbols) /\ Len(symbols) \in Nat
      <4>1. snippets \in Seq(Nat \X Nat) /\ symbols \in Seq(UNION Definitions)
        BY DEF ContextInv, ContextTypeOK
      <4> QED BY <4>1
    <3>2. Len(snippets) + 1 \in 1..Len(symbols)
      BY <1>1, <3>1
    <3> QED BY <3>1, <3>2
  <2>2. PICK d : d = symbols[k + 1]
    OBVIOUS
  <2>3. PICK focus : focus = Focus(d)
    OBVIOUS
  <2>4. /\ d[1] \in Nat /\ d[2] \in Nat /\ 1 <= d[1] /\ d[1] <= d[2] /\ d[2] <= FileLines
        /\ focus \in Nat /\ Holds(d, focus)
    BY <2>1, <2>2, <2>3, FocusIsTarget DEF ContextInv
  <2>5. remainingLines \in Nat /\ remainingLines > 2 /\ snippets \in Seq(Nat \X Nat) /\ maxLines \in Nat
    BY <1>4 DEF ContextInv, ContextTypeOK
  <2>6. PICK lines : lines = IF Size(d) > remainingLines THEN Window(d, focus, remainingLines) ELSE <<d[1], d[2]>>
    OBVIOUS
  <2>7. /\ snippets' = Append(snippets, lines) /\ cut' = (cut \/ Size(d) > remainingLines)
        /\ remainingLines' = remainingLines - Size(lines) /\ built' = (k + 1 = Len(symbols))
    BY <1>4, <2>1, <2>2, <2>3, <2>6, Zenon DEF ShowSymbol
  <2>8. /\ lines \in Nat \X Nat /\ d[1] <= lines[1] /\ lines[2] <= d[2] /\ lines[1] <= focus /\ focus <= lines[2]
        /\ Size(lines) \in Nat /\ Size(lines) <= remainingLines /\ lines[1] <= lines[2]
        /\ (~(Size(d) > remainingLines) => lines = <<d[1], d[2]>>)
    <3>1. CASE Size(d) > remainingLines
      <4>1. lines = Window(d, focus, remainingLines)
        BY <2>6, <3>1
      <4>2. /\ lines[1] \in Nat /\ lines[2] \in Nat /\ d[1] <= lines[1] /\ lines[2] <= d[2]
            /\ lines[1] <= focus /\ focus <= lines[2] /\ Size(lines) = remainingLines
        BY <2>4, <2>5, <3>1, <4>1, WindowHolds
      <4>3. lines \in Nat \X Nat
        <5>1. PICK start : lines = IF start + remainingLines - 1 > d[2] THEN <<Larger(d[1], d[2] - remainingLines + 1), d[2]>>
                                   ELSE <<start, start + remainingLines - 1>>
          BY <4>1 DEF Window
        <5>2. lines = <<lines[1], lines[2]>>
          BY <5>1
        <5> QED BY <4>2, <5>2
      <4> QED BY <2>4, <2>5, <3>1, <4>2, <4>3
    <3>2. CASE ~(Size(d) > remainingLines)
      <4>1. lines = <<d[1], d[2]>> /\ lines[1] = d[1] /\ lines[2] = d[2]
        BY <2>6, <3>2
      <4> QED BY <2>4, <2>5, <3>2, <4>1 DEF Holds, Size
    <3> QED BY <3>1, <3>2
  <2>9. /\ snippets' \in Seq(Nat \X Nat) /\ Len(snippets') = k + 1 /\ DOMAIN snippets' = 1..(k + 1)
        /\ snippets'[k + 1] = lines /\ \A i \in 1..k : snippets'[i] = snippets[i]
    BY <2>1, <2>5, <2>7, <2>8
  <2>10. ContextTypeOK'
    <3>1. Len(symbols) \in Nat /\ remainingLines' \in Nat /\ cut' \in BOOLEAN /\ built' \in BOOLEAN /\ Len(snippets') <= Len(symbols)
      BY <1>1, <2>1, <2>5, <2>7, <2>8, <2>9 DEF ContextInv, ContextTypeOK
    <3> QED BY <1>1, <2>9, <3>1 DEF ContextInv, ContextTypeOK
  <2>11. SnippetsOK'
    <3>1. ASSUME NEW i \in 1..k
          PROVE  /\ 1 <= snippets[i][1] /\ snippets[i][2] <= FileLines
                 /\ Inside(snippets[i], symbols[i]) /\ FocusAt(symbols[i], targets) \in snippets[i][1]..snippets[i][2]
                 /\ ~cut => snippets[i] = <<symbols[i][1], symbols[i][2]>>
      BY <1>1, <2>1 DEF ContextInv, SnippetsOK
    <3>2. FocusAt(d, targets) = focus
      BY <2>3 DEF Focus, FocusAt
    <3>3. /\ 1 <= lines[1] /\ lines[2] <= FileLines /\ Inside(lines, d) /\ focus \in lines[1]..lines[2]
          /\ ~cut' => lines = <<d[1], d[2]>>
      <4>1. lines[1] \in Nat /\ lines[2] \in Nat
        BY <2>8
      <4>2. 1 <= lines[1] /\ lines[2] <= FileLines
        BY <2>4, <2>8, <4>1, FileLinesIsNatural
      <4>3. Inside(lines, d) /\ focus \in lines[1]..lines[2]
        BY <2>4, <2>8, <4>1 DEF Inside
      <4>4. ~cut' => lines = <<d[1], d[2]>>
        BY <2>7, <2>8
      <4> QED BY <4>2, <4>3, <4>4
    <3>4. \A i \in 1..(k + 1) : i \in 1..k \/ i = k + 1
      BY <2>1
    <3>5. ~cut' => ~cut
      BY <2>7
    <3>6. ASSUME NEW i \in 1..(k + 1)
          PROVE  /\ 1 <= snippets'[i][1] /\ snippets'[i][2] <= FileLines
                 /\ Inside(snippets'[i], symbols[i]) /\ FocusAt(symbols[i], targets) \in snippets'[i][1]..snippets'[i][2]
                 /\ ~cut' => snippets'[i] = <<symbols[i][1], symbols[i][2]>>
      <4>1. CASE i \in 1..k
        <5>1. snippets'[i] = snippets[i]
          BY <2>9, <4>1
        <5> QED BY <3>1, <3>5, <4>1, <5>1
      <4>2. CASE i = k + 1
        <5>1. snippets'[i] = lines /\ symbols[i] = d
          BY <2>2, <2>9, <4>2
        <5> QED BY <3>2, <3>3, <5>1
      <4> QED BY <3>4, <4>1, <4>2
    <3> QED BY <1>1, <2>9, <3>6, Zenon DEF SnippetsOK
  <2>12. RoomKept'
    <3>1. Shown' = Shown \cup (lines[1]..lines[2])
      <4>1. SeenIn(snippets') = SeenIn(snippets) \cup (lines[1]..lines[2])
        BY <2>5, <2>7, <2>8, ShownGrows
      <4> QED BY <4>1 DEF Shown, SeenIn
    <3>2. IsFiniteSet(lines[1]..lines[2]) /\ Cardinality(lines[1]..lines[2]) = Size(lines)
      BY <2>5, <2>8, ShownGrows
    <3>3. IsFiniteSet(Shown) /\ Cardinality(Shown) <= maxLines - remainingLines /\ (Apart => Cardinality(Shown) = maxLines - remainingLines)
      BY DEF ContextInv, RoomKept
    <3>4. PICK new : new = lines[1]..lines[2]
      OBVIOUS
    <3>5. /\ IsFiniteSet(Shown \cup new) /\ Cardinality(Shown) \in Nat /\ Cardinality(Shown \cup new) \in Nat
          /\ Cardinality(Shown \cup new) <= Cardinality(Shown) + Size(lines)
          /\ Shown \cap new = {} => Cardinality(Shown \cup new) = Cardinality(Shown) + Size(lines)
      BY <3>2, <3>3, <3>4, LinesAdd
    <3>6. ASSUME Apart PROVE Shown \cap new = {}
      <4>1. SUFFICES ASSUME NEW n \in Shown, n \in lines[1]..lines[2] PROVE FALSE
        BY <3>4
      <4>2. PICK i \in 1..k : n \in snippets[i][1]..snippets[i][2]
        BY <2>1 DEF Shown
      <4>3. i \in DOMAIN symbols /\ i < k + 1
        <5>1. DOMAIN symbols = 1..Len(symbols) /\ Len(symbols) \in Nat
          BY DEF ContextInv, ContextTypeOK
        <5> QED BY <2>1, <5>1
      <4>4. symbols[i][2] < d[1]
        BY <2>1, <2>2, <3>6, <4>3 DEF Apart
      <4>5. snippets[i][2] <= symbols[i][2] /\ symbols[i][2] \in Nat
        BY <1>1, <2>1, <4>3, FocusIsTarget DEF ContextInv, SnippetsOK, Inside
      <4>6. snippets[i] \in Nat \X Nat
        BY <2>1, <2>5
      <4>7. n \in Nat /\ n <= snippets[i][2] /\ lines[1] <= n /\ snippets[i][2] \in Nat /\ lines[1] \in Nat
        BY <2>8, <4>1, <4>2, <4>6
      <4> QED BY <2>4, <2>8, <4>4, <4>5, <4>7
    <3>7. Apart' => Apart
      BY <1>1 DEF Apart
    <3>8. Cardinality(Shown \cup new) <= maxLines - remainingLines'
      <4> HIDE DEF Shown
      <4> QED BY <2>5, <2>7, <2>8, <3>3, <3>5
    <3>9. Apart => Cardinality(Shown \cup new) = maxLines - remainingLines'
      BY <2>5, <2>7, <2>8, <3>3, <3>5, <3>6
    <3> QED BY <1>1, <3>1, <3>4, <3>5, <3>7, <3>8, <3>9 DEF RoomKept
  <2>13. BuiltOK'
    BY <1>1, <2>1, <2>7, <2>9 DEF BuiltOK
  <2> QED BY <1>2, <2>10, <2>11, <2>12, <2>13 DEF ContextInv
<1> QED BY <1>3, <1>4

\* The invariant of the content that is built, and with it the types of its variables.
THEOREM ContextInvariant == ContextSpec => [](ContextTypeOK /\ ContextInv)
<1>1. ContextInv /\ [ContextNext]_contextVars => ContextInv'
  <2> SUFFICES ASSUME ContextInv, [ContextNext]_contextVars PROVE ContextInv'
    OBVIOUS
  <2>1. CASE UNCHANGED contextVars
    <3>1. /\ targets' = targets /\ symbols' = symbols /\ maxLines' = maxLines /\ remainingLines' = remainingLines
          /\ snippets' = snippets /\ cut' = cut /\ built' = built
      BY <2>1 DEF contextVars
    <3>2. SymbolsOK' /\ ContextTypeOK'
      BY <3>1 DEF ContextInv, SymbolsOK, ContextTypeOK
    <3>3. SnippetsOK'
      BY <3>1 DEF ContextInv, SnippetsOK
    <3>4. RoomKept'
      BY <3>1 DEF ContextInv, RoomKept, Shown, Apart
    <3>5. BuiltOK'
      BY <3>1 DEF ContextInv, BuiltOK, Shown
    <3> QED BY <3>2, <3>3, <3>4, <3>5 DEF ContextInv
  <2> QED BY <2>1, RangeStep, SymbolStep DEF ContextNext
<1>2. ContextInv => ContextTypeOK
  BY DEF ContextInv
<1> QED BY ContextStart, <1>1, <1>2, PTL DEF ContextSpec

LEMMA ContentFollows == ContextInv => ContextShowsTargets
<1> SUFFICES ASSUME ContextInv PROVE ContextShowsTargets
  OBVIOUS
<1>1. Shown \subseteq 1..FileLines
  <2>1. ASSUME NEW i \in DOMAIN snippets, NEW n \in snippets[i][1]..snippets[i][2] PROVE n \in 1..FileLines
    <3>1. snippets[i] \in Nat \X Nat /\ 1 <= snippets[i][1] /\ snippets[i][2] <= FileLines
      BY DEF ContextInv, ContextTypeOK, SnippetsOK
    <3> QED BY <3>1, FileLinesIsNatural
  <2> QED BY <2>1 DEF Shown
<1>2. /\ remainingLines >= 0 /\ Cardinality(Shown) <= maxLines - remainingLines
      /\ Apart => Cardinality(Shown) = maxLines - remainingLines
  BY DEF ContextInv, ContextTypeOK, RoomKept
<1>3. ASSUME NEW i \in DOMAIN snippets
      PROVE  IF symbols = <<>> THEN MinLine(targets) \in snippets[i][1]..snippets[i][2]
             ELSE Inside(snippets[i], symbols[i]) /\ Focus(symbols[i]) \in snippets[i][1]..snippets[i][2]
  BY DEF ContextInv, SnippetsOK, Focus, FocusAt
<1>4. ASSUME built, ~cut
      PROVE  IF symbols = <<>> THEN targets \cap 1..FileLines \subseteq Shown
             ELSE \A i \in DOMAIN symbols : {n \in targets : Holds(symbols[i], n)} \subseteq Shown
  <2>1. CASE symbols = <<>>
    BY <1>4, <2>1 DEF ContextInv, BuiltOK
  <2>2. CASE symbols # <<>>
    <3>1. DOMAIN snippets = DOMAIN symbols
      BY <1>4, <2>2 DEF ContextInv, BuiltOK, ContextTypeOK
    <3>2. ASSUME NEW i \in DOMAIN symbols, NEW n \in targets, Holds(symbols[i], n) PROVE n \in Shown
      <4>1. snippets[i] = <<symbols[i][1], symbols[i][2]>>
        BY <1>4, <2>2, <3>1 DEF ContextInv, SnippetsOK
      <4>2. symbols[i][1] \in Nat /\ symbols[i][2] \in Nat
        BY FocusIsTarget DEF ContextInv
      <4>3. n \in Nat
        <5>1. targets \in SUBSET (1..(FileLines + 1))
          BY DEF ContextInv, ContextTypeOK
        <5> QED BY <5>1, FileLinesIsNatural
      <4>4. n \in snippets[i][1]..snippets[i][2]
        BY <3>2, <4>1, <4>2, <4>3 DEF Holds
      <4> QED BY <3>1, <4>4 DEF Shown
    <3> QED BY <2>2, <3>2
  <2> QED BY <2>1, <2>2
<1> QED BY <1>1, <1>2, <1>3, <1>4, Zenon DEF ContextShowsTargets

\* What read_file_context shows lies in the file and keeps to the limit, has the first
\* target line of every symbol it shows, and all of them unless it says that it is cut:
\* for every file, set of definitions, targets and limit.
THEOREM ContentShowsTargets == ContextSpec => []ContextShowsTargets
BY ContextInvariant, ContentFollows, PTL
=============================================================================
