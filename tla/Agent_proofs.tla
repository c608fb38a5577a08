---------------------------- MODULE Agent_proofs ----------------------------
(***************************************************************************)
(* The properties of AgentLoop, for all tools, sizes and budgets;          *)
(* FilesAccounted of Toolkit, for all contents, limits, pushes, archives;  *)
(* UntruncatedIsComplete of ArchiveScan, for all archives and limits.      *)
(***************************************************************************)
EXTENDS AgentLoop, Toolkit, ArchiveScan, FiniteOrders

\* What the calls of the model amount to in each phase.
CallsCounted ==
  /\ phase \in {"tools", "ask", "final"} => providerCalls <= round
  /\ phase = "repair" => providerCalls <= round + 1
  /\ phase = "ask" => round < MaxSteps
  /\ providerCalls <= MaxSteps + 2

\* What can be cited, the cache included, has been shown.
CacheIsShown == cache \subseteq shown /\ cited \subseteq shown /\ shown = corpus

DoneIsValid == phase = "done" => Valid(answer)

AgentInv == /\ AgentTypeOK /\ remaining + shownBytes = MaxToolOutput
            /\ CallsCounted /\ CacheIsShown /\ DoneIsValid

\* The invariant holds at the start: nothing has been shown or called.
LEMMA AgentStart == AgentInit => AgentInv
<1> SUFFICES ASSUME AgentInit PROVE AgentInv
  OBVIOUS
<1> USE AgentAssumption DEF AgentInit
<1>1. NoAnswer \in Answers
  BY DEF NoAnswer, Answers
<1>2. pending \in Seq(Calls)
  <2>1. <<>> \in Seq(Calls) /\ InitialCalls \in Seq(Calls)
    OBVIOUS
  <2> QED BY <2>1
<1>3. phase \in {"tools", "final", "ask"}
  OBVIOUS
<1>4. AgentTypeOK
  BY <1>1, <1>2, <1>3 DEF AgentTypeOK, Phases
<1> QED BY <1>3, <1>4 DEF AgentInv, CallsCounted, CacheIsShown, DoneIsValid

\* Whatever a tool call does to the budget, the bytes still add up and only what is
\* shown is cached or cited.
LEMMA ReplyKeeps ==
  ASSUME AgentInv, NEW c \in Calls, Reply(c)
  PROVE  /\ remaining' \in Nat /\ rejected' \in Nat /\ shownBytes' \in Nat
         /\ cache' \subseteq Calls /\ shown' \subseteq Calls /\ cited' \subseteq Calls /\ corpus' \subseteq Calls
         /\ remaining' + shownBytes' = MaxToolOutput
         /\ cache' \subseteq shown' /\ cited' \subseteq shown' /\ shown' = corpus'
<1> USE AgentAssumption DEF AgentInv, AgentTypeOK, CacheIsShown
<1>1. CASE c \in cache /\ cited' = cited \cup {c} /\ UNCHANGED <<remaining, rejected, cache, shown, shownBytes, corpus>>
  BY <1>1
<1>2. CASE UNCHANGED budget
  BY <1>2 DEF budget
<1>3. CASE Execute(c)
  <2>1. PICK n \in Sizes :
          \/ n > remaining /\ rejected' = rejected + 1 /\ UNCHANGED <<remaining, cache, shown, shownBytes, corpus>>
          \/ /\ n <= remaining /\ rejected' = 0 /\ remaining' = remaining - n
             /\ cache' = IF c \in Cacheable THEN cache \cup {c} ELSE cache
             /\ shown' = shown \cup {c} /\ shownBytes' = shownBytes + n /\ corpus' = corpus \cup {c}
    BY <1>3 DEF Execute
  <2>2. n \in Nat /\ UNCHANGED cited
    BY <1>3 DEF Execute
  <2>3. CASE n > remaining
    BY <2>1, <2>2, <2>3
  <2>4. CASE n <= remaining
    <3>1. /\ remaining' = remaining - n /\ shownBytes' = shownBytes + n /\ rejected' = 0
          /\ cache' \subseteq cache \cup {c} /\ shown' = shown \cup {c} /\ corpus' = corpus \cup {c}
      BY <2>1, <2>2, <2>4
    <3>2. remaining' \in Nat /\ shownBytes' \in Nat /\ remaining' + shownBytes' = MaxToolOutput
      BY <3>1, <2>2, <2>4
    <3> QED BY <3>1, <3>2, <2>2
  <2> QED BY <2>2, <2>3, <2>4
<1> QED BY <1>1, <1>2, <1>3 DEF Reply

\* Every action keeps the invariant.
LEMMA AgentStep == AgentInv /\ [AgentNext]_agentVars => AgentInv'
<1> SUFFICES ASSUME AgentInv, [AgentNext]_agentVars PROVE AgentInv'
  OBVIOUS
<1> USE AgentAssumption DEF AgentInv
<1>1. CASE CallTool
  <2>1. /\ phase = "tools" /\ pending # <<>> /\ pending \in Seq(Calls)
        /\ Reply(Head(pending)) /\ pending' = Tail(pending)
        /\ UNCHANGED <<round, providerCalls, answer>>
        /\ phase' = IF Len(pending) = 1 THEN AfterTools ELSE "tools"
    BY <1>1 DEF CallTool, AgentTypeOK
  <2>2. Head(pending) \in Calls /\ pending' \in Seq(Calls)
    BY <2>1
  <2>3. phase' \in {"tools", "ask", "final"} /\ (phase' = "ask" => round < MaxSteps)
    BY <2>1 DEF AfterTools
  <2>4. AgentTypeOK' /\ CacheIsShown' /\ remaining' + shownBytes' = MaxToolOutput
    BY <2>1, <2>2, <2>3, ReplyKeeps DEF AgentTypeOK, CacheIsShown, Phases
  <2>5. CallsCounted' /\ DoneIsValid'
    BY <2>1, <2>3 DEF CallsCounted, DoneIsValid
  <2> QED BY <2>4, <2>5
<1>2. CASE RecordFails \/ ChatFails
  BY <1>2 DEF RecordFails, ChatFails, budget, AgentTypeOK, Phases, CallsCounted, CacheIsShown, DoneIsValid
<1>3. CASE AskTools
  <2>1. PICK n \in 1..MaxRound : pending' \in [1..n -> Calls]
    BY <1>3 DEF AskTools
  <2>2. pending' \in Seq(Calls)
    BY <2>1
  <2> QED BY <1>3, <2>2 DEF AskTools, budget, AgentTypeOK, Phases, CallsCounted, CacheIsShown, DoneIsValid
<1>4. CASE Answer
  <2>1. PICK a \in Answers : answer' = a /\ phase' = Check(a)
    BY <1>4 DEF Answer
  <2>2. /\ phase' \in {"done", "failed", "repair"}
        /\ phase' = "done" => Valid(a)
        /\ phase' = "repair" => phase # "repair"
    BY <2>1 DEF Check
  <2>3. Valid(a) => Valid(a)'
    BY <1>4 DEF Answer, budget, Valid, Genuine
  <2>4. UNCHANGED <<round, pending, budget>> /\ providerCalls' = providerCalls + 1 /\ phase \in {"ask", "final", "repair"}
    BY <1>4 DEF Answer
  <2>5. AgentTypeOK' /\ CacheIsShown' /\ remaining' + shownBytes' = MaxToolOutput
    BY <2>1, <2>2, <2>4 DEF AgentTypeOK, CacheIsShown, Phases, budget
  <2>6. CallsCounted'
    BY <2>2, <2>4 DEF CallsCounted, AgentTypeOK
  <2>7. DoneIsValid'
    BY <2>1, <2>2, <2>3 DEF DoneIsValid, Valid
  <2> QED BY <2>5, <2>6, <2>7
<1>5. CASE BadAnswer
  BY <1>5 DEF BadAnswer, budget, AgentTypeOK, Phases, CallsCounted, CacheIsShown, DoneIsValid
<1>6. CASE UNCHANGED agentVars
  BY <1>6 DEF agentVars, AgentTypeOK, CallsCounted, CacheIsShown, DoneIsValid, Valid, Genuine
<1> QED BY <1>1, <1>2, <1>3, <1>4, <1>5, <1>6 DEF AgentNext

\* The values of the variables stay in their sets.
THEOREM AgentTypes == AgentSpec => []AgentTypeOK
<1>1. AgentInv => AgentTypeOK
  BY DEF AgentInv
<1> QED BY <1>1, AgentStart, AgentStep, PTL DEF AgentSpec

\* The output budget is accounted for, and the model is called MaxSteps + 2 times at most.
THEOREM AgentBudget == AgentSpec => []BudgetKept
<1>1. AgentInv => BudgetKept
  BY DEF AgentInv, CallsCounted, BudgetKept
<1> QED BY <1>1, AgentStart, AgentStep, PTL DEF AgentSpec

\* A duplicate-read reply refers to an output that is in the messages and in the corpus.
THEOREM AgentCitesShown == AgentSpec => []CitedIsShown
<1>1. AgentInv => CitedIsShown
  BY DEF AgentInv, CacheIsShown, CitedIsShown
<1> QED BY <1>1, AgentStart, AgentStep, PTL DEF AgentSpec

\* What a successful run posts is exactly what its answer quotes from shown outputs.
THEOREM AgentChecksAnswer == AgentSpec => []AnswerIsChecked
<1>1. AgentInv => AnswerIsChecked
  <2> SUFFICES ASSUME AgentInv, phase = "done"
               PROVE  answer.json /\ Normalized(answer) = {f \in answer.findings : f[1] \in shown /\ f[2] # "invented"}
    BY DEF AnswerIsChecked
  <2>1. answer.json /\ shown = corpus /\ \A f \in answer.findings : ~Genuine(f)
    BY DEF AgentInv, DoneIsValid, Valid, CacheIsShown
  <2>2. \A f \in answer.findings : f[2] \in {"placed", "misplaced", "invented"}
    BY DEF AgentInv, AgentTypeOK, Answers, Findings
  <2>3. \A f \in answer.findings : Supported(f) <=> f[1] \in shown /\ f[2] # "invented"
    BY <2>1, <2>2 DEF Genuine, Supported
  <2> QED BY <2>1, <2>3 DEF Normalized
<1> QED BY <1>1, AgentStart, AgentStep, PTL DEF AgentSpec
-----------------------------------------------------------------------------
ArchiveItems == {"archive", "download", "copy", "open"}
Items == ArchiveItems \cup {"pr", "files", "content", "workdir", "return"}

\* A call asks for the pull request first and for the archive once; the steps of a
\* download are only at its head.
WellFormed(call) ==
  /\ call \in Seq(Items)
  /\ \A i \in 2..Len(call) : call[i] \notin {"pr", "download", "copy", "open"}
  /\ \A i, j \in 1..Len(call) : call[i] \in ArchiveItems /\ call[j] \in ArchiveItems => i = j

\* What a call has left to do when it reads an archive.
Reading(call) == \A i \in 1..Len(call) : call[i] \notin ArchiveItems \cup {"pr"}

\* Archives are numbered as they are created; what could not be removed is on disk.
Numbered == leftover \subseteq tempFiles /\ tempFiles \subseteq Archives /\ \A a \in tempFiles : a.file \in 1..created

ToolkitInv ==
  /\ ToolkitTypeOK /\ FilesAccounted /\ Numbered
  /\ WellFormed(todo) /\ (opened # NoArchive => Reading(todo))
  /\ Doing("download") \/ Doing("copy") => tarball = NoArchive
  /\ Doing("copy") => created > 0
  /\ Doing("open") => tarball # NoArchive /\ tarball.ref = pr
  /\ released => todo = <<>> /\ tarball = NoArchive

\* Every tool's call is well formed.
LEMMA CallsWellFormed ==
  \A t \in ToolCalls : WellFormed(t) /\ t # <<>> /\ Head(t) \in {"pr", "files"}
<1>1. WellFormed(<<"pr">>) /\ WellFormed(<<"files">>)
  BY DEF WellFormed, Items, ArchiveItems
<1>2. WellFormed(<<"pr", "content">>) /\ WellFormed(<<"pr", "archive">>)
  BY DEF WellFormed, Items, ArchiveItems
<1>3. WellFormed(<<"pr", "content", "files">>)
  BY DEF WellFormed, Items, ArchiveItems
<1>4. WellFormed(<<"pr", "archive", "files">>)
  BY DEF WellFormed, Items, ArchiveItems
<1>5. WellFormed(<<"pr", "workdir", "archive">>)
  BY DEF WellFormed, Items, ArchiveItems
<1> QED BY <1>1, <1>2, <1>3, <1>4, <1>5 DEF ToolCalls, MetaCall, ChangedFilesCall, DiffCall, FileContextCalls, SearchCall, RetrievalCall, StaticChecksCall

\* The next thing a call asks for is not a step of a download.
LEMMA OnwardFacts ==
  ASSUME WellFormed(todo), todo # <<>>, Onward
  PROVE  /\ WellFormed(todo') /\ todo' # <<>>
         /\ Head(todo') \notin {"pr", "download", "copy", "open"}
         /\ Reading(todo) => Reading(todo')
         /\ Head(todo) \in ArchiveItems => Reading(todo')
<1>1. CASE Len(todo) = 1
  <2>1. todo' = <<"return">>
    BY <1>1 DEF Onward
  <2> QED BY <2>1 DEF WellFormed, Reading, Items, ArchiveItems
<1>2. CASE Len(todo) # 1
  <2>1. todo' = Tail(todo) /\ Len(todo) \in Nat /\ Len(todo) >= 2 /\ todo \in Seq(Items)
    <3>1. todo \in Seq(Items) /\ todo # <<>>
      BY DEF WellFormed
    <3>2. Len(todo) \in Nat /\ Len(todo) # 0
      BY <3>1
    <3>3. todo' = Tail(todo)
      BY <1>2 DEF Onward
    <3>4. Len(todo) >= 2
      BY <1>2, <3>2
    <3> QED BY <3>1, <3>2, <3>3, <3>4
  <2>2. todo' \in Seq(Items) /\ Len(todo') = Len(todo) - 1 /\ \A i \in 1..Len(todo') : todo'[i] = todo[i + 1]
    BY <2>1
  <2>3. \A i \in 1..Len(todo') : i + 1 \in 2..Len(todo) /\ i + 1 \in 1..Len(todo)
    BY <2>1, <2>2
  <2>4. \A i \in 2..Len(todo') : i \in 1..Len(todo')
    BY <2>2
  <2>5. \A i \in 1..Len(todo') : todo'[i] \notin {"pr", "download", "copy", "open"}
    BY <2>2, <2>3 DEF WellFormed
  <2>6. \A i, j \in 1..Len(todo') : todo'[i] \in ArchiveItems /\ todo'[j] \in ArchiveItems => i = j
    <3> SUFFICES ASSUME NEW i \in 1..Len(todo'), NEW j \in 1..Len(todo'),
                        todo'[i] \in ArchiveItems, todo'[j] \in ArchiveItems
                 PROVE  i = j
      OBVIOUS
    <3>1. i + 1 = j + 1
      BY <2>2, <2>3 DEF WellFormed
    <3> QED BY <3>1
  <2>7. WellFormed(todo')
    BY <2>2, <2>4, <2>5, <2>6 DEF WellFormed
  <2>8. todo' # <<>> /\ Head(todo') = todo'[1] /\ 1 \in 1..Len(todo') /\ Head(todo) = todo[1] /\ 1 \in 1..Len(todo)
    <3>1. Len(todo') \in Nat /\ Len(todo') >= 1
      BY <2>1, <2>2
    <3>2. 1 \in 1..Len(todo') /\ 1 \in 1..Len(todo)
      BY <2>1, <3>1
    <3>3. todo' # <<>>
      <4>1. Len(<<>>) = 0
        OBVIOUS
      <4> QED BY <3>1, <4>1
    <3>4. Head(todo) = todo[1] /\ Head(todo') = todo'[1]
      BY <2>1, <2>2, <3>3
    <3> QED BY <3>2, <3>3, <3>4
  <2>9. Reading(todo) => Reading(todo')
    BY <2>2, <2>3 DEF Reading
  <2>10. Head(todo) \in ArchiveItems => Reading(todo')
    <3> SUFFICES ASSUME Head(todo) \in ArchiveItems, NEW i \in 1..Len(todo')
                 PROVE  todo'[i] \notin ArchiveItems \cup {"pr"}
      BY DEF Reading
    <3>1. i + 1 # 1 /\ i + 1 \in 1..Len(todo) /\ todo'[i] = todo[i + 1]
      BY <2>2, <2>3
    <3>2. todo'[i] \notin ArchiveItems
      BY <2>8, <3>1 DEF WellFormed
    <3> QED BY <2>5, <3>2
  <2> QED BY <2>5, <2>7, <2>8, <2>9, <2>10
<1> QED BY <1>1, <1>2

\* The download of an archive proceeds at the head of the call.
LEMMA HeadFacts ==
  ASSUME WellFormed(todo), todo # <<>>, Head(todo) \in ArchiveItems, NEW x \in ArchiveItems,
         todo' = <<x>> \o Tail(todo)
  PROVE  WellFormed(todo') /\ todo' # <<>> /\ Head(todo') = x
<1>1. todo \in Seq(Items) /\ Len(todo) \in Nat /\ Len(todo) >= 1 /\ Head(todo) = todo[1]
  BY DEF WellFormed
<1>2. x \in Items /\ Tail(todo) \in Seq(Items)
  BY <1>1 DEF Items
<1>3. todo' \in Seq(Items) /\ Len(todo') = Len(todo) /\ todo'[1] = x /\ \A i \in 2..Len(todo) : todo'[i] = todo[i]
  BY <1>1, <1>2
<1>4. \A i \in 2..Len(todo) : i \in 1..Len(todo) /\ i # 1 /\ todo[i] \notin ArchiveItems
  BY <1>1 DEF WellFormed
<1>5. \A i \in 1..Len(todo) : i = 1 \/ i \in 2..Len(todo)
  BY <1>1
<1>6. \A i, j \in 1..Len(todo') : todo'[i] \in ArchiveItems /\ todo'[j] \in ArchiveItems => i = j
  BY <1>3, <1>4, <1>5
<1>7. \A i \in 2..Len(todo') : todo'[i] \notin {"pr", "download", "copy", "open"}
  BY <1>3 DEF WellFormed
<1>8. todo' # <<>> /\ Head(todo') = x
  BY <1>1, <1>3
<1> QED BY <1>3, <1>6, <1>7, <1>8 DEF WellFormed

\* Nothing is on disk at the start.
LEMMA ToolkitStart == ToolkitInit => ToolkitInv
<1> SUFFICES ASSUME ToolkitInit PROVE ToolkitInv
  OBVIOUS
<1> USE ToolkitAssumption DEF ToolkitInit
<1>1. NoArchive \in Archives
  BY DEF NoArchive, Archives
<1>2. 1 \in 1..MaxPushes /\ 0 \in 0..MaxPushes /\ 0 \in 0..MaxTotalBytes /\ 0 \in 0..MaxArchives
  OBVIOUS
<1>3. ToolkitTypeOK
  BY <1>1, <1>2 DEF ToolkitTypeOK
<1>4. WellFormed(todo)
  BY DEF WellFormed
<1> QED BY <1>3, <1>4 DEF ToolkitInv, FilesAccounted, Numbered, Doing

\* An archive to be removed is gone or counts as left over.
LEMMA RemoveFacts ==
  ASSUME ToolkitInv, NEW a, a \in tempFiles \ leftover \/ a = NoArchive, Remove(a), created' = created
  PROVE  tempFiles' \ leftover' = (tempFiles \ leftover) \ {a} /\ Numbered'
<1>1. Numbered
  BY DEF ToolkitInv
<1>2. NoArchive \notin tempFiles
  BY <1>1, 0 \notin 1..created DEF Numbered, NoArchive
<1>3. a \notin leftover
  BY <1>1, <1>2 DEF Numbered
<1>4. CASE tempFiles' = tempFiles \ {a} /\ leftover' = leftover
  BY <1>1, <1>3, <1>4 DEF Numbered
<1>5. CASE a \in tempFiles /\ leftover' = leftover \cup {a} /\ tempFiles' = tempFiles
  BY <1>1, <1>5 DEF Numbered
<1> QED BY <1>4, <1>5 DEF Remove

\* A call asks for its next thing and leaves the archives alone.
LEMMA AdvanceKeeps ==
  ASSUME ToolkitInv, ToolkitTypeOK', todo # <<>>, Onward, UNCHANGED archives, opened' = opened, released' = released,
         pr' = pr \/ Doing("pr"), ~Doing("copy")
  PROVE  ToolkitInv'
<1>1. /\ WellFormed(todo') /\ todo' # <<>> /\ (Reading(todo) => Reading(todo'))
      /\ Head(todo') \notin {"pr", "download", "copy", "open"}
  BY OnwardFacts DEF ToolkitInv
<1>2. ~Doing("download")' /\ ~Doing("copy")' /\ ~Doing("open")'
  BY <1>1 DEF Doing
<1>3. opened # NoArchive => pr' = pr
  <2> SUFFICES ASSUME opened # NoArchive, Doing("pr") PROVE FALSE
    OBVIOUS
  <2>1. todo \in Seq(Items) /\ Head(todo) = todo[1] /\ 1 \in 1..Len(todo)
    BY DEF ToolkitInv, WellFormed
  <2> QED BY <2>1 DEF ToolkitInv, Reading, Doing
<1>4. FilesAccounted'
  BY <1>1, <1>2, <1>3 DEF ToolkitInv, FilesAccounted, archives
<1> QED BY <1>1, <1>2, <1>4 DEF ToolkitInv, Numbered, archives

\* A call ends, and gives up its work directory.
LEMMA EndKeeps ==
  ASSUME ToolkitInv, todo # <<>>, Ended, UNCHANGED <<head, caches, released>>, created' = created,
         \/ UNCHANGED archives /\ ~Doing("copy")
         \/ tarball' = tarball /\ Remove(Partial) /\ Doing("copy")
         \/ RemoveTarball /\ ~Doing("copy")
  PROVE  ToolkitInv'
<1>1. todo' = <<>> /\ opened' = NoArchive /\ workdir' = FALSE /\ strayDir' \in {strayDir, strayDir \/ workdir}
  BY DEF Ended
<1>2. NoArchive \in Archives
  BY ToolkitAssumption DEF NoArchive, Archives
<1>3. /\ tempFiles \ leftover = ({tarball} \ {NoArchive}) \cup (IF Doing("copy") THEN {Partial} ELSE {})
      /\ Numbered /\ ToolkitTypeOK /\ (Doing("copy") => tarball = NoArchive)
  BY DEF ToolkitInv, FilesAccounted
<1>4. tempFiles' \ leftover' = {tarball'} \ {NoArchive} /\ Numbered' /\ tarball' \in Archives
  <2>1. CASE UNCHANGED archives /\ ~Doing("copy")
    BY <1>3, <2>1 DEF archives, Numbered, ToolkitTypeOK
  <2>2. CASE tarball' = tarball /\ Remove(Partial) /\ Doing("copy")
    <3>1. tempFiles \ leftover = {Partial} /\ tarball' = NoArchive
      BY <1>3, <2>2
    <3>2. PICK a : a = Partial
      OBVIOUS
    <3>3. tempFiles' \ leftover' = {} /\ Numbered'
      BY <2>2, <3>1, <3>2, RemoveFacts
    <3> QED BY <1>2, <3>1, <3>3
  <2>3. CASE RemoveTarball /\ ~Doing("copy")
    <3>1. tempFiles \ leftover = {tarball} \ {NoArchive} /\ tarball' = NoArchive /\ Remove(tarball)
      BY <1>3, <2>3 DEF RemoveTarball
    <3>2. PICK a : a = tarball
      OBVIOUS
    <3>3. tempFiles' \ leftover' = {} /\ Numbered'
      BY <3>1, <3>2, RemoveFacts
    <3> QED BY <1>2, <3>1, <3>3
  <2> QED BY <2>1, <2>2, <2>3
<1>5. strayDir' \in BOOLEAN
  BY <1>1, <1>3 DEF ToolkitTypeOK
<1>6. ToolkitTypeOK'
  <2>1. tempFiles' \subseteq Archives /\ leftover' \subseteq Archives
    BY <1>4 DEF Numbered
  <2> QED BY <1>1, <1>2, <1>3, <1>4, <1>5, <2>1 DEF ToolkitTypeOK, caches
<1>7. ~Doing("copy")' /\ ~Doing("download")' /\ ~Doing("open")'
  BY <1>1 DEF Doing
<1>8. WellFormed(todo')
  BY <1>1 DEF WellFormed
<1>9. ~released'
  BY DEF ToolkitInv
<1>10. FilesAccounted'
  BY <1>1, <1>4, <1>7, <1>9 DEF FilesAccounted, Numbered
<1> QED BY <1>1, <1>4, <1>6, <1>7, <1>8, <1>9, <1>10 DEF ToolkitInv

\* The steps of a download.
LEMMA DownloadKeeps ==
  ASSUME ToolkitInv, NEW x \in ArchiveItems, todo # <<>>, Head(todo) \in ArchiveItems,
         todo' = <<x>> \o Tail(todo), x # "archive",
         UNCHANGED <<head, caches, dirs, opened, released>>,
         tarball' \in Archives, created' \in 0..MaxArchives, Numbered',
         x = "download" => tarball' = NoArchive /\ tempFiles' \ leftover' = {},
         x = "copy" => tarball' = NoArchive /\ created' > 0 /\ tempFiles' \ leftover' = {Partial'},
         x = "open" => tarball' # NoArchive /\ tarball'.ref = pr' /\ tempFiles' \ leftover' = {tarball'}
  PROVE  ToolkitInv'
<1>1. WellFormed(todo') /\ todo' # <<>> /\ Head(todo') = x
  BY HeadFacts DEF ToolkitInv
<1>2. \A y : Doing(y)' <=> y = x
  BY <1>1 DEF Doing
<1>3. ToolkitTypeOK'
  BY DEF ToolkitInv, ToolkitTypeOK, Numbered, caches, dirs
<1>4. opened = NoArchive
  <2>1. todo \in Seq(Items) /\ Head(todo) = todo[1] /\ 1 \in 1..Len(todo)
    BY DEF ToolkitInv, WellFormed
  <2> QED BY <2>1 DEF ToolkitInv, Reading
<1>5. ~released
  BY DEF ToolkitInv
<1>6. tempFiles' \ leftover' = ({tarball'} \ {NoArchive}) \cup (IF x = "copy" THEN {Partial'} ELSE {})
  BY DEF ArchiveItems
<1>7. FilesAccounted'
  BY <1>1, <1>2, <1>4, <1>5, <1>6 DEF FilesAccounted, Numbered
<1> QED BY <1>1, <1>2, <1>3, <1>4, <1>5, <1>7 DEF ToolkitInv

\* Every step keeps the invariant.
LEMMA ToolkitStep == ToolkitInv /\ [ToolkitNext]_toolkitVars => ToolkitInv'
<1> SUFFICES ASSUME ToolkitInv, [ToolkitNext]_toolkitVars PROVE ToolkitInv'
  OBVIOUS
<1> USE ToolkitAssumption
<1>0. /\ Numbered /\ tempFiles \ leftover = ({tarball} \ {NoArchive}) \cup (IF Doing("copy") THEN {Partial} ELSE {})
      /\ ToolkitTypeOK /\ NoArchive \in Archives
  BY DEF ToolkitInv, FilesAccounted, NoArchive, Archives
<1>1. CASE Push
  BY <1>1 DEF Push, ToolkitInv, ToolkitTypeOK, caches, archives, dirs, FilesAccounted, Numbered, Doing, Partial
<1>2. CASE Begin
  <2>1. WellFormed(todo') /\ todo' # <<>> /\ Head(todo') \in {"pr", "files"}
    BY <1>2, CallsWellFormed DEF Begin
  <2>2. ~Doing("copy") /\ ~Doing("copy")' /\ ~Doing("download")' /\ ~Doing("open")'
    BY <1>2, <2>1 DEF Begin, Doing
  <2>3. opened = NoArchive
    BY <1>2 DEF Begin, ToolkitInv, FilesAccounted
  <2> QED BY <1>2, <2>1, <2>2, <2>3 DEF Begin, ToolkitInv, ToolkitTypeOK, caches, archives, dirs, FilesAccounted, Numbered
<1>3. CASE Finish
  <2>1. ~Doing("copy") /\ todo # <<>>
    BY <1>3 DEF Finish, Doing
  <2> QED BY <1>3, <2>1, EndKeeps DEF Finish, archives
<1>4. CASE AskFails
  <2>1. ~Doing("copy") /\ todo # <<>>
    BY <1>4 DEF AskFails, Doing
  <2> QED BY <1>4, <2>1, EndKeeps DEF AskFails, archives
<1>5. CASE PullRequest
  <2>1. ToolkitTypeOK'
    BY <1>0, <1>5 DEF PullRequest, Advance, ToolkitTypeOK, archives, dirs
  <2> QED BY <1>5, <2>1, AdvanceKeeps DEF PullRequest, Advance, Doing
<1>6. CASE Files
  <2>1. ToolkitTypeOK'
    BY <1>0, <1>6 DEF Files, Advance, ToolkitTypeOK, archives, dirs
  <2> QED BY <1>6, <2>1, AdvanceKeeps DEF Files, Advance, Doing
<1>7. CASE MakeWorkdir
  <2>1. ToolkitTypeOK'
    BY <1>0, <1>7 DEF MakeWorkdir, ToolkitTypeOK, archives, caches
  <2> QED BY <1>7, <2>1, AdvanceKeeps DEF MakeWorkdir, Doing, caches
<1>8. ASSUME NEW path \in DOMAIN FileBytes, Content(path) PROVE ToolkitInv'
  <2>1. CASE Stores(path)
    <3>1. heldBytes' = heldBytes + FileBytes[path] /\ held' = held \cup {path} /\ heldBytes + FileBytes[path] <= MaxTotalBytes
      BY <1>8, <2>1 DEF Content, Stores
    <3>2. heldBytes' \in 0..MaxTotalBytes
      BY <1>0, <3>1 DEF ToolkitTypeOK
    <3>3. ToolkitTypeOK'
      BY <1>0, <1>8, <3>1, <3>2 DEF Content, Advance, ToolkitTypeOK, archives, dirs
    <3> QED BY <1>8, <3>3, AdvanceKeeps DEF Content, Advance, Doing
  <2>2. CASE ~Stores(path)
    <3>1. ToolkitTypeOK'
      BY <1>0, <1>8, <2>2 DEF Content, Advance, ToolkitTypeOK, archives, dirs
    <3> QED BY <1>8, <3>1, AdvanceKeeps DEF Content, Advance, Doing
  <2> QED BY <2>1, <2>2
<1>9. CASE Reuse
  <2>1. /\ Head(todo) = "archive" /\ todo # <<>> /\ tarball # NoArchive /\ tarball.ref = pr /\ opened' = tarball /\ Onward
        /\ UNCHANGED <<head, caches, archives, dirs, released>>
    BY <1>9 DEF Reuse, Doing
  <2>2. WellFormed(todo') /\ todo' # <<>> /\ Reading(todo') /\ Head(todo') \notin {"pr", "download", "copy", "open"}
    BY <2>1, OnwardFacts DEF ToolkitInv, ArchiveItems
  <2>3. ~Doing("copy") /\ ~Doing("copy")' /\ ~Doing("download")' /\ ~Doing("open")'
    BY <2>1, <2>2 DEF Doing
  <2>4. ToolkitTypeOK'
    BY <1>0, <2>1 DEF ToolkitTypeOK, caches, archives, dirs
  <2>5. tarball \in tempFiles
    BY <1>0, <2>1
  <2>6. FilesAccounted'
    BY <2>1, <2>2, <2>3, <2>5 DEF ToolkitInv, FilesAccounted, caches, archives, dirs
  <2> QED BY <2>1, <2>2, <2>3, <2>4, <2>6 DEF ToolkitInv, Numbered, archives
<1>10. CASE Replace
  <2>1. /\ Head(todo) = "archive" /\ todo # <<>> /\ todo' = <<"download">> \o Tail(todo)
        /\ tarball' = NoArchive /\ Remove(tarball) /\ created' = created
        /\ UNCHANGED <<head, caches, dirs, opened, released>>
    BY <1>10 DEF Replace, Doing, RemoveTarball
  <2>2. ~Doing("copy")
    BY <2>1 DEF Doing
  <2>3. PICK a : a = tarball
    OBVIOUS
  <2>4. a \in tempFiles \ leftover \/ a = NoArchive
    BY <1>0, <2>3
  <2>5. tempFiles' \ leftover' = (tempFiles \ leftover) \ {a} /\ Numbered'
    BY <2>1, <2>3, <2>4, RemoveFacts
  <2>6. tempFiles' \ leftover' = {} /\ created' \in 0..MaxArchives
    BY <1>0, <2>1, <2>2, <2>3, <2>5 DEF ToolkitTypeOK
  <2> QED BY <1>0, <2>1, <2>5, <2>6, DownloadKeeps DEF ArchiveItems
<1>11. CASE Download
  <2>1. /\ Head(todo) = "download" /\ todo # <<>> /\ todo' = <<"copy">> \o Tail(todo)
        /\ tarball' = tarball /\ created < MaxArchives /\ created' = created + 1
        /\ tempFiles' = tempFiles \cup {[file |-> created + 1, ref |-> pr]}
        /\ leftover' = leftover
        /\ UNCHANGED <<head, caches, dirs, opened, released>> /\ pr' = pr
    BY <1>11 DEF Download, Doing, caches
  <2>2. tarball = NoArchive /\ ~Doing("copy")
    BY <2>1 DEF ToolkitInv, Doing
  <2>3. created' \in 0..MaxArchives /\ created' > 0
    BY <1>0, <2>1 DEF ToolkitTypeOK
  <2>4. Partial' = [file |-> created', ref |-> pr] /\ tempFiles' = tempFiles \cup {Partial'}
    BY <2>1 DEF Partial
  <2>5. Partial' \in Archives /\ Partial'.file = created + 1
    BY <1>0, <2>1, <2>3, <2>4 DEF Archives, ToolkitTypeOK
  <2>6. created \in Nat /\ created + 1 \notin 1..created /\ created + 1 \in 1..created'
    BY <1>0, <2>1 DEF ToolkitTypeOK
  <2>7. \A k \in 1..created : k \in 1..created'
    BY <2>1, <2>6
  <2>8. Numbered' /\ Partial' \notin leftover'
    BY <1>0, <2>1, <2>4, <2>5, <2>6, <2>7 DEF Numbered
  <2>9. tempFiles' \ leftover' = {Partial'}
    BY <1>0, <2>1, <2>2, <2>4, <2>8
  <2>10. tarball' \in Archives /\ tarball' = NoArchive
    BY <1>0, <2>1, <2>2
  <2> QED BY <2>1, <2>3, <2>8, <2>9, <2>10, DownloadKeeps DEF ArchiveItems
<1>12. CASE Refuse
  <2>1. Doing("copy") /\ todo # <<>>
    BY <1>12 DEF Refuse, Doing
  <2>2. UNCHANGED <<head, caches, released>> /\ created' = created /\ tarball' = tarball /\ Remove(Partial) /\ Ended
    BY <1>12 DEF Refuse
  <2> QED BY <2>1, <2>2, EndKeeps
<1>13. CASE Remember
  <2>1. /\ Head(todo) = "copy" /\ todo # <<>> /\ todo' = <<"open">> \o Tail(todo)
        /\ tarball' = Partial /\ tempFiles' = tempFiles /\ leftover' = leftover /\ created' = created
        /\ UNCHANGED <<head, caches, dirs, opened, released>> /\ pr' = pr
    BY <1>13 DEF Remember, Doing, caches
  <2>2. Doing("copy") /\ tarball = NoArchive /\ created > 0
    BY <2>1 DEF ToolkitInv, Doing
  <2>3. Partial = [file |-> created, ref |-> pr] /\ Partial \in Archives /\ tempFiles \ leftover = {Partial}
    BY <1>0, <2>2 DEF Partial, Archives, ToolkitTypeOK
  <2>4. tarball'.ref = pr' /\ tarball'.file > 0 /\ NoArchive.file = 0
    BY <2>1, <2>2, <2>3 DEF NoArchive
  <2>5. tarball' # NoArchive
    BY <2>4
  <2>6. created' \in 0..MaxArchives /\ tempFiles' \ leftover' = {tarball'} /\ tarball' \in Archives /\ Numbered'
    BY <1>0, <2>1, <2>3 DEF ToolkitTypeOK, Numbered
  <2> QED BY <2>1, <2>4, <2>5, <2>6, DownloadKeeps DEF ArchiveItems
<1>14. CASE Open
  <2>1. /\ Head(todo) = "open" /\ todo # <<>> /\ opened' = tarball /\ Onward
        /\ UNCHANGED <<head, caches, archives, dirs, released>>
    BY <1>14 DEF Open, Doing
  <2>2. WellFormed(todo') /\ todo' # <<>> /\ Reading(todo') /\ Head(todo') \notin {"pr", "download", "copy", "open"}
    BY <2>1, OnwardFacts DEF ToolkitInv, ArchiveItems
  <2>3. ~Doing("copy") /\ ~Doing("copy")' /\ ~Doing("download")' /\ ~Doing("open")'
    BY <2>1, <2>2 DEF Doing
  <2>4. ToolkitTypeOK'
    BY <1>0, <2>1 DEF ToolkitTypeOK, caches, archives, dirs
  <2>5. tarball # NoArchive /\ tarball.ref = pr
    BY <2>1 DEF ToolkitInv, Doing
  <2>6. tarball \in tempFiles
    BY <1>0, <2>5
  <2>7. FilesAccounted'
    BY <2>1, <2>2, <2>3, <2>5, <2>6 DEF ToolkitInv, FilesAccounted, caches, archives, dirs
  <2> QED BY <2>1, <2>2, <2>3, <2>4, <2>7 DEF ToolkitInv, Numbered, archives
<1>15. CASE OpenFails
  <2>1. ~Doing("copy") /\ todo # <<>>
    BY <1>15 DEF OpenFails, Doing
  <2>2. UNCHANGED <<head, caches, released>> /\ created' = created /\ RemoveTarball /\ Ended
    BY <1>15 DEF OpenFails
  <2> QED BY <2>1, <2>2, EndKeeps
<1>16. CASE Release
  <2>1. /\ todo = <<>> /\ todo' = <<>> /\ released' = TRUE /\ tarball' = NoArchive
        /\ Remove(tarball) /\ created' = created
        /\ UNCHANGED <<head, caches, dirs, opened>>
    BY <1>16 DEF Release, RemoveTarball
  <2>2. \A y : ~Doing(y) /\ ~Doing(y)'
    BY <2>1 DEF Doing
  <2>3. PICK a : a = tarball
    OBVIOUS
  <2>4. a \in tempFiles \ leftover \/ a = NoArchive
    BY <1>0, <2>3
  <2>5. tempFiles' \ leftover' = (tempFiles \ leftover) \ {a} /\ Numbered'
    BY <2>1, <2>3, <2>4, RemoveFacts
  <2>6. tempFiles' \ leftover' = {} /\ opened = NoArchive /\ ~workdir
    BY <1>0, <2>1, <2>2, <2>3, <2>5 DEF ToolkitInv, FilesAccounted
  <2>7. ToolkitTypeOK'
    BY <1>0, <2>1, <2>5 DEF ToolkitTypeOK, Numbered, caches, dirs
  <2>8. FilesAccounted'
    BY <2>1, <2>2, <2>5, <2>6 DEF FilesAccounted, Numbered, dirs
  <2>9. WellFormed(todo')
    BY <2>1 DEF WellFormed
  <2> QED BY <2>1, <2>2, <2>5, <2>7, <2>8, <2>9 DEF ToolkitInv
<1>17. CASE UNCHANGED toolkitVars
  BY <1>17 DEF toolkitVars, caches, archives, dirs, ToolkitInv, ToolkitTypeOK, FilesAccounted, Numbered, Doing, Partial
<1> QED BY <1>1, <1>2, <1>3, <1>4, <1>5, <1>6, <1>7, <1>8, <1>9, <1>10, <1>11, <1>12, <1>13, <1>14, <1>15, <1>16, <1>17 DEF ToolkitNext

\* The values of the variables stay in their sets; the cached bytes in their budget.
THEOREM ToolkitTypes == ToolkitSpec => []ToolkitTypeOK
<1>1. ToolkitInv => ToolkitTypeOK
  BY DEF ToolkitInv
<1> QED BY <1>1, ToolkitStart, ToolkitStep, PTL DEF ToolkitSpec

\* Whatever fails in whichever call, an archive on disk is the one remembered, one being
\* filled, or one whose removal failed; after Close only the last; and an archive that is
\* read is the remembered one, of the head that the review is about.
THEOREM ToolkitLeavesNothing == ToolkitSpec => []FilesAccounted
<1>1. ToolkitInv => FilesAccounted
  BY DEF ToolkitInv
<1> QED BY <1>1, ToolkitStart, ToolkitStep, PTL DEF ToolkitSpec
-----------------------------------------------------------------------------
\* The files passed so far have been dealt with in full: the matches among them.
Passed == {p \in AllMatches : p[1] <= position}
PassedFitting == {p \in Fitting(AllMatches) : p[1] <= position}
EarlierIn(S) == {p \in S \X S : Earlier(p[1], p[2])}
BetterIn(S) == {p \in S \X S : Better(p[1], p[2])}

\* As long as no entry has been left out, a search has the first matches, and all of
\* the files passed unless it says so.
SearchInv ==
  /\ found \in Seq(AllMatches) /\ Lists(found, EarlierIn(AllMatches), AllMatches)
  /\ state \in {"scan", "done"}
  /\ ~dropped => \A p \in Passed : \E k \in DOMAIN found : found[k] = p
  /\ state = "scan" => ~dropped /\ \A k \in DOMAIN found : found[k][1] <= position
  /\ state = "done" /\ ~dropped => position = Len(archive)

\* A retrieval has the best of the chunks passed, as many as it keeps, and knows how many there were.
RetrieveInv ==
  /\ state \in {"scan", "output"} =>
       /\ found \in Seq(PassedFitting) /\ Lists(found, BetterIn(AllMatches), PassedFitting)
       /\ Len(found) <= TopK /\ (Len(found) = TopK \/ Len(found) = Cardinality(PassedFitting))
       /\ seen = Cardinality(PassedFitting) /\ (~dropped => PassedFitting = Passed)
  /\ state \in {"output", "done"} => position = Len(archive)
  /\ state = "done" => /\ found \in Seq(Fitting(AllMatches)) /\ Lists(found, BetterIn(AllMatches), Fitting(AllMatches))
                       /\ ~dropped => Len(found) = Cardinality(AllMatches)

ExtractInv ==
  state # "failed" => /\ state \in {"scan", "done"} /\ (state = "done" => position = Len(archive))
                      /\ found \in Seq(Wants \X {0}) /\ Members(found) = {i \in Wants : i <= position} \X {0}

ArchiveOK == archive \in Seq(Entries) /\ position \in 0..Len(archive) /\ reader \in {"search", "retrieve", "extract"}

ScanInv ==
  /\ ArchiveOK /\ ScanTypeOK
  /\ reader = "search" /\ ~partial => SearchInv
  /\ reader = "retrieve" /\ ~partial /\ state # "failed" => RetrieveInv
  /\ reader = "extract" => ExtractInv
-----------------------------------------------------------------------------
LEMMA EntriesTyped ==
  ASSUME ArchiveOK, NEW i \in DOMAIN archive
  PROVE  /\ i \in 1..Len(archive) /\ Len(archive) \in Nat /\ archive[i].scores \in Seq(Nat) /\ archive[i].bytes \in Nat
         /\ DOMAIN archive[i].scores = 1..Len(archive[i].scores) /\ Len(archive[i].scores) \in Nat
<1>1. archive[i] \in Entries /\ i \in 1..Len(archive) /\ Len(archive) \in Nat
  BY DEF ArchiveOK
<1>2. archive[i].scores \in Seq(Nat) /\ archive[i].bytes \in Nat
  BY <1>1, ScanAssumption
<1> QED BY <1>1, <1>2

\* The matches: what they are, entry by entry.
LEMMA MatchesTyped ==
  ASSUME ArchiveOK
  PROVE  /\ \A p \in AllMatches : /\ p[1] \in Wants /\ p[1] \in 1..Len(archive) /\ p[2] \in Nat
                                  /\ p = <<p[1], p[2]>> /\ ScoreOf(p) \in Nat
         /\ \A i \in Wants : Matching(i) = {p \in AllMatches : p[1] = i}
<1>1. ASSUME NEW i \in Wants, NEW p \in Matching(i)
      PROVE  /\ p = <<p[1], p[2]>> /\ p[1] = i /\ p[1] \in 1..Len(archive) /\ p[2] \in Nat
             /\ ScoreOf(p) \in Nat
  <2>1. i \in DOMAIN archive
    BY DEF Wants
  <2>2. PICK c \in DOMAIN archive[i].scores : p = <<i, c>>
    BY DEF Matching
  <2>3. p[1] = i /\ p[2] = c
    BY <2>2
  <2>4. /\ i \in 1..Len(archive) /\ archive[i].scores \in Seq(Nat)
        /\ DOMAIN archive[i].scores = 1..Len(archive[i].scores) /\ Len(archive[i].scores) \in Nat
    BY <2>1, EntriesTyped
  <2>5. c \in Nat /\ archive[i].scores[c] \in Nat
    BY <2>4
  <2> QED BY <2>2, <2>3, <2>4, <2>5 DEF ScoreOf
<1>2. \A p \in AllMatches : \E i \in Wants : p \in Matching(i)
  BY DEF AllMatches
<1>3. \A i \in Wants : \A p \in Matching(i) : p \in AllMatches
  BY DEF AllMatches
<1>4. ASSUME NEW i \in Wants PROVE Matching(i) = {p \in AllMatches : p[1] = i}
  BY <1>1, <1>2, <1>3
<1> QED BY <1>1, <1>2, <1>4

LEMMA MatchesFinite ==
  ASSUME ArchiveOK
  PROVE  IsFiniteSet(AllMatches) /\ \A S \in SUBSET AllMatches : IsFiniteSet(S) /\ Cardinality(S) \in Nat
<1>1. Wants \in SUBSET (1..Len(archive)) /\ Len(archive) \in Nat
  BY DEF Wants, ArchiveOK
<1>2. IsFiniteSet(Wants)
  BY <1>1, CountUpTo, FS_Subset
<1>3. ASSUME NEW i \in Wants PROVE IsFiniteSet(Matching(i))
  <2>1. i \in DOMAIN archive
    BY DEF Wants
  <2>2. DOMAIN archive[i].scores = 1..Len(archive[i].scores) /\ Len(archive[i].scores) \in Nat
    BY <2>1, EntriesTyped
  <2>3. IsFiniteSet(DOMAIN archive[i].scores)
    BY <2>2, CountUpTo
  <2>4. IsFiniteSet({i} \X DOMAIN archive[i].scores)
    BY <2>3, FS_Singleton, FS_Product
  <2>5. Matching(i) \in SUBSET ({i} \X DOMAIN archive[i].scores)
    BY DEF Matching
  <2> QED BY <2>4, <2>5, FS_Subset
<1> DEFINE Sets == {Matching(i) : i \in Wants}
           f == [i \in Wants |-> Matching(i)]
<1>4. IsFiniteSet(Sets)
  <2>1. f \in Surjection(Wants, Sets)
    BY DEF Surjection
  <2> HIDE DEF f, Sets
  <2> QED BY <1>2, <2>1, FS_Surjection
<1>5. \A T \in Sets : IsFiniteSet(T)
  BY <1>3
<1>6. AllMatches = UNION Sets
  BY DEF AllMatches
<1> HIDE DEF Sets
<1>7. IsFiniteSet(AllMatches)
  BY <1>4, <1>5, <1>6, FS_UNION
<1>8. ASSUME NEW S \in SUBSET AllMatches PROVE IsFiniteSet(S) /\ Cardinality(S) \in Nat
  BY <1>7, FS_Subset, FS_CardinalityType
<1> QED BY <1>7, <1>8

\* Places in the archive, and chunks by their scores, are ordered.
LEMMA MatchesOrdered ==
  ASSUME ArchiveOK
  PROVE  Orders(EarlierIn(AllMatches), AllMatches) /\ Orders(BetterIn(AllMatches), AllMatches)
<1>1. \A p \in AllMatches : p[1] \in Int /\ p[2] \in Int /\ p = <<p[1], p[2]>> /\ ScoreOf(p) \in Int
  BY MatchesTyped
<1>2. \A p, q \in AllMatches : <<p, q>> \in EarlierIn(AllMatches) <=> Earlier(p, q)
  BY DEF EarlierIn
<1>3. \A p, q \in AllMatches : <<p, q>> \in BetterIn(AllMatches) <=> Better(p, q)
  BY DEF BetterIn
<1>4. /\ \A a \in AllMatches : ~Earlier(a, a)
      /\ \A a, b, c \in AllMatches : Earlier(a, b) /\ Earlier(b, c) => Earlier(a, c)
      /\ \A a, b \in AllMatches : a = b \/ Earlier(a, b) \/ Earlier(b, a)
  <2>1. ASSUME NEW a \in AllMatches, NEW b \in AllMatches PROVE a = b \/ Earlier(a, b) \/ Earlier(b, a)
    <3>1. (a[1] = b[1] /\ a[2] = b[2]) \/ Earlier(a, b) \/ Earlier(b, a)
      BY <1>1 DEF Earlier
    <3> QED BY <1>1, <3>1
  <2>2. ASSUME NEW a \in AllMatches, NEW b \in AllMatches, NEW c \in AllMatches, Earlier(a, b), Earlier(b, c) PROVE Earlier(a, c)
    BY <1>1, <2>2 DEF Earlier
  <2>3. ASSUME NEW a \in AllMatches PROVE ~Earlier(a, a)
    BY <1>1 DEF Earlier
  <2> QED BY <2>1, <2>2, <2>3
<1>5. /\ \A a \in AllMatches : ~Better(a, a)
      /\ \A a, b, c \in AllMatches : Better(a, b) /\ Better(b, c) => Better(a, c)
      /\ \A a, b \in AllMatches : a = b \/ Better(a, b) \/ Better(b, a)
  <2>1. ASSUME NEW a \in AllMatches, NEW b \in AllMatches PROVE a = b \/ Better(a, b) \/ Better(b, a)
    BY <1>1, <1>4 DEF Better
  <2>2. ASSUME NEW a \in AllMatches, NEW b \in AllMatches, NEW c \in AllMatches, Better(a, b), Better(b, c) PROVE Better(a, c)
    BY <1>1, <1>4, <2>2 DEF Better
  <2>3. ASSUME NEW a \in AllMatches PROVE ~Better(a, a)
    BY <1>1, <1>4 DEF Better
  <2> QED BY <2>1, <2>2, <2>3
<1> QED BY <1>2, <1>3, <1>4, <1>5 DEF Orders

\* A sorted set of matches lists it.
EarlierFirst(S) == Sorted(S, Earlier)
BetterFirst(S) == Sorted(S, Better)
ListsAll(s, R, S) == s \in Seq(S) /\ Len(s) = Cardinality(S) /\ Lists(s, R, S) /\ \A p \in S : \E k \in DOMAIN s : s[k] = p

LEMMA SortedLists ==
  ASSUME ArchiveOK, NEW S \in SUBSET AllMatches
  PROVE  /\ ListsAll(EarlierFirst(S), EarlierIn(AllMatches), S)
         /\ ListsAll(BetterFirst(S), BetterIn(AllMatches), S)
<1>1. IsFiniteSet(S) /\ Cardinality(S) \in Nat
  BY MatchesFinite
<1>2. Orders(EarlierIn(AllMatches), S) /\ Orders(BetterIn(AllMatches), S)
  BY MatchesOrdered, SubsetOrders
<1>3. \A p \in S : Below(p, EarlierIn(AllMatches), S) = {q \in S : Earlier(q, p)}
  BY DEF Below, EarlierIn
<1>4. \A p \in S : Below(p, BetterIn(AllMatches), S) = {q \in S : Better(q, p)}
  BY DEF Below, BetterIn
<1>5. ListsAll(EarlierFirst(S), EarlierIn(AllMatches), S)
  <2> DEFINE At(k) == CHOOSE p \in S : Cardinality({q \in S : Earlier(q, p)}) = k - 1
  <2>1. PICK s : s = EarlierFirst(S)
    OBVIOUS
  <2>2. s = [k \in 1..Cardinality(S) |-> At(k)]
    BY <2>1 DEF EarlierFirst, Sorted
  <2>3. ASSUME NEW k \in 1..Cardinality(S)
        PROVE  At(k) \in S /\ Cardinality(Below(At(k), EarlierIn(AllMatches), S)) = k - 1
    <3>1. k - 1 \in 0..(Cardinality(S) - 1)
      BY <1>1
    <3>2. \E p \in S : Cardinality(Below(p, EarlierIn(AllMatches), S)) = k - 1
      BY <1>1, <1>2, <3>1, PlacesAreTaken
    <3>3. \E p \in S : Cardinality({q \in S : Earlier(q, p)}) = k - 1
      BY <1>3, <3>2
    <3>4. At(k) \in S /\ Cardinality({q \in S : Earlier(q, At(k))}) = k - 1
      BY <3>3, Zenon
    <3> QED BY <1>3, <3>4
  <2> HIDE DEF At
  <2>4. s \in [1..Cardinality(S) -> S] /\ \A k \in 1..Cardinality(S) : Cardinality(Below(s[k], EarlierIn(AllMatches), S)) = k - 1
    BY <2>2, <2>3
  <2>5. /\ s \in Seq(S) /\ Len(s) = Cardinality(S) /\ Lists(s, EarlierIn(AllMatches), S)
        /\ \A a \in S : \E k \in DOMAIN s : s[k] = a
    BY <1>1, <1>2, <2>4, PlacedLists
  <2> QED BY <2>1, <2>5 DEF ListsAll
<1>6. ListsAll(BetterFirst(S), BetterIn(AllMatches), S)
  <2> DEFINE At(k) == CHOOSE p \in S : Cardinality({q \in S : Better(q, p)}) = k - 1
  <2>1. PICK s : s = BetterFirst(S)
    OBVIOUS
  <2>2. s = [k \in 1..Cardinality(S) |-> At(k)]
    BY <2>1 DEF BetterFirst, Sorted
  <2>3. ASSUME NEW k \in 1..Cardinality(S)
        PROVE  At(k) \in S /\ Cardinality(Below(At(k), BetterIn(AllMatches), S)) = k - 1
    <3>1. k - 1 \in 0..(Cardinality(S) - 1)
      BY <1>1
    <3>2. \E p \in S : Cardinality(Below(p, BetterIn(AllMatches), S)) = k - 1
      BY <1>1, <1>2, <3>1, PlacesAreTaken
    <3>3. \E p \in S : Cardinality({q \in S : Better(q, p)}) = k - 1
      BY <1>4, <3>2
    <3>4. At(k) \in S /\ Cardinality({q \in S : Better(q, At(k))}) = k - 1
      BY <3>3, Zenon
    <3> QED BY <1>4, <3>4
  <2> HIDE DEF At
  <2>4. s \in [1..Cardinality(S) -> S] /\ \A k \in 1..Cardinality(S) : Cardinality(Below(s[k], BetterIn(AllMatches), S)) = k - 1
    BY <2>2, <2>3
  <2>5. /\ s \in Seq(S) /\ Len(s) = Cardinality(S) /\ Lists(s, BetterIn(AllMatches), S)
        /\ \A a \in S : \E k \in DOMAIN s : s[k] = a
    BY <1>1, <1>2, <2>4, PlacedLists
  <2> QED BY <2>1, <2>5 DEF ListsAll
<1> QED BY <1>5, <1>6
-----------------------------------------------------------------------------
LEMMA InputStays ==
  ASSUME UNCHANGED input
  PROVE  /\ Wants' = Wants /\ AllMatches' = AllMatches /\ Fitting(AllMatches)' = Fitting(AllMatches)
         /\ EarlierIn(AllMatches)' = EarlierIn(AllMatches) /\ BetterIn(AllMatches)' = BetterIn(AllMatches)
<1>1. archive' = archive /\ reader' = reader
  BY DEF input
<1>2. Wants' = Wants
  BY <1>1 DEF Wants, File
<1>3. \A i : Matching(i)' = Matching(i)
  BY <1>1 DEF Matching
<1>4. AllMatches' = AllMatches
  BY <1>2, <1>3 DEF AllMatches
<1>5. Fitting(AllMatches)' = Fitting(AllMatches)
  BY <1>1, <1>4 DEF Fitting
<1>6. EarlierIn(AllMatches)' = EarlierIn(AllMatches) /\ BetterIn(AllMatches)' = BetterIn(AllMatches)
  BY <1>1, <1>4 DEF EarlierIn, BetterIn, Earlier, Better, ScoreOf
<1> QED BY <1>2, <1>4, <1>5, <1>6

\* The matches of a file follow those of the files before it, in the order of the archive.
HasUpTo(t, n, A) ==
  /\ \A p \in A : p[1] <= n => \E k \in DOMAIN t : t[k] = p
  /\ \A k \in DOMAIN t : t[k][1] <= n

LEMMA NextFileFollows ==
  ASSUME ArchiveOK, SearchInv, state = "scan", position + 1 \in Wants,
         NEW u, u = EarlierFirst(Matching(position + 1)), NEW t, t = found \o u
  PROVE  /\ t \in Seq(AllMatches) /\ Lists(t, EarlierIn(AllMatches), AllMatches)
         /\ HasUpTo(t, position + 1, AllMatches)
<1>1. PICK A : A = AllMatches
  OBVIOUS
<1>2. PICK R : R = EarlierIn(A)
  OBVIOUS
<1>3. PICK new : new = Matching(position + 1)
  OBVIOUS
<1>4. new = {p \in A : p[1] = position + 1} /\ new \in SUBSET A
  BY <1>1, <1>3, MatchesTyped
<1>5. ListsAll(u, R, new)
  BY <1>1, <1>2, <1>3, <1>4, SortedLists
<1>6. /\ found \in Seq(A) /\ Lists(found, R, A) /\ \A k \in DOMAIN found : found[k] \in A /\ found[k][1] <= position
      /\ \A p \in A : p[1] <= position => \E k \in DOMAIN found : found[k] = p
  <2>1. /\ found \in Seq(A) /\ Lists(found, R, A) /\ \A k \in DOMAIN found : found[k][1] <= position
        /\ \A p \in A : p[1] <= position => \E k \in DOMAIN found : found[k] = p
    BY <1>1, <1>2 DEF SearchInv, Passed
  <2>2. DOMAIN found = 1..Len(found)
    BY <2>1
  <2>3. \A k \in 1..Len(found) : found[k] \in A
    BY <2>1, ElementOfSeq
  <2> QED BY <2>1, <2>2, <2>3
<1>7. u \in Seq(A) /\ (\A k \in DOMAIN u : u[k] \in new) /\ \A j, k \in DOMAIN u : j < k => <<u[j], u[k]>> \in R
  <2>1. u \in Seq(new) /\ Lists(u, R, new)
    BY <1>5 DEF ListsAll
  <2>2. DOMAIN u = 1..Len(u) /\ Len(u) \in Nat
    BY <2>1
  <2>3. \A k \in 1..Len(u) : u[k] \in new
    BY <2>1, ElementOfSeq
  <2>4. \A k \in 1..Len(u) : u[k] \in A
    BY <1>4, <2>3
  <2>5. u \in Seq(A)
    BY <2>1, <2>2, <2>4
  <2> QED BY <2>1, <2>2, <2>3, <2>5 DEF Lists
<1>8. \A p, q \in A : <<p, q>> \in R <=> Earlier(p, q)
  BY <1>2 DEF EarlierIn
<1>9. (\A p \in A : p[1] \in Int /\ p[2] \in Int) /\ position \in Int
  BY <1>1, MatchesTyped DEF ArchiveOK
<1>10. ASSUME NEW j \in DOMAIN found, NEW k \in DOMAIN u PROVE <<found[j], u[k]>> \in R
  <2>1. found[j] \in A /\ u[k] \in A /\ found[j][1] <= position /\ u[k][1] = position + 1
    BY <1>4, <1>6, <1>7
  <2> QED BY <1>8, <1>9, <2>1 DEF Earlier
<1>11. ASSUME NEW k \in DOMAIN u, NEW b \in Below(u[k], R, A)
       PROVE  (\E j \in DOMAIN found : found[j] = b) \/ (\E j \in DOMAIN u : u[j] = b)
  <2>1. u[k] \in A /\ u[k][1] = position + 1 /\ b \in A /\ Earlier(b, u[k])
    BY <1>4, <1>7, <1>8 DEF Below
  <2>2. b[1] <= position \/ b[1] = position + 1
    BY <1>9, <2>1 DEF Earlier
  <2> QED BY <1>4, <1>5, <1>6, <2>1, <2>2 DEF ListsAll
<1>12. Follows(u, found, R, A)
  BY <1>7, <1>10, <1>11 DEF Follows
<1>13. t \in Seq(A) /\ Lists(t, R, A) /\ Joins(t, found, u)
  BY <1>6, <1>7, <1>12, AppendedLists
<1>14. ASSUME NEW p \in A, p[1] <= position + 1 PROVE \E k \in DOMAIN t : t[k] = p
  <2>1. p[1] <= position \/ p \in new
    BY <1>4, <1>9, <1>14
  <2> QED BY <1>5, <1>6, <1>13, <2>1 DEF ListsAll, Joins
<1>15. ASSUME NEW k \in DOMAIN t PROVE t[k][1] <= position + 1
  <2>1. CASE \E i \in DOMAIN found : found[i] = t[k]
    BY <1>6, <1>9, <2>1
  <2>2. CASE \E i \in DOMAIN u : u[i] = t[k]
    BY <1>4, <1>7, <1>9, <2>2
  <2> QED BY <1>13, <2>1, <2>2 DEF Joins
<1> QED BY <1>1, <1>2, <1>13, <1>14, <1>15 DEF HasUpTo

\* A search goes from the first matches of the archive to more of them.
LEMMA SearchStep ==
  ASSUME ArchiveOK, reader = "search", SearchInv, Search \/ End, ~partial'
  PROVE  SearchInv'
<1>1. PICK A : A = AllMatches
  OBVIOUS
<1>2. PICK R : R = EarlierIn(A)
  OBVIOUS
<1>3. /\ UNCHANGED input /\ AllMatches' = A /\ EarlierIn(AllMatches)' = R /\ archive' = archive
  BY <1>1, <1>2, InputStays DEF Search, End, input
<1>4. /\ found \in Seq(A) /\ Lists(found, R, A)
      /\ state = "scan" /\ ~dropped
      /\ \A p \in A : p[1] <= position => \E k \in DOMAIN found : found[k] = p
      /\ \A k \in DOMAIN found : found[k][1] <= position
  <2>1. state = "scan"
    BY DEF Search, End, Ahead
  <2> QED BY <1>1, <1>2, <2>1 DEF SearchInv, Passed
<1>5. position \in Nat /\ Len(archive) \in Nat /\ position <= Len(archive) /\ DOMAIN archive = 1..Len(archive)
  BY DEF ArchiveOK
<1>6. SUFFICES
        /\ found' \in Seq(A) /\ Lists(found', R, A)
        /\ state' \in {"scan", "done"}
        /\ ~dropped' => \A p \in A : p[1] <= position' => \E k \in DOMAIN found' : found'[k] = p
        /\ state' = "scan" => ~dropped' /\ \A k \in DOMAIN found' : found'[k][1] <= position'
        /\ state' = "done" /\ ~dropped' => position' = Len(archive')
  BY <1>3 DEF SearchInv, Passed
<1>7. CASE End
  <2>1. state' = "done" /\ found' = found /\ dropped' = dropped /\ position' = position /\ position = Len(archive)
    BY <1>7 DEF End
  <2> QED BY <1>3, <1>4, <2>1
<1>8. CASE Search
  <2>1. position < Len(archive) /\ position + 1 \in DOMAIN archive /\ position + 1 \in Nat
    BY <1>5, <1>8 DEF Search, Ahead
  <2>2. ~StopSearch /\ ~SearchLarge
    BY DEF StopSearch, SearchLarge, Partly
  <2>3. CASE SearchSkips /\ (~File(Entry) \/ ~Entry.readable)
    <3>1. position' = position + 1 /\ found' = found /\ dropped' = dropped /\ state' = state
      BY <2>3 DEF SearchSkips, Pass
    <3>2. position + 1 \notin Wants
      BY <2>3 DEF Wants, Entry
    <3>3. ASSUME NEW p \in A, p[1] <= position + 1 PROVE p[1] <= position
      <4>1. p[1] \in Wants /\ p[1] \in Nat
        BY <1>1, MatchesTyped
      <4>2. p[1] # position + 1
        BY <3>2, <4>1
      <4> QED BY <1>5, <3>3, <4>1, <4>2
    <3>4. \A k \in DOMAIN found : found[k][1] <= position + 1
      <4>1. ASSUME NEW k \in DOMAIN found PROVE found[k][1] <= position + 1
        <5>1. found[k] \in A
          <6>1. DOMAIN found = 1..Len(found)
            BY <1>4
          <6> QED BY <1>4, <6>1, ElementOfSeq
        <5>2. found[k][1] \in Nat /\ found[k][1] <= position
          BY <1>1, <1>4, <5>1, MatchesTyped
        <5> QED BY <1>5, <5>2
      <4> QED BY <4>1
    <3> QED BY <1>4, <3>1, <3>3, <3>4
  <2>4. CASE SearchFile /\ File(Entry) /\ Entry.readable
    <3>1. position + 1 \in Wants
      BY <2>1, <2>4 DEF Wants, Entry
    <3>2. PICK u : u = EarlierFirst(Matching(position + 1))
      OBVIOUS
    <3>3. PICK t : t = found \o u
      OBVIOUS
    <3>0. /\ t \in Seq(A) /\ Lists(t, R, A) /\ HasUpTo(t, position + 1, A)
      BY <1>1, <1>2, <1>4, <3>1, <3>2, <3>3, NextFileFollows
    <3>4. /\ t \in Seq(A) /\ Lists(t, R, A)
          /\ \A p \in A : p[1] <= position + 1 => \E k \in DOMAIN t : t[k] = p
          /\ \A k \in DOMAIN t : t[k][1] <= position + 1
      BY <3>0 DEF HasUpTo
    <3>5. /\ found' = Cut(t, MaxResults) /\ dropped' = (Len(t) >= MaxResults) /\ position' = position + 1
          /\ state' = IF Len(t) >= MaxResults THEN "done" ELSE "scan"
      <4>1. t = found \o Sorted(Matching(position + 1), Earlier)
        BY <3>2, <3>3 DEF EarlierFirst
      <4> QED BY <2>4, <4>1, Zenon DEF SearchFile, Pass
    <3>6. Len(t) \in Nat /\ MaxResults \in Nat
      BY <3>4, ScanAssumption
    <3>7. CASE Len(t) >= MaxResults
      <4>1. state' = "done" /\ dropped'
        BY <3>5, <3>7
      <4>2. found' \in Seq(A) /\ Lists(found', R, A)
        <5>1. CASE Len(t) > MaxResults
          <6>1. found' = SubSeq(t, 1, MaxResults) /\ MaxResults \in 0..Len(t)
            BY <3>5, <3>6, <5>1 DEF Cut
          <6>2. Orders(R, A)
            BY <1>1, <1>2, MatchesOrdered
          <6> QED BY <3>4, <6>1, <6>2, BeginningLists
        <5>2. CASE ~(Len(t) > MaxResults)
          BY <3>4, <3>5, <5>2 DEF Cut
        <5> QED BY <5>1, <5>2
      <4> QED BY <4>1, <4>2
    <3>8. CASE ~(Len(t) >= MaxResults)
      <4>1. state' = "scan" /\ ~dropped' /\ found' = t
        <5>1. ~(Len(t) > MaxResults)
          BY <3>6, <3>8
        <5> QED BY <3>5, <3>8, <5>1 DEF Cut
      <4> QED BY <3>4, <3>5, <4>1
    <3> QED BY <3>7, <3>8
  <2> QED BY <1>8, <2>2, <2>3, <2>4, Zenon DEF Search
<1> QED BY <1>7, <1>8
-----------------------------------------------------------------------------
\* The matches passed, with one entry more.
LEMMA PassedGrow ==
  ASSUME ArchiveOK, UNCHANGED input, position < Len(archive), position' = position + 1,
         NEW N, N = IF position + 1 \in Wants THEN Matching(position + 1) ELSE {}
  PROVE  /\ Passed' = Passed \cup N /\ PassedFitting' = PassedFitting \cup Fitting(N)
         /\ N \in SUBSET AllMatches /\ Passed \cap N = {}
<1>1. PICK A : A = AllMatches
  OBVIOUS
<1>2. AllMatches' = A /\ Fitting(AllMatches)' = Fitting(AllMatches) /\ position \in Nat
  BY <1>1, InputStays DEF ArchiveOK
<1>3. \A p \in A : p[1] \in Nat /\ p[1] \in Wants
  BY <1>1, MatchesTyped
<1>4. N = {p \in A : p[1] = position + 1}
  <2>1. CASE position + 1 \in Wants
    BY <1>1, <2>1, MatchesTyped
  <2>2. CASE position + 1 \notin Wants
    BY <1>3, <2>2
  <2> QED BY <2>1, <2>2
<1>5. \A p \in A : p[1] <= position + 1 <=> p[1] <= position \/ p[1] = position + 1
  BY <1>2, <1>3
<1>6. \A p \in A : ~(p[1] <= position /\ p[1] = position + 1)
  BY <1>2, <1>3
<1>7. Passed' = Passed \cup N
  BY <1>1, <1>2, <1>4, <1>5 DEF Passed
<1>8. PassedFitting' = PassedFitting \cup Fitting(N)
  BY <1>1, <1>2, <1>4, <1>5 DEF PassedFitting, Fitting
<1> QED BY <1>1, <1>4, <1>6, <1>7, <1>8 DEF Passed

\* A retrieval goes from the best of the chunks passed to the best of those with one file more,
\* though it has forgotten all but a few.
LEMMA RetrieveStep ==
  ASSUME ArchiveOK, reader = "retrieve", state # "failed", RetrieveInv,
         Retrieve \/ FitOutput \/ End, ~partial', state' # "failed"
  PROVE  RetrieveInv'
<1>1. PICK A : A = AllMatches
  OBVIOUS
<1>2. PICK R : R = BetterIn(A)
  OBVIOUS
<1>3. /\ UNCHANGED input /\ AllMatches' = A /\ Fitting(AllMatches)' = Fitting(A) /\ BetterIn(AllMatches)' = R /\ archive' = archive
  BY <1>1, <1>2, InputStays DEF Retrieve, FitOutput, End, input
<1>4. PICK P : P = PassedFitting
  OBVIOUS
<1>5. /\ state \in {"scan", "output"} /\ found \in Seq(P) /\ Lists(found, R, P)
      /\ Len(found) <= TopK /\ (Len(found) = TopK \/ Len(found) = Cardinality(P))
      /\ seen = Cardinality(P) /\ (~dropped => P = Passed)
      /\ state = "output" => position = Len(archive)
  <2>1. state \in {"scan", "output"}
    BY DEF Retrieve, FitOutput, End, Ahead
  <2> QED BY <1>1, <1>2, <1>4, <2>1 DEF RetrieveInv
<1>6. /\ P \in SUBSET A /\ Fitting(A) \in SUBSET A /\ P \in SUBSET Passed
      /\ IsFiniteSet(P) /\ Cardinality(P) \in Nat /\ Orders(R, A) /\ Orders(R, P)
  <2>1. P \in SUBSET A /\ Fitting(A) \in SUBSET A /\ P \in SUBSET Passed
    BY <1>1, <1>4 DEF PassedFitting, Passed, Fitting
  <2>2. IsFiniteSet(P) /\ Cardinality(P) \in Nat
    BY <1>1, <2>1, MatchesFinite
  <2>3. Orders(R, A)
    BY <1>1, <1>2, MatchesOrdered
  <2> QED BY <2>1, <2>2, <2>3, SubsetOrders
<1>7. position \in Nat /\ Len(archive) \in Nat /\ position <= Len(archive) /\ DOMAIN archive = 1..Len(archive)
  BY DEF ArchiveOK
<1>8. Len(found) \in Nat /\ TopK \in Nat /\ Members(found) \in SUBSET P
  <2>1. DOMAIN found = 1..Len(found) /\ Len(found) \in Nat
    BY <1>5
  <2>2. \A k \in 1..Len(found) : found[k] \in P
    BY <1>5, ElementOfSeq
  <2> QED BY <2>1, <2>2, ScanAssumption DEF Members
<1>9. CASE End
  <2>1. state' = "output" /\ found' = found /\ dropped' = dropped /\ position' = position /\ seen' = seen /\ position = Len(archive)
    BY <1>9 DEF End
  <2>2. Passed' = Passed /\ PassedFitting' = P
    BY <1>1, <1>3, <1>4, <2>1 DEF Passed, PassedFitting
  <2> QED BY <1>3, <1>5, <2>1, <2>2 DEF RetrieveInv
<1>10. CASE Retrieve
  <2>1. position < Len(archive) /\ position + 1 \in DOMAIN archive /\ position + 1 \in Nat /\ state = "scan"
    BY <1>7, <1>10 DEF Retrieve, Ahead
  <2>2. ~Partly
    BY DEF Partly
  <2>3. \/ RetrievalSkips /\ (~File(Entry) \/ ~Entry.readable)
        \/ RetrieveFile /\ File(Entry) /\ Entry.readable
    BY <1>10, <2>2, Zenon DEF Retrieve, StopRetrieval
  <2>4. CASE RetrievalSkips /\ (~File(Entry) \/ ~Entry.readable)
    <3>1. position' = position + 1 /\ found' = found /\ dropped' = dropped /\ state' = "scan" /\ seen' = seen
      BY <2>1, <2>4 DEF RetrievalSkips, Pass
    <3>2. position + 1 \notin Wants
      BY <2>4 DEF Wants, Entry
    <3>3. PICK N : N = IF position + 1 \in Wants THEN Matching(position + 1) ELSE {}
      OBVIOUS
    <3>4. N = {} /\ Fitting(N) = {}
      BY <3>2, <3>3 DEF Fitting
    <3>5. Passed' = Passed \cup N /\ PassedFitting' = P \cup Fitting(N)
      BY <1>3, <1>4, <2>1, <3>1, <3>3, PassedGrow
    <3>6. Passed' = Passed /\ PassedFitting' = P
      BY <3>4, <3>5
    <3> QED BY <1>3, <1>5, <3>1, <3>6 DEF RetrieveInv
  <2>5. CASE RetrieveFile /\ File(Entry) /\ Entry.readable
    <3>1. position + 1 \in Wants
      BY <2>1, <2>5 DEF Wants, Entry
    <3>2. PICK all : all = Matching(position + 1)
      OBVIOUS
    <3>3. PICK N : N = Fitting(all)
      OBVIOUS
    <3>4. position' = position + 1 /\ state' = "scan"
      BY <2>1, <2>5 DEF RetrieveFile, Pass
    <3>5. /\ Passed' = Passed \cup all /\ PassedFitting' = P \cup N /\ all \in SUBSET A /\ Passed \cap all = {}
      <4>1. all = IF position + 1 \in Wants THEN Matching(position + 1) ELSE {}
        BY <3>1, <3>2
      <4> QED BY <1>1, <1>3, <1>4, <2>1, <3>3, <3>4, <4>1, PassedGrow
    <3>6. N \in SUBSET all /\ N \in SUBSET A /\ IsFiniteSet(N) /\ Cardinality(N) \in Nat
      <4>1. N \in SUBSET all
        BY <3>3 DEF Fitting
      <4>2. N \in SUBSET A
        BY <3>5, <4>1
      <4> QED BY <1>1, <4>1, <4>2, MatchesFinite
    <3>7. PICK M : M = Members(found) \cup N
      OBVIOUS
    <3>8. PICK u : u = BetterFirst(M)
      OBVIOUS
    <3>9. PICK t : t = FirstOf(u, TopK)
      OBVIOUS
    <3>10. found' = t /\ seen' = seen + Cardinality(N) /\ dropped' = (dropped \/ N # all)
      <4>1. t = Cut(Sorted(Members(found) \cup N, Better), TopK)
        BY <3>7, <3>8, <3>9, Zenon DEF FirstOf, Cut, BetterFirst
      <4>2. found' = Cut(Sorted(Members(found) \cup Fitting(Matching(position + 1)), Better), TopK)
        BY <2>5, Zenon DEF RetrieveFile
      <4>3. seen' = seen + Cardinality(N) /\ dropped' = (dropped \/ N # all)
        BY <2>5, <3>2, <3>3, Zenon DEF RetrieveFile
      <4> QED BY <3>2, <3>3, <4>1, <4>2, <4>3, Zenon
    <3>11. M \in SUBSET A
      BY <1>6, <1>8, <3>6, <3>7
    <3>12. u \in Seq(M) /\ Lists(u, R, M) /\ Len(u) = Cardinality(M)
      BY <1>1, <1>2, <3>8, <3>11, SortedLists DEF ListsAll
    <3>13. Orders(R, P \cup N)
      <4>1. P \cup N \subseteq A
        BY <1>6, <3>6
      <4> QED BY <1>6, <4>1, SubsetOrders
    <3>14. /\ t \in Seq(P \cup N) /\ Lists(t, R, P \cup N)
           /\ Len(t) <= TopK /\ (Len(t) = TopK \/ Len(t) = Cardinality(P \cup N))
      <4>1. M = Listed(found) \cup N
        BY <3>7 DEF Members, Listed
      <4>2. IsFiniteSet(P) /\ IsFiniteSet(N) /\ Orders(R, P \cup N) /\ TopK \in Nat
        BY <1>6, <1>8, <3>6, <3>13
      <4>3. found \in Seq(P) /\ Lists(found, R, P) /\ (Len(found) = TopK \/ Len(found) = Cardinality(P))
        BY <1>5
      <4>4. u \in Seq(M) /\ Lists(u, R, M) /\ Len(u) = Cardinality(M) /\ t = FirstOf(u, TopK)
        BY <3>9, <3>12
      <4> QED BY <4>1, <4>2, <4>3, <4>4, FirstOfAll, Z3
    <3>15. Cardinality(P \cup N) = Cardinality(P) + Cardinality(N)
      <4>1. P \cap N = {}
        BY <1>6, <3>5, <3>6
      <4>2. Cardinality(P \cup N) = Cardinality(P) + Cardinality(N) - Cardinality(P \cap N)
        BY <1>6, <3>6, FS_Union
      <4>3. Cardinality(P \cap N) = 0
        BY <4>1, FS_EmptySet
      <4> QED BY <1>6, <3>6, <4>2, <4>3
    <3>16. ~dropped' => P \cup N = Passed'
      BY <1>5, <3>5, <3>10
    <3> QED BY <1>3, <1>5, <3>4, <3>5, <3>10, <3>14, <3>15, <3>16 DEF RetrieveInv
  <2> QED BY <2>3, <2>4, <2>5
<1>11. CASE FitOutput
  <2>1. PICK n \in 0..Len(found) : found' = Cut(found, n) /\ dropped' = (dropped \/ seen > Len(found) \/ n < Len(found))
    BY <1>11 DEF FitOutput
  <2>2. state' = "done" /\ position' = position /\ position = Len(archive)
    BY <1>5, <1>11 DEF FitOutput
  <2>3. P = Fitting(A) /\ Passed = A
    <3>1. \A p \in A : p[1] <= position
      <4>1. \A p \in A : p[1] \in 1..Len(archive)
        BY <1>1, MatchesTyped
      <4> QED BY <1>7, <2>2, <4>1
    <3> QED BY <1>1, <1>4, <1>6, <3>1 DEF Passed, PassedFitting
  <2>4. found' \in Seq(P) /\ Lists(found', R, P)
    <3>1. CASE Len(found) > n
      <4>1. found' = SubSeq(found, 1, n)
        BY <2>1, <3>1 DEF Cut
      <4> QED BY <1>5, <1>6, <2>1, <4>1, BeginningLists
    <3>2. CASE ~(Len(found) > n)
      BY <1>5, <2>1, <3>2 DEF Cut
    <3> QED BY <3>1, <3>2
  <2>5. ASSUME ~dropped' PROVE Len(found') = Cardinality(A)
    <3>1. ~dropped /\ ~(seen > Len(found)) /\ ~(n < Len(found))
      BY <2>1, <2>5
    <3>2. found' = found
      BY <1>8, <2>1, <3>1 DEF Cut
    <3>3. Len(found) <= Cardinality(P)
      BY <1>5, <1>6, ListedPlaces
    <3> QED BY <1>5, <1>6, <1>8, <2>3, <3>1, <3>2, <3>3
  <2> QED BY <1>3, <2>2, <2>3, <2>4, <2>5 DEF RetrieveInv
<1> QED BY <1>9, <1>10, <1>11
-----------------------------------------------------------------------------
\* An extraction adds the files, entry by entry.
LEMMA ExtractStep ==
  ASSUME ArchiveOK, reader = "extract", ExtractInv, Extract \/ FitOutput \/ End
  PROVE  ExtractInv'
<1>1. Wants' = Wants /\ archive' = archive
  BY InputStays DEF Extract, FitOutput, End, input
<1>2. PICK W : W = Wants
  OBVIOUS
<1>3. SUFFICES ASSUME state' # "failed"
      PROVE  /\ state' \in {"scan", "done"} /\ (state' = "done" => position' = Len(archive'))
             /\ found' \in Seq(W \X {0}) /\ Members(found)' = {i \in W : i <= position'} \X {0}
  BY <1>1, <1>2 DEF ExtractInv
<1>4. /\ state = "scan" /\ found \in Seq(W \X {0}) /\ Members(found) = {i \in W : i <= position} \X {0}
  <2>1. state = "scan" \/ state = "output"
    BY DEF Extract, FitOutput, End, Ahead
  <2> QED BY <1>2, <2>1 DEF ExtractInv
<1>5. position \in Nat /\ Len(archive) \in Nat /\ DOMAIN archive = 1..Len(archive)
  BY DEF ArchiveOK
<1>6. CASE End
  <2>1. state' = "done" /\ found' = found /\ position' = position /\ position = Len(archive)
    BY <1>6 DEF End
  <2> QED BY <1>1, <1>4, <2>1 DEF Members
<1>7. CASE FitOutput
  BY <1>4, <1>7 DEF FitOutput
<1>8. CASE Extract
  <2>1. position + 1 \in DOMAIN archive
    BY <1>5, <1>8 DEF Extract, Ahead
  <2>2. /\ position' = position + 1 /\ state' = state
        /\ \/ File(Entry) /\ found' = Append(found, <<position + 1, 0>>)
           \/ ~File(Entry) /\ found' = found
    BY <1>3, <1>8, Zenon DEF Extract, Pass
  <2>3. \A i \in W : i \in Nat
    BY <1>2, <1>5 DEF Wants
  <2>4. CASE ~File(Entry) /\ found' = found
    <3>1. position + 1 \notin W
      BY <1>2, <2>4 DEF Wants, Entry
    <3>2. {i \in W : i <= position + 1} = {i \in W : i <= position}
      BY <1>5, <2>3, <3>1
    <3> QED BY <1>4, <2>2, <2>4, <3>2 DEF Members
  <2>5. CASE File(Entry) /\ found' = Append(found, <<position + 1, 0>>)
    <3>1. position + 1 \in W
      BY <1>2, <2>1, <2>5 DEF Wants, Entry
    <3>2. {i \in W : i <= position + 1} = {i \in W : i <= position} \cup {position + 1}
      BY <1>5, <2>3, <3>1
    <3>3. PICK x : x = <<position + 1, 0>>
      OBVIOUS
    <3>4. PICK S : S = W \X {0}
      OBVIOUS
    <3>5. x \in S /\ found \in Seq(S)
      BY <1>4, <3>1, <3>3, <3>4
    <3>6. /\ Append(found, x) \in Seq(S) /\ Len(found) \in Nat /\ DOMAIN found = 1..Len(found)
          /\ DOMAIN Append(found, x) = 1..(Len(found) + 1)
          /\ \A i \in 1..(Len(found) + 1) : Append(found, x)[i] = IF i = Len(found) + 1 THEN x ELSE found[i]
      BY <3>5
    <3>7. Members(Append(found, x)) = Members(found) \cup {x}
      BY <3>6 DEF Members
    <3>8. Members(found)' = Members(Append(found, x))
      BY <2>5, <3>3 DEF Members
    <3>9. Members(found)' = {i \in W : i <= position + 1} \X {0}
      BY <1>4, <3>2, <3>3, <3>7, <3>8
    <3> QED BY <1>4, <2>2, <2>5, <3>3, <3>4, <3>6, <3>9
  <2> QED BY <2>2, <2>4, <2>5
<1> QED BY <1>6, <1>7, <1>8
-----------------------------------------------------------------------------
\* What a step does whichever reader runs.
LEMMA StepTyped ==
  ASSUME ArchiveOK, ScanTypeOK, ScanNext
  PROVE  ArchiveOK' /\ ScanTypeOK' /\ UNCHANGED input /\ (~partial' => ~partial)
<1>1. UNCHANGED input
  BY DEF ScanNext, Search, Retrieve, FitOutput, Extract, End
<1>2. archive' = archive /\ reader' = reader /\ position \in Nat /\ Len(archive) \in Nat
  BY <1>1 DEF input, ArchiveOK
<1>3. MaxBytes \in Nat /\ MaxScanned \in Nat
  BY ScanAssumption
<1>4. /\ bytes \in Nat /\ bytes <= MaxBytes /\ scanned \in Nat /\ scanned <= MaxScanned /\ seen \in Nat /\ position <= Len(archive)
  BY <1>2, <1>3 DEF ScanTypeOK
<1>5. ASSUME position < Len(archive) PROVE Entry.bytes \in Nat /\ position + 1 \in DOMAIN archive
  <2>1. position + 1 \in DOMAIN archive
    BY <1>2, <1>5 DEF ArchiveOK
  <2> QED BY <2>1, EntriesTyped DEF Entry
<1>6. SUFFICES /\ position' \in {position} \cup (IF position < Len(archive) THEN {position + 1} ELSE {})
               /\ bytes' \in Nat /\ bytes' <= MaxBytes /\ scanned' \in Nat /\ scanned' <= MaxScanned /\ seen' \in Nat
               /\ dropped' \in BOOLEAN /\ partial' \in BOOLEAN /\ state' \in {"scan", "output", "done", "failed"}
               /\ (~partial' => ~partial)
  <2>1. CASE position' = position
    BY <1>1, <1>2, <1>3, <1>4, <1>6, <2>1 DEF ArchiveOK, ScanTypeOK
  <2>2. CASE position < Len(archive) /\ position' = position + 1
    BY <1>1, <1>2, <1>3, <1>4, <1>6, <2>2 DEF ArchiveOK, ScanTypeOK
  <2> QED BY <1>6, <2>1, <2>2
<1>7. CASE Search
  <2>1. position < Len(archive) /\ Entry.bytes \in Nat
    BY <1>5, <1>7 DEF Search, Ahead
  <2>2. CASE StopSearch
    BY <1>4, <2>1, <2>2 DEF StopSearch, Partly, ScanTypeOK
  <2>3. CASE SearchSkips /\ (UNCHANGED partial \/ Partly) /\ (File(Entry) => bytes + Entry.bytes <= MaxBytes)
    <3>1. /\ position' = position + 1 /\ scanned' = scanned /\ seen' = seen /\ dropped' = dropped /\ state' = state
          /\ (partial' = partial \/ partial' = TRUE)
      BY <2>3 DEF SearchSkips, Pass, Partly
    <3>2. bytes' = bytes \/ (bytes' = bytes + Entry.bytes /\ bytes + Entry.bytes <= MaxBytes)
      BY <2>3 DEF SearchSkips
    <3>3. dropped' \in BOOLEAN /\ partial' \in BOOLEAN /\ (~partial' => ~partial)
      BY <3>1, Zenon DEF ScanTypeOK
    <3>4. state' \in {"scan", "output", "done", "failed"}
      BY <3>1 DEF ScanTypeOK
    <3>5. bytes' \in Nat /\ bytes' <= MaxBytes
      BY <1>3, <1>4, <2>1, <3>2
    <3> QED BY <1>4, <2>1, <3>1, <3>3, <3>4, <3>5
  <2>4. CASE SearchFile /\ bytes + Entry.bytes <= MaxBytes /\ scanned < MaxScanned
    <3>1. dropped' \in BOOLEAN /\ state' \in {"scan", "done"}
      BY <2>4 DEF SearchFile
    <3>2. /\ position' = position + 1 /\ bytes' = bytes + Entry.bytes /\ scanned' = scanned + 1
          /\ seen' = seen /\ partial' = partial
      BY <2>4 DEF SearchFile, Pass
    <3> QED BY <1>3, <1>4, <2>1, <2>4, <3>1, <3>2 DEF ScanTypeOK
  <2>5. \/ StopSearch
        \/ SearchSkips /\ UNCHANGED partial /\ ~File(Entry)
        \/ SearchSkips /\ (UNCHANGED partial \/ Partly) /\ ~(bytes + Entry.bytes > MaxBytes)
        \/ SearchFile /\ ~(bytes + Entry.bytes > MaxBytes) /\ ~(scanned >= MaxScanned)
    BY <1>7, Zenon DEF Search, SearchLarge
  <2> QED BY <1>3, <1>4, <2>1, <2>2, <2>3, <2>4, <2>5
<1>8. CASE Retrieve
  <2>1. position < Len(archive) /\ Entry.bytes \in Nat /\ position + 1 \in DOMAIN archive
    BY <1>5, <1>8 DEF Retrieve, Ahead
  <2>2. CASE \E next \in {"failed", "output"} : StopRetrieval(next) /\ (UNCHANGED partial \/ Partly)
    <3>1. PICK next \in {"failed", "output"} : StopRetrieval(next) /\ (UNCHANGED partial \/ Partly)
      BY <2>2
    <3>2. /\ position' = position /\ bytes' = bytes /\ scanned' = scanned /\ seen' = seen /\ dropped' = dropped
          /\ state' \in {"failed", "output"} /\ (partial' = partial \/ partial' = TRUE)
      BY <3>1 DEF StopRetrieval, Partly
    <3>3. dropped' \in BOOLEAN /\ partial' \in BOOLEAN /\ (~partial' => ~partial)
      <4>1. dropped \in BOOLEAN /\ partial \in BOOLEAN
        BY DEF ScanTypeOK
      <4>2. dropped' = dropped /\ (partial' = partial \/ partial' = TRUE)
        BY <3>2
      <4> QED BY <4>1, <4>2, Zenon
    <3> QED BY <1>4, <3>2, <3>3
  <2>3. CASE RetrievalSkips /\ (UNCHANGED partial \/ Partly) /\ bytes + Entry.bytes <= MaxBytes
    <3>1. /\ position' = position + 1 /\ scanned' = scanned /\ seen' = seen /\ dropped' = dropped /\ state' = state
          /\ bytes' = bytes + Entry.bytes /\ (partial' = partial \/ partial' = TRUE)
      BY <2>3 DEF RetrievalSkips, Pass, Partly
    <3>2. dropped' \in BOOLEAN /\ partial' \in BOOLEAN /\ (~partial' => ~partial)
      BY <3>1, Zenon DEF ScanTypeOK
    <3>3. state' \in {"scan", "output", "done", "failed"}
      BY <3>1 DEF ScanTypeOK
    <3>4. bytes' \in Nat /\ bytes' <= MaxBytes
      BY <1>3, <1>4, <2>1, <2>3, <3>1
    <3> QED BY <1>4, <2>1, <3>1, <3>2, <3>3, <3>4
  <2>4. CASE RetrieveFile /\ bytes + Entry.bytes <= MaxBytes /\ scanned < MaxScanned /\ File(Entry) /\ Entry.readable
    <3>1. PICK N : N = Fitting(Matching(position + 1))
      OBVIOUS
    <3>2. N \in SUBSET AllMatches
      <4>1. position + 1 \in Wants
        BY <2>1, <2>4 DEF Wants, Entry
      <4> QED BY <3>1, <4>1 DEF AllMatches, Fitting
    <3>3. Cardinality(N) \in Nat
      BY <3>2, MatchesFinite
    <3>4. dropped' \in BOOLEAN /\ seen' = seen + Cardinality(N)
      BY <2>4, <3>1 DEF RetrieveFile, ScanTypeOK
    <3>5. /\ position' = position + 1 /\ bytes' = bytes + Entry.bytes /\ scanned' = scanned + 1
          /\ state' = state /\ partial' = partial
      BY <2>4 DEF RetrieveFile, Pass
    <3> QED BY <1>3, <1>4, <2>1, <2>4, <3>3, <3>4, <3>5 DEF ScanTypeOK
  <2>5. \/ StopRetrieval("failed") /\ UNCHANGED partial
        \/ StopRetrieval("output") /\ Partly
        \/ RetrievalSkips /\ (UNCHANGED partial \/ Partly) /\ ~(bytes + Entry.bytes > MaxBytes)
        \/ /\ RetrieveFile /\ ~(bytes + Entry.bytes > MaxBytes) /\ ~(scanned >= MaxScanned)
           /\ File(Entry) /\ Entry.readable
    BY <1>8, Zenon DEF Retrieve
  <2> QED BY <1>3, <1>4, <2>1, <2>2, <2>3, <2>4, <2>5
<1>9. CASE FitOutput
  <2>1. dropped' \in BOOLEAN
    BY <1>9 DEF FitOutput, ScanTypeOK
  <2> QED BY <1>4, <1>9, <2>1 DEF FitOutput, ScanTypeOK
<1>10. CASE Extract
  <2>1. position < Len(archive) /\ Entry.bytes \in Nat
    BY <1>5, <1>10 DEF Extract, Ahead
  <2>2. seen' = seen /\ dropped' = dropped /\ partial' = partial
    BY <1>10 DEF Extract
  <2>3. \/ position' = position /\ bytes' = bytes /\ scanned' = scanned /\ state' = "failed"
        \/ position' = position + 1 /\ bytes' = bytes /\ scanned' = scanned /\ state' = state
        \/ /\ position' = position + 1 /\ bytes' = bytes + Entry.bytes /\ scanned' = scanned + 1 /\ state' = state
           /\ ~(bytes + Entry.bytes > MaxBytes) /\ ~(scanned + 1 > MaxScanned)
    BY <1>10, Zenon DEF Extract, Pass
  <2> QED BY <1>3, <1>4, <2>1, <2>2, <2>3 DEF ScanTypeOK
<1>11. CASE End
  BY <1>4, <1>11 DEF End, ScanTypeOK
<1> QED BY <1>7, <1>8, <1>9, <1>10, <1>11 DEF ScanNext

LEMMA ScanInvInit ==
  ASSUME ScanInit PROVE ScanInv
<1>1. archive \in Seq(Entries)
  <2>1. PICK n \in 0..MaxEntries : archive \in [1..n -> Entries]
    BY DEF ScanInit
  <2>2. n \in Nat
    BY ScanAssumption
  <2> QED BY <2>1, <2>2
<1>2. ArchiveOK
  BY <1>1 DEF ScanInit, ArchiveOK
<1>3. position = 0 /\ found = <<>> /\ seen = 0 /\ ~dropped /\ ~partial /\ state = "scan"
  BY DEF ScanInit
<1>4. ScanTypeOK
  <2>1. MaxBytes \in Nat /\ MaxScanned \in Nat /\ Len(archive) \in Nat
    BY <1>1, ScanAssumption
  <2>2. bytes = 0 /\ scanned = 0
    BY DEF ScanInit
  <2>3. dropped \in BOOLEAN /\ partial \in BOOLEAN
    BY DEF ScanInit
  <2>4. position \in 0..Len(archive) /\ bytes \in 0..MaxBytes /\ scanned \in 0..MaxScanned /\ seen \in Nat
    BY <1>3, <2>1, <2>2
  <2> QED BY <1>3, <2>3, <2>4 DEF ScanTypeOK
<1>5. \A p \in AllMatches : ~(p[1] <= 0)
  BY <1>2, MatchesTyped
<1>6. Passed = {} /\ PassedFitting = {}
  BY <1>3, <1>5 DEF Passed, PassedFitting, Fitting
<1>7. /\ DOMAIN found = {} /\ Len(found) = 0 /\ \A S : found \in Seq(S) /\ Members(found) = {}
  BY <1>3 DEF Members
<1>8. \A R, S : Lists(found, R, S)
  BY <1>7 DEF Lists
<1>9. SearchInv
  BY <1>3, <1>6, <1>7, <1>8 DEF SearchInv
<1>10. RetrieveInv
  <2>1. Cardinality({}) = 0
    BY FS_EmptySet
  <2>2. TopK \in Nat
    BY ScanAssumption
  <2> QED BY <1>3, <1>6, <1>7, <1>8, <2>1, <2>2 DEF RetrieveInv
<1>11. ExtractInv
  <2>1. \A i \in Wants : ~(i <= 0)
    BY <1>2 DEF Wants, ArchiveOK
  <2> QED BY <1>3, <1>7, <2>1 DEF ExtractInv
<1> QED BY <1>2, <1>4, <1>9, <1>10, <1>11 DEF ScanInv

LEMMA ScanInvStep ==
  ASSUME ScanInv, [ScanNext]_scanVars PROVE ScanInv'
<1>1. CASE UNCHANGED scanVars
  <2>1. UNCHANGED input
    BY <1>1 DEF scanVars, input
  <2>2. Wants' = Wants /\ AllMatches' = AllMatches /\ Fitting(AllMatches)' = Fitting(AllMatches)
        /\ EarlierIn(AllMatches)' = EarlierIn(AllMatches) /\ BetterIn(AllMatches)' = BetterIn(AllMatches)
    BY <2>1, InputStays
  <2>3. ArchiveOK' = ArchiveOK /\ ScanTypeOK' = ScanTypeOK
    BY <1>1 DEF scanVars, ArchiveOK, ScanTypeOK
  <2>4. SearchInv' = SearchInv /\ RetrieveInv' = RetrieveInv /\ ExtractInv' = ExtractInv
    BY <1>1, <2>2 DEF scanVars, SearchInv, RetrieveInv, ExtractInv, Passed, PassedFitting, Members
  <2> QED BY <1>1, <2>3, <2>4 DEF ScanInv, scanVars
<1>2. CASE ScanNext
  <2>1. ArchiveOK /\ ScanTypeOK
    BY DEF ScanInv
  <2>2. ArchiveOK' /\ ScanTypeOK' /\ UNCHANGED input /\ (~partial' => ~partial)
    BY <1>2, <2>1, StepTyped
  <2>3. reader' = reader
    BY <2>2 DEF input
  <2>4. ASSUME reader = "search", ~partial' PROVE SearchInv'
    <3>1. SearchInv
      BY <2>2, <2>4 DEF ScanInv
    <3>2. Search \/ End
      <4>1. state # "output"
        BY <3>1 DEF SearchInv
      <4> QED BY <1>2, <2>4, <4>1 DEF ScanNext, Retrieve, Extract, FitOutput, Ahead
    <3> QED BY <2>1, <2>4, <3>1, <3>2, SearchStep
  <2>5. ASSUME reader = "retrieve", ~partial', state' # "failed" PROVE RetrieveInv'
    <3>1. Retrieve \/ FitOutput \/ End
      BY <1>2, <2>5 DEF ScanNext, Search, Extract, Ahead
    <3>2. state # "failed"
      BY <3>1 DEF Retrieve, FitOutput, End, Ahead
    <3>3. RetrieveInv
      BY <2>2, <2>5, <3>2 DEF ScanInv
    <3> QED BY <2>1, <2>5, <3>1, <3>2, <3>3, RetrieveStep
  <2>6. ASSUME reader = "extract" PROVE ExtractInv'
    <3>1. Extract \/ FitOutput \/ End
      BY <1>2, <2>6 DEF ScanNext, Search, Retrieve, Ahead
    <3> QED BY <2>1, <2>6, <3>1, ExtractStep DEF ScanInv
  <2> QED BY <2>2, <2>3, <2>4, <2>5, <2>6 DEF ScanInv
<1> QED BY <1>1, <1>2

\* The invariant that the readers keep, for every archive and all limits: after each
\* entry, what a reader has is what it should have of the entries passed.
THEOREM ScanInvariant == ScanSpec => []ScanInv
<1>1. ScanInit => ScanInv
  BY ScanInvInit
<1>2. ScanInv /\ [ScanNext]_scanVars => ScanInv'
  BY ScanInvStep
<1> QED BY <1>1, <1>2, PTL DEF ScanSpec

\* A sequence that lists a set is a beginning of the one that has it all.
LEMMA ListedIsCut ==
  ASSUME NEW S, IsFiniteSet(S), NEW R, Orders(R, S), NEW s \in Seq(S), Lists(s, R, S), NEW u, ListsAll(u, R, S)
  PROVE  s = Cut(u, Len(s))
<1>1. u \in Seq(S) /\ Lists(u, R, S) /\ Len(u) = Cardinality(S) /\ Len(s) \in Nat /\ Len(u) \in Nat
  BY DEF ListsAll
<1>2. Len(s) <= Len(u)
  BY <1>1, ListedPlaces
<1>3. CASE Len(u) > Len(s)
  <2>1. PICK t : t = SubSeq(u, 1, Len(s))
    OBVIOUS
  <2>2. Len(s) \in 0..Len(u)
    BY <1>1, <1>2
  <2>3. t \in Seq(S) /\ Lists(t, R, S)
    BY <1>1, <2>1, <2>2, BeginningLists
  <2>4. Len(t) = Len(s)
    BY <1>1, <1>2, <2>1
  <2>5. s = t
    BY <2>3, <2>4, ListsAreUnique
  <2> QED BY <1>3, <2>1, <2>5 DEF Cut
<1>4. CASE ~(Len(u) > Len(s))
  <2>1. Len(u) = Len(s)
    BY <1>1, <1>2, <1>4
  <2>2. s = u
    BY <1>1, <2>1, ListsAreUnique
  <2> QED BY <1>4, <2>2 DEF Cut
<1> QED BY <1>3, <1>4

\* For every archive and all limits, an answer of search_references or retrieve_code, or an
\* extraction for the static checks, that is not marked as incomplete is complete.
THEOREM ArchiveCompleteness == ScanSpec => []UntruncatedIsComplete
<1>1. ASSUME ScanInv PROVE UntruncatedIsComplete
  <2>1. SUFFICES ASSUME state = "done", ~partial
        PROVE CASE reader = "search"   -> /\ found = Cut(EarlierFirst(AllMatches), Len(found))
                                          /\ ~dropped => Len(found) = Cardinality(AllMatches)
                [] reader = "retrieve" -> /\ found = Cut(BetterFirst(Fitting(AllMatches)), Len(found))
                                          /\ ~dropped => Len(found) = Cardinality(AllMatches)
                [] OTHER -> Members(found) = Wants \X {0}
    BY Zenon DEF UntruncatedIsComplete, EarlierFirst, BetterFirst
  <2>2. ArchiveOK
    BY <1>1 DEF ScanInv
  <2>3. CASE reader = "search"
    <3>1. SearchInv
      BY <1>1, <2>1, <2>3 DEF ScanInv
    <3>2. /\ found \in Seq(AllMatches) /\ Lists(found, EarlierIn(AllMatches), AllMatches)
          /\ ~dropped => position = Len(archive) /\ \A p \in Passed : \E k \in DOMAIN found : found[k] = p
      BY <2>1, <3>1 DEF SearchInv
    <3>3. IsFiniteSet(AllMatches) /\ Orders(EarlierIn(AllMatches), AllMatches)
      BY <2>2, MatchesFinite, MatchesOrdered
    <3>4. ListsAll(EarlierFirst(AllMatches), EarlierIn(AllMatches), AllMatches)
      BY <2>2, SortedLists
    <3>5. found = Cut(EarlierFirst(AllMatches), Len(found))
      BY <3>2, <3>3, <3>4, ListedIsCut
    <3>6. ASSUME ~dropped PROVE Len(found) = Cardinality(AllMatches)
      <4>1. \A p \in AllMatches : p[1] <= position
        BY <2>2, <3>2, <3>6, MatchesTyped DEF ArchiveOK
      <4>2. \A p \in AllMatches : \E k \in DOMAIN found : found[k] = p
        BY <3>2, <3>6, <4>1 DEF Passed
      <4> QED BY <3>2, <3>3, <4>2, ListedPlaces
    <3> QED BY <2>3, <3>5, <3>6
  <2>4. CASE reader = "retrieve"
    <3>1. RetrieveInv
      BY <1>1, <2>1, <2>4 DEF ScanInv
    <3>2. PICK F : F = Fitting(AllMatches)
      OBVIOUS
    <3>3. /\ found \in Seq(F) /\ Lists(found, BetterIn(AllMatches), F)
          /\ ~dropped => Len(found) = Cardinality(AllMatches)
      BY <2>1, <3>1, <3>2 DEF RetrieveInv
    <3>4. F \in SUBSET AllMatches
      BY <3>2 DEF Fitting
    <3>5. IsFiniteSet(F) /\ Orders(BetterIn(AllMatches), F)
      BY <2>2, <3>4, MatchesFinite, MatchesOrdered, SubsetOrders
    <3>6. ListsAll(BetterFirst(F), BetterIn(AllMatches), F)
      BY <2>2, <3>4, SortedLists
    <3>7. found = Cut(BetterFirst(F), Len(found))
      BY <3>3, <3>5, <3>6, ListedIsCut
    <3> QED BY <2>4, <3>2, <3>3, <3>7
  <2>5. CASE reader # "search" /\ reader # "retrieve"
    <3>1. reader = "extract" /\ ExtractInv
      BY <1>1, <2>2, <2>5 DEF ScanInv, ArchiveOK
    <3>2. Members(found) = {i \in Wants : i <= position} \X {0} /\ position = Len(archive)
      BY <2>1, <3>1 DEF ExtractInv
    <3>3. \A i \in Wants : i <= position
      BY <2>2, <3>2 DEF Wants, ArchiveOK
    <3> QED BY <2>5, <3>2, <3>3
  <2> QED BY <2>3, <2>4, <2>5
<1> QED BY <1>1, ScanInvariant, PTL
=============================================================================
