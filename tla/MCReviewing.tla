---------------------------- MODULE MCReviewing ----------------------------
(***************************************************************************)
(* The parts of one review, and of its evaluation, that share no state:    *)
(* each behaviour is one of one of them, while the others stand where they *)
(* take no step.                                                           *)
(***************************************************************************)
EXTENDS AgentLoop, DiffLines, CodeContext, ReviewInputs, Toolkit, ArchiveScan, EvalScoring

CONSTANTS k1, k2
TwoCalls == {k1, k2}
ReadOnly == {k1}
FirstRead == <<k1>>

HunkHeaders == {<<1, 1, 2>>, <<4, 2, 1>>, <<0, 1, 0>>}

\* No definition, or two.
Pairs == {{}} \cup {{<<a, b, "f">>, <<c, d, "g">>} : a, b, c, d \in 1..FileLines}
SymbolSets == {defs \in Pairs : \A d \in defs : d[1] <= d[2]}

Changed(n, isDocs, gives) == [lines |-> n, docs |-> isDocs, read |-> gives]
FileKinds == {Changed(1, TRUE, "text"), Changed(2, FALSE, "text"), Changed(1, FALSE, "error"),
              Changed(1, FALSE, "other"), Changed(0, FALSE, "blank")}
FileLists == UNION {[1..n -> FileKinds] : n \in 0..5}

ContentSizes == <<0, 1, 2, 3, 4>>

Item(is, wanted, size, chunks, tooLong) ==
  [kind |-> is, readable |-> wanted, bytes |-> size, scores |-> chunks, long |-> tooLong]
ArchiveItems == {Item("file", TRUE, 1, <<1, 0, 2>>, {}), Item("file", TRUE, 1, <<2, 1>>, {1}), Item("file", TRUE, 3, <<1>>, {}),
                 Item("file", FALSE, 2, <<1>>, {}), Item("dir", FALSE, 0, <<>>, {}), Item("link", FALSE, 0, <<>>, {})}

Expects(n, sort, also) == [file |-> "f", line |-> n, category |-> sort, accepted |-> also]
Predicts(in, n, sort) == [file |-> in, line |-> n, category |-> sort]
ExpectedKinds == {Expects(0, "bug", {}), Expects(4, "bug", {<<"g", 2>>}), Expects(7, "bug", {}), Expects(7, "style", {})}
PredictedKinds == {Predicts("f", 1, "bug"), Predicts("f", 5, "bug"), Predicts("f", 5, "style"),
                   Predicts("f", 10, "bug"), Predicts("g", 2, "bug")}
-----------------------------------------------------------------------------
AgentAtRest ==
  /\ phase = "failed" /\ round = 0 /\ remaining = MaxToolOutput /\ rejected = 0 /\ cache = {}
  /\ pending = <<>> /\ shown = {} /\ shownBytes = 0 /\ cited = {} /\ corpus = {}
  /\ providerCalls = 0 /\ answer = NoAnswer

DiffAtRest ==
  /\ patch = [i \in 1..MaxPatch |-> [kind |-> "empty", hunk |-> <<0, 0, 0>>]]
  /\ next = 0 /\ oldLeft = 0 /\ newLeft = 0 /\ quoted = {} /\ rawNext = 0 /\ rawQuoted = {}
  /\ changedNext = 0 /\ changedLines = {}

ContextAtRest ==
  /\ targets = {} /\ symbols = <<>> /\ maxLines = 1 /\ remainingLines = 1
  /\ snippets = <<>> /\ cut = FALSE /\ built = TRUE

InputsAtRest ==
  /\ mode = "legacy" /\ all = <<>> /\ files = <<>> /\ truncated = FALSE /\ stage = "failed" /\ diff = <<>> /\ diffCut = FALSE /\ linesLeft = MaxDiffLines
  /\ nextFile = 0 /\ batch = <<>> /\ arrived = <<>> /\ contents = <<>> /\ cancelled = FALSE

ToolkitAtRest ==
  /\ head = MaxPushes /\ pr = 0 /\ listed = FALSE /\ held = {} /\ heldBytes = 0
  /\ tarball = NoArchive /\ tempFiles = {} /\ leftover = {} /\ created = 0 /\ workdir = FALSE /\ strayDir = FALSE
  /\ todo = <<>> /\ opened = NoArchive /\ released = TRUE

ScanAtRest ==
  /\ reader = "search" /\ archive = <<>> /\ broken = 0 /\ position = 0 /\ bytes = 0 /\ scanned = 0
  /\ found = <<>> /\ seen = 0 /\ dropped = FALSE /\ partial = FALSE /\ state = "failed"

ScoringAtRest ==
  /\ expected = <<>> /\ predicted = <<>> /\ scored = 0 /\ matched = <<>> /\ located = 0
  /\ chain = <<>> /\ visited = {} /\ pairs = {} /\ misplaced = {}
-----------------------------------------------------------------------------
Init ==
  \/ AgentInit   /\ DiffAtRest /\ ContextAtRest /\ InputsAtRest /\ ToolkitAtRest /\ ScanAtRest /\ ScoringAtRest
  \/ AgentAtRest /\ DiffInit   /\ ContextAtRest /\ InputsAtRest /\ ToolkitAtRest /\ ScanAtRest /\ ScoringAtRest
  \/ AgentAtRest /\ DiffAtRest /\ ContextInit   /\ InputsAtRest /\ ToolkitAtRest /\ ScanAtRest /\ ScoringAtRest
  \/ AgentAtRest /\ DiffAtRest /\ ContextAtRest /\ InputsInit   /\ ToolkitAtRest /\ ScanAtRest /\ ScoringAtRest
  \/ AgentAtRest /\ DiffAtRest /\ ContextAtRest /\ InputsAtRest /\ ToolkitInit   /\ ScanAtRest /\ ScoringAtRest
  \/ AgentAtRest /\ DiffAtRest /\ ContextAtRest /\ InputsAtRest /\ ToolkitAtRest /\ ScanInit   /\ ScoringAtRest
  \/ AgentAtRest /\ DiffAtRest /\ ContextAtRest /\ InputsAtRest /\ ToolkitAtRest /\ ScanAtRest /\ ScoringInit

Next ==
  \/ AgentNext   /\ UNCHANGED <<diffVars, contextVars, inputVars, toolkitVars, scanVars, scoringVars>>
  \/ DiffNext    /\ UNCHANGED <<agentVars, contextVars, inputVars, toolkitVars, scanVars, scoringVars>>
  \/ ContextNext /\ UNCHANGED <<agentVars, diffVars, inputVars, toolkitVars, scanVars, scoringVars>>
  \/ InputsNext  /\ UNCHANGED <<agentVars, diffVars, contextVars, toolkitVars, scanVars, scoringVars>>
  \/ ToolkitNext /\ UNCHANGED <<agentVars, diffVars, contextVars, inputVars, scanVars, scoringVars>>
  \/ ScanNext    /\ UNCHANGED <<agentVars, diffVars, contextVars, inputVars, toolkitVars, scoringVars>>
  \/ ScoringNext /\ UNCHANGED <<agentVars, diffVars, contextVars, inputVars, toolkitVars, scanVars>>

Reviewing == Init /\ [][Next]_<<agentVars, diffVars, contextVars, inputVars, toolkitVars, scanVars, scoringVars>>
=============================================================================
