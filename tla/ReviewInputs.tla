---------------------------- MODULE ReviewInputs ----------------------------
(***************************************************************************)
(* What a review looks at: the pages of the changed files, the decision to *)
(* skip a documentation-only pull request, and the diff under its line     *)
(* limit.  In the legacy mode the diff is part of the prompt, followed by  *)
(* the file contents, which are fetched in batches of goroutines; in the   *)
(* tool-calling mode the model asks for the diff and no content is fetched *)
(* for it.  The two modes limit the diff in different ways.                *)
(***************************************************************************)
EXTENDS Integers, Sequences, FiniteSets

CONSTANTS PullRequests,     \* sequences of changed files, as GitHub has them
          PageSize, MaxPages,
          MaxDiffLines,
          MaxFileContexts,
          FetchConcurrency

\* A file: its patch's lines, whether it is documentation, and what reading it gives:
\* "text", "blank", or "error"; "other" for an extension that is not read.
ASSUME InputsAssumption ==
  /\ \A pr \in PullRequests : pr \in Seq([lines : Nat, docs : BOOLEAN, read : {"text", "blank", "error", "other"}])
  /\ PageSize \in Nat \ {0} /\ MaxPages \in Nat \ {0} /\ MaxDiffLines \in Nat \ {0}
  /\ MaxFileContexts \in Nat /\ FetchConcurrency \in Nat \ {0}

VARIABLES
  mode,       \* AGENT_MODE, "legacy" or "tool_calling"; no step changes it
  all,        \* the changed files of the pull request
  files,      \* those that the client has listed
  truncated,  \* the list may not be complete
  stage,      \* "list", "probe", "diff", "fetch", "ready", "shown", "skipped" or "failed"
  diff,       \* lines shown of the patch of each file
  diffCut,    \* the diff is marked as truncated
  linesLeft,  \* fullDiff: remaining; buildDiff: the limit less lineCount
  nextFile,   \* files looked at for their contents
  batch,      \* the files of this batch, in order
  arrived,    \* those of them that have been read, in the order of the answers
  contents,   \* files whose content the model gets, in order
  cancelled

inputVars == <<mode, all, files, truncated, stage, diff, diffCut, linesLeft, nextFile, batch, arrived, contents, cancelled>>
listVars == <<mode, all, files, truncated>>
diffParts == <<diff, diffCut, linesLeft>>
fetchVars == <<nextFile, batch, arrived, contents, cancelled>>

Largest(a, b) == IF a < b THEN b ELSE a
Smallest(a, b) == IF a < b THEN a ELSE b
Goes(from, to) == stage = from /\ stage' = to
\* The numbers of a finite set, upwards.
InOrder(S) == [k \in 1..Cardinality(S) |-> CHOOSE n \in S : Cardinality({m \in S : m < n}) = k - 1]
-----------------------------------------------------------------------------
\* isDocsOnlyPR and its callers: an incomplete list does not support the conclusion.
AfterList(list, cut) == IF ~cut /\ \A i \in DOMAIN list : list[i].docs THEN "skipped" ELSE "diff"

\* One page of GetPullRequestFiles.
ListPage ==
  LET upTo == Smallest(Len(files) + PageSize, Len(all))
  IN /\ stage = "list"
     /\ files' = SubSeq(all, 1, upTo)
     /\ stage' = IF upTo < Len(files) + PageSize THEN AfterList(files', FALSE)
                 ELSE IF upTo = MaxPages * PageSize THEN "probe" ELSE "list"
  /\ UNCHANGED <<mode, all, truncated, diffParts, fetchVars>>

ListFails == Goes("list", "failed") /\ UNCHANGED <<listVars, diffParts, fetchVars>>

\* Mutant: a probe that fails counts as a complete list.
ProbeLeniently ==
  /\ truncated' \in {Len(files) < Len(all), FALSE}
  /\ Goes("probe", AfterList(files, truncated'))
  /\ UNCHANGED <<mode, all, files, diffParts, fetchVars>>

\* confirmMorePullRequestFiles: beyond the last page, or unknown.
Probe ==
  /\ truncated' \in {Len(files) < Len(all), TRUE}
  /\ Goes("probe", AfterList(files, truncated'))
  /\ UNCHANGED <<mode, all, files, diffParts, fetchVars>>
-----------------------------------------------------------------------------
NextPatch == files[Len(diff) + 1].lines
MorePatches == stage = "diff" /\ Len(diff) < Len(files) /\ ~diffCut

\* One pass of buildDiff's loop: a patch is shown whole, and an empty one counts as a line.
AppendPatch ==
  /\ mode = "legacy" /\ MorePatches
  /\ \/ linesLeft <= 0 /\ diffCut' = TRUE /\ UNCHANGED <<diff, linesLeft>>
     \/ /\ linesLeft > 0 /\ diff' = Append(diff, NextPatch)
        /\ linesLeft' = linesLeft - Largest(NextPatch, 1)
        /\ UNCHANGED diffCut
  /\ UNCHANGED <<listVars, stage, fetchVars>>

\* One pass of fullDiff's loop: the patch that reaches the limit is cut.
AddPatch ==
  /\ mode = "tool_calling" /\ MorePatches
  /\ LET used == Smallest(NextPatch, linesLeft)
     IN /\ diffCut' = (linesLeft = 0 \/ NextPatch > linesLeft)
        /\ diff' = IF linesLeft = 0 THEN diff ELSE Append(diff, used)
        /\ linesLeft' = linesLeft - used
  /\ UNCHANGED <<listVars, stage, fetchVars>>

DiffDone == /\ Len(diff) = Len(files) \/ diffCut
            /\ Goes("diff", IF mode = "legacy" THEN "fetch" ELSE "shown")
            /\ UNCHANGED <<listVars, diffParts, fetchVars>>
-----------------------------------------------------------------------------
Wanted == Len(contents) < MaxFileContexts /\ nextFile < Len(files) /\ ~cancelled
\* The positions of the next files with a readable extension, as many as a batch takes.
Selection ==
  LET size == Smallest(FetchConcurrency, MaxFileContexts - Len(contents))
      readable == {i \in DOMAIN files : i > nextFile /\ files[i].read # "other"}
  IN SubSeq(InOrder(readable), 1, Smallest(size, Cardinality(readable)))

StartBatch ==
  /\ stage = "fetch" /\ batch = <<>> /\ Wanted
  /\ batch' = Selection
  /\ nextFile' = IF Len(batch') < Smallest(FetchConcurrency, MaxFileContexts - Len(contents))
                 THEN Len(files) ELSE batch'[Len(batch')]
  /\ UNCHANGED <<listVars, stage, diffParts, arrived, contents, cancelled>>

\* A goroutine ends.  When the context is cancelled it gives up, or had its answer just before.
FetchEnds(i) ==
  /\ \E k \in DOMAIN batch : batch[k] = i
  /\ \A k \in DOMAIN arrived : arrived[k] # <<i, TRUE>> /\ arrived[k] # <<i, FALSE>>
  /\ \E ok \in {files[i].read = "text", files[i].read = "text" /\ ~cancelled} : arrived' = Append(arrived, <<i, ok>>)
  /\ UNCHANGED <<listVars, stage, diffParts, nextFile, batch, contents, cancelled>>

\* Mutant: the contents are appended as the answers come in.
AsArrived == [k \in DOMAIN arrived |-> arrived[k][1]]
ListOrder == batch
Read(i) == \E k \in DOMAIN arrived : arrived[k] = <<i, TRUE>>

\* wg.Wait, then the contents that were read.
JoinBatch ==
  /\ batch # <<>> /\ Len(arrived) = Len(batch)
  /\ LET kept == InOrder({k \in DOMAIN ListOrder : Read(ListOrder[k])})
     IN contents' = contents \o [k \in DOMAIN kept |-> ListOrder[kept[k]]]
  /\ batch' = <<>> /\ arrived' = <<>>
  /\ UNCHANGED <<listVars, stage, diffParts, nextFile, cancelled>>

FetchDone == /\ batch = <<>> /\ ~Wanted
             /\ Goes("fetch", "ready")
             /\ UNCHANGED <<listVars, diffParts, fetchVars>>

Cancel == /\ stage = "fetch" /\ ~cancelled /\ cancelled' = TRUE
          /\ UNCHANGED <<listVars, stage, diffParts, nextFile, batch, arrived, contents>>
-----------------------------------------------------------------------------
InputsInit ==
  /\ mode \in {"legacy", "tool_calling"}
  /\ all \in PullRequests /\ files = <<>> /\ truncated = FALSE /\ stage = "list"
  /\ diff = <<>> /\ diffCut = FALSE /\ linesLeft = MaxDiffLines
  /\ nextFile = 0 /\ batch = <<>> /\ arrived = <<>> /\ contents = <<>> /\ cancelled = FALSE

InputsNext == \/ ListPage \/ ListFails \/ Probe \/ AppendPatch \/ AddPatch \/ DiffDone
              \/ StartBatch \/ JoinBatch \/ FetchDone \/ Cancel
              \/ \E i \in DOMAIN files : FetchEnds(i)
InputsSpec == InputsInit /\ [][InputsNext]_inputVars
-----------------------------------------------------------------------------
\* The lines shown of the first n files.
ShownOf(n) == UNION {{i} \X (1..diff[i]) : i \in 1..n}

\* A review skips only a pull request without code.  A diff that is marked neither as
\* truncated nor as of an incomplete list has every line of every file.  What the model
\* reads with a tool keeps to the limit; in the prompt patches are whole and only the
\* last one shown may go past it.
DiffIsComplete ==
  /\ stage = "skipped" => \A i \in DOMAIN all : all[i].docs
  /\ stage \in {"fetch", "ready", "shown"} /\ ~diffCut /\ ~truncated => diff = [i \in DOMAIN all |-> all[i].lines]
  /\ mode = "tool_calling" => Cardinality(ShownOf(Len(diff))) <= MaxDiffLines
  /\ mode = "legacy" => /\ \A i \in DOMAIN diff : diff[i] = files[i].lines
                        /\ diff # <<>> => Cardinality(ShownOf(Len(diff) - 1)) < MaxDiffLines

\* Whatever order the answers come in and however many files cannot be read, the model
\* gets the first MaxFileContexts contents in the order of the list; less when cancelled.
ContextsInOrder ==
  stage = "ready" =>
    LET text == InOrder({i \in DOMAIN files : files[i].read = "text"})
    IN /\ \A j, k \in DOMAIN contents : j < k => contents[j] < contents[k]
       /\ ~cancelled => contents = SubSeq(text, 1, Smallest(Len(text), MaxFileContexts))
=============================================================================
