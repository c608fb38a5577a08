----------------------------- MODULE DiffLines -----------------------------
(***************************************************************************)
(* The three readers of a unified diff, which number the lines of the new  *)
(* file: patchEvidence checks a quote in a diff tool's answer, the older   *)
(* diffReferenceEvidence one in raw text, and changedLinesForPath finds    *)
(* the lines to show.  A step is one pass through all three loops, on the  *)
(* next line of the patch.  A line is told by its kind, its text by its    *)
(* position in the patch.                                                  *)
(***************************************************************************)
EXTENDS Naturals, Sequences, FiniteSets

CONSTANTS Hunks,    \* <<start, old, new>>: new side's first line, lines of both sides
          MaxPatch  \* bound on the lines of a patch

ASSUME DiffAssumption == Hunks \subseteq Nat \X Nat \X Nat /\ MaxPatch \in Nat

VARIABLES
  patch,                     \* the lines read so far
  next, oldLeft, newLeft,    \* patchEvidence: oldRemaining, newRemaining
  quoted,                    \* <<number, position>> of each line it accepts a quote of
  rawNext, rawQuoted,        \* the same of diffReferenceEvidence
  changedNext, changedLines  \* changedLinesForPath

evidenceVars == <<next, oldLeft, newLeft, quoted>>
rawVars == <<rawNext, rawQuoted>>
changedVars == <<changedNext, changedLines>>
diffVars == <<patch, evidenceVars, rawVars, changedVars>>

\* An added line whose text starts with "++" and a removed one with "--" look like file headers.
Kinds == {"hunk", "badHunk", "+", "+++", "-", "---", "context", "noNewline", "empty"}
Line == [kind : Kinds \ {"hunk", "badHunk"}, hunk : {<<0, 0, 0>>}] \cup [kind : {"hunk", "badHunk"}, hunk : Hunks]
Added == {"+", "+++"}
Removed == {"-", "---"}
-----------------------------------------------------------------------------
\* patchEvidence's loop.  Whatever does not fit the hunk's counts ends the hunk.
Stop == next' = 0 /\ UNCHANGED <<oldLeft, newLeft, quoted>>

\* Mutant: the counts of the hunk header are not kept.
EvidenceUncounted(line) ==
  IF line.kind \in Added \cup {"context"} THEN
     /\ next' = next + 1 /\ quoted' = quoted \cup {<<next, Len(patch) + 1>>}
     /\ UNCHANGED <<oldLeft, newLeft>>
  ELSE UNCHANGED evidenceVars

EvidenceInHunk(line) ==
  LET old == line.kind \in Removed \cup {"context"}
      new == line.kind \in Added \cup {"context"}
  IN IF (old /\ oldLeft = 0) \/ (new /\ newLeft = 0) THEN Stop
     ELSE /\ oldLeft' = IF old THEN oldLeft - 1 ELSE oldLeft
          /\ IF new THEN /\ newLeft' = newLeft - 1 /\ next' = next + 1
                         /\ quoted' = quoted \cup {<<next, Len(patch) + 1>>}
             ELSE UNCHANGED <<next, newLeft, quoted>>

\* A hunk that starts at line 0 adds nothing.
Starts(line) == line.kind = "hunk" /\ (line.hunk[1] = 0 => line.hunk[3] = 0)

ReadEvidence(line) ==
  CASE Starts(line) -> /\ next' = line.hunk[1] /\ oldLeft' = line.hunk[2] /\ newLeft' = line.hunk[3]
                       /\ UNCHANGED quoted
    [] line.kind \in {"hunk", "badHunk"} /\ ~Starts(line) ->
         next' = 0 /\ oldLeft' = 0 /\ newLeft' = 0 /\ UNCHANGED quoted
    [] line.kind = "noNewline" -> UNCHANGED evidenceVars
    [] line.kind = "empty" -> Stop
    [] OTHER -> IF next = 0 THEN UNCHANGED evidenceVars ELSE EvidenceInHunk(line)

\* diffReferenceEvidence's loop: "+++" and "---" are skipped and not counted.
ReadRaw(line) ==
  CASE line.kind \in {"hunk", "badHunk"} -> rawNext' = line.hunk[1] /\ UNCHANGED rawQuoted
    [] line.kind \in {"+", "context"} /\ rawNext > 0 ->
         rawNext' = rawNext + 1 /\ rawQuoted' = rawQuoted \cup {<<rawNext, Len(patch) + 1>>}
    [] OTHER -> UNCHANGED rawVars

\* Mutant: a removed line is counted.
CountsLine(line) == line.kind \in {"-", "context", "empty"}
Counts(line) == line.kind \in {"context", "empty"}

\* changedLinesForPath's loop.
ReadChanged(line) ==
  CASE line.kind \in {"hunk", "badHunk"} -> changedNext' = line.hunk[1] /\ UNCHANGED changedLines
    [] line.kind = "+" -> /\ changedNext' = changedNext + 1
                          /\ changedLines' = IF changedNext > 0 THEN changedLines \cup {changedNext} ELSE changedLines
    [] Counts(line) -> changedNext' = changedNext + 1 /\ UNCHANGED changedLines
    [] OTHER -> UNCHANGED changedVars
-----------------------------------------------------------------------------
DiffInit ==
  /\ patch = <<>>
  /\ next = 0 /\ oldLeft = 0 /\ newLeft = 0 /\ quoted = {}
  /\ rawNext = 0 /\ rawQuoted = {}
  /\ changedNext = 0 /\ changedLines = {}

ReadLine(line) == /\ Len(patch) < MaxPatch /\ patch' = Append(patch, line)
                  /\ ReadEvidence(line) /\ ReadRaw(line) /\ ReadChanged(line)

DiffNext == \E line \in Line : ReadLine(line)
DiffSpec == DiffInit /\ [][DiffNext]_diffVars
-----------------------------------------------------------------------------
\* The format, without reference to the readers: the hunk of a line, the lines of
\* one side before it in that hunk, and its number in the new file.
HunkOf(i) == CHOOSE h \in 0..i : /\ h # 0 => patch[h].kind \in {"hunk", "badHunk"}
                                 /\ \A j \in (h + 1)..i : patch[j].kind \notin {"hunk", "badHunk"}
Side(i, kinds) == Cardinality({j \in HunkOf(i)..i : j # 0 /\ patch[j].kind \in kinds})
NewLine(i) == patch[i].kind \in Added \cup {"context"}
Number(i) == patch[HunkOf(i)].hunk[1] + Side(i, Added \cup {"context"}) - 1

\* The hunk is one, and every line of it up to i is a line of the diff within its counts.
Fits(i) ==
  /\ HunkOf(i) # 0 /\ patch[HunkOf(i)].kind = "hunk"
  /\ LET h == patch[HunkOf(i)].hunk
     IN /\ h[1] = 0 => h[3] = 0
        /\ \A j \in HunkOf(i)..i : /\ patch[j].kind # "empty"
                                  /\ Side(j, Removed \cup {"context"}) <= h[2] /\ Side(j, Added \cup {"context"}) <= h[3]
Source == {<<Number(i), i>> : i \in {j \in DOMAIN patch : NewLine(j) /\ Fits(j)}}

\* What git and GitHub write, possibly cut off after any line.
WellFormed ==
  \A i \in DOMAIN patch :
    /\ Fits(i)
    /\ patch[i].kind = "noNewline" => patch[i - 1].kind \notin {"hunk", "noNewline"}
Headerlike == \E i \in DOMAIN patch : patch[i].kind \in {"+++", "---"}
-----------------------------------------------------------------------------
DiffTypeOK ==
  /\ patch \in Seq(Line) /\ Len(patch) <= MaxPatch
  /\ next \in Nat /\ oldLeft \in Nat /\ newLeft \in Nat /\ rawNext \in Nat /\ changedNext \in Nat
  /\ quoted \subseteq Nat \X Nat /\ rawQuoted \subseteq Nat \X Nat /\ changedLines \subseteq Nat

\* A quote is accepted at the line where the new file has it and nowhere else, and no
\* line outside a hunk or past its counts is taken for a line of the file: for every
\* input, cut off or broken in any way.
EvidenceIsExact == quoted = Source

\* The three readers number the lines alike, as long as no line looks like a file
\* header: the lines shown to the model are those whose quotes are accepted.
ReadersAgree ==
  WellFormed /\ ~Headerlike =>
    /\ rawQuoted = quoted
    /\ changedLines = {Number(i) : i \in {j \in DOMAIN patch : patch[j].kind = "+"}}
=============================================================================
