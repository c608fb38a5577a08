----------------------------- MODULE AgentLoop -----------------------------
(***************************************************************************)
(* One review by the agent: rounds of tool calls under a budget of steps   *)
(* and of output bytes, a cache of read-only calls, the forced last        *)
(* answer, its validation with one repair, and the findings that survive.  *)
(* What a tool reads is external: a call has an output of some size.       *)
(***************************************************************************)
EXTENDS Naturals, Sequences, FiniteSets

CONSTANTS Calls,          \* tool calls: a name with its normalised arguments
          Cacheable,      \* those of a read-only tool, with valid JSON arguments
          InitialCalls,   \* the read of go.mod, or nothing
          MaxRound,       \* bound on the tool calls of one answer of the model
          MaxSteps, MaxToolOutput, LowBudget, Sizes

ASSUME AgentAssumption ==
  /\ Cacheable \subseteq Calls /\ InitialCalls \in Seq(Calls)
  /\ MaxRound \in Nat \ {0} /\ MaxSteps \in Nat \ {0} /\ MaxToolOutput \in Nat
  /\ LowBudget \in Nat /\ Sizes \subseteq Nat

VARIABLES
  phase,      \* what Run does next
  round,      \* model rounds begun: the loop's step
  remaining,  \* output bytes left
  rejected,   \* outputs refused in a row
  cache,      \* calls with a cached result
  pending,    \* calls of this round still to execute
  shown,      \* calls whose output is in the messages
  shownBytes, \* their sizes, added up
  cited,      \* calls that a "Duplicate read" reply refers to
  corpus,     \* calls whose output is in toolOutputs
  providerCalls,
  answer      \* the content Run returns

agentVars == <<phase, round, remaining, rejected, cache, pending, shown, shownBytes, cited, corpus, providerCalls, answer>>
budget == <<remaining, rejected, cache, shown, shownBytes, cited, corpus>>

\* A finding quotes a call's output: at the lines it claims, elsewhere in that output, or it is made up.
Findings == Calls \X {"placed", "misplaced", "invented"}
Answers == [json : BOOLEAN, findings : SUBSET Findings]
NoAnswer == [json |-> FALSE, findings |-> {}]
Phases == {"tools", "ask", "final", "repair", "done", "failed"}

Exhausted == remaining <= LowBudget \/ rejected >= 2
-----------------------------------------------------------------------------
\* Evidence is looked up in toolOutputs only.
Supported(f) == f[1] \in corpus /\ f[2] = "placed"
Genuine(f) == f[1] \in corpus /\ f[2] = "misplaced"

\* validateReviewCandidate: made-up evidence passes, a genuine quote elsewhere does not.
Valid(a) == a.json /\ \A f \in a.findings : ~Genuine(f)
\* normalizeFindings: what is posted.
Normalized(a) == {f \in a.findings : Supported(f)}
-----------------------------------------------------------------------------
\* Mutant: an output is cached before it is weighed.
ExecuteCachingFirst(c) ==
  /\ ~Exhausted /\ UNCHANGED cited
  /\ cache' = IF c \in Cacheable THEN cache \cup {c} ELSE cache
  /\ \E n \in Sizes :
       \/ n > remaining /\ rejected' = rejected + 1 /\ UNCHANGED <<remaining, shown, shownBytes, corpus>>
       \/ /\ n <= remaining /\ rejected' = 0 /\ remaining' = remaining - n
          /\ shown' = shown \cup {c} /\ shownBytes' = shownBytes + n /\ corpus' = corpus \cup {c}

\* The tool runs: its output is shown, cached and kept as evidence, or refused whole.
Execute(c) ==
  /\ ~Exhausted /\ UNCHANGED cited
  /\ \E n \in Sizes :
       \/ n > remaining /\ rejected' = rejected + 1
          /\ UNCHANGED <<remaining, cache, shown, shownBytes, corpus>>
       \/ /\ n <= remaining /\ rejected' = 0 /\ remaining' = remaining - n
          /\ cache' = IF c \in Cacheable THEN cache \cup {c} ELSE cache
          /\ shown' = shown \cup {c} /\ shownBytes' = shownBytes + n /\ corpus' = corpus \cup {c}

\* A cached call costs nothing, even when the budget is used up.
Reply(c) ==
  \/ c \in cache /\ cited' = cited \cup {c}
     /\ UNCHANGED <<remaining, rejected, cache, shown, shownBytes, corpus>>
  \/ c \notin cache /\ Exhausted /\ UNCHANGED budget
  \/ c \notin cache /\ ~Exhausted /\ UNCHANGED budget  \* the tool fails or times out
  \/ c \notin cache /\ Execute(c)

\* The loop's condition, evaluated when a round's calls are done.
AfterTools == IF round < MaxSteps /\ ~Exhausted' THEN "ask" ELSE "final"

\* One call of a round.  A call that cannot be recorded ends the run.
CallTool ==
  /\ phase = "tools" /\ pending # <<>>
  /\ Reply(Head(pending))
  /\ pending' = Tail(pending)
  /\ phase' = IF Len(pending) = 1 THEN AfterTools ELSE "tools"
  /\ UNCHANGED <<round, providerCalls, answer>>

RecordFails ==
  /\ phase = "tools" /\ phase' = "failed"
  /\ UNCHANGED <<round, pending, budget, providerCalls, answer>>

\* The provider fails, or the request exceeds the context budget and is not sent.
ChatFails ==
  /\ phase \in {"ask", "final", "repair"} /\ phase' = "failed"
  /\ UNCHANGED <<round, pending, budget, providerCalls, answer>>

AskTools ==
  /\ phase = "ask" /\ phase' = "tools"
  /\ \E n \in 1..MaxRound : pending' \in [1..n -> Calls]
  /\ round' = round + 1 /\ providerCalls' = providerCalls + 1
  /\ UNCHANGED <<budget, answer>>

\* Mutant: a repaired answer that is still invalid is repaired again.
CheckAgain(a) == IF Valid(a) THEN "done" ELSE "repair"
\* Mutant: the repaired answer is taken as it is.
CheckOnce(a) == IF Valid(a) \/ phase = "repair" THEN "done" ELSE "repair"

\* validateFinal: one repair of an invalid answer.
Check(a) == IF Valid(a) THEN "done" ELSE IF phase = "repair" THEN "failed" ELSE "repair"

Answer ==
  /\ phase \in {"ask", "final", "repair"}
  /\ \E a \in Answers : answer' = a /\ phase' = Check(a)
  /\ providerCalls' = providerCalls + 1
  /\ UNCHANGED <<round, pending, budget>>

\* An empty answer, or one that asks for tools when there are none left.
BadAnswer ==
  /\ phase \in {"ask", "final", "repair"} /\ phase' = "failed"
  /\ providerCalls' = providerCalls + 1
  /\ UNCHANGED <<round, pending, budget, answer>>
-----------------------------------------------------------------------------
AgentInit ==
  /\ round = 0 /\ remaining = MaxToolOutput /\ rejected = 0
  /\ cache = {} /\ shown = {} /\ shownBytes = 0 /\ cited = {} /\ corpus = {}
  /\ pending \in {<<>>, InitialCalls}
  /\ phase = IF pending # <<>> THEN "tools" ELSE IF Exhausted THEN "final" ELSE "ask"
  /\ providerCalls = 0 /\ answer = NoAnswer

AgentNext == CallTool \/ RecordFails \/ ChatFails \/ AskTools \/ Answer \/ BadAnswer
AgentSpec == AgentInit /\ [][AgentNext]_agentVars
-----------------------------------------------------------------------------
AgentTypeOK ==
  /\ phase \in Phases /\ round \in 0..MaxSteps /\ pending \in Seq(Calls)
  /\ remaining \in Nat /\ rejected \in Nat /\ shownBytes \in Nat
  /\ cache \subseteq Calls /\ shown \subseteq Calls /\ cited \subseteq Calls /\ corpus \subseteq Calls
  /\ providerCalls \in Nat /\ answer \in Answers

\* The bytes shown and the rest make up the budget, whichever calls were cached, refused
\* or failed; and a run calls the model at most for its rounds, the last answer and one repair.
BudgetKept ==
  /\ remaining + shownBytes = MaxToolOutput
  /\ providerCalls <= MaxSteps + 2

\* A reply that refers the model to an earlier output refers to one that it was shown in
\* full and that counts as evidence.  An output that was refused is neither.
CitedIsShown == cited \subseteq shown /\ shown = corpus

\* A run that succeeds loses no finding whose quote is genuine, and posts none that
\* does not quote what the model was shown: through the forced answer and the repair too.
AnswerIsChecked ==
  phase = "done" => /\ answer.json
                    /\ Normalized(answer) = {f \in answer.findings : f[1] \in shown /\ f[2] # "invented"}
=============================================================================
