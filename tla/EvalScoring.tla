---------------------------- MODULE EvalScoring ----------------------------
(***************************************************************************)
(* The score of one evaluation case: predicted findings against expected   *)
(* ones.  Prediction by prediction, countLocationMatches extends a         *)
(* one-to-one matching of locations, one call of assign at a step, and     *)
(* Evaluate pairs the prediction with the first finding that is left.      *)
(***************************************************************************)
EXTENDS Naturals, Sequences, FiniteSets

CONSTANTS ExpectedFindings, Predictions, \* what a case may expect and an agent predict
          MaxFindings                    \* bound on both

ASSUME ScoringAssumption ==
  /\ \A x \in ExpectedFindings : x \in [file : STRING, line : Nat, category : STRING, accepted : SUBSET (STRING \X Nat)]
  /\ \A a \in Predictions : a \in [file : STRING, line : Nat, category : STRING]
  /\ MaxFindings \in Nat

VARIABLES
  expected, predicted,
  scored,      \* predictions scored
  matched,     \* the prediction that each expected finding's location is matched to, 0: none
  located,     \* the size of that matching
  chain,       \* assign's calls: the taken locations, each asked for by the owner of the one before
  visited,     \* assign's seen
  pairs,       \* true positives: <<expected, predicted>>
  misplaced    \* false positives

scoringVars == <<expected, predicted, scored, matched, located, chain, visited, pairs, misplaced>>
-----------------------------------------------------------------------------
Distance(m, n) == IF m < n THEN n - m ELSE m - n
PrimaryMatch(x, a) == x.file = a.file /\ (x.line = 0 \/ Distance(x.line, a.line) <= 3)
FindingsMatch(x, a) == PrimaryMatch(x, a) \/ (a.line > 0 /\ <<a.file, a.line>> \in x.accepted)
Near(e, p) == PrimaryMatch(expected[e], predicted[p])
Alike(e, p) == FindingsMatch(expected[e], predicted[p]) /\ expected[e].category = predicted[p].category

\* assign(p, seen): p is the prediction scored, or the owner of the last location asked for.
Seeker == IF chain = <<>> THEN scored + 1 ELSE matched[chain[Len(chain)]]

\* Mutant: a location that is taken stays taken.
FreeCandidates == {e \in DOMAIN expected \ visited : Near(e, Seeker) /\ matched[e] = 0}

\* It takes the first location near it that is not seen yet; those before that one in its
\* loop have been seen or are not near.
Candidates == {e \in DOMAIN expected \ visited : Near(e, Seeker)}
First(S) == CHOOSE e \in S : \A f \in S : e <= f

\* The calls return true one after the other: each location goes to who asked for it.
Reassigned(locations) ==
  [e \in DOMAIN expected |->
     IF \E i \in DOMAIN locations : locations[i] = e
     THEN LET i == CHOOSE j \in DOMAIN locations : locations[j] = e
          IN IF i = 1 THEN scored + 1 ELSE matched[locations[i - 1]]
     ELSE matched[e]]

\* Evaluate's choice among the expected findings that are left: the first of the same category.
Pair(p) ==
  LET left == {e \in DOMAIN expected : Alike(e, p) /\ \A q \in pairs : q[1] # e}
  IN IF left = {} THEN misplaced' = misplaced \cup {p} /\ UNCHANGED pairs
     ELSE pairs' = pairs \cup {<<First(left), p>>} /\ UNCHANGED misplaced
-----------------------------------------------------------------------------
FindingLists(kinds) == UNION {[1..n -> kinds] : n \in 0..MaxFindings}
ScoringInit ==
  /\ expected \in FindingLists(ExpectedFindings) /\ predicted \in FindingLists(Predictions)
  /\ scored = 0 /\ matched = [e \in DOMAIN expected |-> 0] /\ located = 0
  /\ chain = <<>> /\ visited = {} /\ pairs = {} /\ misplaced = {}

Searching == scored < Len(predicted) /\ UNCHANGED <<expected, predicted>>

\* A location that is taken: its owner looks for another.
AskOwner ==
  /\ Searching /\ Candidates # {} /\ matched[First(Candidates)] # 0
  /\ chain' = Append(chain, First(Candidates)) /\ visited' = visited \cup {First(Candidates)}
  /\ UNCHANGED <<scored, matched, located, pairs, misplaced>>

\* The owner finds none.
GiveUp ==
  /\ Searching /\ Candidates = {} /\ chain # <<>>
  /\ chain' = SubSeq(chain, 1, Len(chain) - 1)
  /\ UNCHANGED <<scored, matched, located, visited, pairs, misplaced>>

\* The outermost call returns.
Score == /\ scored' = scored + 1 /\ chain' = <<>> /\ visited' = {}
         /\ Pair(scored + 1)

Assign ==
  /\ Searching /\ Candidates # {} /\ matched[First(Candidates)] = 0
  /\ matched' = Reassigned(Append(chain, First(Candidates))) /\ located' = located + 1
  /\ Score

Unassigned ==
  /\ Searching /\ Candidates = {} /\ chain = <<>>
  /\ Score /\ UNCHANGED <<matched, located>>

ScoringNext == AskOwner \/ GiveUp \/ Assign \/ Unassigned
ScoringSpec == ScoringInit /\ [][ScoringNext]_scoringVars
-----------------------------------------------------------------------------
\* The most that can be matched, by Hall's theorem: the least, over the sets of
\* predictions, of what they reach and what is outside the set.
Reach(S) == {e \in DOMAIN expected : \E p \in S : Near(e, p)}
Maximum == First({Cardinality(Reach(S)) + scored - Cardinality(S) : S \in SUBSET (1..scored)})

\* After each prediction the locations counted are as many as any one-to-one matching
\* has, whatever the order of the predictions, and are a matching; and a finding that is
\* reported as missed has no match among those reported as false positives.
MatchingIsMaximum ==
  /\ located = Maximum
  /\ located = Cardinality({e \in DOMAIN expected : matched[e] # 0})
  /\ \A e \in DOMAIN expected : matched[e] # 0 => Near(e, matched[e]) /\ \A f \in DOMAIN expected \ {e} : matched[f] # matched[e]
  /\ \A e \in DOMAIN expected, p \in misplaced : Alike(e, p) => \E q \in pairs : q[1] = e
=============================================================================
