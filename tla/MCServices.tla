---------------------------- MODULE MCServices ----------------------------
(***************************************************************************)
(* Two services that share no state with each other: each behaviour is one *)
(* of one of them, while the other stands where it takes no step.          *)
(***************************************************************************)
EXTENDS GitHubClient, SchemaMigration

CONSTANTS c1, c2, c3, p1, p2
ThreeCallers == {c1, c2, c3}
TwoProcesses == {p1, p2}

GitHubAtRest ==
  /\ count = 0 /\ expires = FALSE
  /\ call = [c \in Callers |-> "done"] /\ token = [c \in Callers |-> 0]
  /\ cached = 0 /\ age = <<>> /\ renewals = 0

SchemaAtRest ==
  /\ schema = Tables \cup Additions /\ recorded = Versions
  /\ step = [p \in Processes |-> "serving"]
  /\ applied = [p \in Processes |-> {}] /\ part = [p \in Processes |-> 1] /\ missing = [p \in Processes |-> {}]
  /\ crashes = MaxCrashes

Init == \/ GitHubInit /\ SchemaAtRest
        \/ GitHubAtRest /\ SchemaInit

Next == \/ GitHubNext /\ UNCHANGED schemaVars
        \/ SchemaNext /\ UNCHANGED githubVars

Services == Init /\ [][Next]_<<githubVars, schemaVars>> /\ GitHubFairness /\ SchemaFairness
=============================================================================
