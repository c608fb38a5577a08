-------------------------- MODULE SchemaMigration --------------------------
(***************************************************************************)
(* Migrate, which every server process and the migrate command run at      *)
(* their start: without a lock among processes, on a database whose DDL    *)
(* commits at once, with the versions that are applied in a table of their *)
(* own.  A process that fails exits and is started again.                  *)
(***************************************************************************)
EXTENDS Naturals, Sequences

CONSTANTS Processes,  \* servers and migrate commands on one database
          MaxCrashes  \* bound on failed statements, lost replies and killed processes

ASSUME MigrationAssumption == MaxCrashes \in Nat

VARIABLES
  schema,    \* tables, and what review_task got after its first version
  recorded,  \* versions in schema_migrations
  step,      \* where each process stands
  applied,   \* the versions it read
  part,      \* what it is at: a part of the legacy upgrade, or a version
  missing,   \* what that part lacked when the process looked
  crashes

schemaVars == <<schema, recorded, step, applied, part, missing, crashes>>

RetryColumns == {"attempt_count", "max_attempts", "next_retry_at"}
\* The legacy upgrade looks at one of these after the other.
Upgrades == <<RetryColumns, {"idx_review_task_retry"}, {"timestamp_precision"}>>
Additions == RetryColumns \cup {"idx_review_task_retry", "timestamp_precision"}
\* The tables that the script of each version creates, in order.
InitScript == <<"review_task", "review_result">>
AuditLogScript == <<"audit_log">>
ToolCallLogScript == <<"tool_call_log">>
ReviewDeliveryScript == <<"review_delivery">>
Script == <<InitScript, AuditLogScript, ToolCallLogScript, ReviewDeliveryScript>>
Versions == DOMAIN Script
Tables == {"review_task", "review_result", "audit_log", "tool_call_log", "review_delivery"}
Statement(t) == IF t = "review_task" THEN {t} \cup Additions ELSE {t}
Creates(v) == UNION {Statement(Script[v][i]) : i \in DOMAIN Script[v]}
Steps == {"down", "read", "table", "check", "alter", "script", "second", "record", "serving"}

Becomes(p, to) == step' = [step EXCEPT ![p] = to]
\* After version v: the next one that is not among those read, or the end.
NextVersion(p, v, known) ==
  LET todo == {w \in Versions \ known : w > v}
  IN IF todo = {} THEN Becomes(p, "serving") /\ UNCHANGED part
     ELSE /\ Becomes(p, "script")
          /\ part' = [part EXCEPT ![p] = CHOOSE w \in todo : \A u \in todo : w <= u]
-----------------------------------------------------------------------------
\* ensureMigrationTable is idempotent; no reader tells the empty table from none.
Start(p) ==
  /\ step[p] = "down" /\ Becomes(p, "read")
  /\ UNCHANGED <<schema, recorded, applied, part, missing, crashes>>

ReadApplied(p) ==
  /\ step[p] = "read"
  /\ applied' = [applied EXCEPT ![p] = recorded]
  /\ IF recorded = {} THEN Becomes(p, "table") /\ UNCHANGED part ELSE NextVersion(p, 0, recorded)
  /\ UNCHANGED <<schema, recorded, missing, crashes>>

LookForLegacyTable(p) ==
  /\ step[p] = "table"
  /\ Becomes(p, IF "review_task" \in schema THEN "check" ELSE "script")
  /\ part' = [part EXCEPT ![p] = 1]
  /\ UNCHANGED <<schema, recorded, applied, missing, crashes>>

\* Mutant: the upgrade ends with the retry columns.
ColumnsDone(p) == Becomes(p, "script") /\ part' = [part EXCEPT ![p] = 1]

\* On to the next part of the upgrade, and after the last one to the first version.
PartDone(p) == IF part[p] < Len(Upgrades) THEN Becomes(p, "check") /\ part' = [part EXCEPT ![p] = @ + 1]
               ELSE Becomes(p, "script") /\ part' = [part EXCEPT ![p] = 1]

CheckPart(p) ==
  /\ step[p] = "check"
  /\ missing' = [missing EXCEPT ![p] = Upgrades[part[p]] \ schema]
  /\ IF Upgrades[part[p]] \subseteq schema THEN PartDone(p)
     ELSE Becomes(p, "alter") /\ UNCHANGED part
  /\ UNCHANGED <<schema, recorded, applied, crashes>>

\* A column or an index that another process has added meanwhile is an error; MODIFY is not.
AlterPart(p) ==
  /\ step[p] = "alter"
  /\ IF missing[p] \cap schema = {} \/ part[p] = 3
     THEN schema' = schema \cup missing[p] /\ PartDone(p)
     ELSE Becomes(p, "down") /\ UNCHANGED <<schema, part>>
  /\ UNCHANGED <<recorded, applied, missing, crashes>>

\* Mutant: CREATE TABLE without IF NOT EXISTS.
CreateStrictly(p, t, to) ==
  IF t \in schema THEN Becomes(p, "down") /\ UNCHANGED schema
  ELSE schema' = schema \cup Statement(t) /\ Becomes(p, to)

\* CREATE TABLE IF NOT EXISTS: a table that exists is left as it is.
CreateTable(p, t, to) ==
  /\ schema' = IF t \in schema THEN schema ELSE schema \cup Statement(t)
  /\ Becomes(p, to)

\* The version is recorded when the last statement of its script has run.
RunScript(p) ==
  LET script == Script[part[p]]
  IN /\ \/ step[p] = "script" /\ CreateTable(p, script[1], IF Len(script) > 1 THEN "second" ELSE "record")
        \/ step[p] = "second" /\ CreateTable(p, script[2], "record")
     /\ UNCHANGED <<recorded, applied, part, missing, crashes>>

\* Another process may have recorded the version: a duplicate key, and an exit.
RecordVersion(p) ==
  /\ step[p] = "record"
  /\ IF part[p] \in recorded THEN Becomes(p, "down") /\ UNCHANGED part
     ELSE NextVersion(p, part[p], applied[p])
  /\ recorded' = recorded \cup {part[p]}
  /\ UNCHANGED <<schema, applied, missing, crashes>>

Crash(p) ==
  /\ step[p] # "down" /\ crashes < MaxCrashes /\ crashes' = crashes + 1
  /\ Becomes(p, "down")
  /\ UNCHANGED <<schema, recorded, applied, part, missing>>
-----------------------------------------------------------------------------
\* An empty database, or one of a version before schema_migrations.
Legacy == {s \in SUBSET ({"review_task", "review_result"} \cup Additions) :
             /\ "review_task" \in s
             /\ "idx_review_task_retry" \in s => "next_retry_at" \in s}

SchemaInit ==
  /\ schema \in {{}} \cup Legacy
  /\ recorded = {}
  /\ step = [p \in Processes |-> "down"]
  /\ applied = [p \in Processes |-> {}] /\ part = [p \in Processes |-> 1] /\ missing = [p \in Processes |-> {}]
  /\ crashes = 0

Migrate(p) == \/ Start(p) \/ ReadApplied(p) \/ LookForLegacyTable(p) \/ CheckPart(p)
              \/ AlterPart(p) \/ RunScript(p) \/ RecordVersion(p)

SchemaNext == \E p \in Processes : Migrate(p) \/ Crash(p)

\* A process runs on, and one that exited is started again.
SchemaFairness == \A p \in Processes : WF_schemaVars(Migrate(p))
SchemaSpec == SchemaInit /\ [][SchemaNext]_schemaVars /\ SchemaFairness
-----------------------------------------------------------------------------
SchemaTypeOK ==
  /\ schema \subseteq Tables \cup Additions /\ recorded \subseteq Versions
  /\ step \in [Processes -> Steps] /\ applied \in [Processes -> SUBSET Versions]
  /\ part \in [Processes -> Versions] /\ missing \in [Processes -> SUBSET Additions]
  /\ crashes \in 0..MaxCrashes

\* A process that serves finds every table, column and index, and so does one that
\* skips a version because it is recorded, whoever ran its script and died when.
ServingHasSchema ==
  /\ \A v \in recorded : Creates(v) \subseteq schema
  /\ \A p \in Processes : step[p] = "serving" => schema = Tables \cup Additions

\* A crash between a script and its record, or two processes at the same version,
\* never leave a database on which no process can start.
EveryoneServes == <>[](\A p \in Processes : step[p] = "serving")
=============================================================================
