-------------------------------- MODULE Schema --------------------------------
(***************************************************************************)
(* What ent asks of a row before it inserts it, entity by entity.          *)
(*                                                                         *)
(* Save of a create builder fills in the defaults; check then refuses a row *)
(* that lacks a required field (an edge counts by its column) or has an    *)
(* empty text where the schema says NotEmpty.  A row to be created is a    *)
(* record of the fields that the repository sets.                          *)
(***************************************************************************)

User == [required |-> {"username", "password", "role"},
         defaults |-> {"role"},
         notEmpty |-> {"username", "password"}]

Audit == [required |-> {"name", "queries", "created_at", "updated_at"},
          defaults |-> {"created_at", "updated_at"},
          notEmpty |-> {"name"}]

PolicyAudit == [required |-> {"name", "audit_ids", "created_at", "updated_at"},
                defaults |-> {"created_at", "updated_at"},
                notEmpty |-> {"name"}]

Schedule == [required |-> {"target_type", "target_id", "interval_seconds",
                           "next_run_at", "created_at"},
             defaults |-> {"interval_seconds", "created_at"},
             notEmpty |-> {}]

Issue == [required |-> {"audit_id", "audit_run_id", "expected_value", "actual_value",
                        "description", "created_at", "updated_at"},
          defaults |-> {"created_at", "updated_at"},
          notEmpty |-> {"expected_value", "actual_value", "description"}]

AuditRun == [required |-> {"audit_id", "status", "started_at", "created_at", "updated_at"},
             defaults |-> {"started_at", "created_at", "updated_at"},
             notEmpty |-> {"status"}]

PolicyRun == [required |-> {"policy_id", "status", "started_at"},
              defaults |-> {"status", "started_at"},
              notEmpty |-> {}]

\* Mutant of Passes: the defaults are filled in after the check.
PassesUndefaulted(entity, row) == entity.required \subseteq DOMAIN row

\* The insert is sent.
Passes(entity, row) ==
    /\ entity.required \subseteq DOMAIN row \cup entity.defaults
    /\ \A f \in entity.notEmpty \cap DOMAIN row : row[f] # ""

-----------------------------------------------------------------------------
(***************************************************************************)
(* The rows the repository builds.                                         *)
(***************************************************************************)
UserRow(name, password, role) ==
    [username |-> name, password |-> password, role |-> role]

AuditRow(name, queries) == [name |-> name, queries |-> queries]

PolicyRow(name, audits) == [name |-> name, audit_ids |-> audits]

ScheduleRow(type, id, interval, next) ==
    [target_type |-> type, target_id |-> id, interval_seconds |-> interval,
     next_run_at |-> next]

AuditRunRow(audit) == [audit_id |-> audit, status |-> "running"]

PolicyRunRow(policy, runs) ==
    [policy_id |-> policy, audit_run_ids |-> runs, status |-> "running"]

IssueRow(audit, run, query, expected, actual, description) ==
    [audit_id |-> audit, audit_run_id |-> run, query_name |-> query,
     expected_value |-> expected, actual_value |-> actual, description |-> description]
=============================================================================
