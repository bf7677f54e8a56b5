------------------------------- MODULE Entities --------------------------------
(***************************************************************************)
(* What ent generates for each entity, as data for the operators of Ent.   *)
(*                                                                         *)
(* For an entity X:                                                        *)
(*   XFields    the fields of its mutation and the kinds of their columns, *)
(*   XMethods   what the mutation can do to each field,                    *)
(*   XSetters   the fields that its create builder sets, and those of them *)
(*              that it sets from a pointer that may be nil,               *)
(*   XDefaults  the defaults of Save: times, which are now, and values,    *)
(*   XSpec      the columns that are inserted,                             *)
(*   XPointers  the fields of the node that are pointers,                  *)
(*   XColumns   the columns of the table as the queries know them,         *)
(*   XUpdater   the calls of the builder that updates one row, by field,   *)
(*   XUpdate    what its Save defaults, checks and assigns,                *)
(*   XsTable    the table as the migration makes it,                       *)
(*   XClient    all of this, with Schema's check of a row to be created.   *)
(*                                                                         *)
(* Left out: the edges from an audit or a run to many rows, the builders   *)
(* for many rows, group-by, eager loading, hooks and interceptors.         *)
(***************************************************************************)
EXTENDS Ent, Schema

\* The methods of a mutation for a field, a field that may be NULL, a number, a
\* list, and the column of an edge to one row.
Plain    == {"Set", "Old", "Reset"}
Nullable == Plain \cup {"Clear"}
Number   == Plain \cup {"Add"}
Listed   == Plain \cup {"Append"}
ToOne    == Plain \cup {"ClearEdge", "ResetEdge"}

Setters(set, nillable) == [Set |-> set, Nil |-> nillable]

Updater(set, nillable, add, append, clear, edges) ==
    [Set |-> set, Nil |-> nillable, Add |-> add, Append |-> append, Clear |-> clear,
     ClearEdge |-> edges]

Now(times) == [times |-> times, values |-> NoFields]

NoDefaults == Now({})

Table(notNull, unique, references) ==
    [notNull |-> notNull, unique |-> unique, references |-> references]

-----------------------------------------------------------------------------
AuditFields == [name |-> "text", queries |-> "list", created_at |-> "time", updated_at |-> "time"]

AuditMethods == [name |-> Plain, queries |-> Listed, created_at |-> Plain, updated_at |-> Plain]

AuditSetters == Setters({"name", "queries", "created_at", "updated_at"}, {"created_at", "updated_at"})

AuditDefaults == Now({"created_at", "updated_at"})

AuditSpec == {"name", "queries", "created_at", "updated_at"}

AuditPointers == {}

AuditColumns == {"name", "queries", "created_at", "updated_at"}

AuditUpdater ==
    Updater({"name", "queries", "created_at", "updated_at"}, {"name", "created_at"},
            {}, {"queries"}, {}, {})

AuditUpdate ==
    [defaults |-> Now({"updated_at"}), notEmpty |-> {"name"}, edges |-> {},
     set |-> {"name", "queries", "created_at", "updated_at"}, add |-> {"queries"}, clear |-> {}]

AuditsTable == Table({"name", "queries", "created_at", "updated_at"}, {}, NoFields)

AuditQuery == [from |-> "audits", columns |-> AuditColumns]

AuditClient ==
    [query |-> AuditQuery, fields |-> AuditFields, methods |-> AuditMethods,
     pointers |-> AuditPointers, check |-> Audit,
     setters |-> AuditSetters, defaults |-> AuditDefaults, spec |-> AuditSpec,
     updater |-> AuditUpdater, update |-> AuditUpdate]

-----------------------------------------------------------------------------
AuditRunFields ==
    [audit_id |-> "int", status |-> "text", actual_value |-> "text", error_message |-> "text",
     started_at |-> "time", completed_at |-> "time", created_at |-> "time", updated_at |-> "time"]

AuditRunTexts == [status |-> Plain, actual_value |-> Nullable, error_message |-> Nullable]

AuditRunTimes ==
    [started_at |-> Plain, completed_at |-> Nullable, created_at |-> Plain, updated_at |-> Plain]

AuditRunEdge == [audit_id |-> ToOne]

AuditRunSetters ==
    Setters({"audit_id", "status", "actual_value", "error_message", "started_at",
             "completed_at", "created_at", "updated_at"},
            {"actual_value", "error_message", "started_at", "completed_at", "created_at",
             "updated_at"})

AuditRunDefaults == Now({"started_at", "created_at", "updated_at"})

AuditRunSpec ==
    {"audit_id", "status", "actual_value", "error_message", "started_at", "completed_at",
     "created_at", "updated_at"}

AuditRunPointers == {"actual_value", "error_message", "completed_at"}

AuditRunColumns ==
    {"audit_id", "status", "actual_value", "error_message", "started_at", "completed_at",
     "created_at", "updated_at"}

AuditRunUpdater ==
    Updater({"audit_id", "status", "actual_value", "error_message", "started_at",
             "completed_at", "created_at", "updated_at"},
            {"audit_id", "status", "actual_value", "error_message", "started_at",
             "completed_at", "created_at"},
            {}, {}, {"actual_value", "error_message", "completed_at"}, {"audit_id"})

AuditRunUpdate ==
    [defaults |-> Now({"updated_at"}), notEmpty |-> {"status"}, edges |-> {"audit_id"},
     set |-> {"status", "actual_value", "error_message", "started_at", "completed_at",
              "created_at", "updated_at"},
     add |-> {}, clear |-> {"actual_value", "error_message", "completed_at"}]

AuditRunsTable ==
    Table({"audit_id", "status", "started_at", "created_at", "updated_at"}, {},
          [audit_id |-> "audits"])

AuditRunQuery == [from |-> "audit_runs", columns |-> AuditRunColumns]

AuditRunClient ==
    [query |-> AuditRunQuery, fields |-> AuditRunFields,
     methods |-> Merge(AuditRunTexts, Merge(AuditRunTimes, AuditRunEdge)),
     pointers |-> AuditRunPointers, check |-> AuditRun,
     setters |-> AuditRunSetters, defaults |-> AuditRunDefaults, spec |-> AuditRunSpec,
     updater |-> AuditRunUpdater, update |-> AuditRunUpdate]

-----------------------------------------------------------------------------
IssueFields ==
    [audit_id |-> "int", audit_run_id |-> "int", query_name |-> "text", expected_value |-> "text",
     actual_value |-> "text", description |-> "text", created_at |-> "time", updated_at |-> "time"]

IssueEdgesAndTexts ==
    [audit_id |-> ToOne, audit_run_id |-> ToOne, query_name |-> Nullable,
     expected_value |-> Plain]

IssueTextsAndTimes ==
    [actual_value |-> Plain, description |-> Plain, created_at |-> Plain, updated_at |-> Plain]

IssueSetters ==
    Setters({"audit_id", "audit_run_id", "query_name", "expected_value", "actual_value",
             "description", "created_at", "updated_at"},
            {"query_name", "created_at", "updated_at"})

IssueDefaults == Now({"created_at", "updated_at"})

IssueSpec ==
    {"audit_id", "audit_run_id", "query_name", "expected_value", "actual_value", "description",
     "created_at", "updated_at"}

\* A query_name that is NULL is read as an empty text.
IssuePointers == {}

IssueColumns ==
    {"audit_id", "audit_run_id", "query_name", "expected_value", "actual_value", "description",
     "created_at", "updated_at"}

IssueUpdater ==
    Updater({"audit_id", "audit_run_id", "query_name", "expected_value", "actual_value",
             "description", "created_at", "updated_at"},
            {"audit_id", "audit_run_id", "query_name", "expected_value", "actual_value",
             "description", "created_at"},
            {}, {}, {"query_name"}, {"audit_id", "audit_run_id"})

IssueUpdate ==
    [defaults |-> Now({"updated_at"}),
     notEmpty |-> {"expected_value", "actual_value", "description"},
     edges |-> {"audit_id", "audit_run_id"},
     set |-> {"query_name", "expected_value", "actual_value", "description", "created_at",
              "updated_at"},
     add |-> {}, clear |-> {"query_name"}]

IssuesTable ==
    Table({"audit_id", "audit_run_id", "expected_value", "actual_value", "description",
           "created_at", "updated_at"}, {},
          [audit_id |-> "audits", audit_run_id |-> "audit_runs"])

IssueQuery == [from |-> "issues", columns |-> IssueColumns]

IssueClient ==
    [query |-> IssueQuery, fields |-> IssueFields,
     methods |-> Merge(IssueEdgesAndTexts, IssueTextsAndTimes),
     pointers |-> IssuePointers, check |-> Issue,
     setters |-> IssueSetters, defaults |-> IssueDefaults, spec |-> IssueSpec,
     updater |-> IssueUpdater, update |-> IssueUpdate]

-----------------------------------------------------------------------------
PolicyAuditFields ==
    [name |-> "text", audit_ids |-> "list", created_at |-> "time", updated_at |-> "time"]

PolicyAuditMethods ==
    [name |-> Plain, audit_ids |-> Listed, created_at |-> Plain, updated_at |-> Plain]

PolicyAuditSetters ==
    Setters({"name", "audit_ids", "created_at", "updated_at"}, {"created_at", "updated_at"})

PolicyAuditDefaults == Now({"created_at", "updated_at"})

PolicyAuditSpec == {"name", "audit_ids", "created_at", "updated_at"}

PolicyAuditPointers == {}

PolicyAuditColumns == {"name", "audit_ids", "created_at", "updated_at"}

PolicyAuditUpdater ==
    Updater({"name", "audit_ids", "created_at", "updated_at"}, {"name", "created_at"},
            {}, {"audit_ids"}, {}, {})

PolicyAuditUpdate ==
    [defaults |-> Now({"updated_at"}), notEmpty |-> {"name"}, edges |-> {},
     set |-> {"name", "audit_ids", "created_at", "updated_at"}, add |-> {"audit_ids"},
     clear |-> {}]

PoliciesTable == Table({"name", "audit_ids", "created_at", "updated_at"}, {}, NoFields)

PolicyAuditQuery == [from |-> "policies", columns |-> PolicyAuditColumns]

PolicyAuditClient ==
    [query |-> PolicyAuditQuery, fields |-> PolicyAuditFields, methods |-> PolicyAuditMethods,
     pointers |-> PolicyAuditPointers, check |-> PolicyAudit,
     setters |-> PolicyAuditSetters, defaults |-> PolicyAuditDefaults, spec |-> PolicyAuditSpec,
     updater |-> PolicyAuditUpdater, update |-> PolicyAuditUpdate]

-----------------------------------------------------------------------------
PolicyRunFields ==
    [policy_id |-> "int", status |-> "text", audit_run_ids |-> "list", started_at |-> "time",
     completed_at |-> "time"]

PolicyRunNumberAndText == [policy_id |-> Number, status |-> Plain]

PolicyRunListAndTimes ==
    [audit_run_ids |-> Listed \cup Nullable, started_at |-> Plain, completed_at |-> Nullable]

PolicyRunSetters ==
    Setters({"policy_id", "status", "audit_run_ids", "started_at", "completed_at"},
            {"status", "started_at", "completed_at"})

PolicyRunDefaults == [times |-> {"started_at"}, values |-> [status |-> "running"]]

PolicyRunSpec == {"policy_id", "status", "audit_run_ids", "started_at", "completed_at"}

PolicyRunPointers == {"completed_at"}

PolicyRunColumns == {"policy_id", "status", "audit_run_ids", "started_at", "completed_at"}

PolicyRunUpdater ==
    Updater({"policy_id", "status", "audit_run_ids", "started_at", "completed_at"},
            {"policy_id", "status", "started_at", "completed_at"},
            {"policy_id"}, {"audit_run_ids"}, {"audit_run_ids", "completed_at"}, {})

PolicyRunUpdate ==
    [defaults |-> NoDefaults, notEmpty |-> {}, edges |-> {},
     set |-> {"policy_id", "status", "audit_run_ids", "started_at", "completed_at"},
     add |-> {"policy_id", "audit_run_ids"}, clear |-> {"audit_run_ids", "completed_at"}]

PolicyRunsTable == Table({"policy_id", "status", "started_at"}, {}, NoFields)

PolicyRunQuery == [from |-> "policy_runs", columns |-> PolicyRunColumns]

PolicyRunClient ==
    [query |-> PolicyRunQuery, fields |-> PolicyRunFields,
     methods |-> Merge(PolicyRunNumberAndText, PolicyRunListAndTimes),
     pointers |-> PolicyRunPointers, check |-> PolicyRun,
     setters |-> PolicyRunSetters, defaults |-> PolicyRunDefaults, spec |-> PolicyRunSpec,
     updater |-> PolicyRunUpdater, update |-> PolicyRunUpdate]

-----------------------------------------------------------------------------
ScheduleFields ==
    [target_type |-> "text", target_id |-> "int", interval_seconds |-> "int",
     next_run_at |-> "time", created_at |-> "time"]

ScheduleTarget == [target_type |-> Plain, target_id |-> Number]

ScheduleTimes == [interval_seconds |-> Number, next_run_at |-> Plain, created_at |-> Plain]

ScheduleSetters ==
    Setters({"target_type", "target_id", "interval_seconds", "next_run_at", "created_at"},
            {"interval_seconds", "created_at"})

ScheduleDefaults == [times |-> {"created_at"}, values |-> [interval_seconds |-> 60]]

ScheduleSpec == {"target_type", "target_id", "interval_seconds", "next_run_at", "created_at"}

SchedulePointers == {}

ScheduleColumns == {"target_type", "target_id", "interval_seconds", "next_run_at", "created_at"}

ScheduleUpdater ==
    Updater({"target_type", "target_id", "interval_seconds", "next_run_at", "created_at"},
            {"target_type", "target_id", "interval_seconds", "next_run_at", "created_at"},
            {"target_id", "interval_seconds"}, {}, {}, {})

ScheduleUpdate ==
    [defaults |-> NoDefaults, notEmpty |-> {}, edges |-> {},
     set |-> {"target_type", "target_id", "interval_seconds", "next_run_at", "created_at"},
     add |-> {"target_id", "interval_seconds"}, clear |-> {}]

SchedulesTable ==
    Table({"target_type", "target_id", "interval_seconds", "next_run_at", "created_at"}, {},
          NoFields)

ScheduleQuery == [from |-> "schedules", columns |-> ScheduleColumns]

ScheduleClient ==
    [query |-> ScheduleQuery, fields |-> ScheduleFields,
     methods |-> Merge(ScheduleTarget, ScheduleTimes),
     pointers |-> SchedulePointers, check |-> Schedule,
     setters |-> ScheduleSetters, defaults |-> ScheduleDefaults, spec |-> ScheduleSpec,
     updater |-> ScheduleUpdater, update |-> ScheduleUpdate]

-----------------------------------------------------------------------------
UserFields == [username |-> "text", password |-> "text", role |-> "text"]

UserMethods == [username |-> Plain, password |-> Plain, role |-> Plain]

UserSetters == Setters({"username", "password", "role"}, {"role"})

UserDefaults == [times |-> {}, values |-> [role |-> "viewer"]]

UserSpec == {"username", "password", "role"}

UserPointers == {}

UserColumns == {"username", "password", "role"}

UserUpdater ==
    Updater({"username", "password", "role"}, {"username", "password", "role"}, {}, {}, {}, {})

UserUpdate ==
    [defaults |-> NoDefaults, notEmpty |-> {"username", "password"}, edges |-> {},
     set |-> {"username", "password", "role"}, add |-> {}, clear |-> {}]

\* Mutant of UsersTable: the username is not unique.
UsersTableOpen == Table({"username", "password", "role"}, {}, NoFields)

UsersTable == Table({"username", "password", "role"}, {"username"}, NoFields)

UserQuery == [from |-> "users", columns |-> UserColumns]

UserClient ==
    [query |-> UserQuery, fields |-> UserFields, methods |-> UserMethods,
     pointers |-> UserPointers, check |-> User,
     setters |-> UserSetters, defaults |-> UserDefaults, spec |-> UserSpec,
     updater |-> UserUpdater, update |-> UserUpdate]

-----------------------------------------------------------------------------
\* The tables of the migration, and the clients of the package.
Tables ==
    [audits |-> AuditsTable, audit_runs |-> AuditRunsTable, issues |-> IssuesTable,
     policies |-> PoliciesTable, policy_runs |-> PolicyRunsTable, schedules |-> SchedulesTable,
     users |-> UsersTable]

Clients ==
    [audits |-> AuditClient, audit_runs |-> AuditRunClient, issues |-> IssueClient,
     policies |-> PolicyAuditClient, policy_runs |-> PolicyRunClient,
     schedules |-> ScheduleClient, users |-> UserClient]
================================================================================
