------------------------------ MODULE Repository -------------------------------
(***************************************************************************)
(* EntRepository: every method that reads or writes a table through ent,   *)
(* as one call at a time meets the database.                               *)
(*                                                                         *)
(* Any call may fail without an effect, and any write may have its effect  *)
(* and fail all the same, because the answer was lost.  Module Store says  *)
(* what the methods promise.                                               *)
(***************************************************************************)
EXTENDS Entities, FiniteSets

CONSTANTS
    Names,       \* names, and the values of queries
    IdLists,     \* lists of queries or ids
    MaxTime,     \* the last reading of the clock
    Scopes       \* the tables that are used together, with the rows each may have

ASSUME RepositoryAssumption ==
    MaxTime \in Nat /\ MaxTime >= 2 /\ \A s \in Scopes : DOMAIN s \subseteq DOMAIN Tables

VARIABLES
    scope,       \* the tables in use, and how many rows each may have
    db,          \* the tables
    clock,       \* the time
    call         \* the call that was answered: its method, arguments and answer

repositoryVars == <<scope, db, clock, call>>

NoCall == [method |-> "none", args |-> Nil, ok |-> FALSE, value |-> Nil]

RepositoryInit ==
    /\ scope \in Scopes
    /\ db = [t \in DOMAIN Tables |-> NoFields]
    /\ clock = 2
    /\ call = NoCall

Ids == 1..2

Failed(method, args) == [method |-> method, args |-> args, ok |-> FALSE, value |-> Nil]

Answered(method, args, value) == [method |-> method, args |-> args, ok |-> TRUE, value |-> value]

-----------------------------------------------------------------------------
toAudit(n) ==
    [Name |-> n.name, SQLQuery |-> n.queries, CreatedAt |-> n.created_at,
     UpdatedAt |-> n.updated_at]

toAuditRun(n) ==
    [AuditID |-> n.audit_id, Status |-> n.status, ActualValue |-> n.actual_value,
     Error |-> n.error_message, StartedAt |-> n.started_at, CompletedAt |-> n.completed_at]

toIssue(n) ==
    [AuditID |-> n.audit_id, AuditRunID |-> n.audit_run_id, QueryName |-> n.query_name,
     ExpectedValue |-> n.expected_value, ActualValue |-> n.actual_value,
     Description |-> n.description, CreatedAt |-> n.created_at]

toPolicy(n) ==
    [Name |-> n.name, AuditIDs |-> n.audit_ids, CreatedAt |-> n.created_at,
     UpdatedAt |-> n.updated_at]

toPolicyRun(n) ==
    [PolicyID |-> n.policy_id, Status |-> n.status, AuditRunIDs |-> n.audit_run_ids,
     StartedAt |-> n.started_at, CompletedAt |-> n.completed_at]

toUser(n) == [Username |-> n.username, Password |-> n.password, Role |-> n.role]

toSchedule(n) ==
    [TargetType |-> n.target_type, TargetID |-> n.target_id,
     IntervalSeconds |-> n.interval_seconds, NextRunAt |-> n.next_run_at,
     CreatedAt |-> n.created_at]

\* A row's node as the repository's own struct.
To(t, n) ==
    CASE t = "audits" -> toAudit(n)     [] t = "audit_runs" -> toAuditRun(n)
      [] t = "issues" -> toIssue(n)     [] t = "policies" -> toPolicy(n)
      [] t = "users" -> toUser(n)       [] t = "policy_runs" -> toPolicyRun(n)
      [] t = "schedules" -> toSchedule(n)

-----------------------------------------------------------------------------
(***************************************************************************)
(* Create().SetX(...)...Save(ctx), UpdateOneID(id).SetX(...)...Save(ctx),  *)
(* and Query().Where(...) with Only(ctx) or All(ctx).                      *)
(***************************************************************************)
\* A method is called once the last call was answered.
Free(t) == t \in DOMAIN scope /\ call.method = "none"

\* Ids are given in order; a gap that a failed insert leaves is not modelled.
Save(method, args, t, fields) ==
    LET e   == Clients[t]
        m   == Defaulted(e.defaults, [NewMutation("create", Nil) EXCEPT !.set = fields], clock)
        id  == Cardinality(DOMAIN db[t]) + 1
        new == [db EXCEPT ![t] = With(@, id, Created(e, m))]
    IN  /\ Free(t) /\ id <= scope[t]
        /\ \/ db' = db /\ call' = Failed(method, args)
           \/ /\ Passes(e.check, m.set) /\ Fits(Tables, new, t, id, new[t][id])
              /\ db' = new
              /\ call' \in {Failed(method, args),
                            Answered(method, args, <<id, To(t, NewNode(e, m))>>)}
        /\ UNCHANGED <<scope, clock>>

\* A quiet update answers nothing but that it went well.
UpdateOneID(method, args, t, id, fields, quiet) ==
    LET e   == Clients[t]
        m   == Defaulted(e.update.defaults,
                         [NewMutation("updateOne", Ptr(id)) EXCEPT !.set = fields], clock)
        new == [db EXCEPT ![t] = With(@, id, Updated(e, m, @[id]))]
    IN  /\ Free(t)
        /\ \/ db' = db /\ call' = Failed(method, args)
           \/ /\ id \in DOMAIN db[t]
              /\ Checked(e.update, m) /\ Fits(Tables, new, t, id, new[t][id])
              /\ db' = new
              /\ call' \in {Failed(method, args),
                            Answered(method, args,
                                <<id, IF quiet THEN Nil ELSE To(t, Read(e, new[t][id]))>>)}
        /\ UNCHANGED <<scope, clock>>

Node(t, id) == To(t, Read(Clients[t], db[t][id]))

Only(method, args, t, ids) ==
    /\ Free(t)
    /\ call' \in {Failed(method, args)} \cup
                 {Answered(method, args, <<id, Node(t, id)>>) : id \in {i \in ids : ids = {i}}}
    /\ UNCHANGED <<scope, db, clock>>

All(method, args, t, ids) ==
    /\ Free(t)
    /\ call' \in {Failed(method, args),
                  Answered(method, args, [id \in ids |-> Node(t, id)])}
    /\ UNCHANGED <<scope, db, clock>>

\* The rows with the given values in their columns.
Having(t, fields) ==
    {i \in DOMAIN db[t] : Matches(Clients[t], db[t][i], {<<c, fields[c]>> : c \in DOMAIN fields})}

IDIn(t, ids) == DOMAIN db[t] \cap ids

IDEQ(t, id) == IDIn(t, {id})

-----------------------------------------------------------------------------
CreateAudit ==
    \E name \in Names, queries \in IdLists :
        Save("CreateAudit", <<name, queries>>, "audits", AuditRow(name, queries))

GetAudit == \E id \in Ids : Only("GetAudit", <<id>>, "audits", IDEQ("audits", id))

CreateAuditRun ==
    \E audit \in Ids :
        Save("CreateAuditRun", <<audit>>, "audit_runs", AuditRunRow(audit))

\* The fields of an optional argument.
IfGiven(column, pointer) ==
    IF pointer = Nil THEN NoFields ELSE [c \in {column} |-> pointer[1]]

UpdateAuditRunResult ==
    \E run \in Ids, status \in {"pass", "error"}, value \in {Nil, Ptr("")}, msg \in {Nil, Ptr("n")} :
        UpdateOneID("UpdateAuditRunResult", <<run, status, value, msg>>, "audit_runs", run,
                    Merge([status |-> status, completed_at |-> clock],
                          Merge(IfGiven("actual_value", value), IfGiven("error_message", msg))),
                    FALSE)

\* Mutant of FindAuditRun: the audit is not asked about.
FindAuditRunByID(audit, run) == IDEQ("audit_runs", run)

FindAuditRun(audit, run) ==
    IDEQ("audit_runs", run) \cap Having("audit_runs", [audit_id |-> audit])

GetAuditRun ==
    \E audit, run \in Ids :
        Only("GetAuditRun", <<audit, run>>, "audit_runs", FindAuditRun(audit, run))

GetAuditRunsByIDs ==
    \E ids \in SUBSET Ids :
        All("GetAuditRunsByIDs", <<ids>>, "audit_runs", IDIn("audit_runs", ids))

CreateIssue ==
    \E audit, run \in Ids, actual \in Names :
        Save("CreateIssue", <<audit, run, actual>>, "issues",
             IssueRow(audit, run, "q", "expected", actual, "description"))

\* The issues by created_at, the latest first, those of one time in any order.
Ordered ==
    {s \in [1..Cardinality(DOMAIN db.issues) -> DOMAIN db.issues] :
        \A i, j \in DOMAIN s : i < j =>
            s[i] # s[j] /\ db.issues[s[i]].created_at >= db.issues[s[j]].created_at}

\* An offset and a limit, of which a limit of zero is none.
Page(s, page, size) ==
    SubSeq(s, (page - 1) * size + 1, IF page * size < Len(s) THEN page * size ELSE Len(s))

ListIssues ==
    \E page, size \in Ids, s \in Ordered :
        LET list == Page(s, page, size)
        IN  /\ Free("issues")
            /\ call' \in {Failed("ListIssues", <<page, size>>),
                          Answered("ListIssues", <<page, size>>,
                                   [i \in DOMAIN list |-> <<list[i], Node("issues", list[i])>>])}
            /\ UNCHANGED <<scope, db, clock>>

GetIssue == \E id \in Ids : Only("GetIssue", <<id>>, "issues", IDEQ("issues", id))

CreatePolicy ==
    \E name \in Names, audits \in IdLists :
        Save("CreatePolicy", <<name, audits>>, "policies", PolicyRow(name, audits))

GetPolicy == \E id \in Ids : Only("GetPolicy", <<id>>, "policies", IDEQ("policies", id))

\* No foreign key leads from a policy's run to the policy.
CreatePolicyRun ==
    \E policy \in Ids, runs \in IdLists :
        Save("CreatePolicyRun", <<policy, runs>>, "policy_runs", PolicyRunRow(policy, runs))

GetPolicyRun ==
    \E id \in Ids :
        Only("GetPolicyRun", <<id>>, "policy_runs", IDEQ("policy_runs", id))

UpdatePolicyRunStatus ==
    \E run \in Ids, status \in {"pass", "error"} :
        UpdateOneID("UpdatePolicyRunStatus", <<run, status>>, "policy_runs", run,
                    [status |-> status, completed_at |-> clock], FALSE)

CreateUser ==
    \E name, password \in Names :
        Save("CreateUser", <<name, password>>, "users", UserRow(name, password, "admin"))

GetUserByUsername ==
    \E name \in Names :
        Only("GetUserByUsername", <<name>>, "users", Having("users", [username |-> name]))

CreateSchedule ==
    \E id \in Ids, next \in 1..MaxTime :
        Save("CreateSchedule", <<id, next>>, "schedules", ScheduleRow("audit", id, 60, next))

GetDueSchedules ==
    All("GetDueSchedules", <<clock>>, "schedules",
        {i \in DOMAIN db.schedules : db.schedules[i].next_run_at <= Stored("time", clock)})

UpdateScheduleNextRun ==
    \E id \in Ids, next \in 1..MaxTime :
        UpdateOneID("UpdateScheduleNextRun", <<id, next>>, "schedules", id,
                    [next_run_at |-> next], TRUE)

Tick ==
    /\ clock < MaxTime
    /\ clock' = clock + 1
    /\ UNCHANGED <<scope, db, call>>

\* The caller goes on.
Return ==
    /\ call.method # "none"
    /\ call' = NoCall
    /\ UNCHANGED <<scope, db, clock>>

RepositoryNext ==
    \/ CreateAudit \/ GetAudit \/ CreateAuditRun \/ UpdateAuditRunResult \/ GetAuditRun
    \/ GetAuditRunsByIDs \/ CreateIssue \/ ListIssues \/ GetIssue \/ CreatePolicy \/ GetPolicy
    \/ CreatePolicyRun \/ GetPolicyRun \/ UpdatePolicyRunStatus \/ CreateUser
    \/ GetUserByUsername \/ CreateSchedule \/ GetDueSchedules \/ UpdateScheduleNextRun \/ Tick
    \/ Return

RepositorySpec == RepositoryInit /\ [][RepositoryNext]_repositoryVars
-----------------------------------------------------------------------------
\* A row is one its table takes and its entity's check lets through: names, statuses
\* and what else is required are not empty, runs and issues lead to what they are of,
\* no two users have one name.
RepositoryTypeOK ==
    /\ scope \in Scopes
    /\ \A t \in DOMAIN db : \A i \in DOMAIN db[t] :
         /\ i <= scope[t]
         /\ DOMAIN db[t][i] \subseteq DOMAIN Clients[t].fields
         /\ Passes(Clients[t].check, db[t][i])
    /\ \A i, j \in DOMAIN db.users : i # j => db.users[i].username # db.users[j].username
    /\ \A i \in DOMAIN db.audit_runs : db.audit_runs[i].audit_id \in DOMAIN db.audits
    /\ \A i \in DOMAIN db.issues : db.issues[i].audit_run_id \in DOMAIN db.audit_runs
    /\ clock \in 2..MaxTime
    /\ call.ok \in BOOLEAN

\* The tables in use as the service sees them.
Records == [t \in DOMAIN scope |-> [i \in DOMAIN db[t] |-> Node(t, i)]]

Abstract == INSTANCE Store WITH store <- Records

\* Over whatever rows and faults, each method does what Store says of it: a run is
\* found under its own audit only, a result leaves the fields it does not give, a
\* refused or lost write is the whole write or nothing, a page is the right slice.
ImplementsStore == Abstract!StoreSpec
================================================================================
