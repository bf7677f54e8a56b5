--------------------------------- MODULE Store ---------------------------------
(***************************************************************************)
(* What the service may expect of its Repository, table by table, with no  *)
(* word about builders, columns or NULL: store maps a table to records of  *)
(* the types of package model, by id.                                      *)
(*                                                                         *)
(* A call that is not answered well promises nothing, but that it writes    *)
(* what it says or nothing at all.  Time stamps are precise to one tick.   *)
(***************************************************************************)
EXTENDS Naturals, Sequences, FiniteSets

VARIABLES
    store,    \* the records of each table, by id
    call      \* the call that was answered: its method, arguments and answer

storeVars == <<store, call>>

StoreInit ==
    /\ \A t \in DOMAIN store : DOMAIN store[t] = {}
    /\ call.method = "none"

-----------------------------------------------------------------------------
Stamps == {"CreatedAt", "UpdatedAt", "StartedAt", "NextRunAt"}

Near(t, u) == t <= u + 1 /\ u <= t + 1

Agree(r, s) ==
    /\ DOMAIN r = DOMAIN s
    /\ \A f \in DOMAIN r : IF f \in Stamps THEN Near(r[f], s[f]) ELSE r[f] = s[f]

Calls(method) == call.method = "none" /\ call'.method = method

\* A record that fits the arguments is added under a new id.
Adds(t, Fits(_)) ==
    \E id \in DOMAIN store'[t] \ DOMAIN store[t] :
        /\ store' = [store EXCEPT ![t] =
                        [i \in DOMAIN @ \cup {id} |-> IF i = id THEN store'[t][id] ELSE @[i]]]
        /\ Fits(store'[t][id])
        /\ call'.ok => call'.value[1] = id /\ Agree(call'.value[2], store'[t][id])

\* The record under an id becomes another.
Amends(t, id, Becomes(_, _)) ==
    /\ id \in DOMAIN store[t]
    /\ store' = [store EXCEPT ![t][id] = store'[t][id]]
    /\ Becomes(store[t][id], store'[t][id])
    /\ call'.ok => call'.value \in {<<id, store'[t][id]>>, <<id, <<>>>>}

\* The answer is the one record that is asked for.
Finds(t, Asked(_, _)) ==
    /\ \A id \in DOMAIN store[t] :
          Asked(id, store[t][id]) <=> call'.value = <<id, store[t][id]>>
    /\ call'.value \in {<<id, store[t][id]>> : id \in DOMAIN store[t]}

\* The answer is the records that must be there, and none but those that may.
Lists(t, Must(_, _), May(_, _)) ==
    /\ \A id \in DOMAIN call'.value :
          id \in DOMAIN store[t] /\ May(id, store[t][id]) /\ call'.value[id] = store[t][id]
    /\ \A id \in DOMAIN store[t] : Must(id, store[t][id]) => id \in DOMAIN call'.value

\* A call that fails has done what it does all the same, or nothing.
Writes(A) == A \/ (~call'.ok /\ store' = store)

Reads(A) == store' = store /\ (call'.ok => A)

Arg(i) == call'.args[i]

-----------------------------------------------------------------------------
CreateAudit ==
    /\ Calls("CreateAudit")
    /\ Writes(Arg(1) # "" /\
              Adds("audits", LAMBDA r : r.Name = Arg(1) /\ r.SQLQuery = Arg(2)))

GetAudit ==
    Calls("GetAudit") /\ Reads(Finds("audits", LAMBDA id, r : id = Arg(1)))

\* A run begins running, for an audit that is there.
CreateAuditRun ==
    /\ Calls("CreateAuditRun")
    /\ Writes(Arg(1) \in DOMAIN store.audits /\
              Adds("audit_runs", LAMBDA r :
                r.AuditID = Arg(1) /\ r.Status = "running" /\
                r.ActualValue = <<>> /\ r.Error = <<>> /\ r.CompletedAt = <<>>))

\* A result completes the run, and leaves a value or an error that it does not give.
UpdateAuditRunResult ==
    /\ Calls("UpdateAuditRunResult")
    /\ Writes(Amends("audit_runs", Arg(1), LAMBDA r, s :
                /\ s.CompletedAt # <<>>
                /\ s = [r EXCEPT !.Status = Arg(2), !.CompletedAt = s.CompletedAt,
                                 !.ActualValue = IF Arg(3) = <<>> THEN @ ELSE Arg(3),
                                 !.Error = IF Arg(4) = <<>> THEN @ ELSE Arg(4)]))

\* A run is found only by the audit it is of.
GetAuditRun ==
    /\ Calls("GetAuditRun")
    /\ Reads(Finds("audit_runs", LAMBDA id, r : r.AuditID = Arg(1) /\ id = Arg(2)))

GetAuditRunsByIDs ==
    /\ Calls("GetAuditRunsByIDs")
    /\ Reads(Lists("audit_runs", LAMBDA id, r : id \in Arg(1), LAMBDA id, r : id \in Arg(1)))

\* An issue names an audit and a run that are there, and tells an actual value.
CreateIssue ==
    /\ Calls("CreateIssue")
    /\ Writes(/\ Arg(1) \in DOMAIN store.audits /\ Arg(2) \in DOMAIN store.audit_runs
              /\ Arg(3) # ""
              /\ Adds("issues", LAMBDA r :
                    r.AuditID = Arg(1) /\ r.AuditRunID = Arg(2) /\ r.ActualValue = Arg(3)))

\* A page holds page-size issues, or what is left of them, the latest first; whatever
\* comes later than an issue of the page is on it or on a page before it.
ListIssues ==
    /\ Calls("ListIssues")
    /\ Reads(LET list   == call'.value
                 before == (Arg(1) - 1) * Arg(2)
                 total  == Cardinality(DOMAIN store.issues)
                 Later(id) == {i \in DOMAIN store.issues :
                                  store.issues[i].CreatedAt > store.issues[id].CreatedAt}
             IN  /\ Len(list) = IF total <= before THEN 0
                                ELSE IF total - before < Arg(2) THEN total - before ELSE Arg(2)
                 /\ \A i \in DOMAIN list :
                      /\ list[i][1] \in DOMAIN store.issues
                      /\ list[i][2] = store.issues[list[i][1]]
                      /\ Cardinality(Later(list[i][1])) < before + i
                      /\ \A j \in 1..(i - 1) :
                            list[j][1] # list[i][1] /\ list[j][2].CreatedAt >= list[i][2].CreatedAt)

GetIssue ==
    Calls("GetIssue") /\ Reads(Finds("issues", LAMBDA id, r : id = Arg(1)))

CreatePolicy ==
    /\ Calls("CreatePolicy")
    /\ Writes(Arg(1) # "" /\
              Adds("policies", LAMBDA r : r.Name = Arg(1) /\ r.AuditIDs = Arg(2)))

GetPolicy ==
    Calls("GetPolicy") /\ Reads(Finds("policies", LAMBDA id, r : id = Arg(1)))

CreatePolicyRun ==
    /\ Calls("CreatePolicyRun")
    /\ Writes(Adds("policy_runs", LAMBDA r :
                r.PolicyID = Arg(1) /\ r.AuditRunIDs = Arg(2) /\ r.Status = "running" /\
                r.CompletedAt = <<>>))

GetPolicyRun ==
    Calls("GetPolicyRun") /\ Reads(Finds("policy_runs", LAMBDA id, r : id = Arg(1)))

UpdatePolicyRunStatus ==
    /\ Calls("UpdatePolicyRunStatus")
    /\ Writes(Amends("policy_runs", Arg(1), LAMBDA r, s :
                /\ s.CompletedAt # <<>>
                /\ s = [r EXCEPT !.Status = Arg(2), !.CompletedAt = s.CompletedAt]))

\* A name is taken once.
CreateUser ==
    /\ Calls("CreateUser")
    /\ Writes(/\ Arg(1) # "" /\ Arg(2) # ""
              /\ \A id \in DOMAIN store.users : store.users[id].Username # Arg(1)
              /\ Adds("users", LAMBDA r : r.Username = Arg(1) /\ r.Password = Arg(2)))

GetUserByUsername ==
    /\ Calls("GetUserByUsername")
    /\ Reads(Finds("users", LAMBDA id, r : r.Username = Arg(1)))

CreateSchedule ==
    /\ Calls("CreateSchedule")
    /\ Writes(Adds("schedules", LAMBDA r : r.TargetID = Arg(1) /\ Near(r.NextRunAt, Arg(2))))

\* Every schedule that is due is listed, and none that is due a tick later.
GetDueSchedules ==
    /\ Calls("GetDueSchedules")
    /\ Reads(Lists("schedules", LAMBDA id, r : r.NextRunAt <= Arg(1),
                                LAMBDA id, r : r.NextRunAt <= Arg(1) + 1))

UpdateScheduleNextRun ==
    /\ Calls("UpdateScheduleNextRun")
    /\ Writes(Amends("schedules", Arg(1), LAMBDA r, s :
                s = [r EXCEPT !.NextRunAt = s.NextRunAt] /\ Near(s.NextRunAt, Arg(2))))

Return == call.method # "none" /\ call'.method = "none" /\ store' = store

StoreNext ==
    \/ CreateAudit \/ GetAudit \/ CreateAuditRun \/ UpdateAuditRunResult \/ GetAuditRun
    \/ GetAuditRunsByIDs \/ CreateIssue \/ ListIssues \/ GetIssue \/ CreatePolicy \/ GetPolicy
    \/ CreatePolicyRun \/ GetPolicyRun \/ UpdatePolicyRunStatus \/ CreateUser
    \/ GetUserByUsername \/ CreateSchedule \/ GetDueSchedules \/ UpdateScheduleNextRun \/ Return

StoreSpec == StoreInit /\ [][StoreNext]_storeVars
================================================================================
