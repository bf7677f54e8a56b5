------------------------------ MODULE PolicyRun ------------------------------
(***************************************************************************)
(* One run of a policy: RunPolicy, and the pollers that settle its status. *)
(*                                                                         *)
(* RunPolicy inserts and dispatches one audit run per audit of the policy, *)
(* in a loop, and only then the policy_runs row that lists them.  Nobody   *)
(* watches the children: whoever polls GetPolicyRunStatus reads the row,   *)
(* reads the children, and if none of them runs writes their aggregate     *)
(* into the row.  Several pollers, on several replicas, do so at once.     *)
(*                                                                         *)
(* A child behaves as RunRecord promises, which AuditRun is shown to       *)
(* implement; the handler's writes to its row are RunRecord's actions.     *)
(***************************************************************************)
EXTENDS RunRecord, Naturals, FiniteSets

CONSTANTS
    NumAudits,   \* the length of the policy's audit_ids
    Pollers,     \* the callers of GetPolicyRunStatus
    Faults       \* what can go wrong: a subset of AllFaults

\* "rpc": a dispatch is lost or answered too late; "job": an execution ends with
\* no word (AuditRun says how); "db": Postgres fails a call, or commits it and its
\* answer is lost; "cancel": a client goes away; "crash": the API
\* process of RunPolicy dies.
AllFaults == {"rpc", "job", "db", "cancel", "crash"}

\* CreatePolicy refuses an empty list of audits; every audit may need a row.
ASSUME PolicyAssumption ==
    /\ NumAudits \in Nat \ {0}
    /\ Faults \subseteq AllFaults
    /\ IsFiniteSet(RunIds) /\ Cardinality(RunIds) >= NumAudits

VARIABLES
    \* RunPolicy
    pc,         \* where the handler is
    at,         \* the audit the loop is at
    current,    \* the child created last
    children,   \* auditRunIDs
    cancelled,  \* the request's context is cancelled
    \* the row of policy_runs
    policy,     \* its status and its audit_run_ids
    \* GetPolicyRunStatus, per poller
    poll,       \* where the poll is
    readStatus, \* the policy's status as it read it
    readRuns,   \* its children's statuses as it read them
    told        \* the status of its last answer

handlerVars == <<pc, at, current, children, cancelled>>
pollVars    == <<poll, readStatus, readRuns, told>>
vars        == <<recordVars, handlerVars, policy, pollVars>>

Init ==
    /\ RecordInit
    /\ pc = "idle" /\ at = 1 /\ current = 0 /\ children = {} /\ cancelled = FALSE
    /\ policy     = [status |-> "absent", runs |-> {}]
    /\ poll       = [p \in Pollers |-> "idle"]
    /\ readStatus = [p \in Pollers |-> "absent"]
    /\ readRuns   = [p \in Pollers |-> [r \in RunIds |-> "absent"]]
    /\ told       = [p \in Pollers |-> "absent"]

WriteResults(dead) ==
    IF dead THEN {"failed"}
            ELSE {"ok"} \cup IF "db" \in Faults THEN {"failed", "unacked"} ELSE {}

-----------------------------------------------------------------------------
(***************************************************************************)
(* RunPolicy.                                                              *)
(***************************************************************************)
Handling == {"creating", "dispatching", "blaming", "inserting"}

GetPolicy ==
    /\ pc = "idle"
    /\ pc' \in {"creating"} \cup IF "db" \in Faults THEN {"errored"} ELSE {}
    /\ UNCHANGED <<recordVars, at, current, children, cancelled, policy, pollVars>>

\* Mutant of Onward: the loop runs once too often.
OnwardPast ==
    /\ at' = at + 1
    /\ pc' = IF at <= NumAudits THEN "creating" ELSE "inserting"

\* The loop goes on to the next audit, or past the last one.
Onward ==
    /\ at' = at + 1
    /\ pc' = IF at < NumAudits THEN "creating" ELSE "inserting"

\* Mutant of ListChild: the append is forgotten when a child is already listed.
ListFirstChild(r) == children' = IF children = {} THEN {r} ELSE children

ListChild(r) == children' = children \cup {r}

\* An error of CreateAuditRun is noted, and the audit skipped.
CreateAuditRun ==
    /\ pc = "creating"
    /\ \E w \in WriteResults(cancelled) :
          \/ /\ w = "ok"
             /\ \E r \in RunIds : Create(r, Parties) /\ current' = r /\ ListChild(r)
             /\ pc' = "dispatching"
             /\ UNCHANGED at
          \/ /\ w = "unacked"
             /\ \E r \in RunIds : Create(r, {})
             /\ Onward
             /\ UNCHANGED <<current, children>>
          \/ /\ w = "failed"
             /\ Onward
             /\ UNCHANGED <<recordVars, current, children>>
    /\ UNCHANGED <<cancelled, policy, pollVars>>

Forgo(r, party) == owed' = [owed EXCEPT ![r] = @ \ {party}]

\* The gRPC call of worker.Client: accepted, or refused by the worker, or failed
\* without telling whether the worker has started.
ExecuteAudit ==
    /\ pc = "dispatching"
    /\ \/ /\ ~cancelled
          /\ Forgo(current, "dispatcher")
          /\ Onward
       \/ /\ ~cancelled
          /\ "executor" \in owed[current] /\ evidence[current] = {}
          /\ Forgo(current, "executor")
          /\ pc' = "blaming" /\ UNCHANGED at
       \/ /\ cancelled \/ "rpc" \in Faults
          /\ UNCHANGED owed \/ Forgo(current, "executor")
          /\ pc' = "blaming" /\ UNCHANGED at
    /\ UNCHANGED <<status, evidence, current, children, cancelled, policy, pollVars>>

\* The error of this update is not looked at.
RecordDispatchError ==
    /\ pc = "blaming"
    /\ \E w \in WriteResults(cancelled) :
          IF w = "failed" THEN Forgo(current, "dispatcher") /\ UNCHANGED <<status, evidence>>
                          ELSE Blame(current)
    /\ Onward
    /\ UNCHANGED <<current, children, cancelled, policy, pollVars>>

NewPolicyRun(runs) == [status |-> "running", runs |-> runs]

CreatePolicyRun ==
    /\ pc = "inserting"
    /\ \E w \in WriteResults(cancelled) :
          /\ policy' = IF w = "failed" THEN policy ELSE NewPolicyRun(children)
          /\ pc' = IF w = "ok" THEN "accepted" ELSE "errored"
    /\ UNCHANGED <<recordVars, at, current, children, cancelled, pollVars>>

Cancel ==
    /\ "cancel" \in Faults
    /\ pc \in Handling
    /\ ~cancelled
    /\ cancelled' = TRUE
    /\ UNCHANGED <<recordVars, pc, at, current, children, policy, pollVars>>

Crash ==
    /\ "crash" \in Faults
    /\ pc \in Handling
    /\ pc' = "crashed"
    /\ owed' = [r \in RunIds |-> owed[r] \ {"dispatcher"}]
    /\ UNCHANGED <<status, evidence, at, current, children, cancelled, policy, pollVars>>

-----------------------------------------------------------------------------
(***************************************************************************)
(* The worker, as RunRecord lets it act on a child.                        *)
(***************************************************************************)
Execute(r) ==
    /\ \/ \E p \in Positions : UNCHANGED owed /\ AddEvidence(r, p)
       \/ \E s \in Terminal : Report(r, s)
    /\ UNCHANGED <<handlerVars, policy, pollVars>>

LoseJob(r) ==
    /\ "job" \in Faults
    /\ "executor" \in owed[r]
    /\ Forgo(r, "executor")
    /\ UNCHANGED <<status, evidence, handlerVars, policy, pollVars>>

-----------------------------------------------------------------------------
(***************************************************************************)
(* GetPolicyRunStatus.  A poll that names another policy, or whose read    *)
(* fails, is refused and changes nothing.                                  *)
(***************************************************************************)
GetPolicyRun(p) ==
    /\ poll[p] = "idle"
    /\ policy.status # "absent"
    /\ readStatus' = [readStatus EXCEPT ![p] = policy.status]
    /\ poll'       = [poll EXCEPT ![p] = "policyRead"]
    /\ UNCHANGED <<recordVars, handlerVars, policy, readRuns, told>>

\* Mutants of AllCompleted: one completed child is enough; all must have passed.
SomeCompleted(seen, runs) == \E r \in runs : seen[r] # "running"
AllPassed(seen, runs)     == runs # {} /\ \A r \in runs : seen[r] = "passed"

AllCompleted(seen, runs) == runs # {} /\ \A r \in runs : seen[r] # "running"

\* Mutant of Aggregate: "error" is forgotten.
AggregateOfVerdicts(seen, runs) ==
    IF \E r \in runs : seen[r] = "failed" THEN "failed" ELSE "passed"

Aggregate(seen, runs) ==
    IF \E r \in runs : seen[r] = "error" THEN "error"
    ELSE IF \E r \in runs : seen[r] = "failed" THEN "failed" ELSE "passed"

Answer(p, s) == poll' = [poll EXCEPT ![p] = "idle"] /\ told' = [told EXCEPT ![p] = s]

GetAuditRunsByIDs(p) ==
    /\ poll[p] = "policyRead"
    /\ readRuns' = [readRuns EXCEPT ![p] =
                      [r \in RunIds |-> IF r \in policy.runs THEN status[r] ELSE "absent"]]
    /\ IF readStatus[p] = "running" /\ AllCompleted(status, policy.runs)
       THEN poll' = [poll EXCEPT ![p] = "deciding"] /\ UNCHANGED told
       ELSE Answer(p, readStatus[p])
    /\ UNCHANGED <<recordVars, handlerVars, policy, readStatus>>

WithStatus(final) == [policy EXCEPT !.status = final]

\* Whoever errs here still answers, with the status it had read.
UpdatePolicyRunStatus(p) ==
    /\ poll[p] = "deciding"
    /\ LET final == Aggregate(readRuns[p], policy.runs) IN
       \E w \in WriteResults(FALSE) :
          /\ policy' = IF w = "failed" THEN policy ELSE WithStatus(final)
          /\ Answer(p, IF w = "ok" THEN final ELSE readStatus[p])
    /\ UNCHANGED <<recordVars, handlerVars, readStatus, readRuns>>

\* The poll's read fails, or its client leaves.
AbandonPoll(p) ==
    /\ {"cancel", "db"} \cap Faults # {}
    /\ poll[p] # "idle"
    /\ poll' = [poll EXCEPT ![p] = "idle"]
    /\ UNCHANGED <<recordVars, handlerVars, policy, readStatus, readRuns, told>>

-----------------------------------------------------------------------------
RunPolicy ==
    \/ GetPolicy \/ CreateAuditRun \/ ExecuteAudit \/ RecordDispatchError
    \/ CreatePolicyRun

GetPolicyRunStatus(p) ==
    GetPolicyRun(p) \/ GetAuditRunsByIDs(p) \/ UpdatePolicyRunStatus(p)

Next ==
    \/ RunPolicy \/ Cancel \/ Crash
    \/ \E r \in RunIds : Execute(r) \/ LoseJob(r)
    \/ \E p \in Pollers : GetPolicyRunStatus(p) \/ AbandonPoll(p)

Spec == Init /\ [][Next]_vars

\* Handler and executions run on; somebody keeps polling, as README tells to.
FairSpec ==
    /\ Spec
    /\ WF_vars(RunPolicy)
    /\ \A r \in RunIds : WF_vars(Execute(r))
    /\ \A p \in Pollers : WF_vars(GetPolicyRunStatus(p))

-----------------------------------------------------------------------------
(***************************************************************************)
(* Properties.                                                             *)
(***************************************************************************)
\* Every variable has its type.
TypeOK ==
    /\ RecordTypeOK
    /\ pc \in Handling \cup {"idle", "accepted", "errored", "crashed"}
    /\ at \in 1 .. NumAudits + 1
    /\ current \in RunIds \cup {0}
    /\ children \subseteq RunIds
    /\ cancelled \in BOOLEAN
    /\ policy \in [status : Statuses, runs : SUBSET RunIds]
    /\ poll \in [Pollers -> {"idle", "policyRead", "deciding"}]
    /\ readStatus \in [Pollers -> Statuses]
    /\ readRuns \in [Pollers -> [RunIds -> Statuses]]
    /\ told \in [Pollers -> Statuses]

\* A policy run that has, or whose poller was told, a terminal status has children
\* and none of them still runs, however stale what the writer of that status had
\* read (GetPolicyRunStatus decides on reads made two calls earlier).
NoPrematureVerdict ==
    policy.status \in Terminal \/ (\E p \in Pollers : told[p] \in Terminal) =>
        policy.runs # {} /\ \A r \in policy.runs : status[r] \in Terminal

\* A terminal policy run is the aggregate of its children as they now read, and
\* every poller that was told a terminal status was told this one (README).
VerdictIsAggregate ==
    /\ policy.status = "passed" => \A r \in policy.runs : status[r] = "passed"
    /\ policy.status = "failed" => /\ \E r \in policy.runs : status[r] = "failed"
                                   /\ \A r \in policy.runs : status[r] \in {"passed", "failed"}
    /\ policy.status = "error"  => \E r \in policy.runs : status[r] = "error"
    /\ \A p \in Pollers : told[p] \in Terminal => told[p] = policy.status

\* The row lists one child per audit of the policy (README).
OneChildPerAudit == policy.status # "absent" => Cardinality(policy.runs) = NumAudits

\* Whatever failed on the way, a policy run that has its row lists every child that
\* anybody worked on or may still work on: a row outside the list is one whose insert
\* RunPolicy took for failed, and stays as it was made (the append comes before the
\* dispatch, and the list is written after the last of both).
ChildrenAreListed ==
    policy.status # "absent" =>
        \A r \in RunIds \ policy.runs :
            owed[r] = {} /\ evidence[r] = {} /\ status[r] \in {"absent", "running"}

\* Once no child of a policy run is running, its status does not stay "running".
PolicySettles ==
    (policy.status = "running" /\ \A r \in policy.runs : status[r] # "running")
        ~> policy.status \in Terminal
=============================================================================
