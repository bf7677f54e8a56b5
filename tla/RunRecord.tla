------------------------------ MODULE RunRecord ------------------------------
(***************************************************************************)
(* What a reader of the table audit_runs may rely on, whoever writes it.   *)
(*                                                                         *)
(* Two parties may write the outcome of a run: the handler that created    *)
(* and dispatched it ("dispatcher", internal/service RunAudit, RunPolicy)  *)
(* and the goroutine that executes it on the worker ("executor",           *)
(* ExecuteAuditRun).  owed[r] is the set of parties that have not yet      *)
(* written or given up.  Each writes at most once; the executor's verdict  *)
(* agrees with the issues ("evidence") it has recorded.  Nothing orders    *)
(* the two writes: UpdateAuditRunResult does not look at the status it     *)
(* replaces.                                                               *)
(***************************************************************************)

CONSTANTS
    RunIds,      \* the ids rows of audit_runs may get
    Positions    \* the places of queries in an audit

VARIABLES
    status,      \* status[r]: the status column of run r, "absent" without a row
    evidence,    \* evidence[r]: the queries of run r with a row in issues
    owed         \* owed[r]: the parties that may still write run r

recordVars == <<status, evidence, owed>>

Parties  == {"dispatcher", "executor"}
Terminal == {"passed", "failed", "error"}
Statuses == {"absent", "running"} \cup Terminal

RecordTypeOK ==
    /\ status   \in [RunIds -> Statuses]
    /\ evidence \in [RunIds -> SUBSET Positions]
    /\ owed     \in [RunIds -> SUBSET Parties]

RecordInit ==
    /\ status   = [r \in RunIds |-> "absent"]
    /\ evidence = [r \in RunIds |-> {}]
    /\ owed     = [r \in RunIds |-> {}]

(***************************************************************************)
(* The row is inserted; the handler may die, or not learn the id, at once. *)
(***************************************************************************)
Create(r, writers) ==
    /\ status[r] = "absent"
    /\ writers \subseteq Parties
    /\ status' = [status EXCEPT ![r] = "running"]
    /\ owed'   = [owed EXCEPT ![r] = writers]
    /\ UNCHANGED evidence

(***************************************************************************)
(* The dispatcher was told that the dispatch failed and says so.           *)
(***************************************************************************)
Blame(r) ==
    /\ "dispatcher" \in owed[r]
    /\ status' = [status EXCEPT ![r] = "error"]
    /\ owed'   = [owed EXCEPT ![r] = @ \ {"dispatcher"}]
    /\ UNCHANGED evidence

(***************************************************************************)
(* The executor records one deviation; it may fail right after.            *)
(***************************************************************************)
AddEvidence(r, p) ==
    /\ "executor" \in owed[r]
    /\ p \notin evidence[r]
    /\ evidence' = [evidence EXCEPT ![r] = @ \cup {p}]
    /\ owed' \in {owed, [owed EXCEPT ![r] = @ \ {"executor"}]}
    /\ UNCHANGED status

Judgement(r) == IF evidence[r] = {} THEN "passed" ELSE "failed"

(***************************************************************************)
(* The executor reports: a verdict on its evidence, or a query error.      *)
(***************************************************************************)
Report(r, s) ==
    /\ "executor" \in owed[r]
    /\ s \in {Judgement(r), "error"}
    /\ status' = [status EXCEPT ![r] = s]
    /\ owed'   = [owed EXCEPT ![r] = @ \ {"executor"}]
    /\ UNCHANGED evidence

(***************************************************************************)
(* Parties give up without a word: answered, crashed, failed, expired.     *)
(***************************************************************************)
Relinquish ==
    /\ owed' \in [RunIds -> SUBSET Parties]
    /\ \A r \in RunIds : owed'[r] \subseteq owed[r]
    /\ UNCHANGED <<status, evidence>>

RecordNext ==
    \/ \E r \in RunIds : \/ \E writers \in SUBSET Parties : Create(r, writers)
                         \/ Blame(r)
                         \/ \E p \in Positions : AddEvidence(r, p)
                         \/ \E s \in Terminal : Report(r, s)
    \/ Relinquish

RecordSpec == RecordInit /\ [][RecordNext]_recordVars
=============================================================================
