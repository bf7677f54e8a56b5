------------------------------- MODULE AuditRun -------------------------------
(***************************************************************************)
(* One audit run from the HTTP request to the verdict.                     *)
(*                                                                         *)
(* The API process serves POST /audits/{id}/run (service.RunAudit): it     *)
(* reads the audit, inserts a row "running" in audit_runs, calls the       *)
(* worker over gRPC (worker.Client) and answers.  The worker               *)
(* (worker.Server) accepts the call and leaves the work to a detached      *)
(* goroutine (service.ExecuteAuditRun), which runs the audit's queries,    *)
(* inserts an issue per deviation and writes the outcome into the row.     *)
(* They share only Postgres.  Each database call and each gRPC message is  *)
(* an action, so that handlers, jobs, crashes and timeouts interleave.     *)
(***************************************************************************)
EXTENDS Integers, FiniteSets

CONSTANTS
    Requests,    \* the calls of RunAudit, on whichever API replica
    Audits,      \* the ids of the rows of audits
    AuditIds,    \* the ids a caller may name, existing or not
    NumQueries,  \* NumQueries[a]: the number of queries of audit a
    RunIds,      \* the ids the identity column of audit_runs may produce
    IdModulus,   \* the values of the wire's int32: 2^32 in the code
    Outcomes,    \* what a query can do: a subset of AllOutcomes
    Faults       \* what can go wrong: a subset of AllFaults

\* "match": the value is the expected one; "deviate": it is another; "blank":
\* it is another and prints as the empty string; "fail": no value, an error.
AllOutcomes == {"match", "deviate", "blank", "fail"}

\* "rpc": a call or its answer is lost or later than worker.Client's timeout;
\* "db": Postgres fails a call, or commits it and its answer is lost;
\* "cancel": the HTTP client goes away, which cancels the request's context;
\* "deadline": the goroutine's context passes its two minutes;
\* "apiCrash", "workerCrash": the process dies (and restarts, with no memory).
AllFaults == {"rpc", "db", "cancel", "deadline", "apiCrash", "workerCrash"}

\* Identity columns count from 1, and stay below 2^32 rows: past that, two runs
\* would have the same int32.  Of the audit, only the int32 form is bounded.
ASSUME IdsAssumption ==
    /\ IdModulus \in Nat \ {0}
    /\ RunIds \subseteq 1 .. (IdModulus - 1)
    /\ Audits \subseteq 1 .. (IdModulus - 1)
    /\ Audits \subseteq AuditIds /\ AuditIds \subseteq Int

\* CreateAudit refuses an audit without queries.
ASSUME QueriesAssumption == NumQueries \in [Audits -> Nat \ {0}]

ASSUME ChoicesAssumption == Outcomes \subseteq AllOutcomes /\ Faults \subseteq AllFaults

Positions == UNION {1 .. NumQueries[a] : a \in Audits}

\* int32(id) of Go, and back to int: the low 32 bits, read in two's complement.
ToInt32(n) == LET m == n % IdModulus IN IF 2 * m < IdModulus THEN m ELSE m - IdModulus

VARIABLES
    \* the API, per request
    pc,          \* where RunAudit is
    audit,       \* the audit id in the request's path
    run,         \* the id CreateAuditRun returned, 0 before
    cancelled,   \* the request's context is cancelled
    call,        \* the gRPC call to the worker
    \* the worker, per call it accepted
    job,         \* where ExecuteAuditRun is
    jobAudit,    \* the audit id as decoded from the message
    jobRun,      \* the run id as decoded from the message
    pos,         \* the query it is at
    deviated,    \* the queries that deviated (failCount counts them)
    expired,     \* the goroutine's context has expired
    \* Postgres
    runs,        \* the table audit_runs
    issues       \* issues[r][p]: the rows of issues for query p of run r

apiVars    == <<pc, audit, run, cancelled>>
workerVars == <<job, jobAudit, jobRun, pos, deviated, expired>>
dbVars     == <<runs, issues>>
vars       == <<pc, audit, run, cancelled, call, job, jobAudit, jobRun, pos,
                deviated, expired, runs, issues>>

Handling == {"checked", "created", "waiting", "failing"}
Answered == {"accepted", "declined", "errored"}
Active   == {"loading", "query", "issue", "blankIssue", "failing", "finishing"}
Verdicts == {"passed", "failed"}
Terminal == Verdicts \cup {"error"}

Rows == [audit     : AuditIds \cup {0},
         status    : {"absent", "running"} \cup Terminal,
         value     : BOOLEAN,                        \* actual_value is set
         err       : {"none", "dispatch", "query"},  \* error_message, by writer
         completed : BOOLEAN]                        \* completed_at is set

NoRow == [audit |-> 0, status |-> "absent", value |-> FALSE, err |-> "none",
          completed |-> FALSE]

Init ==
    /\ pc        = [c \in Requests |-> "idle"]
    /\ audit     \in [Requests -> AuditIds]
    /\ run       = [c \in Requests |-> 0]
    /\ cancelled = [c \in Requests |-> FALSE]
    /\ call      = [c \in Requests |-> "none"]
    /\ job       = [c \in Requests |-> "none"]
    /\ jobAudit  = [c \in Requests |-> 0]
    /\ jobRun    = [c \in Requests |-> 0]
    /\ pos       = [c \in Requests |-> 1]
    /\ deviated  = [c \in Requests |-> {}]
    /\ expired   = [c \in Requests |-> FALSE]
    /\ runs      = [r \in RunIds |-> NoRow]
    /\ issues    = [r \in RunIds |-> [p \in Positions |-> 0]]

-----------------------------------------------------------------------------
(***************************************************************************)
(* Postgres.  A call under a dead context fails; otherwise it succeeds, or *)
(* under fault "db" fails, or ("unacked") commits and yet returns an error.*)
(***************************************************************************)
WriteResults(dead) ==
    IF dead THEN {"failed"}
            ELSE {"ok"} \cup IF "db" \in Faults THEN {"failed", "unacked"} ELSE {}

ReadResults(dead) == WriteResults(dead) \ {"unacked"}

\* Mutant of Updated: completed_at is forgotten.
UpdatedOpen(row, status, value, err) ==
    [row EXCEPT !.status = status, !.value = @ \/ value,
                !.err    = IF err = "none" THEN @ ELSE err]

\* The row UpdateAuditRunResult leaves: a nil field keeps its column.
Updated(row, status, value, err) ==
    [row EXCEPT !.status    = status,
                !.value     = @ \/ value,
                !.err       = IF err = "none" THEN @ ELSE err,
                !.completed = TRUE]

UpdateAuditRunResult(w, r, status, value, err) ==
    runs' = IF w = "failed" THEN runs
                            ELSE [runs EXCEPT ![r] = Updated(@, status, value, err)]

-----------------------------------------------------------------------------
(***************************************************************************)
(* The API: RunAudit, one action per call it makes.                        *)
(***************************************************************************)
GetAudit(c) ==
    /\ pc[c] = "idle"
    /\ \E w \in ReadResults(cancelled[c]) :
          pc' = [pc EXCEPT ![c] = IF w = "ok" /\ audit[c] \in Audits
                                  THEN "checked" ELSE "errored"]
    /\ UNCHANGED <<audit, run, cancelled, call, workerVars, dbVars>>

NewRow(a) == [NoRow EXCEPT !.audit = a, !.status = "running"]

CreateAuditRun(c) ==
    /\ pc[c] = "checked"
    /\ \E w \in WriteResults(cancelled[c]), r \in RunIds :
          /\ runs[r].status = "absent"
          /\ runs' = IF w = "failed" THEN runs ELSE [runs EXCEPT ![r] = NewRow(audit[c])]
          /\ pc'   = [pc EXCEPT ![c] = IF w = "ok" THEN "created" ELSE "errored"]
          /\ run'  = IF w = "ok" THEN [run EXCEPT ![c] = r] ELSE run
    /\ UNCHANGED <<audit, cancelled, call, workerVars, issues>>

\* gRPC sends nothing under a context that is already cancelled.
Dispatch(c) ==
    /\ pc[c] = "created"
    /\ IF cancelled[c]
       THEN pc' = [pc EXCEPT ![c] = "failing"] /\ UNCHANGED call
       ELSE /\ pc'   = [pc EXCEPT ![c] = "waiting"]
            /\ call' = [call EXCEPT ![c] = "sent"]
    /\ UNCHANGED <<audit, run, cancelled, workerVars, dbVars>>

\* Mutants of Reply: the answer's Accepted is not looked at; it is read reversed.
ReplyUnread(answer)   == "accepted"
ReplyReversed(answer) == IF answer = "refused" THEN "accepted" ELSE "failing"

Reply(answer) == IF answer = "accepted" THEN "accepted" ELSE "failing"

RpcAnswer(c) ==
    /\ pc[c] = "waiting"
    /\ call[c] \in {"accepted", "refused"}
    /\ pc' = [pc EXCEPT ![c] = Reply(call[c])]
    /\ UNCHANGED <<audit, run, cancelled, call, workerVars, dbVars>>

\* Mutant of GivesUp: a call without the timeout of worker.Client.
GivesUpIfCancelled(c) == cancelled[c]

GivesUp(c) == call[c] = "lost" \/ cancelled[c] \/ "rpc" \in Faults

\* The client gives up on the call; what the worker does with it is not known.
RpcFailure(c) ==
    /\ pc[c] = "waiting"
    /\ GivesUp(c)
    /\ pc' = [pc EXCEPT ![c] = "failing"]
    /\ UNCHANGED <<audit, run, cancelled, call, workerVars, dbVars>>

RecordDispatchError(c) ==
    /\ pc[c] = "failing"
    /\ \E w \in WriteResults(cancelled[c]) :
          /\ UpdateAuditRunResult(w, run[c], "error", FALSE, "dispatch")
          /\ pc' = [pc EXCEPT ![c] = IF w = "ok" THEN "declined" ELSE "errored"]
    /\ UNCHANGED <<audit, run, cancelled, call, workerVars, issues>>

Cancel(c) ==
    /\ "cancel" \in Faults
    /\ pc[c] \in Handling
    /\ cancelled' = [cancelled EXCEPT ![c] = TRUE]
    /\ UNCHANGED <<pc, audit, run, call, workerVars, dbVars>>

ApiCrash(c) ==
    /\ "apiCrash" \in Faults
    /\ pc[c] \in Handling
    /\ pc' = [pc EXCEPT ![c] = "crashed"]
    /\ UNCHANGED <<audit, run, cancelled, call, workerVars, dbVars>>

-----------------------------------------------------------------------------
(***************************************************************************)
(* The worker.                                                             *)
(***************************************************************************)
\* A message is under way: the call, or the answer someone still waits for.
InFlight(c) == call[c] = "sent" \/ (call[c] \in {"accepted", "refused"} /\ pc[c] = "waiting")

\* It is lost on its way, finds no one there, or is abandoned by a client that
\* was cancelled or died.
LoseCall(c) ==
    /\ InFlight(c)
    /\ {"rpc", "workerCrash"} \cap Faults # {} \/ cancelled[c] \/ pc[c] = "crashed"
    /\ call' = [call EXCEPT ![c] = "lost"]
    /\ UNCHANGED <<apiVars, workerVars, dbVars>>

\* Mutant of Acceptable: the ids are not looked at.
AcceptableAlways(a, r) == TRUE

Acceptable(a, r) == a > 0 /\ r > 0

\* ExecuteAudit accepts and starts the goroutine before it answers.
ExecuteAudit(c) ==
    /\ call[c] = "sent"
    /\ IF Acceptable(ToInt32(audit[c]), ToInt32(run[c]))
       THEN /\ call'     = [call EXCEPT ![c] = "accepted"]
            /\ job'      = [job EXCEPT ![c] = "loading"]
            /\ jobAudit' = [jobAudit EXCEPT ![c] = ToInt32(audit[c])]
            /\ jobRun'   = [jobRun EXCEPT ![c] = ToInt32(run[c])]
       ELSE /\ call'     = [call EXCEPT ![c] = "refused"]
            /\ UNCHANGED <<job, jobAudit, jobRun>>
    /\ UNCHANGED <<apiVars, pos, deviated, expired, dbVars>>

\* GetAudit, then GetAuditRun by run and audit id.
Found(a, r) == a \in Audits /\ r \in RunIds /\ runs[r].audit = a

Load(c) ==
    /\ job[c] = "loading"
    /\ \E w \in ReadResults(expired[c]) :
          job' = [job EXCEPT ![c] = IF w = "ok" /\ Found(jobAudit[c], jobRun[c])
                                    THEN "query" ELSE "dead"]
    /\ UNCHANGED <<apiVars, call, jobAudit, jobRun, pos, deviated, expired, dbVars>>

\* Where the loop over the queries goes after the one at pos[c].
Onward(c) == IF pos[c] < NumQueries[jobAudit[c]] THEN "query" ELSE "finishing"

RunScalarQuery(c) ==
    /\ job[c] = "query"
    /\ \/ /\ ~expired[c] /\ "match" \in Outcomes
          /\ job' = [job EXCEPT ![c] = Onward(c)]
          /\ pos' = [pos EXCEPT ![c] = @ + 1]
          /\ UNCHANGED deviated
       \/ /\ ~expired[c]
          /\ \E o \in Outcomes \cap {"deviate", "blank"} :
                job' = [job EXCEPT ![c] = IF o = "blank" THEN "blankIssue" ELSE "issue"]
          /\ deviated' = [deviated EXCEPT ![c] = @ \cup {pos[c]}]
          /\ UNCHANGED pos
       \/ /\ expired[c] \/ "fail" \in Outcomes \/ "db" \in Faults
          /\ job' = [job EXCEPT ![c] = "failing"]
          /\ UNCHANGED <<pos, deviated>>
    /\ UNCHANGED <<apiVars, call, jobAudit, jobRun, expired, dbVars>>

\* Mutant of AfterIssue: the error of CreateIssue is ignored.
AfterIssueAnyway(c, w) == Onward(c)

AfterIssue(c, w) == IF w = "ok" THEN Onward(c) ELSE "dead"

\* The schema's NotEmpty on actual_value refuses a blank one before Postgres
\* sees it.  An error of CreateIssue ends the job: the run's row is not written.
CreateIssue(c) ==
    /\ job[c] \in {"issue", "blankIssue"}
    /\ \E w \in WriteResults(expired[c] \/ job[c] = "blankIssue") :
          /\ issues' = IF w = "failed" THEN issues
                       ELSE [issues EXCEPT ![jobRun[c]][pos[c]] = @ + 1]
          /\ job' = [job EXCEPT ![c] = AfterIssue(c, w)]
          /\ pos' = [pos EXCEPT ![c] = @ + 1]
    /\ UNCHANGED <<apiVars, call, jobAudit, jobRun, deviated, expired, runs>>

\* Mutant of AfterWrite: the job tries again after an error.
AfterWriteRetry(c, w) == IF w = "ok" THEN "done" ELSE job[c]

AfterWrite(c, w) == IF w = "ok" THEN "done" ELSE "dead"

RecordQueryError(c) ==
    /\ job[c] = "failing"
    /\ \E w \in WriteResults(expired[c]) :
          /\ UpdateAuditRunResult(w, jobRun[c], "error", FALSE, "query")
          /\ job' = [job EXCEPT ![c] = AfterWrite(c, w)]
    /\ UNCHANGED <<apiVars, call, jobAudit, jobRun, pos, deviated, expired, issues>>

\* Mutants of Verdict: one deviation is tolerated; the words are not the table's.
VerdictTolerant(failures) == IF Cardinality(failures) <= 1 THEN "passed" ELSE "failed"
VerdictMisspelt(failures) == IF failures = {} THEN "pass" ELSE "fail"

Verdict(failures) == IF failures = {} THEN "passed" ELSE "failed"

Finish(c) ==
    /\ job[c] = "finishing"
    /\ \E w \in WriteResults(expired[c]) :
          /\ UpdateAuditRunResult(w, jobRun[c], Verdict(deviated[c]), TRUE, "none")
          /\ job' = [job EXCEPT ![c] = AfterWrite(c, w)]
    /\ UNCHANGED <<apiVars, call, jobAudit, jobRun, pos, deviated, expired, issues>>

Deadline(c) ==
    /\ "deadline" \in Faults
    /\ job[c] \in Active
    /\ expired' = [expired EXCEPT ![c] = TRUE]
    /\ UNCHANGED <<apiVars, call, job, jobAudit, jobRun, pos, deviated, dbVars>>

\* The process dies with its goroutines and its connections.
WorkerCrash ==
    /\ "workerCrash" \in Faults
    /\ job'  = [c \in Requests |-> IF job[c] \in Active THEN "dead" ELSE job[c]]
    /\ call' = [c \in Requests |-> IF InFlight(c) THEN "lost" ELSE call[c]]
    /\ UNCHANGED <<apiVars, jobAudit, jobRun, pos, deviated, expired, dbVars>>

-----------------------------------------------------------------------------
ApiStep(c) ==
    \/ GetAudit(c) \/ CreateAuditRun(c) \/ Dispatch(c)
    \/ RpcAnswer(c) \/ RpcFailure(c) \/ RecordDispatchError(c)

JobStep(c) ==
    Load(c) \/ RunScalarQuery(c) \/ CreateIssue(c) \/ RecordQueryError(c) \/ Finish(c)

FaultStep(c) == Cancel(c) \/ ApiCrash(c) \/ LoseCall(c) \/ Deadline(c)

Next ==
    \/ \E c \in Requests : ApiStep(c) \/ ExecuteAudit(c) \/ JobStep(c) \/ FaultStep(c)
    \/ WorkerCrash

Spec == Init /\ [][Next]_vars

(***************************************************************************)
(* The Go scheduler runs every handler and goroutine that can run, gRPC    *)
(* serves a call that reaches it, and every call of worker.Client returns  *)
(* within its timeout.  No fault is ever forced to happen.                 *)
(***************************************************************************)
FairSpec ==
    /\ Spec
    /\ \A c \in Requests : WF_vars(ApiStep(c)) /\ WF_vars(ExecuteAudit(c)) /\ WF_vars(JobStep(c))
-----------------------------------------------------------------------------
(***************************************************************************)
(* Properties.                                                             *)
(***************************************************************************)
\* Every variable has its type (the Go types and the columns of ent/schema).
TypeOK ==
    /\ pc        \in [Requests -> {"idle", "crashed"} \cup Handling \cup Answered]
    /\ audit     \in [Requests -> AuditIds]
    /\ run       \in [Requests -> RunIds \cup {0}]
    /\ cancelled \in [Requests -> BOOLEAN]
    /\ call      \in [Requests -> {"none", "sent", "accepted", "refused", "lost"}]
    /\ job       \in [Requests -> {"none", "done", "dead"} \cup Active]
    /\ jobAudit  \in [Requests -> Int]
    /\ jobRun    \in [Requests -> Int]
    /\ pos       \in [Requests -> Nat \ {0}]
    /\ deviated  \in [Requests -> SUBSET Positions]
    /\ expired   \in [Requests -> BOOLEAN]
    /\ runs      \in [RunIds -> Rows]
    /\ issues    \in [RunIds -> [Positions -> Nat]]

\* A run that reads "passed" has no issue, one that reads "failed" has one at
\* least: whatever crashed, timed out or was lost, and in whatever order the
\* dispatcher and the job wrote (ExecuteAuditRun writes issues before verdict).
VerdictMatchesIssues ==
    \A r \in RunIds :
        /\ runs[r].status = "passed" => \A p \in Positions : issues[r][p] = 0
        /\ runs[r].status = "failed" => \E p \in Positions : issues[r][p] > 0

\* Once a run has a value, each query that deviated has one issue, and no other
\* query has any: no issue is lost or doubled by an error of the database
\* (ExecuteAuditRun stops at the first CreateIssue that returns an error).
OneIssuePerDeviation ==
    \A c \in Requests : run[c] # 0 /\ runs[run[c]].value =>
        \A p \in Positions : issues[run[c]][p] = IF p \in deviated[c] THEN 1 ELSE 0

\* The columns of a row agree although two processes write it: completed_at goes
\* with a terminal status, a verdict with a value, "error" with a message, and
\* the message of a query that failed never with a value of the same job.
RowTellsItsStory ==
    \A r \in RunIds : LET row == runs[r] IN
        /\ row.completed <=> row.status \in Terminal
        /\ row.status \in Verdicts => row.value
        /\ row.status = "error" => row.err # "none"
        /\ row.err = "query" => row.status = "error" /\ ~row.value

\* What RunAudit answered stays true: an accepted run was started and nobody
\* blames its dispatch later; a declined run carries an error message for good.
AnswersAreHonest ==
    \A c \in Requests :
        /\ pc[c] = "accepted" => job[c] # "none" /\ runs[run[c]].err # "dispatch"
        /\ pc[c] = "declined" => runs[run[c]].err # "none"

\* A terminal status is never replaced, by another terminal one or by "running":
\* who polls until it sees one (README) has seen the outcome.
TerminalIsFinal ==
    [][\A r \in RunIds :
         runs[r].status \in Terminal => runs'[r].status = runs[r].status]_vars

\* Every run that was started reaches a terminal status: polling ends (README).
RunSettles ==
    \A r \in RunIds : runs[r].status = "running" ~> runs[r].status \in Terminal

\* Every request is answered, unless its API process dies: the timeout of
\* worker.Client bounds the wait for the worker.
RequestIsAnswered == \A c \in Requests : <>(pc[c] \in Answered)

(***************************************************************************)
(* The record of a run as RunRecord promises it.                           *)
(***************************************************************************)
RecordStatus   == [r \in RunIds |-> runs[r].status]
RecordEvidence == [r \in RunIds |-> {p \in Positions : issues[r][p] > 0}]

DispatcherOwes(c) == pc[c] \in {"created", "waiting", "failing"}
ExecutorOwes(c)   == pc[c] = "created" \/ call[c] = "sent" \/ job[c] \in Active

RecordOwed ==
    [r \in RunIds |->
       (IF \E c \in Requests : run[c] = r /\ DispatcherOwes(c) THEN {"dispatcher"} ELSE {})
       \cup
       (IF \E c \in Requests : run[c] = r /\ ExecutorOwes(c) THEN {"executor"} ELSE {})]

Record == INSTANCE RunRecord WITH
    status <- RecordStatus, evidence <- RecordEvidence, owed <- RecordOwed

\* Handlers, jobs and faults together keep the promise of RunRecord: two writers
\* per run at most, one word each, and the executor's agrees with its evidence.
ImplementsRecord == Record!RecordSpec
=============================================================================
