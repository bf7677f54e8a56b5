---------------------------- MODULE AuditRunProofs ----------------------------
(***************************************************************************)
(* What AuditRun's runs check on small instances, for every value of the   *)
(* constants.  IInv is the inductive invariant: who owns a row (Distinct,  *)
(* Owned), how far a request, its call and its job can be apart (Phases),  *)
(* what the job has recorded (Recorded), who has written (Written), and    *)
(* what a row says on its own (RowInv).                                    *)
(***************************************************************************)
EXTENDS AuditRun, TLAPS

\* No row belongs to two requests: identity columns never repeat an id.
Distinct == \A c, d \in Requests : c # d /\ run[c] # 0 => run[c] # run[d]

\* A row that a request owns exists, and its audit too.
Owned(c) ==
    /\ run[c] # 0 => runs[run[c]].status # "absent" /\ audit[c] \in Audits
    /\ pc[c] = "checked" => audit[c] \in Audits

\* Request, call and job go in step; the job works on the request's own row.
Phases(c) ==
    /\ pc[c] \in {"idle", "checked"} => run[c] = 0
    /\ run[c] = 0 => /\ pc[c] \notin {"created", "waiting", "failing", "accepted", "declined"}
                     /\ call[c] = "none"
    /\ pc[c] = "created" => call[c] = "none"
    /\ "accepted" \in {pc[c], call[c]} => job[c] # "none"
    /\ call[c] \in {"none", "sent", "refused"} => job[c] = "none"
    /\ job[c] # "none" => jobRun[c] = run[c] /\ jobAudit[c] = audit[c]

\* The issues of run c are those of the queries in done.
Exactly(c, done) ==
    \A p \in Positions : issues[run[c]][p] = IF p \in done THEN 1 ELSE 0

\* A job records the deviations of the queries it has passed, one issue each.
Recorded(c) ==
    /\ job[c] \in {"none", "loading"} => pos[c] = 1
    /\ job[c] \in {"query", "issue", "blankIssue"} => pos[c] \in 1 .. NumQueries[audit[c]]
    /\ job[c] \in {"none", "loading", "query"} => deviated[c] \subseteq 1 .. (pos[c] - 1)
    /\ job[c] \in {"issue", "blankIssue"} =>
          pos[c] \in deviated[c] /\ deviated[c] \subseteq 1 .. pos[c]
    /\ run[c] # 0 => /\ job[c] \in {"none", "loading", "query", "failing", "finishing"}
                             => Exactly(c, deviated[c])
                     /\ job[c] \in {"issue", "blankIssue"}
                             => Exactly(c, deviated[c] \ {pos[c]})
                     /\ runs[run[c]].value => Exactly(c, deviated[c])

\* Who has not yet written the row has left no trace in it.
Written(c) == run[c] # 0 =>
    /\ job[c] \in {"none"} \cup Active => ~runs[run[c]].value /\ runs[run[c]].err # "query"
    /\ pc[c] \notin {"declined", "errored"} => runs[run[c]].err # "dispatch"
    /\ pc[c] = "declined" => runs[run[c]].err # "none"

\* RowTellsItsStory and VerdictMatchesIssues of one row; no row, no issues.
RowInv(r) ==
    /\ runs[r].completed <=> runs[r].status \in Terminal
    /\ runs[r].status \in Verdicts => runs[r].value
    /\ runs[r].status = "error" => runs[r].err # "none"
    /\ runs[r].err = "query" => runs[r].status = "error" /\ ~runs[r].value
    /\ runs[r].status = "passed" => \A p \in Positions : issues[r][p] = 0
    /\ runs[r].status = "failed" => \E p \in Positions : issues[r][p] > 0
    /\ runs[r].status = "absent" => /\ \A p \in Positions : issues[r][p] = 0
                                    /\ ~runs[r].value /\ runs[r].err = "none"

IInv ==
    /\ TypeOK
    /\ Distinct
    /\ \A c \in Requests : Owned(c) /\ Phases(c) /\ Recorded(c) /\ Written(c)
    /\ \A r \in RunIds : RowInv(r)

-----------------------------------------------------------------------------

LEMMA Int32OfSmall ==
    ASSUME NEW n \in 1 .. (IdModulus - 1), ToInt32(n) > 0
    PROVE  ToInt32(n) = n
<1>1. IdModulus \in Nat \ {0} BY IdsAssumption
<1>2. n % IdModulus = n BY <1>1
<1> QED BY <1>1, <1>2 DEF ToInt32

LEMMA InitInv == Init => IInv
<1> SUFFICES ASSUME Init PROVE IInv OBVIOUS
<1>1. TypeOK
  BY DEF Init, TypeOK, Rows, NoRow
<1>2. Distinct
  BY DEF Init, Distinct
<1>3. ASSUME NEW c \in Requests PROVE Owned(c) /\ Phases(c) /\ Recorded(c) /\ Written(c)
  BY <1>3 DEF Init, Owned, Phases, Recorded, Written
<1>4. ASSUME NEW r \in RunIds PROVE RowInv(r)
  BY <1>4 DEF Init, RowInv, NoRow, Terminal, Verdicts
<1> QED BY <1>1, <1>2, <1>3, <1>4 DEF IInv

\* The handler's steps that write no row.
LEMMA HandlerInv ==
    ASSUME IInv, NEW c \in Requests,
           GetAudit(c) \/ Dispatch(c) \/ RpcAnswer(c) \/ RpcFailure(c) \/ Cancel(c) \/ ApiCrash(c)
    PROVE  IInv'
<1> USE DEF GetAudit, Dispatch, RpcAnswer, Reply, RpcFailure, Cancel, ApiCrash, Handling,
            workerVars, dbVars
<1>1. TypeOK'
  BY DEF IInv, TypeOK, Answered
<1>2. Distinct'
  BY DEF IInv, Distinct
<1>3. ASSUME NEW d \in Requests PROVE Owned(d)'
  BY DEF IInv, TypeOK, Owned
<1>4. ASSUME NEW d \in Requests PROVE Phases(d)'
  BY DEF IInv, TypeOK, Phases
<1>5. ASSUME NEW d \in Requests PROVE Recorded(d)'
  BY DEF IInv, Recorded, Exactly
<1>6. ASSUME NEW d \in Requests PROVE Written(d)'
  BY DEF IInv, TypeOK, Written, Phases
<1>7. ASSUME NEW r \in RunIds PROVE RowInv(r)'
  BY DEF IInv, RowInv
<1> QED BY <1>1, <1>2, <1>3, <1>4, <1>5, <1>6, <1>7 DEF IInv

\* The worker takes the call up: the ids it decodes are the request's.
LEMMA ExecuteAuditInv ==
    ASSUME IInv, NEW c \in Requests, ExecuteAudit(c)
    PROVE  IInv'
<1> USE DEF ExecuteAudit, apiVars, dbVars
<1>1. /\ run[c] \in RunIds /\ run[c] \in 1 .. (IdModulus - 1)
      /\ audit[c] \in 1 .. (IdModulus - 1)
  BY IdsAssumption DEF IInv, TypeOK, Phases, Owned
<1>2. /\ ToInt32(run[c]) \in Int /\ ToInt32(audit[c]) \in Int
      /\ Acceptable(ToInt32(audit[c]), ToInt32(run[c])) =>
            ToInt32(run[c]) = run[c] /\ ToInt32(audit[c]) = audit[c]
  BY <1>1, Int32OfSmall, IdsAssumption DEF Acceptable, ToInt32
<1>3. TypeOK'
  BY <1>2 DEF IInv, TypeOK, Active
<1>4. Distinct'
  BY DEF IInv, Distinct
<1>5. ASSUME NEW d \in Requests PROVE Owned(d)'
  BY DEF IInv, Owned
<1>6. ASSUME NEW d \in Requests PROVE Phases(d)'
  BY <1>2 DEF IInv, TypeOK, Phases
<1>7. ASSUME NEW d \in Requests PROVE Recorded(d)'
  <2>1. job[c] = "none" /\ job'[c] \in {"none", "loading"} /\ (d # c => job'[d] = job[d])
    BY DEF IInv, TypeOK, Phases
  <2>2. Recorded(d) /\ UNCHANGED <<run, audit, pos, deviated, runs, issues>>
    BY DEF IInv
  <2> QED BY <2>1, <2>2 DEF Recorded, Exactly
<1>8. ASSUME NEW d \in Requests PROVE Written(d)'
  BY DEF IInv, TypeOK, Phases, Written
<1>9. ASSUME NEW r \in RunIds PROVE RowInv(r)'
  BY DEF IInv, RowInv
<1> QED BY <1>3, <1>4, <1>5, <1>6, <1>7, <1>8, <1>9 DEF IInv

\* A message is lost, or a context's time is over.
LEMMA LossInv ==
    ASSUME IInv, NEW c \in Requests, LoseCall(c) \/ Deadline(c)
    PROVE  IInv'
<1> USE DEF LoseCall, Deadline, InFlight, apiVars, workerVars, dbVars
<1>1. TypeOK'
  BY DEF IInv, TypeOK
<1>2. Distinct'
  BY DEF IInv, Distinct
<1>3. ASSUME NEW d \in Requests PROVE Owned(d)'
  BY DEF IInv, Owned
<1>4. ASSUME NEW d \in Requests PROVE Phases(d)'
  BY DEF IInv, TypeOK, Phases, Active
<1>5. ASSUME NEW d \in Requests PROVE Recorded(d)'
  BY DEF IInv, Recorded, Exactly, Active
<1>6. ASSUME NEW d \in Requests PROVE Written(d)'
  BY DEF IInv, TypeOK, Written, Active
<1>7. ASSUME NEW r \in RunIds PROVE RowInv(r)'
  BY DEF IInv, RowInv
<1> QED BY <1>1, <1>2, <1>3, <1>4, <1>5, <1>6, <1>7 DEF IInv

\* The worker dies.
LEMMA WorkerCrashInv ==
    ASSUME IInv, WorkerCrash
    PROVE  IInv'
<1> USE DEF WorkerCrash, InFlight, apiVars, workerVars, dbVars
<1>1. TypeOK'
  BY DEF IInv, TypeOK
<1>2. Distinct'
  BY DEF IInv, Distinct
<1>3. ASSUME NEW d \in Requests PROVE Owned(d)'
  BY DEF IInv, Owned
<1>4. ASSUME NEW d \in Requests PROVE Phases(d)'
  BY DEF IInv, TypeOK, Phases, Active
<1>5. ASSUME NEW d \in Requests PROVE Recorded(d)'
  BY DEF IInv, Recorded, Exactly, Active
<1>6. ASSUME NEW d \in Requests PROVE Written(d)'
  BY DEF IInv, TypeOK, Written, Active
<1>7. ASSUME NEW r \in RunIds PROVE RowInv(r)'
  BY DEF IInv, RowInv
<1> QED BY <1>1, <1>2, <1>3, <1>4, <1>5, <1>6, <1>7 DEF IInv

\* A job that is past its loading has the request's row and audit.
LEMMA JobFacts ==
    ASSUME IInv, NEW c \in Requests, job[c] # "none"
    PROVE  /\ run[c] \in RunIds /\ run[c] # 0 /\ jobRun[c] = run[c]
           /\ audit[c] \in Audits /\ jobAudit[c] = audit[c]
           /\ NumQueries[audit[c]] \in Nat \ {0}
           /\ 1 .. NumQueries[audit[c]] \subseteq Positions
  BY IdsAssumption, QueriesAssumption DEF IInv, TypeOK, Phases, Owned, Positions

\* The job's steps that write nothing: it loads the audit, runs a query.
LEMMA QueryInv ==
    ASSUME IInv, NEW c \in Requests, Load(c) \/ RunScalarQuery(c)
    PROVE  IInv'
<1> USE DEF Load, RunScalarQuery, Onward, apiVars, dbVars
<1>1. /\ job[c] # "none"
      /\ jobAudit[c] = audit[c] /\ NumQueries[audit[c]] \in Nat \ {0}
      /\ 1 .. NumQueries[audit[c]] \subseteq Positions
  BY JobFacts
<1>2. TypeOK'
  <2>1. job' \in [Requests -> {"none", "done", "dead"} \cup Active]
    BY <1>1 DEF IInv, TypeOK, Active
  <2>2. pos' \in [Requests -> Nat \ {0}]
    BY DEF IInv, TypeOK
  <2>3. deviated' \in [Requests -> SUBSET Positions]
    <3>1. job[c] = "query" => deviated[c] \cup {pos[c]} \in SUBSET Positions
      BY <1>1 DEF IInv, TypeOK, Recorded
    <3>2. deviated' = deviated \/ (job[c] = "query" /\
             deviated' = [deviated EXCEPT ![c] = @ \cup {pos[c]}])
      OBVIOUS
    <3>3. deviated \in [Requests -> SUBSET Positions]
      BY DEF IInv, TypeOK
    <3> QED BY <3>1, <3>2, <3>3
  <2> QED BY <2>1, <2>2, <2>3 DEF IInv, TypeOK
<1>3. Distinct'
  BY DEF IInv, Distinct
<1>4. ASSUME NEW d \in Requests PROVE Owned(d)'
  BY DEF IInv, Owned
<1>5. ASSUME NEW d \in Requests PROVE Phases(d)'
  BY DEF IInv, TypeOK, Phases
<1>6. ASSUME NEW d \in Requests PROVE Recorded(d)'
  <2>1. CASE d # c
    BY <2>1 DEF IInv, TypeOK, Recorded, Exactly
  <2>2. CASE d = c
    BY <1>1, <2>2 DEF IInv, TypeOK, Recorded, Exactly, Written, Active
  <2> QED BY <2>1, <2>2
<1>7. ASSUME NEW d \in Requests PROVE Written(d)'
  BY DEF IInv, TypeOK, Written, Active
<1>8. ASSUME NEW r \in RunIds PROVE RowInv(r)'
  BY DEF IInv, RowInv
<1> QED BY <1>2, <1>3, <1>4, <1>5, <1>6, <1>7, <1>8 DEF IInv


-----------------------------------------------------------------------------
\* What an update leaves: the other rows, and in this one the columns it names.
LEMMA UpdateFacts ==
    ASSUME TypeOK, NEW r \in RunIds, NEW w \in {"ok", "failed", "unacked"},
           NEW s \in Terminal, NEW v \in BOOLEAN, NEW e \in {"none", "dispatch", "query"},
           UpdateAuditRunResult(w, r, s, v, e)
    PROVE  /\ runs' \in [RunIds -> Rows]
           /\ w = "failed" => runs' = runs
           /\ \A q \in RunIds : q # r => runs'[q] = runs[q]
           /\ w # "failed" =>
                /\ runs'[r].audit = runs[r].audit
                /\ runs'[r].status = s
                /\ runs'[r].value <=> runs[r].value \/ v
                /\ runs'[r].err = IF e = "none" THEN runs[r].err ELSE e
                /\ runs'[r].completed
<1>1. runs[r] \in Rows /\ s \in {"absent", "running"} \cup Terminal
  BY DEF TypeOK
<1>2. CASE w = "failed"
  BY <1>2 DEF UpdateAuditRunResult, TypeOK
<1>3. CASE w # "failed"
  <2>1. runs' = [runs EXCEPT ![r] = Updated(runs[r], s, v, e)]
    BY <1>3 DEF UpdateAuditRunResult
  <2>2. /\ Updated(runs[r], s, v, e) \in Rows
        /\ Updated(runs[r], s, v, e).audit = runs[r].audit
        /\ Updated(runs[r], s, v, e).status = s
        /\ Updated(runs[r], s, v, e).value <=> runs[r].value \/ v
        /\ Updated(runs[r], s, v, e).err = IF e = "none" THEN runs[r].err ELSE e
        /\ Updated(runs[r], s, v, e).completed
    BY <1>1 DEF Updated, Rows
  <2> QED BY <1>3, <2>1, <2>2 DEF TypeOK
<1> QED BY <1>2, <1>3

LEMMA ResultFacts ==
    ASSUME NEW dead, NEW w \in WriteResults(dead)
    PROVE  /\ w \in {"ok", "failed", "unacked"}
           /\ dead => w = "failed"
  BY DEF WriteResults

LEMMA CreateAuditRunInv ==
    ASSUME IInv, NEW c \in Requests, CreateAuditRun(c)
    PROVE  IInv'
<1>1. PICK w \in WriteResults(cancelled[c]), r \in RunIds :
        /\ runs[r].status = "absent"
        /\ runs' = IF w = "failed" THEN runs ELSE [runs EXCEPT ![r] = NewRow(audit[c])]
        /\ pc'   = [pc EXCEPT ![c] = IF w = "ok" THEN "created" ELSE "errored"]
        /\ run'  = IF w = "ok" THEN [run EXCEPT ![c] = r] ELSE run
  BY DEF CreateAuditRun
<1>2. /\ pc[c] = "checked" /\ run[c] = 0 /\ call[c] = "none" /\ job[c] = "none"
      /\ audit[c] \in Audits /\ pos[c] = 1 /\ deviated[c] = {}
      /\ UNCHANGED <<audit, cancelled, call, job, jobAudit, jobRun, pos, deviated, expired, issues>>
  <2>1. deviated[c] \subseteq 1 .. (pos[c] - 1) /\ pos[c] = 1
    BY DEF CreateAuditRun, IInv, Phases, Recorded
  <2>2. /\ pc[c] = "checked" /\ run[c] = 0 /\ call[c] = "none" /\ job[c] = "none"
        /\ audit[c] \in Audits
    BY DEF CreateAuditRun, IInv, Phases, Owned
  <2> QED BY <2>1, <2>2 DEF CreateAuditRun, workerVars
<1>3. \A d \in Requests : run[d] # 0 => run[d] \in RunIds /\ run[d] # r
  BY <1>1 DEF IInv, TypeOK, Owned
<1>4. r # 0
  BY IdsAssumption
<1>5. /\ \A q \in RunIds : q # r => runs'[q] = runs[q]
      /\ w # "failed" => runs'[r] = NewRow(audit[c])
      /\ w = "failed" => runs' = runs
  BY <1>1 DEF IInv, TypeOK
<1>6. \A p \in Positions : issues[r][p] = 0
  BY <1>1 DEF IInv, RowInv
<1>7. NewRow(audit[c]) \in Rows
  BY DEF NewRow, NoRow, Rows, IInv, TypeOK
<1>8. TypeOK'
  BY <1>1, <1>2, <1>7 DEF IInv, TypeOK, Handling, Answered
<1>9. Distinct'
  BY <1>1, <1>3, <1>4 DEF IInv, TypeOK, Distinct
<1>10. ASSUME NEW d \in Requests PROVE Owned(d)'
  BY <1>1, <1>2, <1>3, <1>5 DEF IInv, TypeOK, Owned, NewRow, NoRow
<1>11. ASSUME NEW d \in Requests PROVE Phases(d)'
  BY <1>1, <1>2, <1>4 DEF IInv, TypeOK, Phases
<1>12. ASSUME NEW d \in Requests PROVE Recorded(d)'
  BY <1>1, <1>2, <1>3, <1>5, <1>6 DEF IInv, TypeOK, Recorded, Exactly, NewRow, NoRow
<1>13. ASSUME NEW d \in Requests PROVE Written(d)'
  BY <1>1, <1>2, <1>3, <1>5 DEF IInv, TypeOK, Written, NewRow, NoRow
<1>14. ASSUME NEW q \in RunIds PROVE RowInv(q)'
  BY <1>1, <1>2, <1>5, <1>6 DEF IInv, RowInv, NewRow, NoRow, Terminal, Verdicts
<1> QED BY <1>8, <1>9, <1>10, <1>11, <1>12, <1>13, <1>14 DEF IInv

LEMMA RecordDispatchErrorInv ==
    ASSUME IInv, NEW c \in Requests, RecordDispatchError(c)
    PROVE  IInv'
<1>1. PICK w \in WriteResults(cancelled[c]) :
        /\ UpdateAuditRunResult(w, run[c], "error", FALSE, "dispatch")
        /\ pc' = [pc EXCEPT ![c] = IF w = "ok" THEN "declined" ELSE "errored"]
  BY DEF RecordDispatchError
<1>2. /\ pc[c] = "failing" /\ run[c] # 0 /\ run[c] \in RunIds
      /\ UNCHANGED <<audit, run, cancelled, call, job, jobAudit, jobRun, pos, deviated, expired,
                     issues>>
  BY DEF RecordDispatchError, workerVars, IInv, TypeOK, Phases
<1>3. /\ runs' \in [RunIds -> Rows]
      /\ w = "failed" => runs' = runs
      /\ \A q \in RunIds : q # run[c] => runs'[q] = runs[q]
      /\ w # "failed" => /\ runs'[run[c]].status = "error"
                         /\ runs'[run[c]].value <=> runs[run[c]].value
                         /\ runs'[run[c]].err = "dispatch"
                         /\ runs'[run[c]].completed
  <2>1. w \in {"ok", "failed", "unacked"}
    BY ResultFacts
  <2>2. TypeOK /\ "error" \in Terminal
    BY DEF IInv, Terminal
  <2> QED BY <1>1, <1>2, <2>1, <2>2, UpdateFacts
<1>4. \A d \in Requests : d # c /\ run[d] # 0 => run[d] \in RunIds /\ run[d] # run[c]
  BY <1>2 DEF IInv, TypeOK, Distinct
<1>5. TypeOK'
  BY <1>1, <1>2, <1>3 DEF IInv, TypeOK, Answered
<1>6. Distinct'
  BY <1>2 DEF IInv, Distinct
<1>7. ASSUME NEW d \in Requests PROVE Owned(d)'
  BY <1>1, <1>2, <1>3, <1>4 DEF IInv, TypeOK, Owned
<1>8. ASSUME NEW d \in Requests PROVE Phases(d)'
  BY <1>1, <1>2 DEF IInv, TypeOK, Phases
<1>9. ASSUME NEW d \in Requests PROVE Recorded(d)'
  BY <1>2, <1>3, <1>4 DEF IInv, Recorded, Exactly
<1>10. ASSUME NEW d \in Requests PROVE Written(d)'
  BY <1>1, <1>2, <1>3, <1>4 DEF IInv, TypeOK, Written
<1>11. ASSUME NEW q \in RunIds PROVE RowInv(q)'
  BY <1>2, <1>3 DEF IInv, RowInv, Terminal, Verdicts
<1> QED BY <1>5, <1>6, <1>7, <1>8, <1>9, <1>10, <1>11 DEF IInv

\* The job's two ends: it reports a query's error, or its verdict.
LEMMA JobEndInv ==
    ASSUME IInv, NEW c \in Requests, RecordQueryError(c) \/ Finish(c)
    PROVE  IInv'
<1> DEFINE s == IF job[c] = "failing" THEN "error" ELSE Verdict(deviated[c])
           v == job[c] = "finishing"
           e == IF job[c] = "failing" THEN "query" ELSE "none"
           r == run[c]
<1>1. /\ job[c] \in {"failing", "finishing"} /\ r \in RunIds /\ r # 0 /\ jobRun[c] = r
      /\ UNCHANGED <<pc, audit, run, cancelled, call, jobAudit, jobRun, pos, deviated, expired,
                     issues>>
  BY JobFacts DEF RecordQueryError, Finish, apiVars
<1>2. PICK w \in WriteResults(expired[c]) :
        UpdateAuditRunResult(w, r, s, v, e) /\ job' = [job EXCEPT ![c] = AfterWrite(c, w)]
  BY <1>1 DEF RecordQueryError, Finish
<1>3. s \in Terminal /\ v \in BOOLEAN /\ e \in {"none", "dispatch", "query"}
  BY DEF Verdict, Terminal, Verdicts
<1>4. ~runs[r].value /\ runs[r].err # "query" /\ Exactly(c, deviated[c])
  BY <1>1 DEF IInv, Written, Active, Recorded
<1>5. /\ runs' \in [RunIds -> Rows]
      /\ w = "failed" => runs' = runs
      /\ \A q \in RunIds : q # r => runs'[q] = runs[q]
      /\ w # "failed" =>
            /\ runs'[r].status = s /\ runs'[r].completed
            /\ runs'[r].value <=> v
            /\ runs'[r].err = IF e = "none" THEN runs[r].err ELSE e
  <2>1. w \in {"ok", "failed", "unacked"} /\ TypeOK
    BY ResultFacts DEF IInv
  <2> HIDE DEF s, v, e, r
  <2> QED BY <1>1, <1>2, <1>3, <1>4, <2>1, UpdateFacts
<1>6. AfterWrite(c, w) \in {"done", "dead"}
  BY DEF AfterWrite
<1>7. \A d \in Requests : d # c /\ run[d] # 0 => run[d] \in RunIds /\ run[d] # r
  BY <1>1 DEF IInv, TypeOK, Distinct
<1>8. TypeOK'
  BY <1>1, <1>2, <1>5, <1>6 DEF IInv, TypeOK
<1>9. Distinct'
  BY <1>1 DEF IInv, Distinct
<1>10. ASSUME NEW d \in Requests PROVE Owned(d)'
  BY <1>1, <1>5, <1>7, <1>3 DEF IInv, TypeOK, Owned, Terminal, Verdicts
<1>11. ASSUME NEW d \in Requests PROVE Phases(d)'
  BY <1>1, <1>2, <1>6 DEF IInv, TypeOK, Phases
<1>12. ASSUME NEW d \in Requests PROVE Recorded(d)'
  BY <1>1, <1>2, <1>4, <1>5, <1>6, <1>7 DEF IInv, TypeOK, Recorded, Exactly
<1>13. ASSUME NEW d \in Requests PROVE Written(d)'
  BY <1>1, <1>2, <1>5, <1>6, <1>7 DEF IInv, TypeOK, Written, Active
<1>14. ASSUME NEW q \in RunIds PROVE RowInv(q)'
  <2>1. CASE q # r \/ w = "failed"
    BY <2>1, <1>1, <1>5 DEF IInv, RowInv
  <2>2. CASE q = r /\ w # "failed" /\ job[c] = "failing"
    BY <2>2, <1>1, <1>4, <1>5 DEF RowInv, Terminal, Verdicts
  <2>3. CASE q = r /\ w # "failed" /\ job[c] = "finishing"
    <3>1. deviated[c] = {} => \A p \in Positions : issues[r][p] = 0
      BY <1>4 DEF Exactly
    <3>2. deviated[c] # {} => \E p \in Positions : issues[r][p] > 0
      BY <1>4 DEF Exactly, IInv, TypeOK
    <3> QED BY <2>3, <3>1, <3>2, <1>1, <1>4, <1>5 DEF RowInv, Terminal, Verdicts, Verdict, IInv
  <2> QED BY <2>1, <2>2, <2>3, <1>1
<1> QED BY <1>8, <1>9, <1>10, <1>11, <1>12, <1>13, <1>14 DEF IInv

LEMMA CreateIssueInv ==
    ASSUME IInv, NEW c \in Requests, CreateIssue(c)
    PROVE  IInv'
<1> DEFINE r == run[c]
           p == pos[c]
<1>1. /\ job[c] \in {"issue", "blankIssue"} /\ r \in RunIds /\ r # 0 /\ jobRun[c] = r
      /\ jobAudit[c] = audit[c] /\ NumQueries[audit[c]] \in Nat \ {0}
      /\ p \in 1 .. NumQueries[audit[c]] /\ p \in Positions
      /\ UNCHANGED <<pc, audit, run, cancelled, call, jobAudit, jobRun, deviated, expired, runs>>
  BY JobFacts DEF CreateIssue, apiVars, IInv, Recorded
<1>2. PICK w \in WriteResults(expired[c] \/ job[c] = "blankIssue") :
        /\ issues' = IF w = "failed" THEN issues ELSE [issues EXCEPT ![r][p] = @ + 1]
        /\ job' = [job EXCEPT ![c] = AfterIssue(c, w)]
        /\ pos' = [pos EXCEPT ![c] = @ + 1]
  BY <1>1 DEF CreateIssue
<1>3. /\ p \in deviated[c] /\ deviated[c] \subseteq 1 .. p /\ Exactly(c, deviated[c] \ {p})
      /\ ~runs[r].value
  BY <1>1 DEF IInv, Recorded, Written, Active
<1>4. /\ \A q \in RunIds : q # r => issues'[q] = issues[q]
      /\ w = "failed" => issues' = issues
      /\ w # "failed" => \A x \in Positions :
            issues'[r][x] = IF x \in deviated[c] THEN 1 ELSE 0
      /\ issues' \in [RunIds -> [Positions -> Nat]]
  BY <1>1, <1>2, <1>3 DEF IInv, TypeOK, Exactly
<1>5. /\ AfterIssue(c, w) \in {"query", "finishing", "dead"}
      /\ AfterIssue(c, w) # "dead" => w = "ok"
      /\ AfterIssue(c, w) = "query" => p + 1 \in 1 .. NumQueries[audit[c]]
  BY <1>1 DEF AfterIssue, Onward
<1>6. \A d \in Requests : d # c /\ run[d] # 0 => run[d] \in RunIds /\ run[d] # r
  BY <1>1 DEF IInv, TypeOK, Distinct
<1>7. TypeOK'
  BY <1>1, <1>2, <1>4, <1>5 DEF IInv, TypeOK, Active
<1>8. Distinct'
  BY <1>1 DEF IInv, Distinct
<1>9. ASSUME NEW d \in Requests PROVE Owned(d)'
  BY <1>1 DEF IInv, Owned
<1>10. ASSUME NEW d \in Requests PROVE Phases(d)'
  BY <1>1, <1>2, <1>5 DEF IInv, TypeOK, Phases
<1>11. ASSUME NEW d \in Requests PROVE Recorded(d)'
  <2>1. CASE d # c
    BY <2>1, <1>1, <1>2, <1>4, <1>6 DEF IInv, TypeOK, Recorded, Exactly
  <2>2. CASE d = c
    BY <2>2, <1>1, <1>2, <1>3, <1>4, <1>5 DEF IInv, TypeOK, Recorded, Exactly
  <2> QED BY <2>1, <2>2
<1>12. ASSUME NEW d \in Requests PROVE Written(d)'
  BY <1>1, <1>2, <1>5 DEF IInv, TypeOK, Written, Active
<1>13. ASSUME NEW q \in RunIds PROVE RowInv(q)'
  BY <1>1, <1>3, <1>4 DEF IInv, RowInv, Owned, Verdicts
<1> QED BY <1>7, <1>8, <1>9, <1>10, <1>11, <1>12, <1>13 DEF IInv

LEMMA NextInv == IInv /\ [Next]_vars => IInv'
<1> SUFFICES ASSUME IInv, [Next]_vars PROVE IInv' OBVIOUS
<1>1. CASE Next
  <2>1. ASSUME NEW c \in Requests, ApiStep(c) PROVE IInv'
    BY <2>1, HandlerInv, CreateAuditRunInv, RecordDispatchErrorInv DEF ApiStep
  <2>2. ASSUME NEW c \in Requests, JobStep(c) PROVE IInv'
    BY <2>2, QueryInv, CreateIssueInv, JobEndInv DEF JobStep
  <2>3. ASSUME NEW c \in Requests, FaultStep(c) PROVE IInv'
    BY <2>3, HandlerInv, LossInv DEF FaultStep
  <2> QED BY <1>1, <2>1, <2>2, <2>3, ExecuteAuditInv, WorkerCrashInv DEF Next
<1>2. CASE UNCHANGED vars
  BY <1>2 DEF vars, IInv, TypeOK, Distinct, Owned, Phases, Recorded, Exactly, Written, RowInv
<1> QED BY <1>1, <1>2

LEMMA Invariance == Spec => []IInv
  BY InitInv, NextInv, PTL DEF Spec

\* Every variable keeps its type, and no row or audit outside the tables is named.
THEOREM TypeCorrect == Spec => []TypeOK
<1>1. IInv => TypeOK
  BY DEF IInv
<1> QED BY <1>1, Invariance, PTL

\* A passed run has no issues and a failed one has some, for any number of runs,
\* requests and queries and under every fault.
THEOREM VerdictIsRight == Spec => []VerdictMatchesIssues
<1>1. IInv => VerdictMatchesIssues
  BY DEF IInv, RowInv, VerdictMatchesIssues
<1> QED BY <1>1, Invariance, PTL

\* A run with a value has exactly one issue per query that deviated.
THEOREM IssuesAreExact == Spec => []OneIssuePerDeviation
<1>1. IInv => OneIssuePerDeviation
  BY DEF IInv, Recorded, Exactly, OneIssuePerDeviation
<1> QED BY <1>1, Invariance, PTL

\* The columns of a row agree, whichever of its two writers came last.
THEOREM RowsAreCoherent == Spec => []RowTellsItsStory
<1>1. IInv => RowTellsItsStory
  BY DEF IInv, RowInv, RowTellsItsStory
<1> QED BY <1>1, Invariance, PTL

\* What RunAudit answered stays true.
THEOREM AnswersStayTrue == Spec => []AnswersAreHonest
<1>1. IInv => AnswersAreHonest
  BY DEF IInv, Phases, Written, AnswersAreHonest
<1> QED BY <1>1, Invariance, PTL

-----------------------------------------------------------------------------
(***************************************************************************)
(* Without lost calls and lost answers, the two writers of a row exclude   *)
(* each other, and a terminal status is final.                             *)
(***************************************************************************)
Lossless == {"rpc", "workerCrash"} \cap Faults = {}

\* While somebody will still write a row it reads "running": the dispatcher
\* writes only what the worker refused, and then no job has started.
OneWriter(c) ==
    /\ call[c] = "lost" => cancelled[c] \/ pc[c] = "crashed"
    /\ pc[c] = "failing" /\ ~cancelled[c] => call[c] = "refused"
    /\ /\ run[c] # 0
       /\ \/ call[c] = "sent"
          \/ job[c] \in Active
          \/ pc[c] \in {"created", "waiting", "failing"} /\ job[c] = "none"
       => runs[run[c]].status = "running"

FInv == IInv /\ \A c \in Requests : OneWriter(c)

LEMMA InitFinal == Init => FInv
<1> SUFFICES ASSUME Init PROVE FInv OBVIOUS
<1>1. \A c \in Requests : OneWriter(c)
  BY DEF Init, OneWriter
<1> QED BY <1>1, InitInv DEF FInv

LEMMA ApiFinal ==
    ASSUME Lossless, FInv, IInv', NEW c \in Requests, ApiStep(c)
    PROVE  \A d \in Requests : OneWriter(d)'
<1> SUFFICES ASSUME NEW d \in Requests PROVE OneWriter(d)'
  OBVIOUS
<1> USE DEF FInv, OneWriter
<1>1. CASE GetAudit(c) \/ Dispatch(c) \/ RpcAnswer(c) \/ RpcFailure(c)
  BY <1>1 DEF GetAudit, Dispatch, RpcAnswer, Reply, RpcFailure, GivesUp, Lossless, IInv, TypeOK,
              Phases, workerVars, dbVars
<1>2. CASE CreateAuditRun(c)
  BY <1>2 DEF CreateAuditRun, NewRow, NoRow, IInv, TypeOK, Phases, Owned, workerVars
<1>3. CASE RecordDispatchError(c)
  <2>1. PICK w \in WriteResults(cancelled[c]) :
          /\ UpdateAuditRunResult(w, run[c], "error", FALSE, "dispatch")
          /\ pc' = [pc EXCEPT ![c] = IF w = "ok" THEN "declined" ELSE "errored"]
    BY <1>3 DEF RecordDispatchError
  <2>2. /\ UNCHANGED <<run, cancelled, call, job>>
        /\ pc[c] = "failing" /\ run[c] # 0 /\ run[c] \in RunIds
    BY <1>3 DEF RecordDispatchError, workerVars, IInv, TypeOK, Phases
  <2>3. CASE cancelled[c]
    <3>1. UNCHANGED runs
      BY <2>1, <2>3, ResultFacts DEF UpdateAuditRunResult
    <3> QED BY <2>1, <2>2, <3>1 DEF IInv, TypeOK
  <2>4. CASE ~cancelled[c]
    <3>1. call[c] = "refused" /\ job[c] = "none"
      BY <2>2, <2>4 DEF IInv, Phases
    <3>2. \A q \in RunIds : q # run[c] => runs'[q] = runs[q]
      BY <2>1, <2>2 DEF UpdateAuditRunResult, IInv, TypeOK
    <3>3. d # c /\ run[d] # 0 => run[d] \in RunIds /\ run[d] # run[c]
      BY <2>2 DEF IInv, TypeOK, Distinct
    <3> QED BY <2>1, <2>2, <2>4, <3>1, <3>2, <3>3 DEF IInv, TypeOK, Active
  <2> QED BY <2>3, <2>4
<1> QED BY <1>1, <1>2, <1>3 DEF ApiStep

LEMMA JobFinal ==
    ASSUME Lossless, FInv, NEW c \in Requests, ExecuteAudit(c) \/ JobStep(c)
    PROVE  \A d \in Requests : OneWriter(d)'
<1> SUFFICES ASSUME NEW d \in Requests PROVE OneWriter(d)'
  OBVIOUS
<1> USE DEF FInv, OneWriter
<1>1. CASE ExecuteAudit(c)
  BY <1>1 DEF ExecuteAudit, IInv, TypeOK, Phases, Active, apiVars, dbVars
<1>2. CASE Load(c) \/ RunScalarQuery(c) \/ CreateIssue(c)
  <2>1. /\ UNCHANGED <<pc, run, cancelled, call, runs>>
        /\ job[c] \in Active
        /\ \A x \in Requests : x # c => job'[x] = job[x]
        /\ job'[c] # "none"
    BY <1>2 DEF Load, RunScalarQuery, CreateIssue, AfterIssue, Onward, Active, apiVars, dbVars,
                IInv, TypeOK
  <2>2. job'[d] = "none" => job[d] = "none"
    BY <2>1
  <2>3. job'[d] \in Active => job[d] \in Active
    BY <2>1
  <2> QED BY <2>1, <2>2, <2>3
<1>3. CASE RecordQueryError(c) \/ Finish(c)
  <2>1. /\ UNCHANGED <<pc, run, cancelled, call>>
        /\ job[c] # "none" /\ jobRun[c] = run[c] /\ run[c] \in RunIds
        /\ \A q \in RunIds : q # run[c] => runs'[q] = runs[q]
        /\ \A x \in Requests : x # c => job'[x] = job[x]
        /\ job'[c] \in {"done", "dead"}
    BY <1>3, JobFacts
       DEF RecordQueryError, Finish, AfterWrite, UpdateAuditRunResult, apiVars, IInv, TypeOK
  <2>2. run[d] # 0 /\ d # c => run[d] \in RunIds /\ run[d] # run[c]
    BY <2>1 DEF IInv, TypeOK, Distinct
  <2>3. call[c] # "sent"
    BY <2>1 DEF IInv, Phases
  <2> QED BY <2>1, <2>2, <2>3 DEF Active
<1> QED BY <1>1, <1>2, <1>3 DEF JobStep

LEMMA FaultFinal ==
    ASSUME Lossless, FInv, (\E c \in Requests : FaultStep(c)) \/ WorkerCrash
    PROVE  \A d \in Requests : OneWriter(d)'
<1> SUFFICES ASSUME NEW d \in Requests PROVE OneWriter(d)'
  OBVIOUS
<1>1. PICK c \in Requests : FaultStep(c)
  BY DEF Lossless, WorkerCrash
<1> QED BY <1>1 DEF FInv, OneWriter, FaultStep, Cancel, ApiCrash, LoseCall, Deadline, Handling,
            Lossless, IInv, TypeOK, Phases, apiVars, workerVars, dbVars

LEMMA NextFinal == Lossless /\ FInv /\ [Next]_vars => FInv'
<1> SUFFICES ASSUME Lossless, FInv, [Next]_vars PROVE FInv' OBVIOUS
<1>1. IInv'
  BY NextInv DEF FInv
<1>2. CASE Next
  BY <1>1, <1>2, ApiFinal, JobFinal, FaultFinal DEF Next, FInv
<1>3. CASE UNCHANGED vars
  BY <1>1, <1>3 DEF vars, FInv, OneWriter
<1> QED BY <1>2, <1>3

\* A step that writes an outcome finds "running".
LEMMA StepFinal ==
    ASSUME Lossless, FInv, [Next]_vars, NEW r \in RunIds, runs[r].status \in Terminal
    PROVE  runs'[r].status = runs[r].status
<1>1. ASSUME NEW c \in Requests, CreateAuditRun(c) PROVE runs'[r].status = runs[r].status
  BY <1>1 DEF CreateAuditRun, FInv, IInv, TypeOK, Terminal, Verdicts
<1>2. ASSUME NEW c \in Requests, RecordDispatchError(c) PROVE runs'[r].status = runs[r].status
  <2>1. PICK w \in WriteResults(cancelled[c]) :
          UpdateAuditRunResult(w, run[c], "error", FALSE, "dispatch")
    BY <1>2 DEF RecordDispatchError
  <2>2. CASE cancelled[c]
    BY <2>1, <2>2, ResultFacts DEF UpdateAuditRunResult
  <2>3. CASE ~cancelled[c]
    <3>1. run[c] # r
      BY <1>2, <2>3 DEF RecordDispatchError, FInv, OneWriter, IInv, Phases, Terminal, Verdicts
    <3> QED BY <2>1, <3>1 DEF UpdateAuditRunResult, FInv, IInv, TypeOK
  <2> QED BY <2>2, <2>3
<1>3. ASSUME NEW c \in Requests, RecordQueryError(c) \/ Finish(c)
      PROVE  runs'[r].status = runs[r].status
  <2>1. job[c] \in Active /\ job[c] # "none"
    BY <1>3 DEF RecordQueryError, Finish, Active
  <2>2. jobRun[c] # r
    <3>1. IInv /\ OneWriter(c)
      BY <1>3 DEF FInv
    <3>2. run[c] # 0 /\ jobRun[c] = run[c]
      BY <1>3, <2>1, <3>1, JobFacts
    <3>3. runs[run[c]].status = "running"
      BY <2>1, <3>1, <3>2 DEF OneWriter
    <3> QED BY <3>2, <3>3 DEF Terminal, Verdicts
  <2> QED BY <1>3, <2>2 DEF RecordQueryError, Finish, UpdateAuditRunResult, FInv, IInv, TypeOK
<1>4. ASSUME UNCHANGED runs PROVE runs'[r].status = runs[r].status
  BY <1>4
<1> QED BY <1>1, <1>2, <1>3, <1>4 DEF Next, ApiStep, JobStep, FaultStep, vars, GetAudit, Dispatch,
        RpcAnswer, RpcFailure, ExecuteAudit, Load, RunScalarQuery, CreateIssue, Cancel, ApiCrash,
        LoseCall, Deadline, WorkerCrash, dbVars

\* A terminal status is never replaced, as long as no call and no answer is lost:
\* the late answer is the only way to a second outcome.
THEOREM OutcomeIsFinal == ASSUME Lossless PROVE Spec => TerminalIsFinal
<1>1. FInv /\ [Next]_vars =>
        [\A r \in RunIds :
            runs[r].status \in Terminal => runs'[r].status = runs[r].status]_vars
  BY StepFinal
<1>2. FInv /\ [Next]_vars => FInv'
  BY NextFinal
<1> QED BY InitFinal, <1>1, <1>2, PTL DEF Spec, TerminalIsFinal

-----------------------------------------------------------------------------
(***************************************************************************)
(* AuditRun implements RunRecord, for every value of the constants: the    *)
(* proof that the run "record" only samples.  A step that writes no row    *)
(* and no issue at most takes parties out of owed (QuietStep); each of the *)
(* five that write is the one action of RunRecord it stands for.           *)
(***************************************************************************)
Owes(c) == (IF DispatcherOwes(c) THEN {"dispatcher"} ELSE {})
           \cup (IF ExecutorOwes(c) THEN {"executor"} ELSE {})

\* What a row's request owes is what is owed for the row.
LEMMA OwedByOwner ==
    ASSUME Distinct, NEW c \in Requests, run[c] # 0, run[c] \in RunIds
    PROVE  RecordOwed[run[c]] = Owes(c)
  BY DEF Distinct, RecordOwed, Owes

LEMMA OwedByNobody ==
    ASSUME NEW r \in RunIds, \A c \in Requests : run[c] # r
    PROVE  RecordOwed[r] = {}
  BY DEF RecordOwed

LEMMA OwedIsFunction == RecordOwed = [r \in RunIds |-> RecordOwed[r]]
  BY DEF RecordOwed

\* Steps without a write: at most, parties give up.
LEMMA QuietStep ==
    ASSUME UNCHANGED <<run, runs, issues>>,
           \A d \in Requests : /\ DispatcherOwes(d)' => DispatcherOwes(d)
                               /\ ExecutorOwes(d)' => ExecutorOwes(d)
    PROVE  Record!Relinquish
<1>1. UNCHANGED <<RecordStatus, RecordEvidence>>
  BY DEF RecordStatus, RecordEvidence
<1>2. \A r \in RunIds : RecordOwed'[r] \subseteq RecordOwed[r]
  BY DEF RecordOwed
<1>3. RecordOwed' \in [RunIds -> SUBSET Record!Parties]
  BY DEF RecordOwed, Record!Parties
<1> QED BY <1>1, <1>2, <1>3 DEF Record!Relinquish

\* Steps of one request: only what is owed for its row changes.
LEMMA OwedStep ==
    ASSUME Distinct, Distinct', NEW c \in Requests, run'[c] # 0, run'[c] \in RunIds,
           run[c] \in {0, run'[c]},
           \A d \in Requests : d # c => /\ run'[d] = run[d]
                                        /\ DispatcherOwes(d)' = DispatcherOwes(d)
                                        /\ ExecutorOwes(d)' = ExecutorOwes(d)
    PROVE  RecordOwed' = [RecordOwed EXCEPT ![run'[c]] = Owes(c)']
<1>1. RecordOwed'[run'[c]] = Owes(c)'
  BY DEF Distinct, RecordOwed, Owes
<1>2. \A r \in RunIds : r # run'[c] => RecordOwed'[r] = RecordOwed[r]
  <2>1. SUFFICES ASSUME NEW r \in RunIds, r # run'[c] PROVE RecordOwed'[r] = RecordOwed[r]
    OBVIOUS
  <2>2. r # 0
    BY IdsAssumption
  <2>3. (\E d \in Requests : run'[d] = r /\ DispatcherOwes(d)')
          <=> \E d \in Requests : run[d] = r /\ DispatcherOwes(d)
    BY <2>1, <2>2
  <2>4. (\E d \in Requests : run'[d] = r /\ ExecutorOwes(d)')
          <=> \E d \in Requests : run[d] = r /\ ExecutorOwes(d)
    BY <2>1, <2>2
  <2> QED BY <2>3, <2>4 DEF RecordOwed
<1>3. RecordOwed = [r \in RunIds |-> RecordOwed[r]]
  BY OwedIsFunction
<1>4. RecordOwed' = [r \in RunIds |-> RecordOwed'[r]]
  BY DEF RecordOwed
<1> QED BY <1>1, <1>2, <1>3, <1>4

LEMMA CreateStep ==
    ASSUME IInv, IInv', NEW c \in Requests, CreateAuditRun(c)
    PROVE  Record!RecordNext \/ UNCHANGED Record!recordVars
<1>1. PICK w \in WriteResults(cancelled[c]), r \in RunIds :
        /\ runs[r].status = "absent"
        /\ runs' = IF w = "failed" THEN runs ELSE [runs EXCEPT ![r] = NewRow(audit[c])]
        /\ pc'   = [pc EXCEPT ![c] = IF w = "ok" THEN "created" ELSE "errored"]
        /\ run'  = IF w = "ok" THEN [run EXCEPT ![c] = r] ELSE run
  BY DEF CreateAuditRun
<1>2. /\ pc[c] = "checked" /\ run[c] = 0 /\ call[c] = "none" /\ job[c] = "none"
      /\ UNCHANGED <<call, job, issues>> /\ pc \in [Requests -> {pc[d] : d \in Requests}]
      /\ run \in [Requests -> RunIds \cup {0}]
      /\ runs \in [RunIds -> Rows]
  BY DEF CreateAuditRun, workerVars, IInv, Phases, TypeOK
<1>3. \A d \in Requests : d # c => /\ DispatcherOwes(d)' = DispatcherOwes(d)
                                   /\ ExecutorOwes(d)' = ExecutorOwes(d)
  BY <1>1, <1>2 DEF DispatcherOwes, ExecutorOwes
<1>4. CASE w = "failed"
  <2>1. ~DispatcherOwes(c)' /\ ~ExecutorOwes(c)'
    BY <1>1, <1>2, <1>4 DEF DispatcherOwes, ExecutorOwes, Active
  <2>2. Record!Relinquish
    BY <1>1, <1>2, <1>3, <1>4, <2>1, QuietStep
  <2> QED BY <2>2 DEF Record!RecordNext
<1>5. CASE w # "failed"
  <2>1. /\ RecordStatus[r] = "absent"
        /\ RecordStatus' = [RecordStatus EXCEPT ![r] = "running"]
        /\ UNCHANGED RecordEvidence
    BY <1>1, <1>2, <1>5 DEF RecordStatus, RecordEvidence, NewRow, NoRow
  <2>2. PICK writers \in SUBSET Record!Parties : RecordOwed' = [RecordOwed EXCEPT ![r] = writers]
    <3>1. CASE w = "ok"
      <4>1. run'[c] = r /\ run'[c] # 0 /\ \A d \in Requests : d # c => run'[d] = run[d]
        BY <1>1, <1>2, <3>1, IdsAssumption
      <4>2. RecordOwed' = [RecordOwed EXCEPT ![r] = Owes(c)']
        BY <1>2, <1>3, <4>1, OwedStep DEF IInv
      <4>3. Owes(c)' \in SUBSET Record!Parties
        BY DEF Owes, Record!Parties
      <4> QED BY <4>2, <4>3
    <3>2. CASE w # "ok"
      <4>1. UNCHANGED run /\ ~DispatcherOwes(c) /\ ~ExecutorOwes(c)
            /\ ~DispatcherOwes(c)' /\ ~ExecutorOwes(c)'
        BY <1>1, <1>2, <3>2 DEF DispatcherOwes, ExecutorOwes, Active
      <4>2. UNCHANGED RecordOwed
        BY <1>3, <4>1 DEF RecordOwed
      <4>3. \A d \in Requests : run[d] # r
        BY <1>1, IdsAssumption DEF IInv, Owned
      <4>4. RecordOwed[r] = {}
        BY <4>3, OwedByNobody
      <4>5. RecordOwed' = [RecordOwed EXCEPT ![r] = {}]
        BY <4>2, <4>4, OwedIsFunction
      <4> QED BY <4>5
    <3> QED BY <3>1, <3>2
  <2>3. Record!Create(r, writers)
    BY <2>1, <2>2 DEF Record!Create
  <2> QED BY <2>3 DEF Record!RecordNext
<1> QED BY <1>4, <1>5

\* An update of row r that writes status s.
LEMMA UpdateStep ==
    ASSUME TypeOK, NEW r \in RunIds, NEW w, w # "failed", NEW s, NEW v, NEW e,
           UpdateAuditRunResult(w, r, s, v, e), UNCHANGED issues
    PROVE  /\ RecordStatus' = [RecordStatus EXCEPT ![r] = s]
           /\ UNCHANGED RecordEvidence
<1>1. runs' = [runs EXCEPT ![r] = Updated(@, s, v, e)]
  BY DEF UpdateAuditRunResult
<1>2. runs \in [RunIds -> Rows] /\ runs[r] \in Rows
  BY DEF TypeOK
<1>3. Updated(runs[r], s, v, e).status = s
  BY <1>2 DEF Updated, Rows
<1>4. /\ runs'[r].status = s
      /\ \A q \in RunIds : q # r => runs'[q].status = runs[q].status
  BY <1>1, <1>2, <1>3
<1> QED BY <1>4 DEF RecordStatus, RecordEvidence

LEMMA BlameStep ==
    ASSUME IInv, IInv', NEW c \in Requests, RecordDispatchError(c)
    PROVE  Record!RecordNext \/ UNCHANGED Record!recordVars
<1>1. PICK w \in WriteResults(cancelled[c]) :
        /\ UpdateAuditRunResult(w, run[c], "error", FALSE, "dispatch")
        /\ pc' = [pc EXCEPT ![c] = IF w = "ok" THEN "declined" ELSE "errored"]
  BY DEF RecordDispatchError
<1>2. /\ pc[c] = "failing" /\ run[c] # 0 /\ run[c] \in RunIds
      /\ UNCHANGED <<run, call, job, issues>>
  BY DEF RecordDispatchError, workerVars, IInv, TypeOK, Phases
<1>3. /\ \A d \in Requests : d # c => pc'[d] = pc[d]
      /\ pc'[c] \in {"declined", "errored"}
  BY <1>1 DEF IInv, TypeOK
<1>4. /\ \A d \in Requests : d # c => /\ DispatcherOwes(d)' = DispatcherOwes(d)
                                      /\ ExecutorOwes(d)' = ExecutorOwes(d)
      /\ DispatcherOwes(c) /\ ~DispatcherOwes(c)' /\ ExecutorOwes(c)' = ExecutorOwes(c)
  BY <1>2, <1>3 DEF DispatcherOwes, ExecutorOwes
<1>5. CASE w = "failed"
  <2>1. Record!Relinquish
    BY <1>1, <1>2, <1>4, <1>5, QuietStep DEF UpdateAuditRunResult
  <2> QED BY <2>1 DEF Record!RecordNext
<1>6. CASE w # "failed"
  <2>1. RecordStatus' = [RecordStatus EXCEPT ![run[c]] = "error"] /\ UNCHANGED RecordEvidence
    BY <1>1, <1>2, <1>6, UpdateStep DEF IInv
  <2>2. RecordOwed[run[c]] = Owes(c)
    BY <1>2, OwedByOwner DEF IInv
  <2>3. RecordOwed' = [RecordOwed EXCEPT ![run[c]] = Owes(c)']
    BY <1>2, <1>4, OwedStep DEF IInv
  <2>4. "dispatcher" \in Owes(c) /\ Owes(c)' = Owes(c) \ {"dispatcher"}
    BY <1>4 DEF Owes
  <2>5. Record!Blame(run[c])
    BY <2>1, <2>2, <2>3, <2>4 DEF Record!Blame
  <2> QED BY <1>2, <2>5 DEF Record!RecordNext
<1> QED BY <1>5, <1>6

\* A step of c's job: nobody else's debts change, and the dispatcher's do not.
LEMMA JobDebts ==
    ASSUME IInv, NEW c \in Requests, job[c] \in Active, UNCHANGED <<pc, call, run>>,
           NEW j, job' = [job EXCEPT ![c] = j]
    PROVE  /\ run[c] # 0 /\ run[c] \in RunIds
           /\ \A d \in Requests : d # c => /\ DispatcherOwes(d)' = DispatcherOwes(d)
                                           /\ ExecutorOwes(d)' = ExecutorOwes(d)
           /\ DispatcherOwes(c)' = DispatcherOwes(c)
           /\ ExecutorOwes(c)
           /\ ExecutorOwes(c)' = (j \in Active)
<1>1. job[c] # "none" /\ job'[c] = j /\ \A d \in Requests : d # c => job'[d] = job[d]
  BY DEF Active, IInv, TypeOK
<1>2. run[c] # 0 /\ run[c] \in RunIds
  BY <1>1, JobFacts
<1>3. pc[c] # "created" /\ call[c] # "sent"
  BY <1>1 DEF IInv, Phases
<1> QED BY <1>1, <1>2, <1>3 DEF DispatcherOwes, ExecutorOwes

LEMMA EvidenceStep ==
    ASSUME IInv, IInv', NEW c \in Requests, CreateIssue(c)
    PROVE  Record!RecordNext \/ UNCHANGED Record!recordVars
<1> DEFINE r == run[c]
           p == pos[c]
<1>1. /\ job[c] \in {"issue", "blankIssue"} /\ job[c] \in Active /\ r \in RunIds /\ r # 0
      /\ jobRun[c] = r /\ p \in Positions
      /\ UNCHANGED <<pc, run, call, runs>>
  BY JobFacts DEF CreateIssue, apiVars, Active, IInv, Recorded
<1>2. PICK w \in WriteResults(expired[c] \/ job[c] = "blankIssue") :
        /\ issues' = IF w = "failed" THEN issues ELSE [issues EXCEPT ![r][p] = @ + 1]
        /\ job' = [job EXCEPT ![c] = AfterIssue(c, w)]
  BY <1>1 DEF CreateIssue
<1>3. /\ \A d \in Requests : d # c => /\ DispatcherOwes(d)' = DispatcherOwes(d)
                                      /\ ExecutorOwes(d)' = ExecutorOwes(d)
      /\ DispatcherOwes(c)' = DispatcherOwes(c)
      /\ ExecutorOwes(c)
  BY <1>1, <1>2, JobDebts
<1>4. CASE w = "failed"
  <2>1. UNCHANGED issues
    BY <1>2, <1>4
  <2>2. Record!Relinquish
    BY <1>1, <1>3, <2>1, QuietStep
  <2> QED BY <2>2 DEF Record!RecordNext
<1>5. CASE w # "failed"
  <2>1. issues[r][p] = 0
    BY <1>1 DEF IInv, Recorded, Exactly
  <2>2. /\ p \notin RecordEvidence[r]
        /\ RecordEvidence' = [RecordEvidence EXCEPT ![r] = @ \cup {p}]
    <3>1. issues \in [RunIds -> [Positions -> Nat]]
      BY DEF IInv, TypeOK
    <3>2. /\ issues'[r][p] = 1
          /\ \A x \in Positions : x # p => issues'[r][x] = issues[r][x]
          /\ \A q \in RunIds : q # r => issues'[q] = issues[q]
      BY <1>1, <1>2, <1>5, <2>1, <3>1
    <3>3. {x \in Positions : issues'[r][x] > 0} = {x \in Positions : issues[r][x] > 0} \cup {p}
      BY <1>1, <3>2
    <3>4. RecordEvidence'[r] = RecordEvidence[r] \cup {p}
      BY <1>1, <3>3 DEF RecordEvidence
    <3>5. \A q \in RunIds : q # r => RecordEvidence'[q] = RecordEvidence[q]
      BY <3>2 DEF RecordEvidence
    <3>6. p \notin RecordEvidence[r]
      BY <1>1, <2>1 DEF RecordEvidence
    <3>7. /\ RecordEvidence = [q \in RunIds |-> RecordEvidence[q]]
          /\ RecordEvidence' = [q \in RunIds |-> RecordEvidence'[q]]
      BY DEF RecordEvidence
    <3> QED BY <1>1, <3>4, <3>5, <3>6, <3>7
  <2>3. UNCHANGED RecordStatus
    BY <1>1 DEF RecordStatus
  <2>4. RecordOwed[r] = Owes(c)
    BY <1>1, OwedByOwner DEF IInv
  <2>5. RecordOwed' = [RecordOwed EXCEPT ![r] = Owes(c)']
    BY <1>1, <1>3, OwedStep DEF IInv
  <2>6. Owes(c)' \in {Owes(c), Owes(c) \ {"executor"}}
    BY <1>3 DEF Owes
  <2>7. RecordOwed' \in {RecordOwed, [RecordOwed EXCEPT ![r] = @ \ {"executor"}]}
    BY <1>1, <2>4, <2>5, <2>6, OwedIsFunction
  <2>8. Record!AddEvidence(r, p)
    BY <1>3, <2>2, <2>3, <2>4, <2>7 DEF Record!AddEvidence, Owes
  <2> QED BY <1>1, <2>8 DEF Record!RecordNext
<1> QED BY <1>4, <1>5

LEMMA ReportStep ==
    ASSUME IInv, IInv', NEW c \in Requests, RecordQueryError(c) \/ Finish(c)
    PROVE  Record!RecordNext \/ UNCHANGED Record!recordVars
<1> DEFINE r == run[c]
           s == IF job[c] = "failing" THEN "error" ELSE Verdict(deviated[c])
           v == job[c] = "finishing"
           e == IF job[c] = "failing" THEN "query" ELSE "none"
<1>1. /\ job[c] \in {"failing", "finishing"} /\ job[c] \in Active /\ r \in RunIds /\ r # 0
      /\ jobRun[c] = r /\ UNCHANGED <<pc, run, call, issues>>
  BY JobFacts DEF RecordQueryError, Finish, apiVars, Active
<1>2. PICK w \in WriteResults(expired[c]) :
        UpdateAuditRunResult(w, r, s, v, e) /\ job' = [job EXCEPT ![c] = AfterWrite(c, w)]
  BY <1>1 DEF RecordQueryError, Finish
<1>3. AfterWrite(c, w) \notin Active
  BY DEF AfterWrite, Active
<1>4. /\ \A d \in Requests : d # c => /\ DispatcherOwes(d)' = DispatcherOwes(d)
                                      /\ ExecutorOwes(d)' = ExecutorOwes(d)
      /\ DispatcherOwes(c)' = DispatcherOwes(c)
      /\ ExecutorOwes(c) /\ ~ExecutorOwes(c)'
  BY <1>1, <1>2, <1>3, JobDebts
<1>5. CASE w = "failed"
  <2>1. UNCHANGED runs
    BY <1>2, <1>5 DEF UpdateAuditRunResult
  <2>2. Record!Relinquish
    BY <1>1, <1>4, <2>1, QuietStep
  <2> QED BY <2>2 DEF Record!RecordNext
<1>6. CASE w # "failed"
  <2>1. RecordStatus' = [RecordStatus EXCEPT ![r] = s] /\ UNCHANGED RecordEvidence
    <3> HIDE DEF s, v, e, r
    <3> QED BY <1>1, <1>2, <1>6, UpdateStep DEF IInv
  <2>2. RecordEvidence[r] = deviated[c]
    <3>1. \A x \in Positions : issues[r][x] = IF x \in deviated[c] THEN 1 ELSE 0
      BY <1>1 DEF IInv, Recorded, Exactly
    <3>2. deviated[c] \subseteq Positions
      BY DEF IInv, TypeOK
    <3>3. {x \in Positions : issues[r][x] > 0} = deviated[c]
      BY <3>1, <3>2
    <3> QED BY <1>1, <3>3 DEF RecordEvidence
  <2>3. s \in {Record!Judgement(r), "error"} /\ s \in Record!Terminal
    BY <2>2 DEF Record!Judgement, Record!Terminal, Verdict
  <2>4. RecordOwed[r] = Owes(c)
    BY <1>1, OwedByOwner DEF IInv
  <2>5. RecordOwed' = [RecordOwed EXCEPT ![r] = Owes(c)']
    BY <1>1, <1>4, OwedStep DEF IInv
  <2>6. "executor" \in Owes(c) /\ Owes(c)' = Owes(c) \ {"executor"}
    BY <1>4 DEF Owes
  <2>7. Record!Report(r, s)
    BY <2>1, <2>3, <2>4, <2>5, <2>6 DEF Record!Report
  <2> QED BY <1>1, <2>3, <2>7 DEF Record!RecordNext
<1> QED BY <1>5, <1>6

\* The other steps write nothing.
LEMMA OtherStep ==
    ASSUME IInv,
           \/ \E c \in Requests :
                 \/ GetAudit(c) \/ Dispatch(c) \/ RpcAnswer(c) \/ RpcFailure(c) \/ ExecuteAudit(c)
                 \/ Load(c) \/ RunScalarQuery(c) \/ FaultStep(c)
           \/ WorkerCrash
    PROVE  Record!RecordNext
<1>1. CASE WorkerCrash
  <2>1. UNCHANGED <<pc, run, runs, issues>>
    BY <1>1 DEF WorkerCrash, apiVars, dbVars
  <2>2. \A d \in Requests : (call'[d] = "sent" => call[d] = "sent")
                          /\ (job'[d] \in Active => job[d] \in Active)
    BY <1>1 DEF WorkerCrash, InFlight, Active
  <2> QED BY <2>1, <2>2, QuietStep DEF DispatcherOwes, ExecutorOwes, Record!RecordNext
<1>2. ASSUME NEW c \in Requests,
             GetAudit(c) \/ Dispatch(c) \/ RpcAnswer(c) \/ RpcFailure(c) \/ Cancel(c) \/ ApiCrash(c)
      PROVE  Record!Relinquish
  <2>1. UNCHANGED <<run, runs, issues>> /\ UNCHANGED job
    BY <1>2 DEF GetAudit, Dispatch, RpcAnswer, RpcFailure, Cancel, ApiCrash, workerVars, dbVars
  <2>2. \A d \in Requests : d # c => pc'[d] = pc[d] /\ call'[d] = call[d]
    BY <1>2 DEF GetAudit, Dispatch, RpcAnswer, RpcFailure, Cancel, ApiCrash, IInv, TypeOK
  <2>3. /\ DispatcherOwes(c)' => DispatcherOwes(c)
        /\ ExecutorOwes(c)' => ExecutorOwes(c)
    BY <1>2 DEF GetAudit, Dispatch, RpcAnswer, Reply, RpcFailure, Cancel, ApiCrash, IInv, TypeOK,
                DispatcherOwes, ExecutorOwes, Handling, workerVars
  <2>4. \A d \in Requests : /\ DispatcherOwes(d)' => DispatcherOwes(d)
                            /\ ExecutorOwes(d)' => ExecutorOwes(d)
    BY <2>1, <2>2, <2>3 DEF DispatcherOwes, ExecutorOwes
  <2> QED BY <2>1, <2>4, QuietStep
<1>3. ASSUME NEW c \in Requests,
             ExecuteAudit(c) \/ Load(c) \/ RunScalarQuery(c) \/ LoseCall(c) \/ Deadline(c)
      PROVE  Record!Relinquish
  <2>1. UNCHANGED <<pc, run, runs, issues>>
    BY <1>3 DEF ExecuteAudit, Load, RunScalarQuery, LoseCall, Deadline, apiVars, workerVars, dbVars
  <2>2. \A d \in Requests : d # c => job'[d] = job[d] /\ call'[d] = call[d]
    BY <1>3 DEF ExecuteAudit, Load, RunScalarQuery, LoseCall, Deadline, workerVars, IInv, TypeOK
  <2>3. ExecutorOwes(c)' => ExecutorOwes(c)
    BY <1>3 DEF ExecuteAudit, Load, RunScalarQuery, LoseCall, Deadline, IInv, TypeOK, Active,
                ExecutorOwes, apiVars, workerVars
  <2>4. \A d \in Requests : /\ DispatcherOwes(d)' => DispatcherOwes(d)
                            /\ ExecutorOwes(d)' => ExecutorOwes(d)
    BY <2>1, <2>2, <2>3 DEF DispatcherOwes, ExecutorOwes
  <2> QED BY <2>1, <2>4, QuietStep
<1> QED BY <1>1, <1>2, <1>3 DEF FaultStep, Record!RecordNext

LEMMA StepRefines ==
    ASSUME IInv, IInv', [Next]_vars
    PROVE  [Record!RecordNext]_(Record!recordVars)
<1>1. CASE Next
  BY <1>1, CreateStep, BlameStep, EvidenceStep, ReportStep, OtherStep
     DEF Next, ApiStep, JobStep
<1>2. CASE UNCHANGED vars
  BY <1>2 DEF vars, Record!recordVars, RecordStatus, RecordEvidence, RecordOwed, DispatcherOwes,
              ExecutorOwes
<1> QED BY <1>1, <1>2

LEMMA InitRefines == Init => Record!RecordInit
  BY DEF Init, Record!RecordInit, NoRow, RecordStatus, RecordEvidence, RecordOwed, DispatcherOwes,
         ExecutorOwes, Active

\* Every behaviour of the handlers, the jobs and the faults is one that RunRecord
\* allows: whoever builds on audit_runs (PolicyRun does) may rely on RunRecord.
THEOREM Refinement == Spec => ImplementsRecord
<1>1. IInv /\ IInv' /\ [Next]_vars => [Record!RecordNext]_(Record!recordVars)
  BY StepRefines
<1> QED BY InitRefines, Invariance, <1>1, PTL DEF Spec, ImplementsRecord, Record!RecordSpec
=============================================================================
