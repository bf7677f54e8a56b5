--------------------------- MODULE PolicyRunProofs ---------------------------
(***************************************************************************)
(* One run of a policy of any length, with any number of pollers: nothing  *)
(* is settled while a child runs, under every fault; and what is settled   *)
(* is the aggregate of the children for good, unless a dispatch was lost.  *)
(***************************************************************************)
EXTENDS PolicyRun, FiniteSetTheorems, TLAPS

\* There are children, and none of them runs.
Settled == policy.runs # {} /\ \A r \in policy.runs : status[r] \in Terminal

\* How far the handler is.
Loop ==
    /\ pc \in {"idle", "creating", "dispatching", "blaming"} => at \in 1 .. NumAudits
    /\ pc \in {"dispatching", "blaming"} => current \in RunIds
    /\ pc \in Handling \cup {"idle"} => policy.status = "absent"
    /\ \A r \in children : status[r] # "absent"

\* What the row of the policy run says.
RowListed ==
    /\ policy.status = "absent" => policy.runs = {}
    /\ policy.status \in Terminal => Settled
    /\ \A r \in policy.runs : status[r] # "absent"

\* What the pollers know, however long ago they read it.
Polls ==
    \A p \in Pollers :
       /\ poll[p] # "idle" => policy.status # "absent"
       /\ poll[p] = "deciding" => Settled
       /\ readStatus[p] \in Terminal \/ told[p] \in Terminal => Settled

IInv == TypeOK /\ Loop /\ RowListed /\ Polls

\* Rows stay, and a terminal status is replaced by terminal ones only.
StatusGoesOn ==
    \A r \in RunIds : /\ status[r] # "absent" => status'[r] # "absent"
                      /\ status[r] \in Terminal => status'[r] \in Terminal

USE PolicyAssumption

LEMMA InitInv == Init => IInv
<1> SUFFICES ASSUME Init PROVE IInv
  OBVIOUS
<1> USE DEF Init, RecordInit
<1>1. RecordTypeOK
  BY DEF RecordTypeOK, Statuses
<1>2. TypeOK
  <2>1. pc = "idle" /\ current = 0 /\ children = {} /\ cancelled \in BOOLEAN
    OBVIOUS
  <2>5. at \in 1 .. NumAudits + 1
    OBVIOUS
  <2>2. policy \in [status : Statuses, runs : SUBSET RunIds]
    BY DEF Statuses
  <2>3. /\ poll \in [Pollers -> {"idle", "policyRead", "deciding"}]
        /\ readStatus \in [Pollers -> Statuses] /\ told \in [Pollers -> Statuses]
    BY DEF Statuses
  <2>4. readRuns \in [Pollers -> [RunIds -> Statuses]]
    BY DEF Statuses
  <2> QED BY <1>1, <2>1, <2>2, <2>3, <2>4, <2>5 DEF TypeOK
<1>3. Loop /\ RowListed /\ Polls
  BY DEF Loop, RowListed, Polls, Terminal
<1> QED BY <1>2, <1>3 DEF IInv

-----------------------------------------------------------------------------
(***************************************************************************)
(* What a step does to the rows of audit_runs.                             *)
(***************************************************************************)
LEMMA CreateGoesOn ==
  ASSUME RecordTypeOK, NEW r \in RunIds, NEW writers, Create(r, writers)
  PROVE  RecordTypeOK' /\ StatusGoesOn /\ status'[r] # "absent"
  BY DEF RecordTypeOK, Create, StatusGoesOn, Statuses, Terminal

LEMMA BlameGoesOn ==
  ASSUME RecordTypeOK, NEW r \in RunIds, Blame(r)
  PROVE  RecordTypeOK' /\ StatusGoesOn
  BY DEF RecordTypeOK, Blame, StatusGoesOn, Statuses, Terminal

LEMMA ForgoGoesOn ==
  ASSUME RecordTypeOK, NEW r \in RunIds, NEW party, Forgo(r, party),
         UNCHANGED <<status, evidence>>
  PROVE  RecordTypeOK' /\ StatusGoesOn
  BY DEF RecordTypeOK, Forgo, StatusGoesOn

LEMMA ExecuteGoesOn ==
  ASSUME RecordTypeOK, NEW r \in RunIds, Execute(r)
  PROVE  RecordTypeOK' /\ StatusGoesOn
<1>1. CASE \E p \in Positions : UNCHANGED owed /\ AddEvidence(r, p)
  BY <1>1 DEF RecordTypeOK, AddEvidence, StatusGoesOn
<1>2. CASE \E s \in Terminal : Report(r, s)
  BY <1>2 DEF RecordTypeOK, Report, StatusGoesOn, Statuses, Terminal
<1> QED BY <1>1, <1>2 DEF Execute

\* What is settled remains so, whatever becomes of the rows.
LEMMA KnowledgeStays ==
  ASSUME IInv, StatusGoesOn, policy' = policy, UNCHANGED pollVars
  PROVE  RowListed' /\ Polls'
<1>1. policy.runs \subseteq RunIds
  BY DEF IInv, TypeOK
<1>2. Settled => Settled'
  BY <1>1 DEF Settled, StatusGoesOn
<1>3. RowListed'
  BY <1>1, <1>2 DEF IInv, RowListed, StatusGoesOn
<1> QED BY <1>2, <1>3 DEF IInv, Polls, pollVars

-----------------------------------------------------------------------------
(***************************************************************************)
(* RunPolicy.                                                              *)
(***************************************************************************)
LEMMA RowsAsTheyWere ==
  ASSUME IInv, UNCHANGED recordVars
  PROVE  RecordTypeOK' /\ StatusGoesOn
  BY DEF IInv, TypeOK, RecordTypeOK, recordVars, StatusGoesOn

\* The loop's next step: the place, and what it does afterwards.
LEMMA OnwardType ==
  ASSUME NEW n \in Nat \ {0}, at \in 1 .. NumAudits, Onward
  PROVE  /\ at' \in 1 .. NumAudits + 1 /\ pc' \in {"creating", "inserting"}
         /\ pc' = "creating" => at' \in 1 .. NumAudits
  BY DEF Onward

LEMMA GetPolicyInv == ASSUME IInv, GetPolicy PROVE IInv'
<1>1. UNCHANGED recordVars /\ policy' = policy /\ UNCHANGED pollVars
  BY DEF GetPolicy
<1>2. RecordTypeOK' /\ StatusGoesOn
  BY <1>1, RowsAsTheyWere
<1>3. TypeOK'
  BY <1>1, <1>2 DEF IInv, TypeOK, GetPolicy, Handling, pollVars
<1>4. Loop'
  BY <1>1 DEF IInv, Loop, GetPolicy, Handling, recordVars
<1> QED BY <1>1, <1>2, <1>3, <1>4, KnowledgeStays DEF IInv

LEMMA CreateAuditRunInv == ASSUME IInv, CreateAuditRun PROVE IInv'
<1> USE DEF CreateAuditRun
<1>1. /\ policy' = policy /\ UNCHANGED pollVars /\ UNCHANGED cancelled
      /\ pc = "creating" /\ at \in 1 .. NumAudits /\ policy.status = "absent"
      /\ RecordTypeOK
  BY DEF IInv, TypeOK, Loop, Handling
<1>2. CASE \E r \in RunIds : /\ Create(r, Parties) /\ current' = r /\ ListChild(r)
                             /\ pc' = "dispatching" /\ UNCHANGED at
  <2>1. PICK r \in RunIds : /\ Create(r, Parties) /\ current' = r /\ ListChild(r)
                            /\ pc' = "dispatching" /\ UNCHANGED at
    BY <1>2
  <2>2. RecordTypeOK' /\ StatusGoesOn /\ status'[r] # "absent"
    BY <1>1, <2>1, CreateGoesOn
  <2>3. TypeOK'
    BY <1>1, <2>1, <2>2 DEF IInv, TypeOK, Handling, ListChild, pollVars
  <2>4. Loop'
    BY <1>1, <2>1, <2>2 DEF IInv, Loop, TypeOK, ListChild, StatusGoesOn
  <2> QED BY <1>1, <2>2, <2>3, <2>4, KnowledgeStays DEF IInv
<1>3. CASE /\ Onward /\ UNCHANGED <<current, children>>
           /\ (\E r \in RunIds : Create(r, {})) \/ UNCHANGED recordVars
  <2>1. RecordTypeOK' /\ StatusGoesOn
    BY <1>1, <1>3, CreateGoesOn, RowsAsTheyWere
  <2>2. /\ at' \in 1 .. NumAudits + 1 /\ pc' \in {"creating", "inserting"}
        /\ pc' = "creating" => at' \in 1 .. NumAudits
    BY <1>1, <1>3, OnwardType
  <2>3. TypeOK'
    BY <1>1, <1>3, <2>1, <2>2 DEF IInv, TypeOK, Handling, pollVars
  <2>4. Loop'
    BY <1>1, <1>3, <2>1, <2>2 DEF IInv, Loop, TypeOK, StatusGoesOn
  <2> QED BY <1>1, <2>1, <2>3, <2>4, KnowledgeStays DEF IInv
<1> QED BY <1>2, <1>3

LEMMA ExecuteAuditInv == ASSUME IInv, ExecuteAudit PROVE IInv'
<1> USE DEF ExecuteAudit
<1>1. /\ policy' = policy /\ UNCHANGED pollVars
      /\ UNCHANGED <<status, evidence, current, children, cancelled>>
      /\ pc = "dispatching" /\ at \in 1 .. NumAudits /\ current \in RunIds
      /\ policy.status = "absent" /\ RecordTypeOK
  BY DEF IInv, TypeOK, Loop, Handling
<1>2. RecordTypeOK' /\ StatusGoesOn
  <2>1. \/ UNCHANGED owed
        \/ \E party \in Parties : Forgo(current, party)
    BY DEF Parties
  <2> QED BY <1>1, <2>1, ForgoGoesOn, RowsAsTheyWere DEF recordVars
<1>3. /\ at' \in 1 .. NumAudits + 1 /\ pc' \in {"creating", "inserting", "blaming"}
      /\ pc' \in {"creating", "blaming"} => at' \in 1 .. NumAudits
  BY <1>1, OnwardType
<1>4. TypeOK'
  BY <1>1, <1>2, <1>3 DEF IInv, TypeOK, Handling, pollVars
<1>5. Loop'
  BY <1>1, <1>2, <1>3 DEF IInv, Loop, TypeOK, StatusGoesOn
<1> QED BY <1>1, <1>2, <1>4, <1>5, KnowledgeStays DEF IInv

LEMMA RecordDispatchErrorInv == ASSUME IInv, RecordDispatchError PROVE IInv'
<1> USE DEF RecordDispatchError
<1>1. /\ policy' = policy /\ UNCHANGED pollVars
      /\ UNCHANGED <<current, children, cancelled>>
      /\ pc = "blaming" /\ at \in 1 .. NumAudits /\ current \in RunIds
      /\ policy.status = "absent" /\ RecordTypeOK
  BY DEF IInv, TypeOK, Loop, Handling
<1>2. RecordTypeOK' /\ StatusGoesOn
  BY <1>1, ForgoGoesOn, BlameGoesOn
<1>3. /\ at' \in 1 .. NumAudits + 1 /\ pc' \in {"creating", "inserting"}
      /\ pc' = "creating" => at' \in 1 .. NumAudits
  BY <1>1, OnwardType
<1>4. TypeOK'
  BY <1>1, <1>2, <1>3 DEF IInv, TypeOK, Handling, pollVars
<1>5. Loop'
  BY <1>1, <1>2, <1>3 DEF IInv, Loop, TypeOK, StatusGoesOn
<1> QED BY <1>1, <1>2, <1>4, <1>5, KnowledgeStays DEF IInv

LEMMA CreatePolicyRunInv == ASSUME IInv, CreatePolicyRun PROVE IInv'
<1> USE DEF CreatePolicyRun
<1>1. /\ UNCHANGED recordVars /\ UNCHANGED pollVars
      /\ UNCHANGED <<at, current, children, cancelled>>
      /\ pc = "inserting" /\ pc' \in {"accepted", "errored"} /\ policy.status = "absent"
      /\ policy' = policy \/ policy' = NewPolicyRun(children)
  BY DEF IInv, Loop, Handling
<1>2. RecordTypeOK' /\ StatusGoesOn
  BY <1>1, RowsAsTheyWere
<1>3. TypeOK'
  BY <1>1, <1>2 DEF IInv, TypeOK, Handling, pollVars, NewPolicyRun, Statuses
<1>4. Loop'
  BY <1>1 DEF IInv, Loop, Handling, recordVars
<1>5. CASE policy' = policy
  BY <1>1, <1>2, <1>3, <1>4, <1>5, KnowledgeStays DEF IInv
<1>6. CASE policy' = NewPolicyRun(children)
  <2>1. policy'.status = "running" /\ policy'.runs = children
    BY <1>6 DEF NewPolicyRun
  <2>2. \A p \in Pollers : /\ poll[p] = "idle"
                          /\ readStatus[p] \notin Terminal /\ told[p] \notin Terminal
    <3>1. ~Settled
      BY <1>1 DEF IInv, RowListed, Settled
    <3> QED BY <1>1, <3>1 DEF IInv, Polls
  <2>3. RowListed'
    BY <1>1, <2>1 DEF IInv, Loop, RowListed, recordVars, Terminal
  <2>4. Polls'
    BY <1>1, <2>2 DEF Polls, pollVars
  <2> QED BY <1>3, <1>4, <2>3, <2>4 DEF IInv
<1> QED BY <1>1, <1>5, <1>6

LEMMA HandlerStopsInv == ASSUME IInv, Cancel \/ Crash PROVE IInv'
<1>1. CASE Cancel
  <2>1. RecordTypeOK' /\ StatusGoesOn
    BY <1>1, RowsAsTheyWere DEF Cancel
  <2>2. TypeOK' /\ Loop'
    BY <1>1, <2>1 DEF IInv, TypeOK, Loop, Cancel, pollVars, recordVars
  <2> QED BY <1>1, <2>1, <2>2, KnowledgeStays DEF IInv, Cancel
<1>2. CASE Crash
  <2>1. RecordTypeOK' /\ StatusGoesOn
    BY <1>2 DEF IInv, TypeOK, RecordTypeOK, Crash, StatusGoesOn
  <2>2. TypeOK' /\ Loop'
    BY <1>2, <2>1 DEF IInv, TypeOK, Loop, Crash, Handling, pollVars
  <2> QED BY <1>2, <2>1, <2>2, KnowledgeStays DEF IInv, Crash
<1> QED BY <1>1, <1>2

LEMMA WorkerInv ==
  ASSUME IInv, NEW r \in RunIds, Execute(r) \/ LoseJob(r) PROVE IInv'
<1>1. UNCHANGED <<handlerVars, policy, pollVars>>
  BY DEF Execute, LoseJob
<1>2. RecordTypeOK' /\ StatusGoesOn
  BY ExecuteGoesOn, ForgoGoesOn DEF LoseJob, IInv, TypeOK
<1>3. TypeOK'
  BY <1>1, <1>2 DEF IInv, TypeOK, handlerVars, pollVars
<1>4. Loop'
  BY <1>1, <1>2 DEF IInv, Loop, TypeOK, handlerVars, StatusGoesOn
<1> QED BY <1>1, <1>2, <1>3, <1>4, KnowledgeStays DEF IInv

-----------------------------------------------------------------------------
(***************************************************************************)
(* GetPolicyRunStatus.                                                     *)
(***************************************************************************)
LEMMA GetPolicyRunInv ==
  ASSUME IInv, NEW p \in Pollers, GetPolicyRun(p) PROVE IInv'
<1> USE DEF GetPolicyRun
<1>1. UNCHANGED <<recordVars, handlerVars, policy, readRuns, told>>
  OBVIOUS
<1>2. TypeOK'
  BY <1>1 DEF IInv, TypeOK, RecordTypeOK, recordVars, handlerVars
<1>3. Loop' /\ RowListed'
  BY <1>1 DEF IInv, Loop, RowListed, Settled, recordVars, handlerVars
<1>4. Polls'
  BY <1>1 DEF IInv, TypeOK, RowListed, Polls, Settled, recordVars
<1> QED BY <1>2, <1>3, <1>4 DEF IInv

LEMMA GetAuditRunsByIDsInv ==
  ASSUME IInv, NEW p \in Pollers, GetAuditRunsByIDs(p) PROVE IInv'
<1> USE DEF GetAuditRunsByIDs
<1>1. UNCHANGED <<recordVars, handlerVars, policy, readStatus>>
  OBVIOUS
<1>2. readRuns' \in [Pollers -> [RunIds -> Statuses]]
  BY DEF IInv, TypeOK, RecordTypeOK, Statuses
<1>3. TypeOK'
  BY <1>1, <1>2 DEF IInv, TypeOK, RecordTypeOK, recordVars, handlerVars, Answer
<1>4. Loop' /\ RowListed'
  BY <1>1 DEF IInv, Loop, RowListed, Settled, recordVars, handlerVars
<1>5. Polls'
  <2>1. AllCompleted(status, policy.runs) => Settled
    BY DEF AllCompleted, Settled, IInv, TypeOK, RecordTypeOK, RowListed, Statuses
  <2> QED BY <1>1, <2>1 DEF IInv, TypeOK, Polls, Settled, Answer, recordVars
<1> QED BY <1>3, <1>4, <1>5 DEF IInv

\* Whatever was read, the aggregate is terminal.
LEMMA AggregateType ==
  ASSUME NEW seen, NEW runs PROVE Aggregate(seen, runs) \in Terminal
  BY DEF Aggregate, Terminal

LEMMA UpdatePolicyRunStatusInv ==
  ASSUME IInv, NEW p \in Pollers, UpdatePolicyRunStatus(p) PROVE IInv'
<1> DEFINE final == Aggregate(readRuns[p], policy.runs)
<1>1. /\ UNCHANGED <<recordVars, handlerVars, readStatus, readRuns>>
      /\ poll[p] = "deciding"
      /\ policy' = policy \/ policy' = WithStatus(final)
      /\ Answer(p, final) \/ Answer(p, readStatus[p])
  BY DEF UpdatePolicyRunStatus
<1>2. final \in Terminal /\ final \in Statuses
  BY AggregateType DEF Statuses
<1> HIDE DEF final
<1>3. /\ policy' \in [status : Statuses, runs : SUBSET RunIds]
      /\ policy'.runs = policy.runs
      /\ policy' = policy \/ policy'.status = final
  BY <1>1, <1>2 DEF IInv, TypeOK, WithStatus
<1>4. TypeOK'
  <2>1. readStatus[p] \in Statuses
    BY DEF IInv, TypeOK
  <2>2. PICK s \in Statuses : Answer(p, s)
    BY <1>1, <1>2, <2>1
  <2>3. /\ poll' \in [Pollers -> {"idle", "policyRead", "deciding"}]
        /\ told' \in [Pollers -> Statuses]
    BY <2>2 DEF IInv, TypeOK, Answer
  <2> QED BY <1>1, <1>3, <2>3 DEF IInv, TypeOK, RecordTypeOK, recordVars, handlerVars
<1>5. policy.status # "absent" /\ Settled /\ Settled'
  BY <1>1, <1>3 DEF IInv, Polls, Settled, recordVars
<1>6. policy'.status # "absent"
  BY <1>2, <1>3, <1>5 DEF Terminal
<1>7. Loop' /\ RowListed'
  BY <1>1, <1>3, <1>5, <1>6 DEF IInv, Loop, RowListed, recordVars, handlerVars
<1>8. Polls'
  BY <1>1, <1>5, <1>6 DEF Polls
<1> QED BY <1>4, <1>7, <1>8 DEF IInv

LEMMA AbandonPollInv ==
  ASSUME IInv, NEW p \in Pollers, AbandonPoll(p) PROVE IInv'
<1> USE DEF AbandonPoll
<1>1. UNCHANGED <<recordVars, handlerVars, policy, readStatus, readRuns, told>>
  OBVIOUS
<1>2. TypeOK'
  BY <1>1 DEF IInv, TypeOK, RecordTypeOK, recordVars, handlerVars
<1>3. Loop' /\ RowListed'
  BY <1>1 DEF IInv, Loop, RowListed, Settled, recordVars, handlerVars
<1>4. Polls'
  BY <1>1 DEF IInv, TypeOK, Polls, Settled, recordVars
<1> QED BY <1>2, <1>3, <1>4 DEF IInv

LEMMA NextInv == IInv /\ [Next]_vars => IInv'
<1> SUFFICES ASSUME IInv, [Next]_vars PROVE IInv'
  OBVIOUS
<1>1. CASE UNCHANGED vars
  <2>1. RecordTypeOK' /\ StatusGoesOn
    BY <1>1, RowsAsTheyWere DEF vars
  <2>2. TypeOK' /\ Loop'
    BY <1>1, <2>1 DEF vars, recordVars, handlerVars, pollVars, IInv, TypeOK, Loop
  <2> QED BY <1>1, <2>1, <2>2, KnowledgeStays DEF vars, IInv
<1>2. CASE Next
  BY <1>2, GetPolicyInv, CreateAuditRunInv, ExecuteAuditInv, RecordDispatchErrorInv,
     CreatePolicyRunInv, HandlerStopsInv, WorkerInv, GetPolicyRunInv, GetAuditRunsByIDsInv,
     UpdatePolicyRunStatusInv, AbandonPollInv
     DEF Next, RunPolicy, GetPolicyRunStatus
<1> QED BY <1>1, <1>2

LEMMA Invariance == Spec => []IInv
  BY InitInv, NextInv, PTL DEF Spec

\* Every variable keeps its type; the loop visits each audit once.
THEOREM TypeCorrect == Spec => []TypeOK
<1>1. IInv => TypeOK
  BY DEF IInv
<1> QED BY <1>1, Invariance, PTL

\* Nothing is settled, nor told to be, while a child runs: under every fault.
THEOREM NothingTooEarly == Spec => []NoPrematureVerdict
<1>1. IInv => NoPrematureVerdict
  BY DEF IInv, RowListed, Polls, Settled, NoPrematureVerdict
<1> QED BY <1>1, Invariance, PTL

-----------------------------------------------------------------------------
(***************************************************************************)
(* The verdict, if no dispatch is lost or answered too late.               *)
(***************************************************************************)
Punctual == "rpc" \notin Faults

\* Whoever may still report on a child finds it running.
OneWriter ==
    /\ \A r \in RunIds : "executor" \in owed[r] => status[r] = "running"
    /\ pc = "blaming" /\ ~cancelled => "executor" \notin owed[current]

\* What was read of settled children is what they are.
Agreed ==
    /\ policy.status \in Terminal => policy.status = Aggregate(status, policy.runs)
    /\ \A p \in Pollers :
          /\ poll[p] = "deciding" => /\ readStatus[p] = "running"
                                    /\ \A r \in policy.runs : readRuns[p][r] = status[r]
          /\ readStatus[p] \in Terminal => readStatus[p] = policy.status
          /\ told[p] \in Terminal => told[p] = policy.status

VInv == IInv /\ OneWriter /\ Agreed

\* The aggregate depends on the listed children only.
LEMMA AggregateOfSame ==
  ASSUME NEW seen, NEW other, NEW runs, \A r \in runs : seen[r] = other[r]
  PROVE  Aggregate(seen, runs) = Aggregate(other, runs)
  BY DEF Aggregate

\* Settled children are never rewritten, so what is agreed remains so.
LEMMA AgreedStays ==
  ASSUME VInv, policy' = policy, UNCHANGED pollVars,
         \A r \in policy.runs : status[r] \in Terminal => status'[r] = status[r]
  PROVE  Agreed'
<1>1. Settled => \A r \in policy.runs : status'[r] = status[r]
  BY DEF Settled
<1>2. policy.status \in Terminal => policy.status = Aggregate(status', policy.runs)
  <2>1. CASE policy.status \in Terminal
    <3>1. \A r \in policy.runs : status[r] = status'[r]
      BY <1>1, <2>1 DEF VInv, IInv, RowListed
    <3>2. Aggregate(status, policy.runs) = Aggregate(status', policy.runs)
      BY <3>1, AggregateOfSame
    <3> QED BY <2>1, <3>2 DEF VInv, Agreed
  <2> QED BY <2>1
<1>3. \A p \in Pollers : poll[p] = "deciding" =>
        \A r \in policy.runs : readRuns[p][r] = status'[r]
  BY <1>1 DEF VInv, IInv, Polls, Agreed
<1>4. Aggregate(status, policy.runs)' = Aggregate(status', policy.runs)
  BY DEF Aggregate
<1> QED BY <1>2, <1>3, <1>4 DEF VInv, Agreed, pollVars

\* While RunPolicy is at it, nothing is listed and nobody has read anything.
LEMMA AgreedBefore ==
  ASSUME VInv, policy' = policy, UNCHANGED pollVars, pc \in Handling \cup {"idle"}
  PROVE  Agreed'
<1>1. policy.runs = {}
  BY DEF VInv, IInv, Loop, RowListed
<1> QED BY <1>1, AgreedStays

LEMMA InitVerdict == Init => VInv
<1> SUFFICES ASSUME Init PROVE OneWriter /\ Agreed
  BY InitInv DEF VInv
<1> QED BY DEF Init, RecordInit, OneWriter, Agreed, Terminal

LEMMA NextVerdict == Punctual /\ VInv /\ [Next]_vars => VInv'
<1> SUFFICES ASSUME Punctual, VInv, [Next]_vars PROVE OneWriter' /\ Agreed'
  BY NextInv DEF VInv
<1>t. /\ status \in [RunIds -> Statuses] /\ owed \in [RunIds -> SUBSET Parties]
      /\ policy.runs \subseteq RunIds /\ poll \in [Pollers -> {"idle", "policyRead", "deciding"}]
      /\ told \in [Pollers -> Statuses] /\ readStatus \in [Pollers -> Statuses]
      /\ readRuns \in [Pollers -> [RunIds -> Statuses]]
      /\ policy \in [status : Statuses, runs : SUBSET RunIds]
  BY DEF VInv, IInv, TypeOK, RecordTypeOK
<1>c. pc \in {"dispatching", "blaming"} => current \in RunIds
  BY DEF VInv, IInv, Loop
<1>1. CASE UNCHANGED vars
  BY <1>1 DEF vars, recordVars, handlerVars, pollVars, VInv, OneWriter, Agreed, Aggregate
<1>2. CASE GetPolicy
  <2>1. OneWriter'
    BY <1>2 DEF GetPolicy, recordVars, VInv, OneWriter
  <2> QED BY <1>2, <2>1, AgreedBefore DEF GetPolicy
<1>3. CASE CreateAuditRun
  <2>1. /\ policy' = policy /\ UNCHANGED pollVars /\ pc = "creating"
        /\ pc' # "blaming"
        /\ (\E r \in RunIds, writers \in SUBSET Parties : Create(r, writers))
           \/ UNCHANGED recordVars
    BY <1>3 DEF CreateAuditRun, Onward
  <2>2. OneWriter'
    BY <1>t, <2>1 DEF VInv, OneWriter, Create, recordVars
  <2> QED BY <2>1, <2>2, AgreedBefore DEF Handling
<1>4. CASE ExecuteAudit
  <2>1. /\ policy' = policy /\ UNCHANGED pollVars /\ pc = "dispatching"
        /\ UNCHANGED <<status, current, cancelled>> /\ current \in RunIds
        /\ owed' = owed \/ \E party \in Parties : Forgo(current, party)
        /\ pc' = "blaming" /\ ~cancelled => Forgo(current, "executor")
    BY <1>4, <1>c DEF ExecuteAudit, Parties, Onward, Punctual
  <2>2. \A r \in RunIds : owed'[r] \subseteq owed[r]
    BY <1>t, <2>1 DEF Forgo
  <2>3. pc' = "blaming" /\ ~cancelled => "executor" \notin owed'[current]
    BY <1>t, <2>1 DEF Forgo
  <2>4. OneWriter'
    BY <2>1, <2>2, <2>3 DEF VInv, OneWriter
  <2> QED BY <2>1, <2>4, AgreedBefore DEF Handling
<1>5. CASE RecordDispatchError
  <2>1. /\ policy' = policy /\ UNCHANGED pollVars /\ pc = "blaming" /\ pc' # "blaming"
        /\ current \in RunIds
    BY <1>5, <1>c DEF RecordDispatchError, Onward
  <2>2. \/ Forgo(current, "dispatcher") /\ UNCHANGED status
        \/ ~cancelled /\ Blame(current)
    BY <1>5 DEF RecordDispatchError, WriteResults
  <2>3. OneWriter'
    BY <1>t, <2>1, <2>2 DEF VInv, OneWriter, Forgo, Blame
  <2> QED BY <2>1, <2>3, AgreedBefore DEF Handling
<1>6. CASE CreatePolicyRun
  <2>1. /\ UNCHANGED recordVars /\ UNCHANGED pollVars
        /\ pc = "inserting" /\ pc' # "blaming" /\ policy.status = "absent"
        /\ policy' = policy \/ policy' = NewPolicyRun(children)
    BY <1>6 DEF CreatePolicyRun, VInv, IInv, Loop, Handling
  <2>2. OneWriter'
    BY <2>1 DEF VInv, OneWriter, recordVars
  <2>3. CASE policy' = policy
    BY <2>1, <2>2, <2>3, AgreedBefore DEF Handling
  <2>4. CASE policy' = NewPolicyRun(children)
    <3>1. ~Settled
      BY <2>1 DEF VInv, IInv, RowListed, Settled
    <3>2. \A p \in Pollers : /\ poll[p] = "idle"
                            /\ readStatus[p] \notin Terminal /\ told[p] \notin Terminal
      BY <2>1, <3>1 DEF VInv, IInv, Polls
    <3>3. policy'.status \notin Terminal
      BY <2>4 DEF NewPolicyRun, Terminal
    <3>4. Agreed'
      BY <2>1, <3>2, <3>3 DEF Agreed, pollVars
    <3> QED BY <2>2, <3>4
  <2> QED BY <2>1, <2>3, <2>4
<1>7. CASE Cancel \/ Crash
  <2>1. /\ policy' = policy /\ UNCHANGED pollVars /\ pc \in Handling
        /\ status' = status /\ current' = current
    BY <1>7 DEF Cancel, Crash, recordVars
  <2>2. \A r \in RunIds : owed'[r] \subseteq owed[r]
    BY <1>7, <1>t DEF Cancel, Crash, recordVars
  <2>3. pc' = "blaming" => pc = "blaming" /\ cancelled'
    BY <1>7 DEF Cancel, Crash
  <2>4. OneWriter'
    BY <2>1, <2>2, <2>3 DEF VInv, OneWriter
  <2> QED BY <2>1, <2>4, AgreedBefore
<1>8. ASSUME NEW r \in RunIds, Execute(r) \/ LoseJob(r) PROVE OneWriter' /\ Agreed'
  <2>1. policy' = policy /\ UNCHANGED pollVars /\ UNCHANGED handlerVars
    BY <1>8 DEF Execute, LoseJob
  <2>2. /\ "executor" \in owed[r] /\ status[r] = "running"
        /\ \A q \in RunIds : owed'[q] \subseteq owed[q]
        /\ \A q \in RunIds : q # r => status'[q] = status[q]
        /\ status'[r] = "running" \/ "executor" \notin owed'[r]
    BY <1>8, <1>t DEF Execute, LoseJob, AddEvidence, Report, Forgo, VInv, OneWriter
  <2>3. OneWriter'
    BY <1>c, <2>1, <2>2 DEF VInv, OneWriter, handlerVars
  <2>4. \A q \in policy.runs : status[q] \in Terminal => status'[q] = status[q]
    BY <1>t, <2>2 DEF Terminal
  <2> QED BY <2>1, <2>3, <2>4, AgreedStays
<1>9. ASSUME NEW p \in Pollers, GetPolicyRun(p) PROVE OneWriter' /\ Agreed'
  <2>1. UNCHANGED <<recordVars, handlerVars, policy, readRuns, told>>
    BY <1>9 DEF GetPolicyRun
  <2>2. OneWriter'
    BY <2>1 DEF VInv, OneWriter, recordVars, handlerVars
  <2>3. Agreed'
    BY <1>9, <1>t, <2>1 DEF GetPolicyRun, VInv, Agreed, Aggregate, recordVars
  <2> QED BY <2>2, <2>3
<1>10. ASSUME NEW p \in Pollers, GetAuditRunsByIDs(p) PROVE OneWriter' /\ Agreed'
  <2>1. UNCHANGED <<recordVars, handlerVars, policy, readStatus>>
    BY <1>10 DEF GetAuditRunsByIDs
  <2>2. OneWriter'
    BY <2>1 DEF VInv, OneWriter, recordVars, handlerVars
  <2>3. \A r \in policy.runs : readRuns'[p][r] = status[r]
    BY <1>10, <1>t DEF GetAuditRunsByIDs
  <2>4. \A q \in Pollers : q # p => /\ readRuns'[q] = readRuns[q] /\ poll'[q] = poll[q]
                                    /\ told'[q] = told[q]
    BY <1>10, <1>t DEF GetAuditRunsByIDs, Answer
  <2>5. \/ poll'[p] = "deciding" /\ readStatus[p] = "running" /\ told'[p] = told[p]
        \/ poll'[p] = "idle" /\ told'[p] = readStatus[p]
    BY <1>10, <1>t DEF GetAuditRunsByIDs, Answer
  <2>6. Agreed'
    BY <2>1, <2>3, <2>4, <2>5 DEF VInv, Agreed, Aggregate, recordVars
  <2> QED BY <2>2, <2>6
<1>11. ASSUME NEW p \in Pollers, UpdatePolicyRunStatus(p) PROVE OneWriter' /\ Agreed'
  <2> DEFINE final == Aggregate(readRuns[p], policy.runs)
  <2>1. /\ UNCHANGED <<recordVars, handlerVars, readStatus, readRuns>>
        /\ poll[p] = "deciding"
        /\ \/ policy' = WithStatus(final) /\ Answer(p, final)
           \/ policy' = policy /\ Answer(p, readStatus[p])
           \/ policy' = WithStatus(final) /\ Answer(p, readStatus[p])
    BY <1>11 DEF UpdatePolicyRunStatus
  <2>2. readStatus[p] = "running" /\ final = Aggregate(status, policy.runs)
    BY <2>1, AggregateOfSame DEF VInv, Agreed
  <2>3. final \in Terminal
    BY AggregateType
  <2>4. OneWriter'
    BY <2>1 DEF VInv, OneWriter, recordVars, handlerVars
  <2> HIDE DEF final
  <2>5. /\ policy'.runs = policy.runs
        /\ policy' = policy \/ policy'.status = final
    BY <1>t, <2>1 DEF WithStatus
  <2>6. Aggregate(status, policy.runs)' = Aggregate(status, policy.runs)
    BY <2>1, <2>5 DEF Aggregate, recordVars
  <2>7. policy.status \in Terminal => policy'.status = policy.status
    BY <2>2, <2>5 DEF VInv, Agreed
  <2>8. policy'.status \in Terminal => policy'.status = Aggregate(status, policy.runs)'
    BY <2>2, <2>5, <2>6 DEF VInv, Agreed
  <2>9. /\ \A q \in Pollers : q # p => poll'[q] = poll[q] /\ told'[q] = told[q]
        /\ poll'[p] = "idle"
        /\ told'[p] = "running" \/ told'[p] = policy'.status
    BY <1>t, <2>1, <2>2, <2>3 DEF Answer, WithStatus
  <2>10. Agreed'
    <3>1. ASSUME NEW q \in Pollers
          PROVE  /\ readStatus[q] \in Terminal => readStatus[q] = policy'.status
                 /\ told'[q] \in Terminal => told'[q] = policy'.status
                 /\ poll'[q] = "deciding" => /\ readStatus[q] = "running"
                                           /\ \A r \in policy.runs : readRuns[q][r] = status[r]
      <4>1. readStatus[q] \in Terminal => readStatus[q] = policy'.status
        <5>1. readStatus[q] \in Terminal => readStatus[q] = policy.status
          BY DEF VInv, Agreed
        <5> QED BY <2>7, <5>1
      <4>2. told'[q] \in Terminal => told'[q] = policy'.status
        <5>1. told[q] \in Terminal => told[q] = policy.status
          BY DEF VInv, Agreed
        <5>2. CASE q = p
          BY <2>9, <5>2 DEF Terminal
        <5>3. CASE q # p
          BY <2>7, <2>9, <5>1, <5>3
        <5> QED BY <5>2, <5>3
      <4>3. poll'[q] = "deciding" => poll[q] = "deciding"
        <5>1. CASE q = p
          BY <2>9, <5>1
        <5>2. CASE q # p
          BY <2>9, <5>2
        <5> QED BY <5>1, <5>2
      <4>4. poll[q] = "deciding" => /\ readStatus[q] = "running"
                                    /\ \A r \in policy.runs : readRuns[q][r] = status[r]
        BY DEF VInv, Agreed
      <4> QED BY <4>1, <4>2, <4>3, <4>4
    <3> QED BY <2>1, <2>5, <2>8, <3>1 DEF Agreed, recordVars
  <2> QED BY <2>4, <2>10
<1>12. ASSUME NEW p \in Pollers, AbandonPoll(p) PROVE OneWriter' /\ Agreed'
  <2>1. UNCHANGED <<recordVars, handlerVars, policy, readStatus, readRuns, told>>
    BY <1>12 DEF AbandonPoll
  <2>2. \A q \in Pollers : poll'[q] = "deciding" => poll[q] = "deciding"
    BY <1>12, <1>t DEF AbandonPoll
  <2> QED BY <2>1, <2>2 DEF VInv, OneWriter, Agreed, Aggregate, recordVars, handlerVars
<1> QED BY <1>1, <1>2, <1>3, <1>4, <1>5, <1>6, <1>7, <1>8, <1>9, <1>10, <1>11, <1>12
        DEF Next, RunPolicy, GetPolicyRunStatus

\* A settled policy run is the aggregate of its children for good, if no dispatch
\* is lost: whatever the pollers had read, and whatever else fails.
THEOREM VerdictIsRight == ASSUME Punctual PROVE Spec => []VerdictIsAggregate
<1>1. VInv => VerdictIsAggregate
  <2> SUFFICES ASSUME VInv PROVE VerdictIsAggregate
    OBVIOUS
  <2>1. policy.status \in Terminal => policy.status = Aggregate(status, policy.runs)
    BY DEF VInv, Agreed
  <2>2. policy.status \in Terminal => \A r \in policy.runs : status[r] \in Terminal
    BY DEF VInv, IInv, RowListed, Settled
  <2>3. \A p \in Pollers : told[p] \in Terminal => told[p] = policy.status
    BY DEF VInv, Agreed
  <2> QED BY <2>1, <2>2, <2>3 DEF VerdictIsAggregate, Aggregate, Terminal
<1>2. VInv /\ [Next]_vars => VInv'
  BY NextVerdict
<1> QED BY <1>1, <1>2, InitVerdict, PTL DEF Spec

-----------------------------------------------------------------------------
(***************************************************************************)
(* One child per audit, if every insert is made and heard of.              *)
(***************************************************************************)
EveryInsertHeard == {"db", "cancel"} \cap Faults = {}

\* The children are as many as the audits the loop has passed.
Counted ==
    /\ cancelled = FALSE
    /\ pc \in {"idle", "creating"} => Cardinality(children) = at - 1
    /\ pc \in {"dispatching", "blaming"} => Cardinality(children) = at
    /\ pc = "inserting" => Cardinality(children) = NumAudits
    /\ policy.status # "absent" => Cardinality(policy.runs) = NumAudits

CInv == IInv /\ Counted

LEMMA InitCounted == Init => CInv
<1> SUFFICES ASSUME Init PROVE CInv
  OBVIOUS
<1>1. Cardinality(children) = 0
  BY FS_EmptySet DEF Init
<1> QED BY <1>1, InitInv DEF CInv, Counted, Init

\* A row that was not there before is one child more.
LEMMA OneChildMore ==
  ASSUME IInv, NEW r \in RunIds, status[r] = "absent", ListChild(r)
  PROVE  Cardinality(children') = Cardinality(children) + 1
<1>1. IsFiniteSet(children)
  BY FS_Subset DEF IInv, TypeOK
<1>2. r \notin children
  BY DEF IInv, Loop
<1> QED BY <1>1, <1>2, FS_AddElement DEF ListChild

\* The loop is done just when the last audit has had its turn.
LEMMA OnwardCounts ==
  ASSUME at \in 1 .. NumAudits, Onward, Cardinality(children) = at,
         UNCHANGED <<children, cancelled, policy>>, Counted, policy.status = "absent"
  PROVE  Counted'
BY DEF Onward, Counted

LEMMA NextCounted == EveryInsertHeard /\ CInv /\ [Next]_vars => CInv'
<1> SUFFICES ASSUME EveryInsertHeard, CInv, [Next]_vars PROVE Counted'
  BY NextInv DEF CInv
<1>w. WriteResults(cancelled) = {"ok"}
  BY DEF WriteResults, EveryInsertHeard, CInv, Counted
<1>1. CASE UNCHANGED vars
  BY <1>1 DEF CInv, Counted, vars, handlerVars
<1>2. CASE GetPolicy
  BY <1>2 DEF GetPolicy, CInv, Counted, EveryInsertHeard
<1>3. CASE CreateAuditRun
  <2>1. PICK r \in RunIds : Create(r, Parties) /\ current' = r /\ ListChild(r)
    BY <1>w, <1>3 DEF CreateAuditRun
  <2>2. /\ pc = "creating" /\ pc' = "dispatching"
        /\ UNCHANGED <<at, cancelled, policy>>
    BY <1>w, <1>3 DEF CreateAuditRun
  <2>3. Cardinality(children') = Cardinality(children) + 1
    BY <2>1, OneChildMore DEF CInv, Create
  <2>4. at \in Nat
    BY DEF CInv, IInv, TypeOK
  <2> QED BY <2>2, <2>3, <2>4 DEF CInv, Counted
<1>4. CASE ExecuteAudit
  <2>1. /\ pc = "dispatching" /\ at \in 1 .. NumAudits /\ policy.status = "absent"
        /\ Cardinality(children) = at
    BY <1>4 DEF ExecuteAudit, CInv, IInv, Loop, Counted, Handling
  <2>2. UNCHANGED <<children, cancelled, policy>>
    BY <1>4 DEF ExecuteAudit
  <2>3. CASE Onward
    BY <2>1, <2>2, <2>3, OnwardCounts DEF CInv
  <2>4. CASE pc' = "blaming" /\ UNCHANGED at
    BY <2>1, <2>2, <2>4 DEF CInv, Counted
  <2> QED BY <1>4, <2>3, <2>4 DEF ExecuteAudit
<1>5. CASE RecordDispatchError
  <2>1. /\ pc = "blaming" /\ at \in 1 .. NumAudits /\ policy.status = "absent"
        /\ Cardinality(children) = at
    BY <1>5 DEF RecordDispatchError, CInv, IInv, Loop, Counted, Handling
  <2> QED BY <1>5, <2>1, OnwardCounts DEF RecordDispatchError, CInv
<1>6. CASE CreatePolicyRun
  <2>1. /\ pc = "inserting" /\ pc' \in {"accepted", "errored"}
        /\ policy' \in {policy, NewPolicyRun(children)}
        /\ UNCHANGED <<children, cancelled>>
    BY <1>6 DEF CreatePolicyRun
  <2> QED BY <2>1 DEF CInv, Counted, NewPolicyRun
<1>7. CASE Cancel
  BY <1>7 DEF Cancel, EveryInsertHeard
<1>8. CASE Crash
  BY <1>8 DEF Crash, CInv, Counted
<1>9. CASE \E r \in RunIds : Execute(r) \/ LoseJob(r)
  BY <1>9 DEF Execute, LoseJob, handlerVars, CInv, Counted
<1>10. ASSUME NEW p \in Pollers, GetPolicyRunStatus(p) \/ AbandonPoll(p)
       PROVE  Counted'
  <2>1. UNCHANGED handlerVars
    BY <1>10 DEF GetPolicyRunStatus, GetPolicyRun, GetAuditRunsByIDs,
                 UpdatePolicyRunStatus, AbandonPoll
  <2>2. CASE UNCHANGED policy
    BY <2>1, <2>2 DEF CInv, Counted, handlerVars
  <2>3. CASE UpdatePolicyRunStatus(p)
    <3>1. policy.status # "absent"
      BY <2>3 DEF UpdatePolicyRunStatus, CInv, IInv, Polls
    <3>2. policy'.runs = policy.runs
      BY <2>3 DEF UpdatePolicyRunStatus, WithStatus, CInv, IInv, TypeOK
    <3> QED BY <2>1, <3>1, <3>2 DEF CInv, Counted, handlerVars
  <2> QED BY <1>10, <2>2, <2>3
          DEF GetPolicyRunStatus, GetPolicyRun, GetAuditRunsByIDs, AbandonPoll
<1> QED BY <1>1, <1>2, <1>3, <1>4, <1>5, <1>6, <1>7, <1>8, <1>9, <1>10
        DEF Next, RunPolicy

\* A policy run lists one child per audit, whatever becomes of the children and of
\* their dispatches, if the database and the client stay.
THEOREM OneChildEach == ASSUME EveryInsertHeard PROVE Spec => []OneChildPerAudit
<1>1. CInv => OneChildPerAudit
  BY DEF CInv, Counted, OneChildPerAudit
<1>2. CInv /\ [Next]_vars => CInv'
  BY NextCounted
<1> QED BY <1>1, <1>2, InitCounted, PTL DEF Spec

-----------------------------------------------------------------------------
(***************************************************************************)
(* The list, under every fault.                                            *)
(***************************************************************************)
\* Nobody has worked on the row, and nobody will.
Unworked(r) == owed[r] = {} /\ evidence[r] = {} /\ status[r] \in {"absent", "running"}

\* What is not among the children is left alone, and the row lists the children.
Listed ==
    /\ \A r \in RunIds \ children : Unworked(r)
    /\ pc \in {"dispatching", "blaming"} => current \in children
    /\ policy.status # "absent" => policy.runs = children

LInv == IInv /\ Listed

LEMMA InitListed == Init => LInv
<1> SUFFICES ASSUME Init PROVE Listed
  BY InitInv DEF LInv
<1> QED BY DEF Init, RecordInit, Listed, Unworked

\* A step that works on children only, and leaves the list.
LEMMA ListedStays ==
  ASSUME LInv, UNCHANGED <<children, policy>>,
         \A r \in RunIds \ children : Unworked(r)',
         pc' \in {"dispatching", "blaming"} => current' \in children
  PROVE  Listed'
  BY DEF LInv, Listed

LEMMA NextListed == LInv /\ [Next]_vars => LInv'
<1> SUFFICES ASSUME LInv, [Next]_vars PROVE Listed'
  BY NextInv DEF LInv
<1>t. RecordTypeOK /\ children \subseteq RunIds
  BY DEF LInv, IInv, TypeOK
<1>s. ASSUME UNCHANGED <<recordVars, children, policy>>,
             pc' \in {"dispatching", "blaming"} => current' \in children
      PROVE  Listed'
  BY <1>s DEF LInv, Listed, Unworked, recordVars
<1>1. CASE UNCHANGED vars
  BY <1>1, <1>s DEF vars, handlerVars, LInv, Listed
<1>2. CASE GetPolicy
  BY <1>2, <1>s DEF GetPolicy
<1>3. CASE CreateAuditRun
  <2>1. /\ pc = "creating" /\ policy.status = "absent" /\ policy' = policy
    BY <1>3 DEF CreateAuditRun, LInv, IInv, Loop, Handling
  <2>2. ASSUME NEW r \in RunIds, Create(r, Parties), current' = r, ListChild(r)
        PROVE  Listed'
    <3>1. children' = children \cup {r}
      BY <2>2 DEF ListChild
    <3>2. ASSUME NEW q \in RunIds \ children' PROVE Unworked(q)'
      <4>1. Unworked(q) /\ q # r
        BY <3>1 DEF LInv, Listed
      <4>2. owed'[q] = owed[q] /\ evidence'[q] = evidence[q] /\ status'[q] = status[q]
        BY <1>t, <2>2, <4>1 DEF Create, RecordTypeOK
      <4> QED BY <4>1, <4>2 DEF Unworked
    <3> QED BY <2>1, <2>2, <3>1, <3>2 DEF Listed
  <2>3. ASSUME NEW r \in RunIds, Create(r, {}), Onward, UNCHANGED <<current, children>>
        PROVE  Listed'
    <3>1. pc' \notin {"dispatching", "blaming"}
      BY <2>3 DEF Onward
    <3>2. ASSUME NEW q \in RunIds \ children PROVE Unworked(q)'
      <4>1. Unworked(q)
        BY DEF LInv, Listed
      <4> QED BY <1>t, <2>3, <4>1 DEF Create, RecordTypeOK, Unworked
    <3> QED BY <2>1, <2>3, <3>1, <3>2, ListedStays
  <2>4. ASSUME Onward, UNCHANGED <<recordVars, current, children>> PROVE Listed'
    BY <1>s, <2>1, <2>4 DEF Onward
  <2> QED BY <1>3, <2>2, <2>3, <2>4 DEF CreateAuditRun
<1>4. CASE ExecuteAudit
  <2>1. /\ current \in children /\ UNCHANGED <<status, evidence, current, children, policy>>
    BY <1>4 DEF ExecuteAudit, LInv, Listed
  <2>2. UNCHANGED owed \/ \E party : Forgo(current, party)
    BY <1>4 DEF ExecuteAudit
  <2>3. ASSUME NEW party, Forgo(current, party) PROVE Listed'
    <3>1. ASSUME NEW q \in RunIds \ children PROVE Unworked(q)'
      <4>1. Unworked(q) /\ q # current
        BY <2>1 DEF LInv, Listed
      <4> QED BY <1>t, <2>1, <2>3, <4>1 DEF Forgo, RecordTypeOK, Unworked
    <3> QED BY <2>1, <3>1, ListedStays
  <2> QED BY <1>s, <2>1, <2>2, <2>3 DEF recordVars
<1>5. CASE RecordDispatchError
  <2>1. current \in children /\ UNCHANGED <<current, children, policy>>
    BY <1>5 DEF RecordDispatchError, LInv, Listed
  <2>2. \/ Forgo(current, "dispatcher") /\ UNCHANGED <<status, evidence>>
        \/ Blame(current)
    BY <1>5 DEF RecordDispatchError
  <2>3. ASSUME NEW q \in RunIds \ children PROVE Unworked(q)'
    <3>1. Unworked(q) /\ q # current
      BY <2>1 DEF LInv, Listed
    <3> QED BY <1>t, <2>2, <3>1 DEF Forgo, Blame, RecordTypeOK, Unworked
  <2> QED BY <2>1, <2>3, ListedStays
<1>6. CASE CreatePolicyRun
  <2>1. /\ UNCHANGED <<recordVars, children>> /\ pc' \in {"accepted", "errored"}
        /\ policy.status = "absent"
        /\ policy' = policy \/ policy' = NewPolicyRun(children)
    BY <1>6 DEF CreatePolicyRun, LInv, IInv, Loop, Handling
  <2> QED BY <2>1 DEF LInv, Listed, Unworked, recordVars, NewPolicyRun
<1>7. CASE Cancel
  BY <1>7, <1>s DEF Cancel, LInv, Listed
<1>8. CASE Crash
  <2>1. /\ pc' = "crashed" /\ UNCHANGED <<status, evidence, children, policy>>
        /\ owed' = [r \in RunIds |-> owed[r] \ {"dispatcher"}]
    BY <1>8 DEF Crash
  <2>2. ASSUME NEW q \in RunIds \ children PROVE Unworked(q)'
    <3>1. Unworked(q)
      BY DEF LInv, Listed
    <3> QED BY <2>1, <3>1 DEF Unworked
  <2> QED BY <2>1, <2>2, ListedStays
<1>9. ASSUME NEW r \in RunIds, Execute(r) \/ LoseJob(r) PROVE Listed'
  <2>1. "executor" \in owed[r] /\ UNCHANGED <<handlerVars, policy>>
    BY <1>9 DEF Execute, LoseJob, AddEvidence, Report
  <2>2. r \in children
    BY <2>1 DEF LInv, Listed, Unworked
  <2>3. ASSUME NEW q \in RunIds, q # r
        PROVE  owed'[q] = owed[q] /\ evidence'[q] = evidence[q] /\ status'[q] = status[q]
    BY <1>t, <1>9, <2>3 DEF Execute, LoseJob, AddEvidence, Report, Forgo, RecordTypeOK
  <2>4. ASSUME NEW q \in RunIds \ children PROVE Unworked(q)'
    BY <2>2, <2>3 DEF LInv, Listed, Unworked
  <2>5. pc' \in {"dispatching", "blaming"} => current' \in children
    BY <2>1 DEF LInv, Listed, handlerVars
  <2> QED BY <2>1, <2>4, <2>5, ListedStays DEF handlerVars
<1>10. ASSUME NEW p \in Pollers, GetPolicyRunStatus(p) \/ AbandonPoll(p)
       PROVE  Listed'
  <2>1. UNCHANGED <<recordVars, handlerVars>>
    BY <1>10 DEF GetPolicyRunStatus, GetPolicyRun, GetAuditRunsByIDs,
                 UpdatePolicyRunStatus, AbandonPoll
  <2>2. CASE UNCHANGED policy
    BY <1>s, <2>1, <2>2 DEF LInv, Listed, handlerVars
  <2>3. CASE UpdatePolicyRunStatus(p)
    <3>1. policy.status # "absent"
      BY <2>3 DEF UpdatePolicyRunStatus, LInv, IInv, Polls
    <3>2. policy'.runs = policy.runs
      BY <2>3 DEF UpdatePolicyRunStatus, WithStatus, LInv, IInv, TypeOK
    <3> QED BY <2>1, <3>1, <3>2 DEF LInv, Listed, Unworked, recordVars, handlerVars
  <2> QED BY <1>10, <2>2, <2>3
          DEF GetPolicyRunStatus, GetPolicyRun, GetAuditRunsByIDs, AbandonPoll
<1> QED BY <1>1, <1>2, <1>3, <1>4, <1>5, <1>6, <1>7, <1>8, <1>9, <1>10
        DEF Next, RunPolicy

\* ChildrenAreListed, for every number of audits and pollers and every set of faults:
\* whoever works on a row of audit_runs was named it after the row was listed.
THEOREM NothingUnlisted == Spec => []ChildrenAreListed
<1>1. LInv => ChildrenAreListed
  BY DEF LInv, Listed, Unworked, ChildrenAreListed
<1> QED BY <1>1, InitListed, NextListed, PTL DEF Spec
=============================================================================
