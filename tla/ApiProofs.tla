------------------------------ MODULE ApiProofs ------------------------------
(***************************************************************************)
(* The start and the HTTP interface over any number of processes, whatever *)
(* fails.  Of the start: a user has one row at most, and a process that    *)
(* serves finds the tables, and every default user, or Postgres failed its *)
(* insert.  Of the interface: a policy lists audits that exist, only an    *)
(* admin changes a table, a token is good everywhere, and a default user   *)
(* can log in.                                                             *)
(*                                                                         *)
(* The induction for the start: what exists remains, no process is past    *)
(* the tables before they exist, and none is past a user that has not been *)
(* seen to (Progress).  What the interface adds: an admitted POST is an    *)
(* admin's whenever it gets to its insert (the token only grows old        *)
(* meanwhile), the audits found so far are there, and an unanswered        *)
(* request has no answer.                                                  *)
(***************************************************************************)
EXTENDS Api, TLAPS

\* The user n has been seen to.
Settled(n) == Found(n) \/ n \in refused

\* A process that seeds or serves is past the tables, and has seen to every user
\* before its place in Seeds; while it seeds there is a user left, and when an
\* API replica serves there is none.
Progress ==
    \A p \in Processes :
       /\ stage[p] \in {"asking", "missing", "serving"} => tables
       /\ stage[p] \in {"asking", "missing"} => p \notin Workers
       /\ \A k \in 1 .. Len(Seeds) : k < at[p] => Settled(Seeds[k])
       /\ stage[p] # "serving" => at[p] \in 1 .. Len(Seeds)
       /\ stage[p] = "serving" /\ p \notin Workers => at[p] = Len(Seeds) + 1

IInv == TypeOK /\ Progress

USE ProcessesAssumption, FailuresAssumption

\* What the two places of Seeds hold.
LEMMA SeedsAre == /\ Len(Seeds) = 2
                  /\ Seeds[1] = "admin" /\ Seeds[2] = "viewer"
                  /\ \A k \in 1 .. 2 : Seeds[k] \in Names
  BY DEF Seeds, Names

\* ent accepts the default users.
LEMMA UsersPass == ASSUME NEW n \in Names PROVE Passes(User, UserRow(n, Password(n), n))
<1> DEFINE row == UserRow(n, Password(n), n)
<1>1. /\ DOMAIN row = {"username", "password", "role"}
      /\ row["username"] = n /\ row["password"] = Password(n)
  BY DEF UserRow
<1>2. n # "" /\ Password(n) # ""
  BY DEF Names, Password
<1>3. /\ User.required = {"username", "password", "role"} /\ User.defaults = {"role"}
      /\ User.notEmpty = {"username", "password"}
  BY DEF User
<1> HIDE DEF row
<1>4. User.required \subseteq DOMAIN row \cup User.defaults
  BY <1>1, <1>3
<1>5. \A f \in User.notEmpty : row[f] # ""
  BY <1>1, <1>2, <1>3
<1> QED BY <1>4, <1>5 DEF Passes, row

LEMMA InitInv == Init => IInv
<1> SUFFICES ASSUME Init PROVE TypeOK /\ Progress
  BY DEF IInv
<1>1. TypeOK
  <2>1. tables \in BOOLEAN
    BY DEF Init
  <2>2. users \in [Names -> 0 .. 1] /\ refused \subseteq Names
    BY DEF Init
  <2>3. failures \in 0 .. MaxFailures /\ at \in [Processes -> 1 .. 3]
    BY DEF Init
  <2> QED BY <2>1, <2>2, <2>3, SeedsAre DEF Init, TypeOK
<1>2. Progress
  BY SeedsAre DEF Init, Progress
<1> QED BY <1>1, <1>2

\* Counting failures keeps within the bound.
LEMMA FailsType == ASSUME NEW w, Fails(w), failures \in 0 .. MaxFailures
                   PROVE  failures' \in 0 .. MaxFailures
  BY DEF Fails

\* Tables stay, and so does a user that has been seen to.
LEMMA NothingIsLost ==
  ASSUME IInv, Next
  PROVE  /\ tables => tables'
         /\ \A n \in Names : Settled(n) => Settled(n)'
<1>1. PICK p \in Processes : Run(p) \/ Crash(p)
  BY DEF Next
<1>2. CASE Start(p) \/ InspectTables(p) \/ GetUserByUsername(p) \/ Crash(p)
  BY <1>2 DEF Start, InspectTables, GetUserByUsername, Crash, Settled, Found
<1>3. CASE CreateTables(p)
  BY <1>3 DEF CreateTables, Settled, Found
<1>4. CASE CreateUser(p)
  <2>1. \A n \in Names : users[n] = 1 => users'[n] = 1
    BY <1>4 DEF CreateUser, Storable, Taken, IInv, TypeOK
  <2>2. refused \subseteq refused' /\ tables' = tables
    BY <1>4 DEF CreateUser
  <2> QED BY <2>1, <2>2 DEF Settled, Found
<1> QED BY <1>1, <1>2, <1>3, <1>4 DEF Run

LEMMA StartInv == ASSUME IInv, NEW p \in Processes, Start(p) PROVE IInv'
  BY SeedsAre DEF IInv, Start, TypeOK, Progress, Settled, Found

LEMMA InspectTablesInv == ASSUME IInv, NEW p \in Processes, InspectTables(p) PROVE IInv'
<1> USE DEF IInv, InspectTables
<1>1. TypeOK'
  BY FailsType DEF TypeOK, Migrated
<1>2. Progress'
  BY SeedsAre DEF TypeOK, Progress, Migrated, Settled, Found
<1> QED BY <1>1, <1>2

LEMMA CreateTablesInv == ASSUME IInv, NEW p \in Processes, CreateTables(p) PROVE IInv'
<1> USE DEF IInv, CreateTables
<1>1. TypeOK'
  BY FailsType DEF TypeOK, Migrated, AfterCollision
<1>2. Progress'
  BY SeedsAre DEF TypeOK, Progress, Migrated, AfterCollision, Settled, Found
<1> QED BY <1>1, <1>2

\* A step of p past a user that has been seen to.
LEMMA OnwardInv ==
  ASSUME IInv, Next, NEW p \in Processes, stage[p] \in {"asking", "missing"},
         Onward(p), NEW n \in Names, n = Seeds[at[p]], Settled(n)'
  PROVE  /\ stage' \in [Processes -> {"down", "inspecting", "creating", "asking",
                                      "missing", "serving"}]
         /\ at' \in [Processes -> 1 .. 3]
         /\ Progress'
<1>1. at[p] \in 1 .. 2
  BY SeedsAre DEF IInv, Progress
<1>2. /\ stage' = [stage EXCEPT ![p] = IF at[p] < 2 THEN "asking" ELSE "serving"]
      /\ at' = [at EXCEPT ![p] = @ + 1]
  BY SeedsAre DEF Onward
<1>3. /\ stage' \in [Processes -> {"down", "inspecting", "creating", "asking",
                                   "missing", "serving"}]
      /\ at' \in [Processes -> 1 .. 3]
  BY <1>1, <1>2, SeedsAre DEF IInv, TypeOK
<1>4. tables => tables'
  BY NothingIsLost
<1>5. ASSUME NEW q \in Processes, NEW k \in 1 .. 2, k < at'[q]
      PROVE  Settled(Seeds[k])'
  <2>1. CASE k < at[q]
    BY <2>1, NothingIsLost, SeedsAre DEF IInv, Progress
  <2>2. CASE ~(k < at[q])
    <3>1. q = p /\ k = at[p]
      BY <1>1, <1>2, <1>5, <2>2 DEF IInv, TypeOK
    <3> QED BY <3>1
  <2> QED BY <2>1, <2>2
<1>6. ASSUME NEW q \in Processes
      PROVE  /\ stage'[q] \in {"asking", "missing", "serving"} => tables'
             /\ stage'[q] \in {"asking", "missing"} => q \notin Workers
             /\ stage'[q] # "serving" => at'[q] \in 1 .. 2
             /\ stage'[q] = "serving" /\ q \notin Workers => at'[q] = 3
  BY <1>1, <1>2, <1>4, SeedsAre DEF IInv, TypeOK, Progress
<1> QED BY <1>3, <1>5, <1>6, SeedsAre DEF Progress

LEMMA GetUserInv ==
  ASSUME IInv, NEW p \in Processes, GetUserByUsername(p) PROVE IInv'
<1> USE DEF IInv, GetUserByUsername
<1>1. failures' \in 0 .. MaxFailures
  BY FailsType DEF TypeOK
<1>2. CASE Found(Seeds[at[p]]) /\ Onward(p)
  <2>1. Next
    BY DEF Next, Run
  <2>2. PICK n \in Names : n = Seeds[at[p]]
    BY SeedsAre DEF Progress
  <2>3. Settled(n)'
    BY <1>2, <2>2 DEF Settled, Found
  <2> QED BY <1>1, <1>2, <2>1, <2>2, <2>3, OnwardInv, SeedsAre DEF TypeOK
<1>3. CASE stage' = [stage EXCEPT ![p] = "missing"] /\ UNCHANGED at
  <2>1. TypeOK'
    BY <1>1, <1>3 DEF TypeOK
  <2>2. Progress'
    BY <1>3 DEF TypeOK, Progress, Settled, Found
  <2> QED BY <2>1, <2>2
<1> QED BY <1>2, <1>3

LEMMA CreateUserInv == ASSUME IInv, NEW p \in Processes, CreateUser(p) PROVE IInv'
<1> USE DEF IInv, CreateUser
<1>1. PICK n \in Names : n = Seeds[at[p]]
  BY SeedsAre DEF Progress
<1>2. Storable(n) <=> users[n] = 0
  BY <1>1, UsersPass DEF Storable, Taken, TypeOK
<1>3. /\ failures' \in 0 .. MaxFailures
      /\ users' \in [Names -> 0 .. 1] /\ refused' \subseteq Names
  BY <1>1, <1>2, FailsType DEF TypeOK
<1>4. Onward(p)
  BY DEF AfterError
<1>5. Settled(n)'
  BY <1>1, <1>2 DEF Settled, Found, TypeOK
<1>6. Next
  BY DEF Next, Run
<1>7. Progress' /\ TypeOK'
  <2>1. /\ stage' \in [Processes -> {"down", "inspecting", "creating", "asking",
                                      "missing", "serving"}]
        /\ at' \in [Processes -> 1 .. 3] /\ Progress'
    BY <1>1, <1>4, <1>5, <1>6, OnwardInv
  <2>2. tables' = tables /\ tables \in BOOLEAN
    BY DEF TypeOK
  <2> QED BY <1>3, <2>1, <2>2, SeedsAre DEF TypeOK
<1> QED BY <1>7

LEMMA CrashInv == ASSUME IInv, NEW p \in Processes, Crash(p) PROVE IInv'
<1> USE DEF IInv, Crash
<1>1. TypeOK'
  BY FailsType, SeedsAre DEF TypeOK
<1>2. Progress'
  BY SeedsAre DEF TypeOK, Progress, Settled, Found
<1> QED BY <1>1, <1>2

LEMMA NextInv == IInv /\ [Next]_vars => IInv'
<1> SUFFICES ASSUME IInv, [Next]_vars PROVE IInv'
  OBVIOUS
<1>1. CASE UNCHANGED vars
  BY <1>1 DEF vars, IInv, TypeOK, Progress, Settled, Found
<1>2. CASE Next
  BY <1>2, StartInv, InspectTablesInv, CreateTablesInv, GetUserInv, CreateUserInv,
     CrashInv DEF Next, Run
<1> QED BY <1>1, <1>2

LEMMA InvImplies == IInv => TypeOK /\ ServingMeansSeeded
<1> SUFFICES ASSUME IInv, NEW p \in Processes, stage[p] = "serving"
             PROVE  tables /\ (p \in Apis => \A n \in Names : Settled(n))
  BY DEF IInv, ServingMeansSeeded, Settled
<1>1. tables
  BY DEF IInv, Progress
<1>2. ASSUME p \in Apis, NEW n \in Names PROVE Settled(n)
  <2>1. at[p] = 3
    BY <1>2, SeedsAre DEF IInv, Progress
  <2>2. n = Seeds[1] \/ n = Seeds[2]
    BY SeedsAre DEF Names
  <2> QED BY <2>1, <2>2, SeedsAre DEF IInv, Progress
<1> QED BY <1>1, <1>2

\* No user ever has two rows, however many replicas check and then insert.
THEOREM OneRowPerUser == Spec => []TypeOK
  BY InvImplies, InitInv, NextInv, PTL DEF Spec

\* A process that serves has its tables, and an API replica its users.
THEOREM ServersAreSeeded == Spec => []ServingMeansSeeded
  BY InvImplies, InitInv, NextInv, PTL DEF Spec

-----------------------------------------------------------------------------
(***************************************************************************)
(* The HTTP interface.                                                     *)
(***************************************************************************)
\* What holds of the request under way.
Underway ==
    /\ phase # "none" => request \in Requests /\ answer = "none" /\ Bounded(request)
    /\ phase = "none" => checked = 0
    /\ phase = "sent" => checked = 0
    /\ phase = "admitted" /\ Posts(request) => token.role = "admin"
    /\ phase = "admitted" /\ request.route = "createPolicy" =>
          /\ checked <= Len(request.list)
          /\ \A k \in 1 .. checked : request.list[k] <= audits
    /\ phase = "admitted" /\ request.route # "createPolicy" => checked = 0
    /\ phase = "none" => to = "none"

ApiInv == IInv /\ ApiTypeOK /\ Underway /\ PoliciesListAudits

USE ProcessesAssumption, FailuresAssumption, RowsAssumption

\* The lists that are sent.
LEMMA ListsAre ==
  ASSUME NEW l \in Lists
  PROVE  l \in Seq(1 .. MaxAudits) /\ Len(l) \in 0 .. 2
<1>1. PICK n \in 0 .. 2 : l \in [1 .. n -> 1 .. MaxAudits]
  BY DEF Lists
<1> QED BY <1>1

\* What a request of a route carries.
LEMMA RequestsAre ==
  ASSUME NEW q \in Requests
  PROVE  /\ q.route = "createPolicy" => q.list \in Lists
         /\ Posts(q) => q.route # "login"
  BY DEF Requests, Posts

\* A call of the database that an endpoint makes leaves the start alone.
LEMMA StartStays ==
  ASSUME IInv, UNCHANGED startVars, failures' \in 0 .. MaxFailures
  PROVE  IInv'
<1>1. TypeOK'
  BY DEF IInv, TypeOK, startVars
<1>2. Progress'
  BY DEF IInv, Progress, startVars, Settled, Found
<1> QED BY <1>1, <1>2 DEF IInv

LEMMA ApiInitInv == ApiInit => ApiInv
<1> SUFFICES ASSUME ApiInit PROVE ApiInv
  OBVIOUS
<1>1. IInv
  BY InitInv DEF ApiInit
<1>2. ApiTypeOK
  BY DEF ApiInit, ApiTypeOK
<1>3. Underway /\ PoliciesListAudits
  BY DEF ApiInit, Underway, PoliciesListAudits
<1> QED BY <1>1, <1>2, <1>3 DEF ApiInv

LEMMA SendInv ==
  ASSUME ApiInv, NEW q \in Requests, NEW p \in Apis, Send(q, p)
  PROVE  ApiInv'
<1> USE DEF ApiInv, Send, vars, tableVars
<1>1. IInv'
  BY StartStays DEF IInv, TypeOK, startVars
<1>2. ApiTypeOK'
  BY DEF ApiTypeOK
<1>3. Underway' /\ PoliciesListAudits'
  BY DEF Underway, PoliciesListAudits, Bounded
<1> QED BY <1>1, <1>2, <1>3

LEMMA ExpireInv == ASSUME ApiInv, Expire PROVE ApiInv'
<1> USE DEF ApiInv, Expire, vars, tableVars, requestVars
<1>1. IInv'
  BY StartStays DEF IInv, TypeOK, startVars
<1>2. token' = [token EXCEPT !.fresh = FALSE] /\ token # NoToken
  BY DEF NoToken
<1>3. token' \in Tokens /\ token'.role = token.role
  BY <1>2 DEF ApiTypeOK, Tokens
<1>4. ApiTypeOK'
  BY <1>3 DEF ApiTypeOK
<1>5. Underway' /\ PoliciesListAudits'
  BY <1>3 DEF Underway, PoliciesListAudits, Posts, Bounded
<1> QED BY <1>1, <1>4, <1>5

\* A request that is answered, whatever the tables became.
LEMMA ReturnInv ==
  ASSUME NEW said \in {"200", "400", "401", "403", "denied", "lost"},
         Return(said), IInv', token' \in {NoToken} \cup Tokens,
         audits' \in 0 .. MaxAudits, policies' \in Seq(Lists),
         schedules' \in 0 .. MaxOthers, PoliciesListAudits'
  PROVE  ApiInv'
<1>1. /\ request' = NoRequest /\ to' = "none" /\ phase' = "none" /\ checked' = 0
      /\ answer' = said
  BY DEF Return
<1>2. Underway'
  BY <1>1 DEF Underway
<1>3. ApiTypeOK'
  <2>1. /\ request' \in Requests \cup {NoRequest} /\ to' \in Apis \cup {"none"}
        /\ phase' \in {"none", "sent", "admitted"} /\ checked' \in 0 .. 2
        /\ phase' = "none"
    BY <1>1
  <2>2. answer' \in {"none", "200", "400", "401", "403", "denied", "lost"}
    BY <1>1
  <2> QED BY <2>1, <2>2 DEF ApiTypeOK
<1> QED BY <1>2, <1>3 DEF ApiInv

\* The tables as they were.
LEMMA TablesStay ==
  ASSUME ApiInv, UNCHANGED tableVars
  PROVE  /\ audits' \in 0 .. MaxAudits /\ policies' \in Seq(Lists)
         /\ schedules' \in 0 .. MaxOthers /\ PoliciesListAudits'
  BY DEF ApiInv, ApiTypeOK, PoliciesListAudits, tableVars

LEMMA AdmitInv == ASSUME ApiInv, Admit PROVE ApiInv'
<1> USE DEF Admit
<1>1. IInv'
  BY StartStays DEF ApiInv, IInv, TypeOK, startVars, vars
<1>2. UNCHANGED tableVars /\ token' = token
  OBVIOUS
<1>3. CASE Return("401") \/ Return("403") \/ Return("400")
  BY <1>1, <1>2, <1>3, ReturnInv, TablesStay DEF ApiInv, ApiTypeOK
<1>4. CASE /\ ~Public(request) => ~Unauthorized(request) /\ ~Forbidden(request)
           /\ phase' = "admitted" /\ UNCHANGED <<request, to, checked, answer>>
  <2>1. request \in Requests /\ phase = "sent"
    BY DEF ApiInv, Underway
  <2>2. Posts(request) => token.role = "admin"
    BY <1>4, <2>1, RequestsAre DEF Public, Forbidden
  <2>3. ApiTypeOK'
    BY <1>2, <1>4 DEF ApiInv, ApiTypeOK, tableVars, vars
  <2>4. PoliciesListAudits'
    BY <1>2 DEF ApiInv, PoliciesListAudits, tableVars
  <2>5. Underway'
    <3>1. request.route = "createPolicy" => Len(request.list) \in 0 .. 2
      BY <2>1, RequestsAre, ListsAre
    <3> QED BY <1>2, <1>4, <2>1, <2>2, <3>1 DEF ApiInv, Underway, Posts, tableVars, Bounded
  <2> QED BY <1>1, <2>3, <2>4, <2>5 DEF ApiInv
<1> QED BY <1>3, <1>4

\* What an endpoint that inserts nothing leaves alone.
LEMMA StartAfterCall ==
  ASSUME ApiInv, NEW w, Fails(w), UNCHANGED startVars
  PROVE  IInv'
  BY StartStays, FailsType DEF ApiInv, IInv, TypeOK

\* What a replica issues is a token.
LEMMA TokensAre ==
  ASSUME NEW n \in Names
  PROVE  [role |-> n, secret |-> "built in", fresh |-> TRUE] \in Tokens
  BY DEF Tokens

LEMMA LoginInv == ASSUME ApiInv, Login PROVE ApiInv'
<1>1. PICK w \in {"ok", "failed"} :
         /\ Fails(w)
         /\ \/ /\ request.user \in Names
               /\ token' = [role |-> request.user, secret |-> JWTSecret(to), fresh |-> TRUE]
               /\ Return("200")
            \/ UNCHANGED token /\ Return("denied")
  BY DEF Login
<1>2. IInv' /\ UNCHANGED tableVars
  BY <1>1, StartAfterCall DEF Login
<1>3. token' \in {NoToken} \cup Tokens
  <2>1. CASE UNCHANGED token
    BY <2>1 DEF ApiInv, ApiTypeOK
  <2>2. CASE /\ request.user \in Names
             /\ token' = [role |-> request.user, secret |-> JWTSecret(to), fresh |-> TRUE]
    <3>1. token' = [role |-> request.user, secret |-> "built in", fresh |-> TRUE]
      BY <2>2 DEF JWTSecret
    <3>2. PICK n \in Names : n = request.user
      BY <2>2
    <3> QED BY <3>1, <3>2, TokensAre
  <2> QED BY <1>1, <2>1, <2>2
<1> QED BY <1>1, <1>2, <1>3, ReturnInv, TablesStay

LEMMA GetInv == ASSUME ApiInv, Get PROVE ApiInv'
<1>1. PICK w \in {"ok", "failed"} : Fails(w) /\ (Return("200") \/ Return("400"))
  BY DEF Get
<1>2. IInv' /\ UNCHANGED tableVars /\ UNCHANGED token
  BY <1>1, StartAfterCall DEF Get
<1> QED BY <1>1, <1>2, ReturnInv, TablesStay DEF ApiInv, ApiTypeOK

\* An answer of a creation: whatever ent and Postgres make of it.
LEMMA InsertsReturn ==
  ASSUME NEW passes \in BOOLEAN, NEW w, Inserts(passes, w)
  PROVE  Fails(w) /\ (Return("200") \/ Return("400"))
  BY DEF Inserts

LEMMA CreateAuditInv == ASSUME ApiInv, CreateAudit PROVE ApiInv'
<1>1. /\ audits < MaxAudits
      /\ UNCHANGED startVars /\ UNCHANGED token
      /\ policies' = policies /\ schedules' = schedules
  BY DEF ApiInv, Underway, Bounded, CreateAudit, Serving
<1>2. IInv' /\ (Return("200") \/ Return("400")) /\ audits' \in {audits, audits + 1}
  <2>1. CASE Return("400") /\ UNCHANGED <<failures, audits>>
    BY <1>1, <2>1, StartStays DEF ApiInv, IInv, TypeOK
  <2>2. CASE \E w \in {"ok", "failed", "unacked"} :
               LET passes == Passes(Audit, AuditRow(request.name, request.queries)) IN
                  /\ Inserts(passes, w)
                  /\ audits' = IF passes /\ w # "failed" THEN audits + 1 ELSE audits
    BY <1>1, <2>2, InsertsReturn, StartAfterCall DEF Inserts
  <2> QED BY <2>1, <2>2 DEF CreateAudit
<1>3. audits' \in 0 .. MaxAudits /\ audits <= audits'
  BY <1>1, <1>2, RowsAssumption DEF ApiInv, ApiTypeOK
<1>4. PoliciesListAudits'
  <2> SUFFICES ASSUME NEW id \in 1 .. Len(policies)
               PROVE  /\ policies[id] # <<>>
                      /\ \A k \in 1 .. Len(policies[id]) : policies[id][k] <= audits'
    BY <1>1 DEF PoliciesListAudits
  <2>1. policies[id] \in Lists
    BY DEF ApiInv, ApiTypeOK
  <2>2. \A k \in 1 .. Len(policies[id]) : policies[id][k] \in Nat /\ policies[id][k] <= audits
    BY <2>1, ListsAre DEF ApiInv, PoliciesListAudits
  <2> QED BY <1>3, <2>2 DEF ApiInv, PoliciesListAudits, ApiTypeOK
<1> QED BY <1>1, <1>2, <1>3, <1>4, ReturnInv DEF ApiInv, ApiTypeOK

LEMMA CreateScheduleInv == ASSUME ApiInv, CreateSchedule PROVE ApiInv'
<1>1. /\ schedules < MaxOthers
      /\ UNCHANGED startVars /\ UNCHANGED token
      /\ policies' = policies /\ audits' = audits
  BY DEF ApiInv, Underway, Bounded, CreateSchedule, Serving
<1>2. IInv' /\ (Return("200") \/ Return("400")) /\ schedules' \in {schedules, schedules + 1}
  <2>1. CASE Return("400") /\ UNCHANGED <<failures, schedules>>
    BY <1>1, <2>1, StartStays DEF ApiInv, IInv, TypeOK
  <2>2. CASE \E w \in {"ok", "failed", "unacked"} :
               LET passes == Passes(Schedule, ScheduleRow(request.type, request.id, 60, 0)) IN
                  /\ Inserts(passes, w)
                  /\ schedules' = IF passes /\ w # "failed" THEN schedules + 1 ELSE schedules
    BY <1>1, <2>2, StartAfterCall DEF Inserts
  <2> QED BY <2>1, <2>2 DEF CreateSchedule
<1>3. schedules' \in 0 .. MaxOthers
  BY <1>1, <1>2, RowsAssumption DEF ApiInv, ApiTypeOK
<1>4. PoliciesListAudits'
  BY <1>1 DEF ApiInv, PoliciesListAudits
<1> QED BY <1>1, <1>2, <1>3, <1>4, ReturnInv DEF ApiInv, ApiTypeOK

LEMMA CheckPolicyAuditInv == ASSUME ApiInv, CheckPolicyAudit PROVE ApiInv'
<1>1. PICK w \in {"ok", "failed"} :
         /\ Fails(w)
         /\ \/ /\ request.list[checked + 1] <= audits
               /\ checked' = checked + 1 /\ UNCHANGED <<request, to, phase, answer>>
            \/ Return("400")
  BY DEF CheckPolicyAudit
<1>2. /\ IInv' /\ UNCHANGED tableVars /\ UNCHANGED token /\ UNCHANGED startVars
      /\ phase = "admitted" /\ request.route = "createPolicy"
      /\ checked # Len(request.list)
  BY <1>1, StartAfterCall DEF CheckPolicyAudit, Serving, AllChecked
<1>3. CASE Return("400")
  BY <1>2, <1>3, ReturnInv, TablesStay DEF ApiInv, ApiTypeOK
<1>4. CASE /\ request.list[checked + 1] <= audits
           /\ checked' = checked + 1 /\ UNCHANGED <<request, to, phase, answer>>
  <2>1. /\ Len(request.list) \in 0 .. 2 /\ checked \in 0 .. 2
        /\ checked <= Len(request.list)
    BY <1>2, RequestsAre, ListsAre DEF ApiInv, ApiTypeOK, Underway
  <2>2. checked' \in 0 .. 2 /\ checked' <= Len(request.list)
    BY <1>2, <1>4, <2>1
  <2>3. \A k \in 1 .. checked' : request.list[k] <= audits
    BY <1>2, <1>4, <2>1 DEF ApiInv, Underway
  <2>4. ApiTypeOK'
    BY <1>2, <1>4, <2>2 DEF ApiInv, ApiTypeOK, tableVars, startVars
  <2>5. Underway'
    BY <1>2, <1>4, <2>2, <2>3 DEF ApiInv, Underway, Posts, Bounded, tableVars
  <2> QED BY <1>2, <2>4, <2>5, TablesStay DEF ApiInv
<1> QED BY <1>1, <1>3, <1>4

LEMMA CreatePolicyInv == ASSUME ApiInv, CreatePolicy PROVE ApiInv'
<1>1. /\ request \in Requests /\ request.route = "createPolicy" /\ phase = "admitted"
      /\ UNCHANGED startVars /\ UNCHANGED token
      /\ schedules' = schedules /\ audits' = audits
  BY DEF ApiInv, Underway, CreatePolicy, Serving
<1>2. CASE Return("400") /\ UNCHANGED <<failures, policies>>
  <2>1. IInv' /\ UNCHANGED tableVars
    BY <1>1, <1>2, StartStays DEF ApiInv, IInv, TypeOK, tableVars
  <2> QED BY <1>1, <1>2, <2>1, ReturnInv, TablesStay DEF ApiInv, ApiTypeOK
<1>3. CASE /\ ValidPolicy(request)
           /\ AllChecked(request)
           /\ \E w \in {"ok", "failed", "unacked"} :
                 LET passes == Passes(PolicyAudit, PolicyRow(request.name, request.list)) IN
                    /\ Inserts(passes, w)
                    /\ policies' = IF passes /\ w # "failed"
                                   THEN Append(policies, request.list) ELSE policies
  <2> DEFINE list == request.list
  <2>1. list \in Lists /\ list # <<>>
    BY <1>1, <1>3, RequestsAre DEF ValidPolicy
  <2>2. \A k \in 1 .. Len(list) : list[k] <= audits
    BY <1>1, <1>3 DEF ApiInv, Underway, AllChecked
  <2>3. IInv' /\ (Return("200") \/ Return("400"))
    BY <1>1, <1>3, StartAfterCall DEF Inserts
  <2>4. policies' = policies \/ policies' = Append(policies, list)
    BY <1>3
  <2> HIDE DEF list
  <2>5. policies \in Seq(Lists)
    BY DEF ApiInv, ApiTypeOK
  <2>6. policies' \in Seq(Lists)
    BY <2>1, <2>4, <2>5
  <2>7. PoliciesListAudits'
    <3>1. CASE policies' = policies
      BY <1>1, <3>1 DEF ApiInv, PoliciesListAudits
    <3>2. CASE policies' = Append(policies, list)
      <4> SUFFICES ASSUME NEW id \in 1 .. Len(policies')
                   PROVE  /\ policies'[id] # <<>>
                          /\ \A k \in 1 .. Len(policies'[id]) : policies'[id][k] <= audits
        BY <1>1 DEF PoliciesListAudits
      <4>1. CASE id = Len(policies) + 1
        BY <2>1, <2>2, <2>5, <3>2, <4>1
      <4>2. CASE id \in 1 .. Len(policies)
        BY <2>5, <3>2, <4>2 DEF ApiInv, PoliciesListAudits
      <4> QED BY <2>5, <3>2, <4>1, <4>2
    <3> QED BY <2>4, <3>1, <3>2
  <2> QED BY <1>1, <2>3, <2>6, <2>7, ReturnInv DEF ApiInv, ApiTypeOK
<1> QED BY <1>2, <1>3 DEF CreatePolicy

\* A process that serves can only crash, and no other notices.
LEMMA ProcessesApart ==
  ASSUME IInv, NEW p \in Processes, Run(p) \/ Crash(p),
         NEW q \in Processes, stage[q] = "serving"
  PROVE  stage'[q] = "serving" \/ (p = q /\ stage'[q] = "down")
<1>1. stage \in [Processes -> {"down", "inspecting", "creating", "asking", "missing",
                               "serving"}]
  BY DEF IInv, TypeOK
<1>2. CASE Crash(p)
  BY <1>1, <1>2 DEF Crash
<1>3. CASE Run(p)
  <2>1. p # q
    BY <1>3 DEF Run, Start, InspectTables, CreateTables, GetUserByUsername, CreateUser
  <2>2. stage'[q] = stage[q]
    BY <1>1, <1>3, <2>1 DEF Run, Start, InspectTables, CreateTables, GetUserByUsername,
                            CreateUser, Onward, AfterError
  <2> QED BY <2>2
<1> QED BY <1>2, <1>3

LEMMA ProcessInv == ASSUME ApiInv, NEW p \in Processes, Process(p) PROVE ApiInv'
<1>1. IInv' /\ UNCHANGED tableVars /\ UNCHANGED token
  BY NextInv DEF Process, Next, ApiInv
<1>2. CASE Return("lost")
  BY <1>1, <1>2, ReturnInv, TablesStay DEF ApiInv, ApiTypeOK
<1>3. CASE ~Interrupts(p) /\ UNCHANGED <<requestVars, answer>>
  <2>1. phase # "none" => to \in Apis /\ stage'[to] = "serving"
    BY <1>3, ProcessesApart DEF ApiInv, ApiTypeOK, Interrupts, Process, Processes
  <2>2. ApiTypeOK'
    BY <1>1, <1>3, <2>1 DEF ApiInv, ApiTypeOK, requestVars, tableVars
  <2>3. Underway'
    BY <1>1, <1>3 DEF ApiInv, Underway, Posts, Bounded, requestVars, tableVars
  <2> QED BY <1>1, <2>2, <2>3, TablesStay DEF ApiInv
<1> QED BY <1>2, <1>3 DEF Process

LEMMA ApiNextInv == ApiInv /\ [ApiNext]_allVars => ApiInv'
<1> SUFFICES ASSUME ApiInv, [ApiNext]_allVars PROVE ApiInv'
  OBVIOUS
<1>1. CASE UNCHANGED allVars
  <2>1. UNCHANGED vars /\ UNCHANGED <<tableVars, token, requestVars, answer>>
    BY <1>1 DEF allVars, apiVars, tableVars, requestVars
  <2>2. IInv'
    BY <2>1, NextInv DEF ApiInv
  <2>3. ApiTypeOK'
    BY <2>1 DEF ApiInv, ApiTypeOK, tableVars, requestVars, vars
  <2>4. Underway'
    BY <2>1 DEF ApiInv, Underway, Posts, Bounded, tableVars, requestVars
  <2> QED BY <2>1, <2>2, <2>3, <2>4, TablesStay DEF ApiInv
<1>2. CASE ApiNext
  BY <1>2, SendInv, ExpireInv, AdmitInv, LoginInv, CreateAuditInv, CheckPolicyAuditInv,
     CreatePolicyInv, CreateScheduleInv, GetInv, ProcessInv DEF ApiNext, Serve
<1> QED BY <1>1, <1>2

\* Every variable keeps its type, and a request has a replica that is up.
THEOREM ApiTypeCorrect == ApiSpec => []ApiTypeOK
<1>1. ApiInv => ApiTypeOK
  BY DEF ApiInv
<1> QED BY <1>1, ApiInitInv, ApiNextInv, PTL DEF ApiSpec

\* A policy lists audits that exist, and at least one.
THEOREM PoliciesStayWhole == ApiSpec => []PoliciesListAudits
<1>1. ApiInv => PoliciesListAudits
  BY DEF ApiInv
<1> QED BY <1>1, ApiInitInv, ApiNextInv, PTL DEF ApiSpec

-----------------------------------------------------------------------------
\* Only a handler answers, or changes a table.
LEMMA WhoAnswers ==
  ASSUME ApiInv, [ApiNext]_allVars
  PROVE  /\ \A said \in {"200", "400", "401", "403", "denied"} :
               phase # "none" /\ answer' = said => Serve
         /\ \A said \in {"200", "400", "401", "403", "denied"} : Answers(said) => Serve
         /\ tableVars' # tableVars => CreateAudit \/ CreatePolicy \/ CreateSchedule
<1>1. CASE UNCHANGED allVars
  BY <1>1 DEF allVars, apiVars, tableVars, Answers, ApiInv, Underway
<1>2. CASE \E q \in Requests, p \in Apis : Send(q, p)
  BY <1>2 DEF Send, Answers
<1>3. CASE Expire
  BY <1>3 DEF Expire, Answers, ApiInv, Underway
<1>4. CASE \E p \in Processes : Process(p)
  BY <1>4 DEF Process, Return, Answers, ApiInv, Underway
<1>5. CASE Serve
  BY <1>5 DEF Serve, Admit, Login, CheckPolicyAudit, Get
<1> QED BY <1>1, <1>2, <1>3, <1>4, <1>5 DEF ApiNext

\* A call that raised no count of failures did what it says.
LEMMA NoFailure ==
  ASSUME ApiInv, NEW w, Fails(w), failures' = failures
  PROVE  w = "ok"
  BY DEF Fails, ApiInv, IInv, TypeOK

\* What a handler says other than what it is for.
LEMMA WhatIsSaid ==
  /\ Admit => answer' \in {"401", "403", "400", answer}
  /\ Login => answer' \in {"200", "denied"}
  /\ Get => answer' \in {"200", "400"}
  /\ CheckPolicyAudit => answer' \in {"400", answer}
  /\ CreateAudit => answer' \in {"200", "400"}
  /\ CreatePolicy => answer' \in {"200", "400"}
  /\ CreateSchedule => answer' \in {"200", "400"}
<1>1. \A said : Return(said) => answer' = said
  BY DEF Return
<1> QED BY <1>1 DEF Admit, Login, Get, CheckPolicyAudit, CreateAudit, CreatePolicy,
                   CreateSchedule, Inserts

\* A token is good at every replica while it is fresh.
THEOREM TokensStayGood == ApiSpec => TokensWorkEverywhere
<1>1. ASSUME ApiInv, [ApiNext]_allVars, Answers("401") PROVE ~token.fresh
  <2>1. Admit /\ answer' = "401"
    BY <1>1, WhoAnswers, WhatIsSaid DEF Serve, Answers, ApiInv, Underway
  <2>2. Unauthorized(request)
    BY <1>1, <2>1 DEF Admit, Return, ApiInv, Underway
  <2>3. token = NoToken => token.fresh = FALSE
    BY DEF NoToken
  <2>4. token \in Tokens => token.secret = "built in"
    BY DEF Tokens
  <2> QED BY <1>1, <2>2, <2>3, <2>4 DEF Unauthorized, JWTSecret, ApiInv, ApiTypeOK
<1>2. ApiInv /\ [ApiNext]_allVars => [Answers("401") => ~token.fresh]_allVars
  BY <1>1
<1> QED BY <1>2, ApiInitInv, ApiNextInv, PTL DEF ApiSpec, TokensWorkEverywhere

\* Whoever is not logged in as admin changes nothing, and is refused nothing else.
THEOREM WritersAreAdmins == ApiSpec => OnlyAdminsWrite
<1>1. ASSUME ApiInv, [ApiNext]_allVars, tableVars' # tableVars PROVE token.role = "admin"
  <2>1. phase = "admitted" /\ Posts(request)
    BY <1>1, WhoAnswers DEF CreateAudit, CreatePolicy, CreateSchedule, Serving, Posts
  <2> QED BY <1>1, <2>1 DEF ApiInv, Underway
<1>2. ASSUME ApiInv, [ApiNext]_allVars, Answers("403")
      PROVE  token.role = "viewer" /\ Posts(request)
  <2>1. Admit /\ answer' = "403"
    BY <1>2, WhoAnswers, WhatIsSaid DEF Serve, Answers, ApiInv, Underway
  <2>2. ~Unauthorized(request) /\ Forbidden(request)
    BY <1>2, <2>1 DEF Admit, Return, ApiInv, Underway
  <2>3. token \in Tokens
    BY <1>2, <2>2 DEF Unauthorized, ApiInv, ApiTypeOK
  <2>4. token.role \in {"admin", "viewer"}
    BY <2>3 DEF Tokens, Names
  <2> QED BY <2>2, <2>4 DEF Forbidden
<1>3. ApiInv /\ [ApiNext]_allVars =>
        [/\ tableVars' # tableVars => token.role = "admin"
         /\ Answers("403") => token.role = "viewer" /\ Posts(request)]_allVars
  BY <1>1, <1>2
<1> QED BY <1>3, ApiInitInv, ApiNextInv, PTL DEF ApiSpec, OnlyAdminsWrite

\* However the replicas seeded, the default users can log in.
THEOREM UsersCanLogIn == ApiSpec => DefaultUsersCanLogIn
<1>1. ASSUME ApiInv, [ApiNext]_allVars, Answers("denied")
      PROVE  \/ ~request.right \/ request.user \notin Names
             \/ request.user \in refused /\ ~Found(request.user)
  <2>1. Login /\ answer' = "denied"
    BY <1>1, WhoAnswers, WhatIsSaid DEF Serve, Answers, ApiInv, Underway
  <2>2. ~(request.user \in Names /\ request.right /\ Found(request.user))
    <3>1. PICK w \in {"ok", "failed"} :
             /\ Fails(w)
             /\ IF w = "ok" /\ request.user \in Names /\ request.right /\ Found(request.user)
                THEN Return("200") ELSE Return("denied")
      BY <2>1 DEF Login
    <3>2. w = "ok"
      BY <1>1, <3>1, NoFailure DEF Answers
    <3> QED BY <2>1, <3>1, <3>2 DEF Return
  <2>3. to \in Apis /\ stage[to] = "serving"
    BY <1>1 DEF Answers, ApiInv, ApiTypeOK
  <2>4. \A n \in Names : Found(n) \/ n \in refused
    BY <1>1, <2>3, InvImplies DEF ApiInv, ServingMeansSeeded, Processes
  <2> QED BY <2>2, <2>4
<1>2. ApiInv /\ [ApiNext]_allVars =>
        [Answers("denied") =>
           \/ ~request.right \/ request.user \notin Names
           \/ request.user \in refused /\ ~Found(request.user)]_allVars
  BY <1>1
<1> QED BY <1>2, ApiInitInv, ApiNextInv, PTL DEF ApiSpec, DefaultUsersCanLogIn

\* The answer 200 to a creation means a row.
THEOREM RowsAreAnswered == ApiSpec => CreationsAreAnswered
<1>1. ASSUME ApiInv, [ApiNext]_allVars, phase # "none", answer' = "200", Posts(request)
      PROVE  tableVars' # tableVars
  <2>1. Serve /\ answer' = "200" /\ answer = "none" /\ phase # "none"
    BY <1>1, WhoAnswers DEF ApiInv, Underway
  <2>2. CreateAudit \/ CreatePolicy \/ CreateSchedule
    BY <1>1, <2>1, WhatIsSaid DEF Serve, Login, Get, Serving, Posts
  <2>3. ASSUME NEW passes \in BOOLEAN, NEW w, Inserts(passes, w)
        PROVE  passes /\ w = "ok"
    BY <2>1, <2>3 DEF Inserts, Return
  <2>4. CASE CreateAudit
    <3>1. audits' = audits + 1
      BY <2>1, <2>3, <2>4 DEF CreateAudit, Return, Passes
    <3> QED BY <1>1, <3>1 DEF tableVars, ApiInv, ApiTypeOK
  <2>5. CASE CreateSchedule
    <3>1. schedules' = schedules + 1
      BY <2>1, <2>3, <2>5 DEF CreateSchedule, Return, Passes
    <3> QED BY <1>1, <3>1 DEF tableVars, ApiInv, ApiTypeOK
  <2>6. CASE CreatePolicy
    <3>1. policies' = Append(policies, request.list)
      BY <2>1, <2>3, <2>6 DEF CreatePolicy, Return, Passes
    <3>2. policies \in Seq(Lists)
      BY <1>1 DEF ApiInv, ApiTypeOK
    <3>3. request.list \in Lists
      BY <1>1, <2>6, RequestsAre DEF CreatePolicy, Serving, ApiInv, Underway
    <3>4. Len(policies') # Len(policies)
      BY <3>1, <3>2, <3>3
    <3> QED BY <3>4 DEF tableVars
  <2> QED BY <2>2, <2>4, <2>5, <2>6
<1>2. ASSUME ApiInv, [ApiNext]_allVars, tableVars' # tableVars, failures' = failures
      PROVE  answer' = "200"
  <2>1. CreateAudit \/ CreatePolicy \/ CreateSchedule
    BY <1>2, WhoAnswers
  <2>2. \E passes \in BOOLEAN, w \in {"ok", "failed", "unacked"} :
           Inserts(passes, w) /\ passes /\ w # "failed"
    BY <1>2, <2>1 DEF CreateAudit, CreatePolicy, CreateSchedule, tableVars, Passes
  <2>3. PICK w \in {"ok", "failed", "unacked"} : Inserts(TRUE, w)
    BY <2>2
  <2>4. w = "ok"
    BY <1>2, <2>3, NoFailure DEF Inserts
  <2> QED BY <2>3, <2>4 DEF Inserts, Return
<1>3. ApiInv /\ [ApiNext]_allVars =>
        [/\ phase # "none" /\ answer' = "200" /\ Posts(request) => tableVars' # tableVars
         /\ tableVars' # tableVars /\ failures' = failures => answer' = "200"]_allVars
  BY <1>1, <1>2
<1> QED BY <1>3, ApiInitInv, ApiNextInv, PTL DEF ApiSpec, CreationsAreAnswered

\* ent accepts what the service lets through.
LEMMA RowsPass ==
  ASSUME NEW name, name # "", NEW rest, NEW type, NEW id
  PROVE  /\ Passes(Audit, AuditRow(name, rest))
         /\ Passes(PolicyAudit, PolicyRow(name, rest))
         /\ Passes(Schedule, ScheduleRow(type, id, 60, 0))
<1>1. Passes(Audit, AuditRow(name, rest))
  <2> DEFINE row == AuditRow(name, rest)
  <2>1. DOMAIN row = {"name", "queries"} /\ row["name"] = name
    BY DEF AuditRow
  <2> HIDE DEF row
  <2>2. Audit.required \subseteq DOMAIN row \cup Audit.defaults
    BY <2>1 DEF Audit
  <2>3. \A f \in Audit.notEmpty : f = "name"
    BY DEF Audit
  <2> QED BY <2>1, <2>2, <2>3 DEF Passes, row
<1>2. Passes(PolicyAudit, PolicyRow(name, rest))
  <2> DEFINE row == PolicyRow(name, rest)
  <2>1. DOMAIN row = {"name", "audit_ids"} /\ row["name"] = name
    BY DEF PolicyRow
  <2> HIDE DEF row
  <2>2. PolicyAudit.required \subseteq DOMAIN row \cup PolicyAudit.defaults
    BY <2>1 DEF PolicyAudit
  <2>3. \A f \in PolicyAudit.notEmpty : f = "name"
    BY DEF PolicyAudit
  <2> QED BY <2>1, <2>2, <2>3 DEF Passes, row
<1>3. Passes(Schedule, ScheduleRow(type, id, 60, 0))
  <2> DEFINE row == ScheduleRow(type, id, 60, 0)
  <2>1. DOMAIN row = {"target_type", "target_id", "interval_seconds", "next_run_at"}
    BY DEF ScheduleRow
  <2> HIDE DEF row
  <2>2. Schedule.required \subseteq DOMAIN row \cup Schedule.defaults
    BY <2>1 DEF Schedule
  <2>3. Schedule.notEmpty = {}
    BY DEF Schedule
  <2> QED BY <2>1, <2>2, <2>3 DEF Passes, row
<1> QED BY <1>1, <1>2, <1>3

\* What a request of each route carries.
LEMMA FieldsAre ==
  ASSUME NEW q \in Requests
  PROVE  /\ q.route \in {"createAudit", "createPolicy"} => q.name \in Texts
         /\ q.route = "createAudit" => q.queries \in {"none", "invalid", "valid"}
         /\ q.route = "createSchedule" => /\ q.type \in {"audit", "policy", "other"}
                                         /\ q.id \in 0 .. 1
         /\ q.route \in {"getAudit", "getPolicy"} => q.id \in 0 .. MaxAudits
  BY DEF Requests

\* A request is answered 400 just when it is not proper, or a call failed.
THEOREM RefusalsAreRight == ApiSpec => RefusalsAreDeserved
<1>1. ASSUME ApiInv, [ApiNext]_allVars, Answers("400"), Proper(request) PROVE FALSE
  <2>1. Serve /\ answer' = "400" /\ answer = "none" /\ request \in Requests
    BY <1>1, WhoAnswers DEF Answers, ApiInv, Underway
  <2>2. \A w : Fails(w) => w = "ok"
    BY <1>1, NoFailure DEF Answers
  <2>3. CASE Admit
    <3>1. request.route \in {"garbledPost", "garbledGet"}
      BY <2>1, <2>3 DEF Admit, Return, Garbled
    <3> QED BY <1>1, <3>1 DEF Proper
  <2>4. CASE CreateAudit
    <3>1. request.name = "text" /\ request.queries = "valid"
      BY <1>1, <2>4 DEF Proper, CreateAudit, Serving
    <3>2. Passes(Audit, AuditRow(request.name, request.queries))
      BY <3>1, RowsPass
    <3> QED BY <2>1, <2>2, <2>4, <3>1, <3>2 DEF CreateAudit, ValidAudit, Blank, Inserts, Return
  <2>5. CASE CreatePolicy \/ CheckPolicyAudit
    <3>1. /\ request.route = "createPolicy" /\ phase = "admitted"
          /\ request.name = "text" /\ Len(request.list) > 0
          /\ \A k \in 1 .. Len(request.list) : request.list[k] <= audits
      BY <1>1, <2>5 DEF Proper, CreatePolicy, CheckPolicyAudit, Serving
    <3>2. Passes(PolicyAudit, PolicyRow(request.name, request.list))
      BY <3>1, RowsPass
    <3>3. ValidPolicy(request)
      BY <3>1 DEF ValidPolicy, Blank
    <3>4. CASE CreatePolicy
      BY <2>1, <2>2, <3>2, <3>3, <3>4 DEF CreatePolicy, Inserts, Return
    <3>5. CASE CheckPolicyAudit
      <4>1. checked + 1 \in 1 .. Len(request.list)
        BY <1>1, <2>1, <3>1, <3>5, RequestsAre, ListsAre
           DEF CheckPolicyAudit, AllChecked, ApiInv, ApiTypeOK, Underway
      <4> QED BY <2>1, <2>2, <3>1, <3>5, <4>1 DEF CheckPolicyAudit, Return
    <3> QED BY <2>5, <3>4, <3>5
  <2>6. CASE CreateSchedule
    <3>1. request.route = "createSchedule" /\ request.type # "other" /\ request.id # 0
      BY <1>1, <2>6 DEF Proper, CreateSchedule, Serving
    <3>2. ValidSchedule(request)
      BY <2>1, <3>1, FieldsAre DEF ValidSchedule
    <3>3. Passes(Schedule, ScheduleRow(request.type, request.id, 60, 0))
      <4>1. "text" # ""
        OBVIOUS
      <4> QED BY <4>1, RowsPass
    <3> QED BY <2>1, <2>2, <2>6, <3>2, <3>3 DEF CreateSchedule, Inserts, Return
  <2>7. CASE Get
    <3>1. /\ request.route = "getAudit" => request.id # 0 /\ request.id <= audits
          /\ request.route = "getPolicy" => request.id # 0 /\ request.id <= Len(policies)
          /\ request.route \in {"getAudit", "getPolicy"}
      BY <1>1, <2>7 DEF Proper, Get, Serving
    <3>2. Exists(request)
      BY <1>1, <2>1, <3>1, FieldsAre, RowsAssumption DEF Exists, ApiInv, ApiTypeOK
    <3> QED BY <2>1, <2>2, <2>7, <3>2 DEF Get, Return
  <2>8. CASE Login
    BY <2>1, <2>8, WhatIsSaid
  <2> QED BY <2>1, <2>3, <2>4, <2>5, <2>6, <2>7, <2>8 DEF Serve
<1>2. ASSUME ApiInv, [ApiNext]_allVars, Answers("200")
      PROVE  Public(request) \/ Proper(request)
  <2>1. Serve /\ answer' = "200" /\ answer = "none" /\ request \in Requests
    BY <1>2, WhoAnswers DEF Answers, ApiInv, Underway
  <2>2. CASE CreateAudit
    <3>1. request.route = "createAudit" /\ ValidAudit(request)
      BY <2>1, <2>2 DEF CreateAudit, Serving, Return
    <3>2. request.name = "text" /\ request.queries = "valid"
      BY <2>1, <3>1, FieldsAre DEF ValidAudit, Blank, Texts
    <3> QED BY <3>1, <3>2 DEF Proper
  <2>3. CASE CreatePolicy
    <3>1. /\ request.route = "createPolicy" /\ phase = "admitted"
          /\ ValidPolicy(request) /\ AllChecked(request)
      BY <2>1, <2>3 DEF CreatePolicy, Serving, Return
    <3>2. request.name = "text"
      BY <2>1, <3>1, FieldsAre DEF ValidPolicy, Blank, Texts
    <3>3. Len(request.list) > 0
      <4>1. request.list \in Lists /\ request.list # <<>>
        BY <2>1, <3>1, RequestsAre DEF ValidPolicy
      <4> QED BY <4>1, ListsAre
    <3>4. \A k \in 1 .. Len(request.list) : request.list[k] <= audits
      BY <1>2, <3>1 DEF AllChecked, ApiInv, Underway
    <3> QED BY <3>1, <3>2, <3>3, <3>4 DEF Proper
  <2>4. CASE CreateSchedule
    <3>1. request.route = "createSchedule" /\ ValidSchedule(request)
      BY <2>1, <2>4 DEF CreateSchedule, Serving, Return
    <3>2. request.type # "other" /\ request.id # 0
      BY <3>1 DEF ValidSchedule
    <3> QED BY <3>1, <3>2 DEF Proper
  <2>5. CASE Get
    <3>1. Exists(request) /\ request.route \in {"getAudit", "getPolicy"}
      BY <2>1, <2>5 DEF Get, Serving, Return
    <3>2. /\ audits \in Nat /\ Len(policies) \in Nat
      BY <1>2, RowsAssumption DEF ApiInv, ApiTypeOK
    <3>3. /\ request.id # 0
          /\ request.route = "getAudit" => request.id <= audits
          /\ request.route = "getPolicy" => request.id <= Len(policies)
      BY <3>1, <3>2 DEF Exists
    <3> QED BY <3>1, <3>3 DEF Proper
  <2>6. CASE Login
    BY <2>6 DEF Login, Serving, Public
  <2>7. CASE Admit \/ CheckPolicyAudit
    BY <2>1, <2>7, WhatIsSaid
  <2> QED BY <2>1, <2>2, <2>3, <2>4, <2>5, <2>6, <2>7 DEF Serve
<1>3. ApiInv /\ [ApiNext]_allVars =>
        [/\ Answers("400") => ~Proper(request)
         /\ Answers("200") => Public(request) \/ Proper(request)]_allVars
  BY <1>1, <1>2
<1> QED BY <1>3, ApiInitInv, ApiNextInv, PTL DEF ApiSpec, RefusalsAreDeserved
=============================================================================
