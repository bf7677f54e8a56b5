---------------------------------- MODULE Api ----------------------------------
(***************************************************************************)
(* The HTTP interface, composed with the start of the processes behind it: *)
(* a client logs in, and creates and reads audits, policies and schedules, *)
(* at whichever API replica serves, while replicas die and come back.      *)
(*                                                                         *)
(* The client has one request under way, and what it sends may be wrong in *)
(* every way that the middleware, a decoder, the service or ent refuses.   *)
(* Between two calls of the database a handler only looks at what is its   *)
(* own, so each call is one step.  The routes that run audits and policies *)
(* are AuditRun and PolicyRun, that of issues IssuePaging and what becomes *)
(* of a schedule Scheduler.                                                *)
(***************************************************************************)
EXTENDS Startup

CONSTANTS
    MaxAudits,   \* a bound on the audits
    MaxOthers    \* a bound on the policies, and on the schedules

ASSUME RowsAssumption == MaxAudits \in Nat /\ MaxOthers \in Nat

VARIABLES
    audits,      \* the number of audits: their ids are 1 .. audits
    policies,    \* policies[id]: the audit_ids of a policy
    schedules,   \* the number of schedules
    token,       \* the token the client has
    request,     \* what it has asked for
    to,          \* the replica the load balancer chose for it, or "none"
    phase,       \* "none", "sent", or "admitted" by the middleware
    checked,     \* how many of a policy's audits were found
    answer       \* what the client was last told

tableVars   == <<audits, policies, schedules>>
requestVars == <<request, to, phase, checked>>
apiVars     == <<audits, policies, schedules, token, request, to, phase, checked, answer>>
allVars     == <<vars, apiVars>>

\* The texts of a name: a blank one is not empty, as ent sees it.
Texts == {"", " ", "text"}
Blank(t) == t \in {"", " "}

Lists == UNION {[1 .. n -> 1 .. MaxAudits] : n \in 0 .. 2}

NoRequest == [route |-> "none"]

\* "garbled": a body that is not JSON, or an id that is not a number.
Requests ==
    [route : {"login"}, user : Names \cup {"stranger"}, right : BOOLEAN]
    \cup [route : {"createAudit"}, name : Texts, queries : {"none", "invalid", "valid"}]
    \cup [route : {"createPolicy"}, name : Texts, list : Lists]
    \cup [route : {"createSchedule"}, type : {"audit", "policy", "other"}, id : 0 .. 1]
    \cup [route : {"getAudit", "getPolicy"}, id : 0 .. MaxAudits]
    \cup [route : {"garbledPost", "garbledGet"}]

Public(q) == q.route = "login"

\* The methods of the routes.
Posts(q) == q.route \in {"createAudit", "createPolicy", "createSchedule", "garbledPost"}

NoToken == [role |-> "none", secret |-> "none", fresh |-> FALSE]
Tokens  == [role : Names, secret : {"built in"}, fresh : BOOLEAN]

ApiInit ==
    /\ Init
    /\ audits    = 0
    /\ policies  = <<>>
    /\ schedules = 0
    /\ token     = NoToken
    /\ request   = NoRequest
    /\ to        = "none"
    /\ phase     = "none"
    /\ checked   = 0
    /\ answer    = "none"

-----------------------------------------------------------------------------
(***************************************************************************)
(* The client.                                                             *)
(***************************************************************************)
Bounded(q) ==
    /\ q.route = "createAudit"    => audits < MaxAudits
    /\ q.route = "createPolicy"   => Len(policies) < MaxOthers
    /\ q.route = "createSchedule" => schedules < MaxOthers

Send(q, p) ==
    /\ phase = "none"
    /\ stage[p] = "serving"
    /\ Bounded(q)
    /\ request' = q
    /\ to'      = p
    /\ phase'   = "sent"
    /\ answer'  = "none"
    /\ UNCHANGED <<vars, tableVars, token, checked>>

\* 24 hours pass.
Expire ==
    /\ token.fresh
    /\ token' = [token EXCEPT !.fresh = FALSE]
    /\ UNCHANGED <<vars, tableVars, requestVars, answer>>

\* The handler returns, and the client is told so.
Return(said) ==
    /\ answer'  = said
    /\ request' = NoRequest
    /\ phase'   = "none"
    /\ checked' = 0
    /\ to'      = "none"

\* Startup's variables but for the count of failures.
startVars == <<tables, users, refused, stage, at>>

-----------------------------------------------------------------------------
(***************************************************************************)
(* authAndRBACMiddleware and the decoders.                                 *)
(***************************************************************************)
\* Mutant of JWTSecret: each process signs with a key of its own.
JWTSecretOfProcess(p) == p

\* The key is a constant of the program.
JWTSecret(p) == "built in"

\* Mutant of Forbidden: only deleting is restricted, and there is no such route.
ForbiddenNever(q) == FALSE

Forbidden(q) == Posts(q) /\ token.role # "admin"

Unauthorized(q) ==
    token = NoToken \/ token.secret # JWTSecret(to) \/ ~token.fresh

\* A decoder fails.
Garbled(q) == q.route \in {"garbledPost", "garbledGet"}

\* encodeError knows one status, 400.
Admit ==
    /\ phase = "sent"
    /\ \/ /\ ~Public(request) /\ Unauthorized(request)
          /\ Return("401")
       \/ /\ ~Public(request) /\ ~Unauthorized(request) /\ Forbidden(request)
          /\ Return("403")
       \/ /\ ~Public(request) => ~Unauthorized(request) /\ ~Forbidden(request)
          /\ IF Garbled(request)
             THEN Return("400")
             ELSE phase' = "admitted" /\ UNCHANGED <<request, to, checked, answer>>
    /\ UNCHANGED <<vars, tableVars, token>>

Serving(route) == phase = "admitted" /\ request.route = route

-----------------------------------------------------------------------------
(***************************************************************************)
(* The endpoints and the service.                                          *)
(***************************************************************************)
\* An error of any kind is one answer, and its status is 200.
Login ==
    /\ Serving("login")
    /\ \E w \in {"ok", "failed"} :
          /\ Fails(w)
          /\ IF w = "ok" /\ request.user \in Names /\ request.right /\ Found(request.user)
             THEN /\ token' = [role |-> request.user, secret |-> JWTSecret(to), fresh |-> TRUE]
                  /\ Return("200")
             ELSE UNCHANGED token /\ Return("denied")
    /\ UNCHANGED <<startVars, tableVars>>

\* Mutant of Inserts: the error is dropped, as EnsureDefaultUsers drops it.
InsertsAnyway(passes, w) == Fails(w) /\ Return("200")

\* What is told of an insert: done, refused by ent, failed, or done unheard.
Inserts(passes, w) ==
    /\ Fails(w)
    /\ Return(IF passes /\ w = "ok" THEN "200" ELSE "400")

\* Mutant of ValidAudit: the name is left to ent, to which a blank is a name.
ValidAuditUnnamed(q) == q.queries = "valid"

ValidAudit(q) == ~Blank(q.name) /\ q.queries = "valid"

CreateAudit ==
    /\ Serving("createAudit")
    /\ IF ValidAudit(request)
       THEN \E w \in {"ok", "failed", "unacked"} :
               LET passes == Passes(Audit, AuditRow(request.name, request.queries)) IN
                  /\ Inserts(passes, w)
                  /\ audits' = IF passes /\ w # "failed" THEN audits + 1 ELSE audits
       ELSE Return("400") /\ UNCHANGED <<failures, audits>>
    /\ UNCHANGED <<startVars, policies, schedules, token>>

\* Mutant of AllChecked: the first of the audits is enough.
AllCheckedOne(q) == checked = 1

AllChecked(q) == checked = Len(q.list)

ValidPolicy(q) == ~Blank(q.name) /\ q.list # <<>>

\* GetAudit, for one after the other of the policy's audits.
CheckPolicyAudit ==
    /\ Serving("createPolicy")
    /\ ValidPolicy(request)
    /\ ~AllChecked(request)
    /\ \E w \in {"ok", "failed"} :
          /\ Fails(w)
          /\ IF w = "ok" /\ request.list[checked + 1] <= audits
             THEN checked' = checked + 1 /\ UNCHANGED <<request, to, phase, answer>>
             ELSE Return("400")
    /\ UNCHANGED <<startVars, tableVars, token>>

CreatePolicy ==
    /\ Serving("createPolicy")
    /\ IF ValidPolicy(request)
       THEN /\ AllChecked(request)
            /\ \E w \in {"ok", "failed", "unacked"} :
                  LET passes == Passes(PolicyAudit, PolicyRow(request.name, request.list)) IN
                     /\ Inserts(passes, w)
                     /\ policies' = IF passes /\ w # "failed"
                                    THEN Append(policies, request.list) ELSE policies
       ELSE Return("400") /\ UNCHANGED <<failures, policies>>
    /\ UNCHANGED <<startVars, audits, schedules, token>>

ValidSchedule(q) == q.type \in {"audit", "policy"} /\ q.id > 0

\* That there is a target is not asked.
CreateSchedule ==
    /\ Serving("createSchedule")
    /\ IF ValidSchedule(request)
       THEN \E w \in {"ok", "failed", "unacked"} :
               LET passes == Passes(Schedule, ScheduleRow(request.type, request.id, 60, 0)) IN
                  /\ Inserts(passes, w)
                  /\ schedules' = IF passes /\ w # "failed" THEN schedules + 1 ELSE schedules
       ELSE Return("400") /\ UNCHANGED <<failures, schedules>>
    /\ UNCHANGED <<startVars, audits, policies, token>>

\* GetAudit and GetPolicy.
Exists(q) == q.id \in 1 .. (IF q.route = "getAudit" THEN audits ELSE Len(policies))

Get ==
    /\ Serving("getAudit") \/ Serving("getPolicy")
    /\ \E w \in {"ok", "failed"} :
          /\ Fails(w)
          /\ Return(IF w = "ok" /\ Exists(request) THEN "200" ELSE "400")
    /\ UNCHANGED <<startVars, tableVars, token>>

Serve ==
    \/ Admit \/ Login \/ CreateAudit \/ CheckPolicyAudit \/ CreatePolicy
    \/ CreateSchedule \/ Get

-----------------------------------------------------------------------------
\* Mutant of Interrupts: a request outlives its process.
InterruptsNever(p) == FALSE

Interrupts(p) == p = to /\ stage'[p] = "down"

\* A process goes on with its start, or dies and takes its request with it.
Process(p) ==
    /\ Run(p) \/ Crash(p)
    /\ IF Interrupts(p)
       THEN Return("lost")
       ELSE UNCHANGED <<requestVars, answer>>
    /\ UNCHANGED <<tableVars, token>>

ApiNext ==
    \/ \E q \in Requests, p \in Apis : Send(q, p)
    \/ Expire
    \/ Serve
    \/ \E p \in Processes : Process(p)

\* Nobody has to send anything.
ApiSpec == ApiInit /\ [][ApiNext]_allVars /\ Fairness

-----------------------------------------------------------------------------
(***************************************************************************)
(* Properties.                                                             *)
(***************************************************************************)
\* Every variable has its type, and who serves a request is up.
ApiTypeOK ==
    /\ audits    \in 0 .. MaxAudits
    /\ policies  \in Seq(Lists)
    /\ schedules \in 0 .. MaxOthers
    /\ token     \in {NoToken} \cup Tokens
    /\ request   \in Requests \cup {NoRequest}
    /\ to        \in Apis \cup {"none"}
    /\ phase     \in {"none", "sent", "admitted"}
    /\ checked   \in 0 .. 2
    /\ answer    \in {"none", "200", "400", "401", "403", "denied", "lost"}
    /\ phase # "none" => to \in Apis /\ stage[to] = "serving"

\* A policy lists at least one audit, and audits that exist only: RunPolicy would
\* otherwise record runs of audits that do not.
PoliciesListAudits ==
    \A id \in 1 .. Len(policies) :
        /\ policies[id] # <<>>
        /\ \A k \in 1 .. Len(policies[id]) : policies[id][k] <= audits

\* The answer to the request under way is being given, and no failure is to blame.
Answers(said) == phase # "none" /\ answer' = said /\ failures' = failures

\* A default user with the right password gets a token at every replica that
\* serves, whichever replica seeded the user, if at all, and whatever failed then,
\* the insert itself excepted.
DefaultUsersCanLogIn ==
    [][Answers("denied") =>
         \/ ~request.right \/ request.user \notin Names
         \/ request.user \in refused /\ ~Found(request.user)]_allVars

\* Whichever replica issued a token, and whether or not it has been restarted
\* since, every replica takes it for 24 hours.
TokensWorkEverywhere == [][Answers("401") => ~token.fresh]_allVars

\* Who has not logged in as admin changes nothing (README: viewers only read),
\* and is refused nothing else.
OnlyAdminsWrite ==
    [][/\ tableVars' # tableVars => token.role = "admin"
       /\ Answers("403") => token.role = "viewer" /\ Posts(request)]_allVars

\* The answer 200 to a creation means a row, whatever fails, and a row without that
\* answer that the answer of the insert was lost: a client that then tries again
\* has two.
CreationsAreAnswered ==
    [][/\ phase # "none" /\ answer' = "200" /\ Posts(request) => tableVars' # tableVars
       /\ tableVars' # tableVars /\ failures' = failures => answer' = "200"]_allVars

\* What the README asks of a request.
Proper(q) ==
    CASE q.route = "createAudit"    -> q.name = "text" /\ q.queries = "valid"
      [] q.route = "createPolicy"   -> /\ q.name = "text" /\ Len(q.list) > 0
                                       /\ \A k \in 1 .. Len(q.list) : q.list[k] <= audits
      [] q.route = "createSchedule" -> q.type # "other" /\ q.id # 0
      [] q.route = "getAudit"       -> q.id # 0 /\ q.id <= audits
      [] q.route = "getPolicy"      -> q.id # 0 /\ q.id <= Len(policies)
      [] OTHER                      -> FALSE

\* A request is answered 400 just when it is not proper, the call of the database
\* that fails excepted: what the service lets through has all that ent asks of a
\* row, and nothing that is improper gets into a table.
RefusalsAreDeserved ==
    [][/\ Answers("400") => ~Proper(request)
       /\ Answers("200") => Public(request) \/ Proper(request)]_allVars
=============================================================================
