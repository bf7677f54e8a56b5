-------------------------------- MODULE Startup --------------------------------
(***************************************************************************)
(* How the processes start: the API replicas and the worker all create the *)
(* tables first, and each API replica then seeds the default users.        *)
(*                                                                         *)
(* Schema.Create looks at the database and, in one transaction, creates    *)
(* what is missing.  Two processes may both find nothing; the one that     *)
(* commits second is refused, its main exits, and Kubernetes starts it     *)
(* again.  EnsureDefaultUsers asks for a user and inserts it if the answer *)
(* is an error of any kind; it drops the errors of the insert, of which a  *)
(* second replica's is one (username is unique).  Only then does main      *)
(* listen.                                                                 *)
(***************************************************************************)
EXTENDS Naturals, Sequences, Schema

CONSTANTS
    Apis,          \* the API processes: two in k8s/api.yaml
    Workers,       \* the worker processes
    MaxFailures    \* a bound on database errors and crashes together

ASSUME ProcessesAssumption == Apis \cap Workers = {}

ASSUME FailuresAssumption == MaxFailures \in Nat

Processes == Apis \cup Workers

\* The default users, in the order they are seeded.
Seeds == <<"admin", "viewer">>
Names == {"admin", "viewer"}

VARIABLES
    tables,     \* the tables of ent/migrate/schema.go exist
    users,      \* users[n]: the number of rows of users with name n
    refused,    \* history: the users whose insert Postgres failed
    failures,   \* the database errors and crashes so far
    stage,      \* stage[p]: where the start of process p is
    at          \* at[p]: the place in Seeds it is at

vars == <<tables, users, refused, failures, stage, at>>

Init ==
    /\ tables   = FALSE
    /\ users    = [n \in Names |-> 0]
    /\ refused  = {}
    /\ failures = 0
    /\ stage    = [p \in Processes |-> "down"]
    /\ at       = [p \in Processes |-> 1]

\* A call of the database: done, failed, or done although it returns an error.
Fails(w) ==
    /\ w = "ok" \/ failures < MaxFailures
    /\ failures' = IF w = "ok" THEN failures ELSE failures + 1

-----------------------------------------------------------------------------
(***************************************************************************)
(* The tables.                                                             *)
(***************************************************************************)
Start(p) ==
    /\ stage[p] = "down"
    /\ stage' = [stage EXCEPT ![p] = "inspecting"]
    /\ UNCHANGED <<tables, users, refused, failures, at>>

Migrated(p) == IF p \in Workers THEN "serving" ELSE "asking"

\* os.Exit(1) is what main makes of any error of OpenPostgres and Schema.Create.
InspectTables(p) ==
    /\ stage[p] = "inspecting"
    /\ \E w \in {"ok", "failed"} :
          /\ Fails(w)
          /\ stage' = [stage EXCEPT ![p] = IF w = "failed" THEN "down"
                                           ELSE IF tables THEN Migrated(p) ELSE "creating"]
    /\ UNCHANGED <<tables, users, refused, at>>

\* Mutant of AfterCollision: the transaction is tried again as it is.
AfterCollisionAgain == "creating"

AfterCollision == "down"

\* The transaction commits once: whoever comes second collides.
CreateTables(p) ==
    /\ stage[p] = "creating"
    /\ \E w \in {"ok", "failed", "unacked"} :
          /\ Fails(w)
          /\ tables' = (tables \/ w # "failed")
          /\ stage'  = [stage EXCEPT ![p] =
                          IF w # "ok" THEN "down"
                          ELSE IF tables THEN AfterCollision ELSE Migrated(p)]
    /\ UNCHANGED <<users, refused, at>>

-----------------------------------------------------------------------------
(***************************************************************************)
(* The users.                                                              *)
(***************************************************************************)
\* The next user, or the server.
Onward(p) ==
    /\ stage' = [stage EXCEPT ![p] = IF at[p] < Len(Seeds) THEN "asking" ELSE "serving"]
    /\ at'    = [at EXCEPT ![p] = @ + 1]

\* Only: one row exactly, and no error.
Found(n) == users[n] = 1

GetUserByUsername(p) ==
    /\ stage[p] = "asking"
    /\ \E w \in {"ok", "failed"} :
          /\ Fails(w)
          /\ IF w = "ok" /\ Found(Seeds[at[p]])
             THEN Onward(p)
             ELSE /\ stage' = [stage EXCEPT ![p] = "missing"]
                  /\ UNCHANGED at
    /\ UNCHANGED <<tables, users, refused>>

\* Mutant of Taken: username is not unique.
TakenNever(n) == FALSE

Taken(n) == users[n] > 0

\* Mutant of AfterError: an error ends EnsureDefaultUsers; main logs it and goes on.
AfterErrorServe(p) == stage' = [stage EXCEPT ![p] = "serving"] /\ UNCHANGED at

AfterError(p) == Onward(p)

Password(n) == IF n = "admin" THEN "admin123" ELSE "viewer123"

\* Each default user has the role it is named after.
Storable(n) == Passes(User, UserRow(n, Password(n), n)) /\ ~Taken(n)

\* The insert: done (its answer may be lost), refused by ent or as a duplicate,
\* or failed.
CreateUser(p) ==
    /\ stage[p] = "missing"
    /\ LET n == Seeds[at[p]] IN
          \E w \in {"ok", "failed", "unacked"} :
             /\ Fails(w)
             /\ users'   = IF w # "failed" /\ Storable(n)
                           THEN [users EXCEPT ![n] = @ + 1] ELSE users
             /\ refused' = IF w = "failed" THEN refused \cup {n} ELSE refused
             /\ IF w = "ok" /\ Storable(n) THEN Onward(p) ELSE AfterError(p)
    /\ UNCHANGED tables

\* The process ends; Postgres rolls back what it has not committed.
Crash(p) ==
    /\ stage[p] # "down"
    /\ Fails("crash")
    /\ stage' = [stage EXCEPT ![p] = "down"]
    /\ at'    = [at EXCEPT ![p] = 1]
    /\ UNCHANGED <<tables, users, refused>>

-----------------------------------------------------------------------------
Run(p) ==
    \/ Start(p) \/ InspectTables(p) \/ CreateTables(p)
    \/ GetUserByUsername(p) \/ CreateUser(p)

Next == \E p \in Processes : Run(p) \/ Crash(p)

Spec == Init /\ [][Next]_vars

\* main goes on, and a process that ended is started again: by Kubernetes, whose
\* Deployments know no other restart policy.
Fairness == \A p \in Processes : WF_vars(Run(p))

FairSpec == Spec /\ Fairness
-----------------------------------------------------------------------------
(***************************************************************************)
(* Properties.                                                             *)
(***************************************************************************)
\* Every variable has its type; no user has two rows, whoever seeds at once
\* (Only would then fail every login of that user).
TypeOK ==
    /\ tables   \in BOOLEAN
    /\ users    \in [Names -> 0 .. 1]
    /\ refused  \subseteq Names
    /\ failures \in 0 .. MaxFailures
    /\ stage    \in [Processes -> {"down", "inspecting", "creating", "asking", "missing",
                                   "serving"}]
    /\ at       \in [Processes -> 1 .. Len(Seeds) + 1]

\* A process that serves finds the tables, and an API replica that serves can log
\* each default user in (README: the API seeds them on startup), unless Postgres
\* itself failed the insert: not because two replicas seed at once, nor because
\* one died half way, nor because an answer was lost.
ServingMeansSeeded ==
    \A p \in Processes : stage[p] = "serving" =>
        /\ tables
        /\ p \in Apis => \A n \in Names : Found(n) \/ n \in refused

\* However the first starts collide, every process ends up serving.
EveryoneServes == <>[](\A p \in Processes : stage[p] = "serving")
=============================================================================
