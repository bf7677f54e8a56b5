-------------------------------- MODULE MCData --------------------------------
(***************************************************************************)
(* The data layer, each part on its own: a rule's values, a builder of     *)
(* ent, a builder that updates row 1 while other processes do, and the     *)
(* repository.                                                             *)
(***************************************************************************)
EXTENDS Evaluation, EntBuilder, Repository

VARIABLE part    \* the one that is at work

MCBodies ==
    {"", "x", "null", "[55]"} \cup {f[1] : f \in IntForms \cup FloatForms \cup BoolForms}

MCUpdates == {<<>>, <<2>>}
MCLists   == {<<1>>}

MCScopes ==
    {[audits |-> 1, audit_runs |-> 2], [audits |-> 1, audit_runs |-> 1, issues |-> 2],
     [policies |-> 1, policy_runs |-> 2], [users |-> 2], [schedules |-> 2]}

NoEvaluation == rule = (CHOOSE r \in Rules : TRUE) /\ Init
NoBuilder    == entity = "users" /\ mutation = NewMutation("delete", Nil) /\ BuilderInit
NoRepository == scope = (CHOOSE s \in Scopes : TRUE) /\ RepositoryInit

MCInit ==
    \/ part = "evaluation" /\ Init /\ NoBuilder /\ NoRepository
    \/ part = "builder"    /\ BuilderInit /\ NoEvaluation /\ NoRepository
    \/ part = "rivals"     /\ BuilderInit /\ NoEvaluation /\ NoRepository
                           /\ mutation.op = "updateOne" /\ mutation.id = Ptr(1)
    \/ part = "repository" /\ RepositoryInit /\ NoEvaluation /\ NoBuilder

MCNext ==
    \/ part = "evaluation" /\ Next /\ UNCHANGED <<part, builderVars, repositoryVars>>
    \/ part = "builder" /\ BuilderNext /\ writes' = writes
                        /\ UNCHANGED <<part, vars, repositoryVars>>
    \/ part = "rivals" /\ (Old \/ Set \/ Update \/ Interfere)
                       /\ UNCHANGED <<part, vars, repositoryVars>>
    \/ part = "repository" /\ RepositoryNext /\ UNCHANGED <<part, vars, builderVars>>

MCSpec == MCInit /\ [][MCNext]_<<part, vars, builderVars, repositoryVars>>
================================================================================
