---------------------------- MODULE EntBuilderProofs ----------------------------
(***************************************************************************)
(* What a builder saves, returns and tells, for every entity, every        *)
(* argument and every sequence of calls.                                   *)
(***************************************************************************)
EXTENDS EntBuilder, TLAPS

Row1 == Read(client, rows[1])

\* A save that succeeded ends the mutation.
Ended == outcome = "saved" => done

\* Up to then, what row 1 is counts as past.
Current == outcome # "saved" => Row1 \in past

\* What was loaded was in the row before the save.
Loaded == old = Nil \/ \E n \in past : old = Ptr(n)

\* What was told is of what was loaded.
Told == \A c \in DOMAIN told : old # Nil /\ told[c] = old[1][c]

OldInv == past # {} /\ Ended /\ Current /\ Loaded /\ Told

-----------------------------------------------------------------------------
LEMMA Pointers == ASSUME NEW v PROVE Ptr(v) # Nil /\ Ptr(v)[1] = v
  BY DEF Ptr, Nil

\* OldInv suffices: what is loaded tells all the values, and if nothing is, none are told.
LEMMA ToldOfOneRow == OldInv => OldValuesAgree
<1> SUFFICES ASSUME OldInv PROVE OldValuesAgree
  OBVIOUS
<1>1. CASE old = Nil
  BY <1>1 DEF OldInv, Told, OldValuesAgree
<1>2. CASE \E n \in past : old = Ptr(n)
  <2>1. PICK n \in past : old = Ptr(n)
    BY <1>2
  <2>2. old[1] = n
    BY <2>1, Pointers
  <2> QED
    BY <2>2 DEF OldInv, Told, OldValuesAgree
<1> QED
  BY <1>1, <1>2 DEF OldInv, Loaded

LEMMA OldInit == BuilderInit => OldInv
<1> SUFFICES ASSUME BuilderInit PROVE OldInv
  OBVIOUS
<1>1. past = {Row1} /\ outcome = "building" /\ DOMAIN told = {}
  BY DEF BuilderInit, Row1, client, NoFields
<1>2. old = Nil \/ old = Ptr(Row1)
  BY DEF BuilderInit, Row1, client
<1> QED
  BY <1>1, <1>2 DEF OldInv, Ended, Current, Loaded, Told

\* A call, or a save that is refused, leaves the row and what is known of it.
LEMMA OldQuiet ==
  ASSUME OldInv, UNCHANGED <<entity, rows, old, told, past>>,
         outcome' # "saved" \/ outcome' = outcome, done => done', outcome' # "saved" => outcome # "saved"
  PROVE  OldInv'
  BY DEF OldInv, Ended, Current, Loaded, Told, Row1, client

\* A save that succeeds ends the mutation.
LEMMA OldSaved ==
  ASSUME OldInv, UNCHANGED <<old, told, past>>, outcome' = "saved", done'
  PROVE  OldInv'
  BY DEF OldInv, Ended, Current, Loaded, Told

-----------------------------------------------------------------------------
LEMMA OldAfterCall ==
  ASSUME OldInv, NEW m, NEW request, Called(m, request)
  PROVE  OldInv'
  BY OldQuiet DEF Called

LEMMA OldAfterRefusal ==
  ASSUME OldInv, outcome # "saved", NEW m, NEW ends, Refuse(m, ends)
  PROVE  OldInv'
  BY OldQuiet DEF Refuse

LEMMA OldAfterSave ==
  ASSUME OldInv, NEW m, NEW table, NEW n, Accept(m, table, n)
  PROVE  OldInv'
  BY OldSaved DEF Accept

\* The values are loaded at the first question, which is before the save.
LEMMA OldAfterOld ==
  ASSUME OldInv, Old
  PROVE  OldInv'
<1>1. old' = OldValue /\ (old = Nil => ~done) /\ UNCHANGED <<entity, rows, done, outcome, past>>
  BY DEF Old
<1>2. PICK c : told' = With(told, c, OldValue[1][c])
  BY DEF Old
<1>3. Row1' = Row1
  BY <1>1 DEF Row1, client
<1>4. \E n \in past : old' = Ptr(n)
  <2>1. CASE old = Nil
    <3>1. old' = Ptr(Row1)
      BY <1>1, <2>1 DEF OldValue, Row1
    <3> QED
      BY <1>1, <2>1, <3>1 DEF OldInv, Ended, Current
  <2>2. CASE old # Nil
    BY <1>1, <2>2 DEF OldInv, Loaded, OldValue
  <2> QED
    BY <2>1, <2>2
<1>5. old' # Nil
  BY <1>4, Pointers
<1>6. ASSUME NEW d \in DOMAIN told' PROVE told'[d] = old'[1][d]
  <2>1. CASE d = c
    BY <1>1, <1>2, <2>1 DEF With
  <2>2. CASE d # c
    <3>1. d \in DOMAIN told /\ told'[d] = told[d]
      BY <1>2, <1>6, <2>2 DEF With
    <3>2. old # Nil /\ told[d] = old[1][d]
      BY <3>1 DEF OldInv, Told
    <3> QED
      BY <1>1, <3>1, <3>2 DEF OldValue
  <2> QED
    BY <2>1, <2>2
<1>7. Told'
  BY <1>5, <1>6 DEF Told
<1> QED
  BY <1>1, <1>3, <1>4, <1>7 DEF OldInv, Ended, Current, Loaded

\* Another process changes the row, and what it becomes counts as past.
LEMMA OldAfterInterfere ==
  ASSUME OldInv, Interfere
  PROVE  OldInv'
<1>1. past' = past \cup {Read(client, rows'[1])}
  BY DEF Interfere
<1>2. UNCHANGED <<entity, old, done, outcome, told>>
  BY DEF Interfere
<1>3. Row1' \in past' /\ past \subseteq past'
  BY <1>1, <1>2 DEF Row1, client
<1> QED
  BY <1>2, <1>3 DEF OldInv, Ended, Current, Loaded, Told

LEMMA OldStep ==
  ASSUME OldInv, [BuilderNext]_builderVars
  PROVE  OldInv'
<1>1. CASE Set
  BY <1>1, OldAfterCall DEF Set
<1>2. CASE SetNillable
  BY <1>2, OldAfterCall DEF SetNillable
<1>3. CASE Add
  BY <1>3, OldAfterCall DEF Add
<1>4. CASE Append2
  BY <1>4, OldAfterCall DEF Append2
<1>5. CASE Clear
  BY <1>5, OldAfterCall DEF Clear
<1>6. CASE ClearToOne
  BY <1>6, OldAfterCall DEF ClearToOne
<1>7. CASE Reset
  BY <1>7, OldAfterCall DEF Reset
<1>8. CASE ResetToOne
  BY <1>8, OldAfterCall DEF ResetToOne
<1>9. CASE Where
  BY <1>9, OldAfterCall DEF Where
<1>10. CASE Old
  BY <1>10, OldAfterOld
<1>11. CASE Create
  BY <1>11, OldAfterSave, OldAfterRefusal DEF Create
<1>12. CASE Update
  BY <1>12, OldAfterSave, OldAfterRefusal DEF Update
<1>13. CASE Delete
  BY <1>13, OldAfterSave, OldAfterRefusal DEF Delete
<1>14. CASE Interfere
  BY <1>14, OldAfterInterfere
<1>15. CASE UNCHANGED builderVars
  BY <1>15 DEF builderVars, OldInv, Ended, Current, Loaded, Told, Row1, client
<1> QED
  BY <1>1, <1>2, <1>3, <1>4, <1>5, <1>6, <1>7, <1>8, <1>9, <1>10, <1>11, <1>12, <1>13, <1>14,
     <1>15 DEF BuilderNext

\* OldValuesAgree, for every entity, every number of calls and of updates by other
\* processes, and every set of columns and values that these set: oldValue loads the
\* row once, and not after the save.
THEOREM OldValuesBelongTogether == BuilderSpec => []OldValuesAgree
<1>1. BuilderInit => OldInv
  BY OldInit
<1>2. OldInv /\ [BuilderNext]_builderVars => OldInv'
  BY OldStep
<1>3. OldInv => OldValuesAgree
  BY ToldOfOneRow
<1> QED
  BY <1>1, <1>2, <1>3, PTL DEF BuilderSpec

-----------------------------------------------------------------------------
(***************************************************************************)
(* What ent generates fits together, entity by entity: nothing is set,     *)
(* defaulted or cleared that the update does not write, no default is for  *)
(* a column that can be cleared or added to, an edge is a column that must *)
(* not be NULL.  The rest of the proofs know of an entity no more.         *)
(***************************************************************************)
Kinds == {"text", "int", "list", "time"}

FieldsFit(e) ==
    /\ \A c \in DOMAIN e.fields : e.fields[c] \in Kinds
    /\ e.pointers \subseteq DOMAIN e.fields
    /\ e.check.required \subseteq DOMAIN e.fields
    /\ e.query.columns = DOMAIN e.fields
    /\ e.spec = DOMAIN e.fields

MethodsFit(e) ==
    /\ DOMAIN e.methods = DOMAIN e.fields
    /\ \A c \in DOMAIN e.fields : "ClearEdge" \in e.methods[c] => c \in e.update.edges

UpdateFits(e) ==
    /\ e.update.set \cup e.update.edges = DOMAIN e.fields
    /\ e.update.add \subseteq DOMAIN e.fields
    /\ e.update.clear \subseteq DOMAIN e.fields
    /\ e.update.edges \cap (e.update.add \cup e.update.clear) = {}
    /\ \A c \in e.update.add \cup e.update.edges : e.fields[c] # "time"

DefaultsFit(e, d) ==
    /\ d.times \cup DOMAIN d.values \subseteq DOMAIN e.fields
    /\ \A c \in d.times : e.fields[c] = "time"
    /\ \A c \in DOMAIN d.values : e.fields[c] # "time"

SavesFit(e) ==
    /\ DefaultsFit(e, e.defaults)
    /\ DefaultsFit(e, e.update.defaults)
    /\ (e.update.defaults.times \cup DOMAIN e.update.defaults.values)
         \cap (e.update.add \cup e.update.clear \cup e.update.edges) = {}

CallsFit(e) ==
    /\ DOMAIN e.setters = {"Set", "Nil"}
    /\ e.setters.Set \subseteq DOMAIN e.fields
    /\ DOMAIN e.updater = {"Set", "Nil", "Add", "Append", "Clear", "ClearEdge"}
    /\ e.updater.Set \subseteq DOMAIN e.fields
    /\ e.updater.Add \cup e.updater.Append \subseteq e.update.add
    /\ e.updater.Clear \subseteq e.update.clear
    /\ e.updater.ClearEdge \subseteq e.update.edges

TableFits(e, t) ==
    /\ e.query.from = t
    /\ Tables[t].notNull \subseteq DOMAIN e.fields
    /\ e.update.edges \subseteq Tables[t].notNull
    /\ \A c \in DOMAIN Tables[t].references : c \in DOMAIN e.fields /\ e.fields[c] # "time"

ChecksFit(e) ==
    /\ e.check.notEmpty = e.update.notEmpty
    /\ \A c \in e.check.notEmpty : c \in DOMAIN e.fields /\ e.fields[c] = "text"

WellFormed(e, t) ==
    /\ FieldsFit(e) /\ MethodsFit(e) /\ UpdateFits(e) /\ SavesFit(e) /\ CallsFit(e)
    /\ ChecksFit(e) /\ TableFits(e, t)

LEMMA AuditFits == WellFormed(AuditClient, "audits")
<1>1. FieldsFit(AuditClient)
  BY DEF FieldsFit, Kinds, AuditClient, AuditFields, AuditPointers, AuditQuery, AuditColumns,
        AuditSpec, Audit
<1>2. MethodsFit(AuditClient)
  BY DEF MethodsFit, AuditClient, AuditFields, AuditMethods, Plain, Listed, AuditUpdate
<1>3. UpdateFits(AuditClient)
  BY DEF UpdateFits, AuditClient, AuditFields, AuditUpdate
<1>4. SavesFit(AuditClient)
  BY DEF SavesFit, DefaultsFit, AuditClient, AuditFields, AuditDefaults, AuditUpdate, Now, NoFields
<1>5. CallsFit(AuditClient)
  BY DEF CallsFit, AuditClient, AuditFields, AuditSetters, AuditUpdater, Setters, Updater, AuditUpdate
<1>6. TableFits(AuditClient, "audits")
  <2>1. Tables["audits"] = AuditsTable
    BY DEF Tables
  <2> QED
    BY <2>1 DEF TableFits, Table, AuditsTable, NoFields, AuditClient, AuditFields, AuditQuery, AuditUpdate
<1>7. ChecksFit(AuditClient)
  <2>1. AuditClient.check.notEmpty = {"name"} /\ AuditClient.update.notEmpty = {"name"}
    BY DEF AuditClient, Audit, AuditUpdate
  <2>2. "name" \in DOMAIN AuditClient.fields /\ AuditClient.fields["name"] = "text"
    BY DEF AuditClient, AuditFields
  <2> QED
    BY <2>1, <2>2 DEF ChecksFit
<1> QED
  BY <1>1, <1>2, <1>3, <1>4, <1>5, <1>6, <1>7 DEF WellFormed

LEMMA AuditRunFits == WellFormed(AuditRunClient, "audit_runs")
<1>1. FieldsFit(AuditRunClient)
  BY DEF FieldsFit, Kinds, AuditRunClient, AuditRunFields, AuditRunPointers, AuditRunQuery,
        AuditRunColumns, AuditRunSpec, AuditRun
<1>2. MethodsFit(AuditRunClient)
  BY DEF MethodsFit, AuditRunClient, AuditRunFields, AuditRunTexts, AuditRunTimes, AuditRunEdge, Merge,
        Plain, Nullable, ToOne, AuditRunUpdate
<1>3. UpdateFits(AuditRunClient)
  BY DEF UpdateFits, AuditRunClient, AuditRunFields, AuditRunUpdate
<1>4. SavesFit(AuditRunClient)
  BY DEF SavesFit, DefaultsFit, AuditRunClient, AuditRunFields, AuditRunDefaults, AuditRunUpdate, Now,
        NoFields
<1>5. CallsFit(AuditRunClient)
  BY DEF CallsFit, AuditRunClient, AuditRunFields, AuditRunSetters, AuditRunUpdater, Setters, Updater,
        AuditRunUpdate
<1>6. TableFits(AuditRunClient, "audit_runs")
  <2>1. Tables["audit_runs"] = AuditRunsTable
    BY DEF Tables
  <2> QED
    BY <2>1 DEF TableFits, Table, AuditRunsTable, NoFields, AuditRunClient, AuditRunFields, AuditRunQuery,
          AuditRunUpdate
<1>7. ChecksFit(AuditRunClient)
  <2>1. AuditRunClient.check.notEmpty = {"status"} /\ AuditRunClient.update.notEmpty = {"status"}
    BY DEF AuditRunClient, AuditRun, AuditRunUpdate
  <2>2. "status" \in DOMAIN AuditRunClient.fields /\ AuditRunClient.fields["status"] = "text"
    BY DEF AuditRunClient, AuditRunFields
  <2> QED
    BY <2>1, <2>2 DEF ChecksFit
<1> QED
  BY <1>1, <1>2, <1>3, <1>4, <1>5, <1>6, <1>7 DEF WellFormed

LEMMA IssueFits == WellFormed(IssueClient, "issues")
<1>1. FieldsFit(IssueClient)
  BY DEF FieldsFit, Kinds, IssueClient, IssueFields, IssuePointers, IssueQuery, IssueColumns,
        IssueSpec, Issue
<1>2. MethodsFit(IssueClient)
  BY DEF MethodsFit, IssueClient, IssueFields, IssueEdgesAndTexts, IssueTextsAndTimes, Merge, Plain,
        Nullable, ToOne, IssueUpdate
<1>3. UpdateFits(IssueClient)
  BY DEF UpdateFits, IssueClient, IssueFields, IssueUpdate
<1>4. SavesFit(IssueClient)
  BY DEF SavesFit, DefaultsFit, IssueClient, IssueFields, IssueDefaults, IssueUpdate, Now, NoFields
<1>5. CallsFit(IssueClient)
  BY DEF CallsFit, IssueClient, IssueFields, IssueSetters, IssueUpdater, Setters, Updater, IssueUpdate
<1>6. TableFits(IssueClient, "issues")
  <2>1. Tables["issues"] = IssuesTable
    BY DEF Tables
  <2> QED
    BY <2>1 DEF TableFits, Table, IssuesTable, NoFields, IssueClient, IssueFields, IssueQuery, IssueUpdate
<1>7. ChecksFit(IssueClient)
  BY DEF ChecksFit, IssueClient, IssueFields, Issue, IssueUpdate
<1> QED
  BY <1>1, <1>2, <1>3, <1>4, <1>5, <1>6, <1>7 DEF WellFormed

LEMMA PolicyAuditFits == WellFormed(PolicyAuditClient, "policies")
<1>1. FieldsFit(PolicyAuditClient)
  BY DEF FieldsFit, Kinds, PolicyAuditClient, PolicyAuditFields, PolicyAuditPointers, PolicyAuditQuery,
        PolicyAuditColumns, PolicyAuditSpec, PolicyAudit
<1>2. MethodsFit(PolicyAuditClient)
  BY DEF MethodsFit, PolicyAuditClient, PolicyAuditFields, PolicyAuditMethods, Plain, Listed,
        PolicyAuditUpdate
<1>3. UpdateFits(PolicyAuditClient)
  BY DEF UpdateFits, PolicyAuditClient, PolicyAuditFields, PolicyAuditUpdate
<1>4. SavesFit(PolicyAuditClient)
  BY DEF SavesFit, DefaultsFit, PolicyAuditClient, PolicyAuditFields, PolicyAuditDefaults,
        PolicyAuditUpdate, Now, NoFields
<1>5. CallsFit(PolicyAuditClient)
  BY DEF CallsFit, PolicyAuditClient, PolicyAuditFields, PolicyAuditSetters, PolicyAuditUpdater,
        Setters, Updater, PolicyAuditUpdate
<1>6. TableFits(PolicyAuditClient, "policies")
  <2>1. Tables["policies"] = PoliciesTable
    BY DEF Tables
  <2> QED
    BY <2>1 DEF TableFits, Table, PoliciesTable, NoFields, PolicyAuditClient, PolicyAuditFields,
          PolicyAuditQuery, PolicyAuditUpdate
<1>7. ChecksFit(PolicyAuditClient)
  BY DEF ChecksFit, PolicyAuditClient, PolicyAuditFields, PolicyAudit, PolicyAuditUpdate
<1> QED
  BY <1>1, <1>2, <1>3, <1>4, <1>5, <1>6, <1>7 DEF WellFormed

LEMMA PolicyRunFits == WellFormed(PolicyRunClient, "policy_runs")
<1>1. FieldsFit(PolicyRunClient)
  BY DEF FieldsFit, Kinds, PolicyRunClient, PolicyRunFields, PolicyRunPointers, PolicyRunQuery,
        PolicyRunColumns, PolicyRunSpec, PolicyRun
<1>2. MethodsFit(PolicyRunClient)
  BY DEF MethodsFit, PolicyRunClient, PolicyRunFields, PolicyRunNumberAndText, PolicyRunListAndTimes,
        Merge, Plain, Nullable, Number, Listed, PolicyRunUpdate
<1>3. UpdateFits(PolicyRunClient)
  BY DEF UpdateFits, PolicyRunClient, PolicyRunFields, PolicyRunUpdate
<1>4. SavesFit(PolicyRunClient)
  BY DEF SavesFit, DefaultsFit, PolicyRunClient, PolicyRunFields, PolicyRunDefaults, PolicyRunUpdate,
        Now, NoFields, NoDefaults
<1>5. CallsFit(PolicyRunClient)
  BY DEF CallsFit, PolicyRunClient, PolicyRunFields, PolicyRunSetters, PolicyRunUpdater, Setters,
        Updater, PolicyRunUpdate
<1>6. TableFits(PolicyRunClient, "policy_runs")
  <2>1. Tables["policy_runs"] = PolicyRunsTable
    BY DEF Tables
  <2> QED
    BY <2>1 DEF TableFits, Table, PolicyRunsTable, NoFields, PolicyRunClient, PolicyRunFields,
          PolicyRunQuery, PolicyRunUpdate
<1>7. ChecksFit(PolicyRunClient)
  BY DEF ChecksFit, PolicyRunClient, PolicyRunFields, PolicyRun, PolicyRunUpdate
<1> QED
  BY <1>1, <1>2, <1>3, <1>4, <1>5, <1>6, <1>7 DEF WellFormed

LEMMA ScheduleFits == WellFormed(ScheduleClient, "schedules")
<1>1. FieldsFit(ScheduleClient)
  BY DEF FieldsFit, Kinds, ScheduleClient, ScheduleFields, SchedulePointers, ScheduleQuery,
        ScheduleColumns, ScheduleSpec, Schedule
<1>2. MethodsFit(ScheduleClient)
  BY DEF MethodsFit, ScheduleClient, ScheduleFields, ScheduleTarget, ScheduleTimes, Merge, Plain,
        Number, ScheduleUpdate
<1>3. UpdateFits(ScheduleClient)
  BY DEF UpdateFits, ScheduleClient, ScheduleFields, ScheduleUpdate
<1>4. SavesFit(ScheduleClient)
  BY DEF SavesFit, DefaultsFit, ScheduleClient, ScheduleFields, ScheduleDefaults, ScheduleUpdate, Now,
        NoFields, NoDefaults
<1>5. CallsFit(ScheduleClient)
  BY DEF CallsFit, ScheduleClient, ScheduleFields, ScheduleSetters, ScheduleUpdater, Setters, Updater,
        ScheduleUpdate
<1>6. TableFits(ScheduleClient, "schedules")
  <2>1. Tables["schedules"] = SchedulesTable
    BY DEF Tables
  <2> QED
    BY <2>1 DEF TableFits, Table, SchedulesTable, NoFields, ScheduleClient, ScheduleFields, ScheduleQuery,
          ScheduleUpdate
<1>7. ChecksFit(ScheduleClient)
  BY DEF ChecksFit, ScheduleClient, ScheduleFields, Schedule, ScheduleUpdate
<1> QED
  BY <1>1, <1>2, <1>3, <1>4, <1>5, <1>6, <1>7 DEF WellFormed

LEMMA UserFits == WellFormed(UserClient, "users")
<1>1. FieldsFit(UserClient)
  BY DEF FieldsFit, Kinds, UserClient, UserFields, UserPointers, UserQuery, UserColumns, UserSpec, User
<1>2. MethodsFit(UserClient)
  BY DEF MethodsFit, UserClient, UserFields, UserMethods, Plain, UserUpdate
<1>3. UpdateFits(UserClient)
  BY DEF UpdateFits, UserClient, UserFields, UserUpdate
<1>4. SavesFit(UserClient)
  BY DEF SavesFit, DefaultsFit, UserClient, UserFields, UserDefaults, UserUpdate, Now, NoFields,
        NoDefaults
<1>5. CallsFit(UserClient)
  BY DEF CallsFit, UserClient, UserFields, UserSetters, UserUpdater, Setters, Updater, UserUpdate
<1>6. TableFits(UserClient, "users")
  <2>1. Tables["users"] = UsersTable
    BY DEF Tables
  <2> QED
    BY <2>1 DEF TableFits, Table, UsersTable, NoFields, UserClient, UserFields, UserQuery, UserUpdate
<1>7. ChecksFit(UserClient)
  BY DEF ChecksFit, UserClient, UserFields, User, UserUpdate
<1> QED
  BY <1>1, <1>2, <1>3, <1>4, <1>5, <1>6, <1>7 DEF WellFormed

LEMMA EntitiesFit == ASSUME NEW t \in DOMAIN Clients PROVE WellFormed(Clients[t], t)
<1>1. t \in {"audits", "audit_runs", "issues", "policies", "policy_runs", "schedules", "users"}
  BY DEF Clients
<1>2. CASE t = "audits"
  <2>1. Clients[t] = AuditClient
    BY <1>2 DEF Clients
  <2> QED
    BY <1>2, <2>1, AuditFits
<1>3. CASE t = "audit_runs"
  <2>1. Clients[t] = AuditRunClient
    BY <1>3 DEF Clients
  <2> QED
    BY <1>3, <2>1, AuditRunFits
<1>4. CASE t = "issues"
  <2>1. Clients[t] = IssueClient
    BY <1>4 DEF Clients
  <2> QED
    BY <1>4, <2>1, IssueFits
<1>5. CASE t = "policies"
  <2>1. Clients[t] = PolicyAuditClient
    BY <1>5 DEF Clients
  <2> QED
    BY <1>5, <2>1, PolicyAuditFits
<1>6. CASE t = "policy_runs"
  <2>1. Clients[t] = PolicyRunClient
    BY <1>6 DEF Clients
  <2> QED
    BY <1>6, <2>1, PolicyRunFits
<1>7. CASE t = "schedules"
  <2>1. Clients[t] = ScheduleClient
    BY <1>7 DEF Clients
  <2> QED
    BY <1>7, <2>1, ScheduleFits
<1>8. CASE t = "users"
  <2>1. Clients[t] = UserClient
    BY <1>8 DEF Clients
  <2> QED
    BY <1>8, <2>1, UserFits
<1> QED
  BY <1>1, <1>2, <1>3, <1>4, <1>5, <1>6, <1>7, <1>8

-----------------------------------------------------------------------------
(***************************************************************************)
(* The induction: a mutation keeps to its entity's columns, it holds what  *)
(* the calls asked for or cannot be saved, and the rows hold time stamps   *)
(* as Postgres stores them.                                                *)
(***************************************************************************)
\* The defaults that the builder's save fills in.
Defaults(e, op) == IF op = "create" THEN e.defaults ELSE e.update.defaults

\* A mutation of the entity e, as any sequence of calls may leave it.
IsMutation(e, m) ==
    /\ DOMAIN m = {"op", "id", "where", "set", "added", "cleared"}
    /\ m.op \in {"create", "update", "updateOne", "delete", "deleteOne"}
    /\ m.op = "updateOne" => m.id = Ptr(m.id[1])
    /\ DOMAIN m.set \subseteq DOMAIN e.fields
    /\ \A c \in DOMAIN m.set : e.fields[c] = "time" => m.set[c] \in Nat
    /\ DOMAIN m.added \subseteq e.update.add
    /\ m.cleared \subseteq e.update.clear \cup e.update.edges
    /\ \A c \in m.cleared : {"Clear", "ClearEdge"} \cap e.methods[c] # {}
    /\ m.op = "create" => DOMAIN m.added = {} /\ m.cleared = {}

\* Nobody asked for the column: it is as it was, or has its default, or its edge is
\* cleared, which no row survives.
Unasked(e, m, c) ==
    LET d == Defaults(e, m.op)
    IN  /\ c \notin DOMAIN m.added
        /\ c \in m.cleared => c \in e.update.edges
        /\ c \in DOMAIN m.set =>
             \/ c \in d.times /\ m.set[c] = Clock
             \/ c \in DOMAIN d.values /\ m.set[c] = d.values[c]

\* The mutation holds what was asked of a column, or contradicts itself.
Holds(e, m, a, c) ==
    \/ c \notin DOMAIN a /\ Unasked(e, m, c)
    \/ /\ c \in DOMAIN a /\ a[c][1] = "is"
       /\ \/ c \in DOMAIN m.set /\ c \notin DOMAIN m.added /\ m.set[c] = a[c][2]
          \/ c \in DOMAIN m.added /\ c \in m.cleared
    \/ /\ c \in DOMAIN a /\ a[c] = <<"null">>
       /\ c \in m.cleared /\ c \notin DOMAIN m.added
       /\ c \in DOMAIN m.set => c \in e.update.edges
    \/ /\ c \in DOMAIN a /\ a[c][1] = "plus"
       /\ c \in DOMAIN m.added /\ c \notin DOMAIN m.set /\ c \notin m.cleared
       /\ m.added[c] = a[c][2]

Kept(e, m, a) ==
    /\ IsMutation(e, m)
    /\ DOMAIN a \subseteq DOMAIN e.fields
    /\ \A c \in DOMAIN e.fields : Holds(e, m, a, c)

\* Time stamps as Postgres has them.
Rows(e, table) ==
    /\ DOMAIN table = {1, 2}
    /\ table = [i \in DOMAIN table |-> table[i]]
    /\ DOMAIN table[1] = DOMAIN e.fields
    /\ table[1] = [c \in DOMAIN table[1] |-> table[1][c]]
    /\ \A i \in DOMAIN table : \A c \in DOMAIN table[i] \cap DOMAIN e.fields :
         e.fields[c] = "time" => table[i][c] \in Nat /\ (table[i][c] % 2) = 0

BuilderInv ==
    /\ BuilderTypeOK
    /\ IsMutation(client, mutation)
    /\ outcome # "saved" => Kept(client, mutation, asked) /\ Rows(client, rows) /\ node = Nil
    /\ outcome = "saved" => NodeTellsRow

-----------------------------------------------------------------------------
(***************************************************************************)
(* The operators of Ent.                                                   *)
(***************************************************************************)
\* A time stamp once stored stays as it is.
LEMMA StoredTime ==
  ASSUME NEW v \in Nat
  PROVE  /\ Stored("time", v) \in Nat
         /\ (Stored("time", v) % 2) = 0
         /\ (v % 2) = 0 => Stored("time", v) = v
<1>1. (v % 2) \in {0, 1}
  OBVIOUS
<1>2. ((v + (v % 2)) % 2) = 0
  BY <1>1
<1> QED
  BY <1>1, <1>2 DEF Stored

LEMMA StoredOther == ASSUME NEW k, k # "time", NEW v PROVE Stored(k, v) = v
  BY DEF Stored

LEMMA DefaultedIs ==
  ASSUME NEW m, DOMAIN m = {"op", "id", "where", "set", "added", "cleared"}, NEW d, NEW now,
         NEW n, n = Defaulted(d, m, now)
  PROVE  /\ DOMAIN n = DOMAIN m /\ n.op = m.op /\ n.id = m.id /\ n.where = m.where
         /\ n.added = m.added /\ n.cleared = m.cleared
         /\ DOMAIN n.set = DOMAIN m.set \cup DOMAIN d.values \cup d.times
         /\ \A c \in DOMAIN m.set : n.set[c] = m.set[c]
         /\ \A c \in DOMAIN d.values \ DOMAIN m.set : n.set[c] = d.values[c]
         /\ \A c \in d.times \ (DOMAIN d.values \cup DOMAIN m.set) : n.set[c] = now
<1>1. n = [m EXCEPT !.set = Merge(Merge(m.set, d.values), [c \in d.times |-> now])]
  BY DEF Defaulted
<1>2. n.set = Merge(Merge(m.set, d.values), [c \in d.times |-> now])
  BY <1>1
<1>3. /\ DOMAIN n = DOMAIN m /\ n.op = m.op /\ n.id = m.id /\ n.where = m.where
      /\ n.added = m.added /\ n.cleared = m.cleared
  BY <1>1
<1> QED
  BY <1>2, <1>3 DEF Merge

-----------------------------------------------------------------------------
(***************************************************************************)
(* Calls keep a mutation what it is, and holding what was asked.           *)
(***************************************************************************)
\* A column that a call is not about.
LEMMA HoldsElsewhere ==
  ASSUME NEW e, NEW m, NEW n, NEW a, NEW b, NEW c, Holds(e, m, a, c),
         n.op = m.op,
         c \in DOMAIN n.set <=> c \in DOMAIN m.set,
         c \in DOMAIN m.set => n.set[c] = m.set[c],
         c \in DOMAIN n.added <=> c \in DOMAIN m.added,
         c \in DOMAIN m.added => n.added[c] = m.added[c],
         c \in n.cleared <=> c \in m.cleared,
         c \in DOMAIN b <=> c \in DOMAIN a,
         c \in DOMAIN a => b[c] = a[c]
  PROVE  Holds(e, n, b, c)
  BY DEF Holds, Unasked

LEMMA KeptBySet ==
  ASSUME NEW e, NEW m, NEW a, Kept(e, m, a), NEW c \in DOMAIN e.fields, NEW v,
         e.fields[c] = "time" => v \in Nat,
         NEW n, n = SetField(m, c, v), NEW b, b = With(a, c, <<"is", v>>)
  PROVE  Kept(e, n, b)
<1>1. DOMAIN m = {"op", "id", "where", "set", "added", "cleared"}
  BY DEF Kept, IsMutation
<1>2. /\ DOMAIN n = DOMAIN m /\ n.op = m.op /\ n.id = m.id
      /\ n.set = With(m.set, c, v) /\ n.added = Without(m.added, c) /\ n.cleared = m.cleared
  BY <1>1 DEF SetField
<1>3. /\ DOMAIN n.set = DOMAIN m.set \cup {c} /\ n.set[c] = v
      /\ \A d \in DOMAIN m.set : d # c => n.set[d] = m.set[d]
  BY <1>2 DEF With
<1>4. /\ DOMAIN n.added = DOMAIN m.added \ {c}
      /\ \A d \in DOMAIN m.added : d # c => n.added[d] = m.added[d]
  BY <1>2 DEF Without, Restrict
<1>5. /\ DOMAIN b = DOMAIN a \cup {c} /\ b[c] = <<"is", v>>
      /\ \A d \in DOMAIN a : d # c => b[d] = a[d]
  BY DEF With
<1>6. IsMutation(e, n)
  BY <1>2, <1>3, <1>4 DEF Kept, IsMutation
<1>7. Holds(e, n, b, c)
  BY <1>3, <1>4, <1>5 DEF Holds
<1>8. ASSUME NEW d \in DOMAIN e.fields, d # c PROVE Holds(e, n, b, d)
  <2>1. Holds(e, m, a, d)
    BY DEF Kept
  <2> QED
    BY <1>2, <1>3, <1>4, <1>5, <1>8, <2>1, HoldsElsewhere
<1>9. DOMAIN b \subseteq DOMAIN e.fields
  BY <1>5 DEF Kept
<1> QED
  BY <1>6, <1>7, <1>8, <1>9 DEF Kept

LEMMA KeptByClear ==
  ASSUME NEW e, NEW t, WellFormed(e, t), NEW m, NEW a, Kept(e, m, a), NEW c \in DOMAIN e.fields,
         m.op # "create", c \in e.update.clear, "Clear" \in e.methods[c],
         NEW n, n = ClearField(m, c), NEW b, b = With(a, c, <<"null">>)
  PROVE  Kept(e, n, b)
<1>1. DOMAIN m = {"op", "id", "where", "set", "added", "cleared"}
  BY DEF Kept, IsMutation
<1>2. /\ DOMAIN n = DOMAIN m /\ n.op = m.op /\ n.id = m.id
      /\ n.set = Without(m.set, c) /\ n.added = Without(m.added, c) /\ n.cleared = m.cleared \cup {c}
  BY <1>1 DEF ClearField
<1>3. /\ DOMAIN n.set = DOMAIN m.set \ {c}
      /\ \A d \in DOMAIN m.set : d # c => n.set[d] = m.set[d]
  BY <1>2 DEF Without, Restrict
<1>4. /\ DOMAIN n.added = DOMAIN m.added \ {c}
      /\ \A d \in DOMAIN m.added : d # c => n.added[d] = m.added[d]
  BY <1>2 DEF Without, Restrict
<1>5. /\ DOMAIN b = DOMAIN a \cup {c} /\ b[c] = <<"null">>
      /\ \A d \in DOMAIN a : d # c => b[d] = a[d]
  BY DEF With
<1>6. IsMutation(e, n)
  BY <1>1, <1>2, <1>3, <1>4 DEF Kept, IsMutation
<1>7. Holds(e, n, b, c)
  <2>1. Holds(e, m, a, c)
    BY DEF Kept
  <2> QED
    BY <1>2, <1>3, <1>4, <1>5, <2>1 DEF Holds, Unasked, Kept, IsMutation
<1>8. ASSUME NEW d \in DOMAIN e.fields, d # c PROVE Holds(e, n, b, d)
  <2>1. Holds(e, m, a, d)
    BY DEF Kept
  <2> QED
    BY <1>2, <1>3, <1>4, <1>5, <1>8, <2>1, HoldsElsewhere
<1>9. DOMAIN b \subseteq DOMAIN e.fields
  BY <1>5 DEF Kept
<1> QED
  BY <1>6, <1>7, <1>8, <1>9 DEF Kept

LEMMA KeptByClearEdge ==
  ASSUME NEW e, NEW t, WellFormed(e, t), NEW m, NEW a, Kept(e, m, a), NEW c \in DOMAIN e.fields,
         m.op # "create", c \in e.update.edges, "ClearEdge" \in e.methods[c],
         NEW n, n = ClearEdge(m, c), NEW b, b = With(a, c, <<"null">>)
  PROVE  Kept(e, n, b)
<1>1. DOMAIN m = {"op", "id", "where", "set", "added", "cleared"}
  BY DEF Kept, IsMutation
<1>2. /\ DOMAIN n = DOMAIN m /\ n.op = m.op /\ n.id = m.id
      /\ n.set = m.set /\ n.added = m.added /\ n.cleared = m.cleared \cup {c}
  BY <1>1 DEF ClearEdge
<1>5. /\ DOMAIN b = DOMAIN a \cup {c} /\ b[c] = <<"null">>
      /\ \A d \in DOMAIN a : d # c => b[d] = a[d]
  BY DEF With
<1>6. IsMutation(e, n)
  BY <1>1, <1>2 DEF Kept, IsMutation, WellFormed, UpdateFits
<1>7. Holds(e, n, b, c)
  <2>1. Holds(e, m, a, c)
    BY DEF Kept
  <2> QED
    BY <1>2, <1>5, <2>1 DEF Holds, Unasked, Kept, IsMutation, WellFormed, UpdateFits
<1>8. ASSUME NEW d \in DOMAIN e.fields, d # c PROVE Holds(e, n, b, d)
  <2>1. Holds(e, m, a, d)
    BY DEF Kept
  <2> QED
    BY <1>2, <1>5, <1>8, <2>1, HoldsElsewhere
<1>9. DOMAIN b \subseteq DOMAIN e.fields
  BY <1>5 DEF Kept
<1> QED
  BY <1>6, <1>7, <1>8, <1>9 DEF Kept

LEMMA KeptByReset ==
  ASSUME NEW e, NEW t, WellFormed(e, t), NEW m, NEW a, Kept(e, m, a), NEW c \in DOMAIN e.fields,
         
         NEW n, n = ResetField(m, c), NEW b, b = Without(a, c)
  PROVE  Kept(e, n, b)
<1>1. DOMAIN m = {"op", "id", "where", "set", "added", "cleared"}
  BY DEF Kept, IsMutation
<1>2. /\ DOMAIN n = DOMAIN m /\ n.op = m.op /\ n.id = m.id
      /\ n.set = Without(m.set, c) /\ n.added = Without(m.added, c) /\ n.cleared = m.cleared \ {c}
  BY <1>1 DEF ResetField
<1>3. /\ DOMAIN n.set = DOMAIN m.set \ {c}
      /\ \A d \in DOMAIN m.set : d # c => n.set[d] = m.set[d]
  BY <1>2 DEF Without, Restrict
<1>4. /\ DOMAIN n.added = DOMAIN m.added \ {c}
      /\ \A d \in DOMAIN m.added : d # c => n.added[d] = m.added[d]
  BY <1>2 DEF Without, Restrict
<1>5. /\ DOMAIN b = DOMAIN a \ {c}
      /\ \A d \in DOMAIN a : d # c => b[d] = a[d]
  BY DEF Without, Restrict
<1>6. IsMutation(e, n)
  BY <1>1, <1>2, <1>3, <1>4 DEF Kept, IsMutation
<1>7. Holds(e, n, b, c)
  <2>1. Holds(e, m, a, c)
    BY DEF Kept
  <2> QED
    BY <1>2, <1>3, <1>4, <1>5, <2>1 DEF Holds, Unasked, Kept, IsMutation
<1>8. ASSUME NEW d \in DOMAIN e.fields, d # c PROVE Holds(e, n, b, d)
  <2>1. Holds(e, m, a, d)
    BY DEF Kept
  <2> QED
    BY <1>2, <1>3, <1>4, <1>5, <1>8, <2>1, HoldsElsewhere
<1>9. DOMAIN b \subseteq DOMAIN e.fields
  BY <1>5 DEF Kept
<1> QED
  BY <1>6, <1>7, <1>8, <1>9 DEF Kept

\* The edge stays cleared, but then no save succeeds.
LEMMA KeptByResetEdge ==
  ASSUME NEW e, NEW t, WellFormed(e, t), NEW m, NEW a, Kept(e, m, a), NEW c \in DOMAIN e.fields,
         c \in e.update.edges,
         NEW n, n = ResetEdgeField(m, c), NEW b, b = Without(a, c)
  PROVE  Kept(e, n, b)
<1>1. DOMAIN m = {"op", "id", "where", "set", "added", "cleared"}
  BY DEF Kept, IsMutation
<1>2. /\ DOMAIN n = DOMAIN m /\ n.op = m.op /\ n.id = m.id
      /\ n.set = Without(m.set, c) /\ n.added = m.added /\ n.cleared = m.cleared
  BY <1>1 DEF ResetEdgeField
<1>3. /\ DOMAIN n.set = DOMAIN m.set \ {c}
      /\ \A d \in DOMAIN m.set : d # c => n.set[d] = m.set[d]
  BY <1>2 DEF Without, Restrict
<1>5. /\ DOMAIN b = DOMAIN a \ {c}
      /\ \A d \in DOMAIN a : d # c => b[d] = a[d]
  BY DEF Without, Restrict
<1>6. IsMutation(e, n)
  BY <1>1, <1>2, <1>3 DEF Kept, IsMutation, WellFormed, UpdateFits
<1>7. Holds(e, n, b, c)
  <2>1. Holds(e, m, a, c)
    BY DEF Kept
  <2> QED
    BY <1>2, <1>3, <1>5, <2>1 DEF Holds, Unasked, Kept, IsMutation, WellFormed, UpdateFits
<1>8. ASSUME NEW d \in DOMAIN e.fields, d # c PROVE Holds(e, n, b, d)
  <2>1. Holds(e, m, a, d)
    BY DEF Kept
  <2> QED
    BY <1>2, <1>3, <1>5, <1>8, <2>1, HoldsElsewhere
<1>9. DOMAIN b \subseteq DOMAIN e.fields
  BY <1>5 DEF Kept
<1> QED
  BY <1>6, <1>7, <1>8, <1>9 DEF Kept

\* A sum is added to what was asked for, or begins anew after NULL.
LEMMA KeptByAdd ==
  ASSUME NEW e, NEW t, WellFormed(e, t), NEW m, NEW a, Kept(e, m, a), NEW c \in DOMAIN e.fields,
         m.op # "create", c \in e.update.add, c \notin DOMAIN m.set, NEW v, NEW p,
         c \notin DOMAIN a => p = <<"plus", v>>,
         c \in DOMAIN a /\ a[c] = <<"null">> => p = <<"is", v>>,
         c \in DOMAIN a /\ a[c] # <<"null">> => p = <<a[c][1], Sum2(e.fields[c], a[c][2], v)>>,
         NEW n, n = AddField(e, m, c, v), NEW b, b = With(a, c, p)
  PROVE  Kept(e, n, b)
<1>1. DOMAIN m = {"op", "id", "where", "set", "added", "cleared"}
  BY DEF Kept, IsMutation
<1> DEFINE w == IF c \in DOMAIN m.added THEN Sum2(e.fields[c], m.added[c], v) ELSE v
<1>2. /\ DOMAIN n = DOMAIN m /\ n.op = m.op /\ n.id = m.id
      /\ n.set = m.set /\ n.added = With(m.added, c, w) /\ n.cleared = m.cleared
  BY <1>1 DEF AddField
<1>3. /\ DOMAIN n.added = DOMAIN m.added \cup {c} /\ n.added[c] = w
      /\ \A d \in DOMAIN m.added : d # c => n.added[d] = m.added[d]
  BY <1>2 DEF With
<1>4. /\ DOMAIN b = DOMAIN a \cup {c} /\ b[c] = p
      /\ \A d \in DOMAIN a : d # c => b[d] = a[d]
  BY DEF With
<1>5. IsMutation(e, n)
  BY <1>1, <1>2, <1>3 DEF Kept, IsMutation
<1>6. Holds(e, n, b, c)
  <2>1. c \notin e.update.edges
    BY DEF WellFormed, UpdateFits
  <2>2. CASE c \notin DOMAIN a /\ Unasked(e, m, c)
    BY <1>2, <1>3, <1>4, <2>1, <2>2 DEF Holds, Unasked
  <2>3. CASE c \in DOMAIN a /\ a[c][1] = "is" /\ c \in DOMAIN m.added /\ c \in m.cleared
    <3>1. a[c] # <<"null">>
      BY <2>3
    <3>2. p[1] = "is"
      BY <2>3, <3>1
    <3> QED
      BY <1>2, <1>3, <1>4, <2>3, <3>2 DEF Holds
  <2>4. CASE c \in DOMAIN a /\ a[c] = <<"null">> /\ c \in m.cleared
    BY <1>2, <1>3, <1>4, <2>4 DEF Holds
  <2>5. CASE /\ c \in DOMAIN a /\ a[c][1] = "plus" /\ c \in DOMAIN m.added
             /\ c \notin m.cleared /\ m.added[c] = a[c][2]
    <3>1. a[c] # <<"null">>
      BY <2>5
    <3>2. p[1] = "plus" /\ p[2] = w
      BY <2>5, <3>1
    <3> QED
      BY <1>2, <1>3, <1>4, <2>5, <3>2 DEF Holds
  <2>6. Holds(e, m, a, c)
    BY DEF Kept
  <2> QED
    BY <2>2, <2>3, <2>4, <2>5, <2>6 DEF Holds
<1>7. ASSUME NEW d \in DOMAIN e.fields, d # c PROVE Holds(e, n, b, d)
  <2>1. Holds(e, m, a, d)
    BY DEF Kept
  <2> QED
    BY <1>2, <1>3, <1>4, <1>7, <2>1, HoldsElsewhere
<1>8. DOMAIN b \subseteq DOMAIN e.fields
  BY <1>4 DEF Kept
<1> QED
  BY <1>5, <1>6, <1>7, <1>8 DEF Kept

\* A save that is refused leaves the defaults behind.
LEMMA KeptByDefaults ==
  ASSUME NEW e, NEW t, WellFormed(e, t), NEW m, NEW a, Kept(e, m, a),
         NEW d, d = Defaults(e, m.op), NEW n, n = Defaulted(d, m, Clock)
  PROVE  Kept(e, n, a)
<1>1. DOMAIN m = {"op", "id", "where", "set", "added", "cleared"}
  BY DEF Kept, IsMutation
<1>2. /\ DOMAIN n = DOMAIN m /\ n.op = m.op /\ n.id = m.id
      /\ n.added = m.added /\ n.cleared = m.cleared
      /\ DOMAIN n.set = DOMAIN m.set \cup DOMAIN d.values \cup d.times
      /\ \A c \in DOMAIN m.set : n.set[c] = m.set[c]
      /\ \A c \in DOMAIN d.values \ DOMAIN m.set : n.set[c] = d.values[c]
      /\ \A c \in d.times \ (DOMAIN d.values \cup DOMAIN m.set) : n.set[c] = Clock
  BY <1>1, DefaultedIs
<1>3. /\ d.times \cup DOMAIN d.values \subseteq DOMAIN e.fields
      /\ \A c \in DOMAIN d.values : e.fields[c] # "time"
      /\ m.op # "create" =>
           (d.times \cup DOMAIN d.values) \cap (e.update.add \cup e.update.clear) = {}
  BY DEF Defaults, WellFormed, SavesFit, DefaultsFit
<1>4. Clock \in Nat
  BY BuilderAssumption DEF Clock, Moment
<1>5. IsMutation(e, n)
  <2>1. \A c \in DOMAIN n.set : e.fields[c] = "time" => n.set[c] \in Nat
    BY <1>2, <1>3, <1>4 DEF Kept, IsMutation
  <2> QED
    BY <1>1, <1>2, <1>3, <2>1 DEF Kept, IsMutation
<1>6. ASSUME NEW c \in DOMAIN e.fields PROVE Holds(e, n, a, c)
  <2>1. Holds(e, m, a, c)
    BY DEF Kept
  <2>2. DOMAIN m.added \subseteq e.update.add /\ m.cleared \subseteq e.update.clear \cup e.update.edges
    BY DEF Kept, IsMutation
  <2>3. m.op = "create" => c \notin DOMAIN m.added /\ c \notin m.cleared
    BY DEF Kept, IsMutation
  <2>4. CASE c \in DOMAIN m.set
    BY <1>2, <2>1, <2>4, HoldsElsewhere
  <2>5. CASE c \notin DOMAIN m.set /\ c \notin DOMAIN d.values \cup d.times
    BY <1>2, <2>1, <2>5, HoldsElsewhere
  <2>6. CASE c \notin DOMAIN m.set /\ c \in DOMAIN d.values \cup d.times
    <3>1. c \notin DOMAIN m.added
      BY <1>3, <2>2, <2>3, <2>6
    <3>2. c \in m.cleared => c \in e.update.edges
      BY <1>3, <2>2, <2>3, <2>6
    <3>3. CASE c \notin DOMAIN a
      BY <1>2, <2>1, <2>6, <3>1, <3>2, <3>3 DEF Holds, Unasked
    <3>4. CASE c \in DOMAIN a
      BY <1>2, <2>1, <2>6, <3>1, <3>2, <3>4 DEF Holds
    <3> QED
      BY <3>3, <3>4
  <2> QED
    BY <2>4, <2>5, <2>6
<1> QED
  BY <1>5, <1>6 DEF Kept

-----------------------------------------------------------------------------
(***************************************************************************)
(* Nodes.                                                                  *)
(***************************************************************************)
LEMMA AssignedNode == ASSUME NEW e, FieldsFit(e), NEW f PROVE NodeOf(e, Assign(e, f))
<1> DEFINE n == Assign(e, f)
<1>1. DOMAIN n = DOMAIN e.fields
  BY DEF Assign
<1>2. ASSUME NEW c \in e.pointers PROVE n[c] = Nil \/ \E v : n[c] = <<v>>
  BY <1>2 DEF Assign, Ptr, FieldsFit
<1>3. \A v : Len(<<v>>) = 1
  OBVIOUS
<1> HIDE DEF n
<1> QED
  BY <1>1, <1>2, <1>3 DEF NodeOf, n

LEMMA ReadNode == ASSUME NEW e, FieldsFit(e), NEW row PROVE NodeOf(e, Read(e, row))
  BY AssignedNode DEF Read

\* Rounded, of any entity.
RoundedBy(e, n) ==
    [c \in DOMAIN n |->
        CASE e.fields[c] # "time" -> n[c]
          [] e.fields[c] = "time" /\ c \notin e.pointers -> Stored("time", n[c])
          [] e.fields[c] = "time" /\ c \in e.pointers ->
               IF n[c] = Nil THEN Nil ELSE Ptr(Stored("time", n[c][1]))]

LEMMA ZeroTime == Zero("time") = 0 /\ Stored("time", 0) = 0
<1>1. Zero("time") = 0
  BY Zenon DEF Zero
<1> QED
  BY <1>1 DEF Stored

\* The node of fields becomes the node of what is stored of them.
LEMMA RoundedIsStored ==
  ASSUME NEW e, FieldsFit(e), NEW f, DOMAIN f \subseteq DOMAIN e.fields,
         \A c \in DOMAIN f : e.fields[c] = "time" => f[c] \in Nat
  PROVE  RoundedBy(e, Assign(e, f)) = Assign(e, StoredFields(e, f))
<1> DEFINE n == Assign(e, f)
           g == StoredFields(e, f)
<1>1. DOMAIN n = DOMAIN e.fields /\ DOMAIN Assign(e, g) = DOMAIN e.fields
  BY DEF Assign
<1>2. DOMAIN g = DOMAIN f /\ \A c \in DOMAIN f : g[c] = Stored(e.fields[c], f[c])
  BY DEF StoredFields
<1>3. ASSUME NEW c \in DOMAIN e.fields PROVE RoundedBy(e, n)[c] = Assign(e, g)[c]
  <2>1. CASE e.fields[c] # "time"
    <3>1. c \in DOMAIN f => g[c] = f[c]
      BY <1>2, <2>1 DEF Stored
    <3>2. RoundedBy(e, n)[c] = n[c]
      BY <1>1, <2>1 DEF RoundedBy
    <3> QED
      BY <1>2, <3>1, <3>2 DEF Assign
  <2>2. CASE e.fields[c] = "time" /\ c \notin e.pointers
    <3>1. RoundedBy(e, n)[c] = Stored("time", n[c])
      BY <1>1, <2>2 DEF RoundedBy
    <3>2. CASE c \in DOMAIN f
      BY <1>2, <2>2, <3>1, <3>2 DEF Assign
    <3>3. CASE c \notin DOMAIN f
      BY <1>2, <2>2, <3>1, <3>3, ZeroTime DEF Assign
    <3> QED
      BY <3>2, <3>3
  <2>3. CASE e.fields[c] = "time" /\ c \in e.pointers
    <3>1. RoundedBy(e, n)[c] = IF n[c] = Nil THEN Nil ELSE Ptr(Stored("time", n[c][1]))
      BY <1>1, <2>3 DEF RoundedBy
    <3>2. CASE c \in DOMAIN f
      <4>1. n[c] = Ptr(f[c]) /\ Assign(e, g)[c] = Ptr(g[c])
        BY <1>2, <2>3, <3>2 DEF Assign
      <4> QED
        BY <1>2, <2>3, <3>1, <3>2, <4>1, Pointers
    <3>3. CASE c \notin DOMAIN f
      BY <1>2, <2>3, <3>1, <3>3 DEF Assign
    <3> QED
      BY <3>2, <3>3
  <2> QED
    BY <2>1, <2>2, <2>3
<1>4. DOMAIN RoundedBy(e, n) = DOMAIN e.fields
  BY <1>1 DEF RoundedBy
<1>5. RoundedBy(e, n) = [c \in DOMAIN e.fields |-> RoundedBy(e, n)[c]]
  BY <1>4 DEF RoundedBy
<1>6. Assign(e, g) = [c \in DOMAIN e.fields |-> Assign(e, g)[c]]
  BY DEF Assign
<1> QED
  BY <1>3, <1>5, <1>6

\* A row of time stamps as Postgres has them is read as it is.
LEMMA ReadIsRounded ==
  ASSUME NEW e, FieldsFit(e), NEW row,
         \A c \in DOMAIN row \cap DOMAIN e.fields :
            e.fields[c] = "time" => row[c] \in Nat /\ (row[c] % 2) = 0
  PROVE  RoundedBy(e, Read(e, row)) = Read(e, row)
<1> DEFINE f == Selected(e, row)
<1>1. DOMAIN f = DOMAIN row \cap DOMAIN e.fields /\ \A c \in DOMAIN f : f[c] = row[c]
  BY DEF Selected, Restrict, FieldsFit
<1>2. \A c \in DOMAIN f : Stored(e.fields[c], f[c]) = f[c]
  BY <1>1, StoredTime, StoredOther
<1>3. StoredFields(e, f) = [c \in DOMAIN f |-> f[c]]
  BY <1>2 DEF StoredFields
<1>4. f = [c \in DOMAIN f |-> f[c]]
  BY DEF Selected, Restrict
<1>5. RoundedBy(e, Assign(e, f)) = Assign(e, StoredFields(e, f))
  BY <1>1, RoundedIsStored
<1> QED
  BY <1>3, <1>4, <1>5 DEF Read

\* The node that a create builder returns.
LEMMA NewNodeIsRead ==
  ASSUME NEW e, FieldsFit(e), NEW m, DOMAIN m.set \subseteq DOMAIN e.fields,
         \A c \in DOMAIN m.set : e.fields[c] = "time" => m.set[c] \in Nat
  PROVE  RoundedBy(e, NewNode(e, m)) = Read(e, Created(e, m))
<1> DEFINE f == CreateSpec(e, m)
           row == StoredFields(e, f)
<1>1. DOMAIN f = DOMAIN m.set /\ \A c \in DOMAIN f : f[c] = m.set[c]
  BY DEF CreateSpec, Restrict, FieldsFit
<1>2. DOMAIN row = DOMAIN f
  BY DEF StoredFields
<1>3. Selected(e, row) = [c \in DOMAIN row |-> row[c]]
  BY <1>1, <1>2 DEF Selected, Restrict, FieldsFit
<1>4. row = [c \in DOMAIN row |-> row[c]]
  BY DEF StoredFields
<1>5. RoundedBy(e, Assign(e, f)) = Assign(e, row)
  BY <1>1, RoundedIsStored
<1> QED
  BY <1>3, <1>4, <1>5 DEF Read, NewNode, Created

-----------------------------------------------------------------------------
(***************************************************************************)
(* The first state.                                                        *)
(***************************************************************************)
LEMMA ClientFits == ASSUME BuilderInv PROVE WellFormed(client, entity) /\ FieldsFit(client)
<1>1. entity \in DOMAIN Clients
  BY DEF BuilderInv, BuilderTypeOK
<1> QED
  BY <1>1, EntitiesFit DEF client, WellFormed

LEMMA SampleRows == ASSUME NEW t \in DOMAIN Clients PROVE Rows(Clients[t], Samples[t])
<1> DEFINE e == Clients[t]
<1>1. FieldsFit(e) /\ TableFits(e, t)
  BY EntitiesFit DEF WellFormed
<1>2. t \in DOMAIN Tables
  BY DEF Clients, Tables
<1>3. DOMAIN Samples[t] = {1, 2} /\ \A i \in {1, 2} : Samples[t][i] = Sample(e, i)
  BY <1>2 DEF Samples
<1> HIDE DEF e
<1>4. DOMAIN Sample(e, 1) = DOMAIN e.fields
  BY DEF Sample
<1>5. ASSUME NEW i \in {1, 2}, NEW c \in DOMAIN Sample(e, i) \cap DOMAIN e.fields,
             e.fields[c] = "time"
      PROVE  Sample(e, i)[c] \in Nat /\ (Sample(e, i)[c] % 2) = 0
  <2>1. c \notin DOMAIN Tables[e.query.from].references
    BY <1>1, <1>5 DEF TableFits
  <2>2. Sample(e, i)[c] = 2 * i
    BY <1>5, <2>1 DEF Sample
  <2> QED
    BY <2>2
<1>6. Sample(e, 1) = [c \in DOMAIN Sample(e, 1) |-> Sample(e, 1)[c]]
  <2> DEFINE edges == DOMAIN Tables[e.query.from].references
  <2>1. Sample(e, 1) =
          [c \in DOMAIN e.fields |->
             CASE c \in edges -> 1
               [] c \notin edges /\ e.fields[c] = "int" -> 1
               [] e.fields[c] = "text" -> <<"a", "b">>[1]
               [] e.fields[c] = "list" -> <<1>>
               [] e.fields[c] = "time" -> 2 * 1]
    BY Zenon DEF Sample
  <2> HIDE DEF edges
  <2> QED
    BY <2>1
<1>7. Samples[t] = [i \in DOMAIN Samples[t] |-> Samples[t][i]]
  BY <1>2 DEF Samples
<1> QED
  BY <1>3, <1>4, <1>5, <1>6, <1>7 DEF Rows, e

LEMMA KeptAtFirst ==
  ASSUME NEW e, NEW m, IsMutation(e, m), DOMAIN m.added = {}, m.cleared = {},
         NEW a, a = [c \in DOMAIN m.set |-> <<"is", m.set[c]>>]
  PROVE  Kept(e, m, a)
<1>1. ASSUME NEW c \in DOMAIN e.fields PROVE Holds(e, m, a, c)
  <2>1. CASE c \in DOMAIN m.set
    BY <2>1 DEF Holds
  <2>2. CASE c \notin DOMAIN m.set
    BY <2>2 DEF Holds, Unasked
  <2> QED
    BY <2>1, <2>2
<1> QED
  BY <1>1 DEF Kept, IsMutation

LEMMA NewMutationIs ==
  ASSUME NEW e, NEW op \in {"create", "update", "updateOne", "delete", "deleteOne"}, NEW id,
         op = "updateOne" => \E i : id = Ptr(i), NEW m, m = NewMutation(op, id)
  PROVE  /\ DOMAIN m = {"op", "id", "where", "set", "added", "cleared"}
         /\ m.op = op /\ m.id = id /\ DOMAIN m.set = {} /\ DOMAIN m.added = {} /\ m.cleared = {}
         /\ IsMutation(e, m)
<1>1. DOMAIN NoFields = {}
  BY DEF NoFields
<1>2. /\ DOMAIN m = {"op", "id", "where", "set", "added", "cleared"}
      /\ m.op = op /\ m.id = id /\ m.set = NoFields /\ m.added = NoFields /\ m.cleared = {}
  BY DEF NewMutation
<1>3. op = "updateOne" => m.id = Ptr(m.id[1])
  BY <1>2, Pointers
<1> QED
  BY <1>1, <1>2, <1>3 DEF IsMutation

\* Sample's time stamps are natural numbers.
LEMMA FirstMutation ==
  ASSUME BuilderInit
  PROVE  IsMutation(client, mutation) /\ DOMAIN mutation.added = {} /\ mutation.cleared = {}
<1>1. WellFormed(client, entity) /\ FieldsFit(client)
  BY EntitiesFit DEF BuilderInit, client, WellFormed
<1>2. CASE \E full \in BOOLEAN :
             mutation = [NewMutation("create", Nil) EXCEPT !.set =
                    IF full THEN [c \in client.check.required |->
                                     IF client.fields[c] = "text" THEN "c" ELSE Sample(client, 1)[c]]
                            ELSE NoFields]
  <2>1. PICK full \in BOOLEAN :
             mutation = [NewMutation("create", Nil) EXCEPT !.set =
                    IF full THEN [c \in client.check.required |->
                                     IF client.fields[c] = "text" THEN "c" ELSE Sample(client, 1)[c]]
                            ELSE NoFields]
    BY <1>2
  <2> DEFINE m == NewMutation("create", Nil)
  <2>2. /\ DOMAIN m = {"op", "id", "where", "set", "added", "cleared"} /\ m.op = "create"
        /\ DOMAIN m.added = {} /\ m.cleared = {}
    BY NewMutationIs
  <2> HIDE DEF m
  <2>3. /\ DOMAIN mutation = {"op", "id", "where", "set", "added", "cleared"}
        /\ mutation.op = "create" /\ DOMAIN mutation.added = {} /\ mutation.cleared = {}
    BY <2>1, <2>2 DEF m
  <2>4. mutation.set = IF full THEN [c \in client.check.required |->
                              IF client.fields[c] = "text" THEN "c" ELSE Sample(client, 1)[c]]
                            ELSE NoFields
    BY <2>1, <2>2 DEF m
  <2>5. DOMAIN mutation.set \subseteq client.check.required
    BY <2>4 DEF NoFields
  <2>6. ASSUME NEW c \in DOMAIN mutation.set, client.fields[c] = "time"
        PROVE  mutation.set[c] \in Nat
    <3>1. full /\ c \in client.check.required
      BY <2>4, <2>6 DEF NoFields
    <3>2. mutation.set[c] = Sample(client, 1)[c]
      BY <2>4, <2>6, <3>1
    <3>3. c \in DOMAIN client.fields /\ c \notin DOMAIN Tables[client.query.from].references
      BY <1>1, <2>6, <3>1 DEF FieldsFit, WellFormed, TableFits
    <3>4. Sample(client, 1)[c] = 2 * 1
      BY <2>6, <3>3 DEF Sample
    <3> QED
      BY <3>2, <3>4
  <2>7. IsMutation(client, mutation)
    BY <1>1, <2>3, <2>5, <2>6 DEF IsMutation, FieldsFit
  <2> QED
    BY <2>3, <2>7
<1>3. ASSUME NEW op \in {"create", "update", "updateOne", "delete", "deleteOne"}, NEW id,
             op = "updateOne" => \E i : id = Ptr(i), mutation = NewMutation(op, id)
      PROVE  IsMutation(client, mutation) /\ DOMAIN mutation.added = {} /\ mutation.cleared = {}
  BY <1>3, NewMutationIs, ZenonT(30)
<1>4. CASE mutation \in {NewMutation("updateOne", Ptr(i)) : i \in {1, 3}}
  <2>1. PICK i \in {1, 3} : mutation = NewMutation("updateOne", Ptr(i))
    BY <1>4
  <2> QED
    BY <1>3, <2>1
<1>5. CASE mutation = NewMutation("updateOne", Ptr(1))
  BY <1>3, <1>5
<1>6. CASE mutation \in {NewMutation(op, Nil) : op \in {"update", "delete"}}
  BY <1>3, <1>6
<1>7. CASE mutation \in {NewMutation("deleteOne", Ptr(i)) : i \in {1, 2, 3}}
  BY <1>3, <1>7
<1> QED
  BY <1>2, <1>4, <1>5, <1>6, <1>7 DEF BuilderInit

\* What BuilderTypeOK says of a mutation.
LEMMA MutationColumns ==
  ASSUME NEW e, NEW t, WellFormed(e, t), NEW m, IsMutation(e, m)
  PROVE  /\ DOMAIN m.set \cup DOMAIN m.added \cup m.cleared \subseteq DOMAIN e.fields
         /\ \A c \in m.cleared : {"Clear", "ClearEdge"} \cap e.methods[c] # {}
  BY DEF WellFormed, UpdateFits, IsMutation

LEMMA BuilderInvInit == BuilderInit => BuilderInv
<1> SUFFICES ASSUME BuilderInit PROVE BuilderInv
  OBVIOUS
<1>1. entity \in DOMAIN Clients /\ rows = Samples[entity]
  BY DEF BuilderInit
<1>2. WellFormed(client, entity) /\ FieldsFit(client) /\ Rows(client, rows)
  BY <1>1, EntitiesFit, SampleRows DEF client, WellFormed
<1>3. IsMutation(client, mutation) /\ Kept(client, mutation, asked)
  BY FirstMutation, KeptAtFirst DEF BuilderInit
<1>4. done = FALSE /\ outcome = "building" /\ node = Nil /\ calls = 0 /\ writes = 0
  BY DEF BuilderInit
<1>5. past = {Read(client, rows[1])}
  BY DEF BuilderInit
<1>6. \A n \in past : NodeOf(client, n)
  BY <1>2, <1>5, ReadNode
<1>7. calls \in 0..MaxCalls /\ writes \in 0..MaxWrites
  BY <1>4, BuilderAssumption
<1>8. BuilderTypeOK
  BY <1>1, <1>2, <1>3, <1>4, <1>6, <1>7, MutationColumns DEF BuilderTypeOK
<1> QED
  BY <1>2, <1>3, <1>4, <1>8 DEF BuilderInv

-----------------------------------------------------------------------------
(***************************************************************************)
(* Calls.                                                                  *)
(***************************************************************************)
\* The fields that a builder has a call for.
LEMMA OffersAre ==
  ASSUME WellFormed(client, entity), NEW call, NEW c \in Offers(call)
  PROVE  \/ Updating /\ call \in DOMAIN client.updater /\ c \in client.updater[call]
         \/ ~Updating /\ call \in {"Set", "Nil"} /\ c \in client.setters[call]
  BY DEF Offers, WellFormed, CallsFit

LEMMA ArgsOfTime ==
  ASSUME NEW c, client.fields[c] = "time", NEW v \in Args(c)
  PROVE  v \in Nat
  BY BuilderAssumption DEF Args

\* A call that keeps the mutation what it is keeps the invariant.
LEMMA InvByCall ==
  ASSUME BuilderInv, NEW m, NEW request, Called(m, request), m.op = mutation.op,
         Kept(client, m, request)
  PROVE  BuilderInv'
<1>1. WellFormed(client, entity)
  BY ClientFits
<1>2. outcome # "saved" /\ Rows(client, rows) /\ node = Nil
  BY DEF Called, BuilderInv
<1>3. /\ mutation' = m /\ asked' = request /\ calls' = calls + 1 /\ calls < MaxCalls
      /\ UNCHANGED <<entity, rows, old, done, outcome, node, told, past, writes>>
  BY DEF Called
<1>4. client' = client
  BY <1>3 DEF client
<1>5. calls' \in 0..MaxCalls
  BY <1>3, BuilderAssumption DEF BuilderInv, BuilderTypeOK
<1>6. IsMutation(client, m)
  BY DEF Kept
<1>7. BuilderTypeOK'
  <2>1. /\ DOMAIN m.set \cup DOMAIN m.added \cup m.cleared \subseteq DOMAIN client.fields
        /\ \A c \in m.cleared : {"Clear", "ClearEdge"} \cap client.methods[c] # {}
    BY <1>1, <1>6, MutationColumns
  <2> QED
    BY <1>3, <1>4, <1>5, <2>1 DEF BuilderInv, BuilderTypeOK
<1> QED
  BY <1>2, <1>3, <1>4, <1>6, <1>7 DEF BuilderInv

LEMMA InvBySet == ASSUME BuilderInv, Set PROVE BuilderInv'
<1>1. WellFormed(client, entity)
  BY ClientFits
<1>2. PICK c \in Offers("Set") : \E v \in Args(c) :
         Called(SetField(mutation, c, v), Asks(c, <<"is", v>>))
  BY DEF Set
<1>3. PICK v \in Args(c) : Called(SetField(mutation, c, v), Asks(c, <<"is", v>>))
  BY <1>2
<1>4. c \in DOMAIN client.fields
  BY <1>1, OffersAre DEF WellFormed, CallsFit
<1>5. Kept(client, mutation, asked)
  BY <1>3 DEF Called, BuilderInv
<1>6. client.fields[c] = "time" => v \in Nat
  BY ArgsOfTime
<1>7. PICK n : n = SetField(mutation, c, v)
  OBVIOUS
<1>8. PICK b : b = With(asked, c, <<"is", v>>)
  OBVIOUS
<1>9. Kept(client, n, b)
  BY <1>4, <1>5, <1>6, <1>7, <1>8, KeptBySet
<1>10. n.op = mutation.op
  BY <1>5, <1>7 DEF SetField, Kept, IsMutation
<1>11. Called(n, b)
  BY <1>3, <1>7, <1>8 DEF Asks
<1> QED
  BY <1>9, <1>10, <1>11, InvByCall

LEMMA InvByAdd == ASSUME BuilderInv, Add PROVE BuilderInv'
<1>1. WellFormed(client, entity)
  BY ClientFits
<1>2. PICK c \in Offers("Add") : /\ c \notin DOMAIN mutation.set
                               /\ Called(AddField(client, mutation, c, 1), Asks(c, Plus(c, 1)))
  BY DEF Add
<1>3. Updating /\ c \in client.update.add /\ c \in DOMAIN client.fields
  BY <1>1, OffersAre DEF WellFormed, CallsFit, UpdateFits
<1>4. mutation.op # "create"
  BY <1>3 DEF Updating
<1>5. Kept(client, mutation, asked)
  BY <1>2 DEF Called, BuilderInv
<1>6. PICK p : p = Plus(c, 1)
  OBVIOUS
<1>7. PICK n : n = AddField(client, mutation, c, 1)
  OBVIOUS
<1>8. PICK b : b = With(asked, c, p)
  OBVIOUS
<1>9. Kept(client, n, b)
  BY <1>1, <1>2, <1>3, <1>4, <1>5, <1>6, <1>7, <1>8, KeptByAdd DEF Plus
<1>10. n.op = mutation.op
  BY <1>5, <1>7 DEF AddField, Kept, IsMutation
<1>11. Called(n, b)
  BY <1>2, <1>6, <1>7, <1>8 DEF Asks
<1> QED
  BY <1>9, <1>10, <1>11, InvByCall

LEMMA InvByAppend2 == ASSUME BuilderInv, Append2 PROVE BuilderInv'
<1>1. WellFormed(client, entity)
  BY ClientFits
<1>2. PICK c \in Offers("Append") : /\ c \notin DOMAIN mutation.set
                               /\ Called(AddField(client, mutation, c, <<2>>), Asks(c, Plus(c, <<2>>)))
  BY DEF Append2
<1>3. Updating /\ c \in client.update.add /\ c \in DOMAIN client.fields
  BY <1>1, OffersAre DEF WellFormed, CallsFit, UpdateFits
<1>4. mutation.op # "create"
  BY <1>3 DEF Updating
<1>5. Kept(client, mutation, asked)
  BY <1>2 DEF Called, BuilderInv
<1>6. PICK p : p = Plus(c, <<2>>)
  OBVIOUS
<1>7. PICK n : n = AddField(client, mutation, c, <<2>>)
  OBVIOUS
<1>8. PICK b : b = With(asked, c, p)
  OBVIOUS
<1>9. Kept(client, n, b)
  BY <1>1, <1>2, <1>3, <1>4, <1>5, <1>6, <1>7, <1>8, KeptByAdd DEF Plus
<1>10. n.op = mutation.op
  BY <1>5, <1>7 DEF AddField, Kept, IsMutation
<1>11. Called(n, b)
  BY <1>2, <1>6, <1>7, <1>8 DEF Asks
<1> QED
  BY <1>9, <1>10, <1>11, InvByCall

LEMMA InvByClear == ASSUME BuilderInv, Clear PROVE BuilderInv'
<1>1. WellFormed(client, entity)
  BY ClientFits
<1>2. PICK c \in Offers("Clear") : /\ "Clear" \in client.methods[c]
                                   /\ Called(ClearField(mutation, c), Asks(c, <<"null">>))
  BY DEF Clear, Can
<1>3. Updating /\ c \in client.update.clear /\ c \in DOMAIN client.fields
  BY <1>1, OffersAre DEF WellFormed, CallsFit, UpdateFits
<1>4. mutation.op # "create"
  BY <1>3 DEF Updating
<1>5. Kept(client, mutation, asked)
  BY <1>2 DEF Called, BuilderInv
<1>6. PICK n : n = ClearField(mutation, c)
  OBVIOUS
<1>7. PICK b : b = With(asked, c, <<"null">>)
  OBVIOUS
<1>8. Kept(client, n, b)
  BY <1>1, <1>2, <1>3, <1>4, <1>5, <1>6, <1>7, KeptByClear
<1>9. n.op = mutation.op
  BY <1>5, <1>6 DEF ClearField, Kept, IsMutation
<1>10. Called(n, b)
  BY <1>2, <1>6, <1>7 DEF Asks
<1> QED
  BY <1>8, <1>9, <1>10, InvByCall

LEMMA InvByClearToOne == ASSUME BuilderInv, ClearToOne PROVE BuilderInv'
<1>1. WellFormed(client, entity)
  BY ClientFits
<1>2. PICK c \in Offers("ClearEdge") : /\ "ClearEdge" \in client.methods[c]
                                   /\ Called(ClearEdge(mutation, c), Asks(c, <<"null">>))
  BY DEF ClearToOne, Can
<1>3. Updating /\ c \in client.update.edges /\ c \in DOMAIN client.fields
  BY <1>1, OffersAre DEF WellFormed, CallsFit, UpdateFits
<1>4. mutation.op # "create"
  BY <1>3 DEF Updating
<1>5. Kept(client, mutation, asked)
  BY <1>2 DEF Called, BuilderInv
<1>6. PICK n : n = ClearEdge(mutation, c)
  OBVIOUS
<1>7. PICK b : b = With(asked, c, <<"null">>)
  OBVIOUS
<1>8. Kept(client, n, b)
  BY <1>1, <1>2, <1>3, <1>4, <1>5, <1>6, <1>7, KeptByClearEdge
<1>9. n.op = mutation.op
  BY <1>5, <1>6 DEF ClearEdge, Kept, IsMutation
<1>10. Called(n, b)
  BY <1>2, <1>6, <1>7 DEF Asks
<1> QED
  BY <1>8, <1>9, <1>10, InvByCall

LEMMA InvByResetField ==
  ASSUME BuilderInv, NEW c \in DOMAIN client.fields,
         Called(ResetField(mutation, c), Without(asked, c))
  PROVE  BuilderInv'
<1>1. WellFormed(client, entity)
  BY ClientFits
<1>2. Kept(client, mutation, asked)
  BY DEF Called, BuilderInv
<1>3. PICK n : n = ResetField(mutation, c)
  OBVIOUS
<1>4. PICK b : b = Without(asked, c)
  OBVIOUS
<1>5. Kept(client, n, b)
  BY <1>1, <1>2, <1>3, <1>4, KeptByReset
<1>6. n.op = mutation.op
  BY <1>2, <1>3 DEF ResetField, Kept, IsMutation
<1>7. Called(n, b)
  BY <1>3, <1>4
<1> QED
  BY <1>5, <1>6, <1>7, InvByCall

LEMMA InvByReset == ASSUME BuilderInv, Reset PROVE BuilderInv'
<1>1. WellFormed(client, entity)
  BY ClientFits
<1>2. PICK c \in DOMAIN client.fields :
         Called(IF Can("ClearEdge", c) THEN ResetEdgeField(mutation, c)
                                       ELSE ResetField(mutation, c), Without(asked, c))
  BY DEF Reset
<1>3. CASE Can("ClearEdge", c)
  <2>1. c \in client.update.edges
    BY <1>1, <1>3 DEF Can, WellFormed, MethodsFit
  <2>2. Kept(client, mutation, asked)
    BY <1>2 DEF Called, BuilderInv
  <2>3. PICK n : n = ResetEdgeField(mutation, c)
    OBVIOUS
  <2>4. PICK b : b = Without(asked, c)
    OBVIOUS
  <2>5. Kept(client, n, b)
    BY <1>1, <2>1, <2>2, <2>3, <2>4, KeptByResetEdge
  <2>6. n.op = mutation.op
    BY <2>2, <2>3 DEF ResetEdgeField, Kept, IsMutation
  <2>7. Called(n, b)
    BY <1>2, <1>3, <2>3, <2>4
  <2> QED
    BY <2>5, <2>6, <2>7, InvByCall
<1>4. CASE ~Can("ClearEdge", c)
  BY <1>2, <1>4, InvByResetField
<1> QED
  BY <1>3, <1>4

LEMMA InvByResetToOne == ASSUME BuilderInv, ResetToOne PROVE BuilderInv'
  BY InvByResetField DEF ResetToOne

LEMMA InvBySetNillable == ASSUME BuilderInv, SetNillable PROVE BuilderInv'
<1>1. Called(mutation, asked)
  BY DEF SetNillable
<1>2. Kept(client, mutation, asked)
  BY <1>1 DEF Called, BuilderInv
<1> QED
  BY <1>1, <1>2, InvByCall

LEMMA InvByWhere == ASSUME BuilderInv, Where PROVE BuilderInv'
<1>1. PICK c, v : Called([mutation EXCEPT !.where = {<<c, v>>}], asked)
  BY DEF Where
<1>2. Kept(client, mutation, asked)
  BY <1>1 DEF Called, BuilderInv
<1>3. PICK n : n = [mutation EXCEPT !.where = {<<c, v>>}]
  OBVIOUS
<1>4. /\ DOMAIN n = DOMAIN mutation /\ n.op = mutation.op /\ n.id = mutation.id
      /\ n.set = mutation.set /\ n.added = mutation.added /\ n.cleared = mutation.cleared
  BY <1>2, <1>3 DEF Kept, IsMutation
<1>5. IsMutation(client, n)
  BY <1>2, <1>4 DEF Kept, IsMutation
<1>6. ASSUME NEW d \in DOMAIN client.fields PROVE Holds(client, n, asked, d)
  <2>1. Holds(client, mutation, asked, d)
    BY <1>2 DEF Kept
  <2> QED
    BY <1>4, <2>1, HoldsElsewhere
<1>7. Kept(client, n, asked)
  BY <1>2, <1>5, <1>6 DEF Kept
<1>8. Called(n, asked)
  BY <1>1, <1>3
<1> QED
  BY <1>4, <1>7, <1>8, InvByCall

\* What else happens leaves what the invariant is about, but for the number of calls.
LEMMA InvUnchanged ==
  ASSUME BuilderInv, UNCHANGED <<entity, rows, mutation, done, outcome, node, asked, past, writes>>,
         calls' \in 0..MaxCalls
  PROVE  BuilderInv'
<1>1. client' = client
  BY DEF client
<1>2. BuilderTypeOK'
  BY <1>1 DEF BuilderInv, BuilderTypeOK
<1>3. NodeTellsRow' <=> NodeTellsRow
  BY <1>1 DEF NodeTellsRow, Rounded
<1> QED
  BY <1>1, <1>2, <1>3 DEF BuilderInv

LEMMA InvByOld == ASSUME BuilderInv, Old PROVE BuilderInv'
<1>1. calls' = calls + 1 /\ calls < MaxCalls /\ calls \in 0..MaxCalls
  BY DEF Old, BuilderInv, BuilderTypeOK
<1>2. calls' \in 0..MaxCalls
  BY <1>1, BuilderAssumption
<1> QED
  BY <1>2, InvUnchanged DEF Old

-----------------------------------------------------------------------------
(***************************************************************************)
(* Saves.                                                                  *)
(***************************************************************************)
LEMMA InvByRefusal ==
  ASSUME BuilderInv, outcome # "saved", NEW m, NEW ends, Refuse(m, ends), m.op = mutation.op,
         Kept(client, m, asked), ends => mutation.op \in {"delete", "deleteOne"}
  PROVE  BuilderInv'
<1>1. WellFormed(client, entity)
  BY ClientFits
<1>2. /\ mutation' = m /\ outcome' = "refused" /\ done' = (done \/ ends)
      /\ UNCHANGED <<entity, rows, old, node, asked, told, past, calls, writes>>
  BY DEF Refuse
<1>3. client' = client
  BY <1>2 DEF client
<1>4. /\ DOMAIN m.set \cup DOMAIN m.added \cup m.cleared \subseteq DOMAIN client.fields
      /\ \A c \in m.cleared : {"Clear", "ClearEdge"} \cap client.methods[c] # {}
  BY <1>1, MutationColumns DEF Kept
<1>5. done' => mutation'.op \in {"delete", "deleteOne"}
  BY <1>2 DEF BuilderInv, BuilderTypeOK
<1>6. BuilderTypeOK'
  BY <1>2, <1>3, <1>4, <1>5 DEF BuilderInv, BuilderTypeOK
<1> QED
  BY <1>2, <1>3, <1>6 DEF BuilderInv, Kept

LEMMA InvByAccept ==
  ASSUME BuilderInv, NEW m, NEW table, NEW n, Accept(m, table, n), IsMutation(client, m),
         n # Nil => /\ NodeOf(client, n[1])
                    /\ RoundedBy(client, n[1]) = Read(client, table[m.id[1]])
  PROVE  BuilderInv'
<1>1. WellFormed(client, entity)
  BY ClientFits
<1>2. /\ mutation' = m /\ rows' = table /\ done' = TRUE /\ outcome' = "saved" /\ node' = n
      /\ UNCHANGED <<entity, old, asked, told, past, calls, writes>>
  BY DEF Accept
<1>3. client' = client
  BY <1>2 DEF client
<1>4. /\ DOMAIN m.set \cup DOMAIN m.added \cup m.cleared \subseteq DOMAIN client.fields
      /\ \A c \in m.cleared : {"Clear", "ClearEdge"} \cap client.methods[c] # {}
  BY <1>1, MutationColumns
<1>5. BuilderTypeOK'
  BY <1>2, <1>3, <1>4 DEF BuilderInv, BuilderTypeOK
<1>6. NodeTellsRow'
  BY <1>2, <1>3 DEF NodeTellsRow, Rounded, RoundedBy
<1> QED
  BY <1>2, <1>3, <1>5, <1>6 DEF BuilderInv

\* The mutation that a save works on.
LEMMA SavedMutation ==
  ASSUME BuilderInv, outcome # "saved", NEW m,
         m = Defaulted(Defaults(client, mutation.op), mutation, Clock)
  PROVE  Kept(client, m, asked) /\ m.op = mutation.op /\ m.id = mutation.id /\ m.where = mutation.where
<1>1. WellFormed(client, entity) /\ Kept(client, mutation, asked)
  BY ClientFits DEF BuilderInv
<1>2. Kept(client, m, asked)
  BY <1>1, KeptByDefaults
<1>3. DOMAIN mutation = {"op", "id", "where", "set", "added", "cleared"}
  BY <1>1 DEF Kept, IsMutation
<1> QED
  BY <1>2, <1>3 DEF Defaulted

LEMMA InvByCreate == ASSUME BuilderInv, Create PROVE BuilderInv'
<1>1. WellFormed(client, entity) /\ FieldsFit(client)
  BY ClientFits
<1>2. mutation.op = "create" /\ outcome # "saved"
  BY DEF Create
<1>3. PICK m : m = Defaulted(client.defaults, mutation, Clock)
  OBVIOUS
<1>4. Kept(client, m, asked) /\ m.op = mutation.op
  BY <1>2, <1>3, SavedMutation DEF Defaults
<1>5. PICK table : table = With(rows, 3, Created(client, m))
  OBVIOUS
<1>6. \/ Accept([m EXCEPT !.id = Ptr(3)], table, Ptr(NewNode(client, m)))
      \/ Refuse(m, FALSE)
  BY <1>3, <1>5 DEF Create
<1>7. CASE Accept([m EXCEPT !.id = Ptr(3)], table, Ptr(NewNode(client, m)))
  <2>1. PICK k : k = [m EXCEPT !.id = Ptr(3)]
    OBVIOUS
  <2>2. PICK n : n = Ptr(NewNode(client, m))
    OBVIOUS
  <2>3. /\ DOMAIN k = DOMAIN m /\ k.op = m.op /\ k.set = m.set /\ k.added = m.added
        /\ k.cleared = m.cleared /\ k.id[1] = 3
    BY <1>4, <2>1, Pointers DEF Kept, IsMutation
  <2>4. IsMutation(client, k)
    BY <1>2, <1>4, <2>3 DEF Kept, IsMutation
  <2>5. table[3] = Created(client, m)
    BY <1>5 DEF With
  <2>6. RoundedBy(client, NewNode(client, m)) = Read(client, Created(client, m))
    BY <1>1, <1>4, NewNodeIsRead DEF Kept, IsMutation
  <2>7. NodeOf(client, NewNode(client, m))
    BY <1>1, AssignedNode DEF NewNode
  <2>8. n[1] = NewNode(client, m)
    BY <2>2, Pointers
  <2>9. NodeOf(client, n[1]) /\ RoundedBy(client, n[1]) = Read(client, table[k.id[1]])
    BY <2>3, <2>5, <2>6, <2>7, <2>8
  <2>10. Accept(k, table, n)
    BY <1>7, <2>1, <2>2
  <2> QED
    BY <2>4, <2>9, <2>10, InvByAccept
<1>8. CASE Refuse(m, FALSE)
  BY <1>2, <1>4, <1>8, InvByRefusal
<1> QED
  BY <1>6, <1>7, <1>8

\* An update stores time stamps as Postgres has them, and adds to none.
LEMMA UpdatedTimes ==
  ASSUME NEW e, NEW t, WellFormed(e, t), NEW m, IsMutation(e, m), NEW row,
         \A c \in DOMAIN row \cap DOMAIN e.fields :
            e.fields[c] = "time" => row[c] \in Nat /\ (row[c] % 2) = 0,
         NEW c \in DOMAIN Updated(e, m, row) \cap DOMAIN e.fields, e.fields[c] = "time"
  PROVE  Updated(e, m, row)[c] \in Nat /\ (Updated(e, m, row)[c] % 2) = 0
<1> DEFINE set == SetColumns(e.update, m)
<1>1. c \notin AddedColumns(e.update, m)
  BY DEF AddedColumns, WellFormed, UpdateFits
<1>2. CASE c \in set
  <2>1. Updated(e, m, row)[c] = Stored(e.fields[c], m.set[c])
    BY <1>1, <1>2 DEF Updated
  <2>2. m.set[c] \in Nat
    BY <1>2 DEF SetColumns, IsMutation
  <2> QED
    BY <2>1, <2>2, StoredTime
<1>3. CASE c \notin set
  <2>1. c \in DOMAIN row /\ Updated(e, m, row)[c] = row[c]
    BY <1>1, <1>3 DEF Updated
  <2> QED
    BY <2>1
<1> QED
  BY <1>2, <1>3

\* A mutation of one row that only sets.
LEMMA PlainMutation ==
  ASSUME NEW e, NEW m, DOMAIN m = {"op", "id", "where", "set", "added", "cleared"},
         m.op = "updateOne", m.id = Ptr(m.id[1]), DOMAIN m.set \subseteq DOMAIN e.fields,
         \A c \in DOMAIN m.set : e.fields[c] = "time" => m.set[c] \in Nat,
         DOMAIN m.added = {}, m.cleared = {}
  PROVE  IsMutation(e, m)
  BY DEF IsMutation

\* The mutation of another process.
LEMMA OtherMutation ==
  ASSUME WellFormed(client, entity), entity \in DOMAIN Clients, writes \in Nat,
         NEW set \in Settings[entity],
         NEW new, new = [NewMutation("updateOne", Ptr(1)) EXCEPT !.set = set],
         NEW m, m = Defaulted(client.update.defaults, new, Moment(writes))
  PROVE  IsMutation(client, m) /\ DOMAIN m.added = {} /\ m.cleared = {}
<1> DEFINE d == client.update.defaults
<1>1. PICK cs \in SUBSET client.updater.Set :
         \E v \in [cs -> [text : TextArgs, int : IntArgs, list : ListArgs, time : TimeArgs]] :
            set = [c \in cs |-> v[c][client.fields[c]]]
  BY DEF Settings, client
<1>2. PICK v \in [cs -> [text : TextArgs, int : IntArgs, list : ListArgs, time : TimeArgs]] :
         set = [c \in cs |-> v[c][client.fields[c]]]
  BY <1>1
<1>3. /\ DOMAIN new = {"op", "id", "where", "set", "added", "cleared"}
      /\ new.op = "updateOne" /\ new.id = Ptr(1) /\ new.set = set
      /\ DOMAIN new.added = {} /\ new.cleared = {}
  <2>1. PICK first : first = NewMutation("updateOne", Ptr(1))
    OBVIOUS
  <2>2. /\ DOMAIN first = {"op", "id", "where", "set", "added", "cleared"}
        /\ first.op = "updateOne" /\ first.id = Ptr(1)
        /\ DOMAIN first.added = {} /\ first.cleared = {}
    BY <2>1, NewMutationIs
  <2>3. new = [first EXCEPT !.set = set]
    BY <2>1
  <2> QED
    BY <2>2, <2>3
<1>4. /\ DOMAIN m = DOMAIN new /\ m.op = new.op /\ m.id = new.id
      /\ m.added = new.added /\ m.cleared = new.cleared
      /\ DOMAIN m.set = DOMAIN set \cup DOMAIN d.values \cup d.times
      /\ \A c \in DOMAIN set : m.set[c] = set[c]
      /\ \A c \in DOMAIN d.values \ DOMAIN set : m.set[c] = d.values[c]
      /\ \A c \in d.times \ (DOMAIN d.values \cup DOMAIN set) : m.set[c] = Moment(writes)
  BY <1>3, DefaultedIs
<1>5. /\ d.times \cup DOMAIN d.values \subseteq DOMAIN client.fields
      /\ \A c \in DOMAIN d.values : client.fields[c] # "time"
      /\ client.updater.Set \subseteq DOMAIN client.fields
  BY DEF WellFormed, SavesFit, DefaultsFit, CallsFit
<1>6. DOMAIN set = cs
  BY <1>2
<1>7. ASSUME NEW c \in cs, client.fields[c] = "time" PROVE set[c] \in Nat
  BY <1>2, <1>7, BuilderAssumption
<1>8. Moment(writes) \in Nat
  BY DEF Moment
<1>9. \A c \in DOMAIN m.set : client.fields[c] = "time" => m.set[c] \in Nat
  BY <1>4, <1>5, <1>6, <1>7, <1>8
<1>10. m.id = Ptr(m.id[1])
  BY <1>3, <1>4, Pointers
<1>11. DOMAIN m.set \subseteq DOMAIN client.fields
  <2>1. DOMAIN set \subseteq DOMAIN client.fields
    BY <1>5, <1>6
  <2> QED
    BY <1>4, <1>5, <2>1
<1>12. DOMAIN m = {"op", "id", "where", "set", "added", "cleared"} /\ m.op = "updateOne"
  BY <1>3, <1>4
<1>13. DOMAIN m.added = {} /\ m.cleared = {}
  BY <1>3, <1>4
<1>14. IsMutation(client, m)
  BY <1>9, <1>10, <1>11, <1>12, <1>13, PlainMutation, ZenonT(30)
<1> QED
  BY <1>13, <1>14

\* Another process keeps the columns of row 1, and stores its time stamps.
LEMMA InvByInterfere == ASSUME BuilderInv, Interfere PROVE BuilderInv'
<1>1. WellFormed(client, entity) /\ FieldsFit(client)
  BY ClientFits
<1>2. /\ outcome # "saved" /\ writes' = writes + 1 /\ writes < MaxWrites
      /\ past' = past \cup {Read(client, rows'[1])}
      /\ UNCHANGED <<entity, mutation, old, done, outcome, node, asked, told, calls>>
  BY DEF Interfere
<1>3. entity \in DOMAIN Clients /\ writes \in 0..MaxWrites
  BY DEF BuilderInv, BuilderTypeOK
<1>4. PICK set \in Settings[entity] :
         rows' = [rows EXCEPT ![1] =
                    Updated(client, Defaulted(client.update.defaults,
                                              [NewMutation("updateOne", Ptr(1)) EXCEPT !.set = set],
                                              Moment(writes)), @)]
  BY DEF Interfere
<1>5. PICK m : m = Defaulted(client.update.defaults,
                             [NewMutation("updateOne", Ptr(1)) EXCEPT !.set = set], Moment(writes))
  OBVIOUS
<1>6. IsMutation(client, m) /\ DOMAIN m.added = {} /\ m.cleared = {}
  BY <1>1, <1>3, <1>5, OtherMutation, BuilderAssumption
<1>7. PICK row : row = Updated(client, m, rows[1])
  OBVIOUS
<1>8. rows' = [rows EXCEPT ![1] = row]
  BY <1>4, <1>5, <1>7
<1>9. Rows(client, rows)
  BY <1>2 DEF BuilderInv
<1>10. Rows(client, rows')
  <2>1. DOMAIN rows' = {1, 2} /\ rows'[1] = row /\ rows'[2] = rows[2]
    BY <1>8, <1>9 DEF Rows
  <2>2. rows' = [i \in DOMAIN rows' |-> rows'[i]]
    BY <1>8
  <2>3. DOMAIN row = DOMAIN client.fields
    <3>1. DOMAIN row = (DOMAIN rows[1] \cup SetColumns(client.update, m) \cup AddedColumns(client.update, m))
                         \ ClearedColumns(client.update, m)
      BY <1>7 DEF Updated
    <3>2. ClearedColumns(client.update, m) = {} /\ AddedColumns(client.update, m) = {}
      BY <1>6 DEF ClearedColumns, AddedColumns
    <3>3. SetColumns(client.update, m) \subseteq DOMAIN client.fields
      BY <1>6 DEF SetColumns, IsMutation
    <3> QED
      BY <1>9, <3>1, <3>2, <3>3 DEF Rows
  <2>4. row = [d \in DOMAIN row |-> row[d]]
    BY <1>7 DEF Updated
  <2>5. \A c \in DOMAIN rows[1] \cap DOMAIN client.fields :
           client.fields[c] = "time" => rows[1][c] \in Nat /\ (rows[1][c] % 2) = 0
    BY <1>9 DEF Rows
  <2>6. ASSUME NEW c \in DOMAIN row \cap DOMAIN client.fields, client.fields[c] = "time"
        PROVE  row[c] \in Nat /\ (row[c] % 2) = 0
    BY <1>1, <1>6, <1>7, <2>5, <2>6, UpdatedTimes
  <2>7. ASSUME NEW i \in {1, 2}, NEW c \in DOMAIN rows'[i] \cap DOMAIN client.fields,
               client.fields[c] = "time"
        PROVE  rows'[i][c] \in Nat /\ (rows'[i][c] % 2) = 0
    BY <1>9, <2>1, <2>6, <2>7 DEF Rows
  <2> QED
    BY <2>1, <2>2, <2>3, <2>4, <2>7 DEF Rows
<1>11. NodeOf(client, Read(client, rows'[1]))
  BY <1>1, ReadNode
<1>12. client' = client
  BY <1>2 DEF client
<1>13. writes' \in 0..MaxWrites
  BY <1>2, <1>3, BuilderAssumption
<1>14. BuilderTypeOK'
  BY <1>2, <1>11, <1>12, <1>13 DEF BuilderInv, BuilderTypeOK
<1> QED
  BY <1>2, <1>10, <1>12, <1>14 DEF BuilderInv

LEMMA InvByUpdate == ASSUME BuilderInv, Update PROVE BuilderInv'
<1>1. WellFormed(client, entity) /\ FieldsFit(client)
  BY ClientFits
<1>2. Updating /\ mutation.op # "create" /\ outcome # "saved"
  BY DEF Update, Updating
<1>3. PICK m : m = Defaulted(client.update.defaults, mutation, Clock)
  OBVIOUS
<1>4. /\ Kept(client, m, asked) /\ m.op = mutation.op /\ m.id = mutation.id
  BY <1>2, <1>3, SavedMutation DEF Defaults
<1>5. PICK ids : ids = Targets(client, m, rows)
  OBVIOUS
<1>6. PICK table : table = [i \in DOMAIN rows |-> IF i \in ids THEN Updated(client, m, rows[i]) ELSE rows[i]]
  OBVIOUS
<1>7. \/ /\ mutation.op = "updateOne" => ids # {}
         /\ Accept(m, table, IF mutation.op = "updateOne" THEN Ptr(Read(client, table[m.id[1]])) ELSE Nil)
      \/ Refuse(m, FALSE)
  BY <1>3, <1>5, <1>6 DEF Update
<1>8. CASE /\ mutation.op = "updateOne" => ids # {}
           /\ Accept(m, table, IF mutation.op = "updateOne" THEN Ptr(Read(client, table[m.id[1]])) ELSE Nil)
  <2>1. PICK n : n = IF mutation.op = "updateOne" THEN Ptr(Read(client, table[m.id[1]])) ELSE Nil
    OBVIOUS
  <2>2. Rows(client, rows)
    BY <1>2 DEF BuilderInv
  <2>3. ASSUME mutation.op = "updateOne"
        PROVE  /\ NodeOf(client, n[1])
               /\ RoundedBy(client, n[1]) = Read(client, table[m.id[1]])
    <3>1. PICK i \in ids : TRUE
      BY <1>8, <2>3
    <3>2. i \in DOMAIN rows /\ (m.id = Nil \/ m.id = Ptr(i))
      BY <1>5, <3>1 DEF Targets
    <3>3. m.id = Ptr(m.id[1])
      BY <1>4, <2>3 DEF Kept, IsMutation
    <3>4. m.id[1] = i
      BY <3>2, <3>3, Pointers
    <3>5. table[i] = Updated(client, m, rows[i])
      BY <1>6, <3>1, <3>2
    <3>6. \A c \in DOMAIN table[i] \cap DOMAIN client.fields :
             client.fields[c] = "time" => table[i][c] \in Nat /\ (table[i][c] % 2) = 0
      BY <1>1, <1>4, <2>2, <3>2, <3>5, UpdatedTimes DEF Rows, Kept
    <3>7. RoundedBy(client, Read(client, table[i])) = Read(client, table[i])
      BY <1>1, <3>6, ReadIsRounded
    <3>8. n[1] = Read(client, table[i])
      BY <2>1, <2>3, <3>4, Pointers
    <3> QED
      BY <1>1, <3>4, <3>7, <3>8, ReadNode
  <2>4. n # Nil => mutation.op = "updateOne"
    BY <2>1
  <2> QED
    BY <1>4, <1>8, <2>1, <2>3, <2>4, InvByAccept DEF Kept
<1>9. CASE Refuse(m, FALSE)
  BY <1>2, <1>4, <1>9, InvByRefusal
<1> QED
  BY <1>7, <1>8, <1>9

LEMMA InvByDelete == ASSUME BuilderInv, Delete PROVE BuilderInv'
<1>1. mutation.op \in {"delete", "deleteOne"} /\ outcome # "saved"
  BY DEF Delete
<1>2. Kept(client, mutation, asked)
  BY <1>1 DEF BuilderInv
<1>3. PICK table : Accept(mutation, table, Nil) \/ Refuse(mutation, TRUE)
  BY DEF Delete
<1>4. CASE Accept(mutation, table, Nil)
  BY <1>2, <1>4, InvByAccept DEF Kept
<1>5. CASE Refuse(mutation, TRUE)
  BY <1>1, <1>2, <1>5, InvByRefusal
<1> QED
  BY <1>3, <1>4, <1>5

LEMMA BuilderInvStep == ASSUME BuilderInv, [BuilderNext]_builderVars PROVE BuilderInv'
<1>1. CASE UNCHANGED builderVars
  <2>1. calls' \in 0..MaxCalls
    BY <1>1 DEF builderVars, BuilderInv, BuilderTypeOK
  <2> QED
    BY <1>1, <2>1, InvUnchanged DEF builderVars
<1> QED
  BY <1>1, InvBySet, InvBySetNillable, InvByAdd, InvByAppend2, InvByClear, InvByClearToOne,
     InvByReset, InvByResetToOne, InvByWhere, InvByOld, InvByCreate, InvByUpdate, InvByDelete,
     InvByInterfere DEF BuilderNext

-----------------------------------------------------------------------------
(***************************************************************************)
(* The last word.                                                          *)
(***************************************************************************)
\* What a create builder inserts.
LEMMA CreatedHas ==
  ASSUME BuilderInv, outcome # "saved", mutation.op = "create",
         NEW m, m = Defaulted(client.defaults, mutation, Clock), NEW c \in DOMAIN client.fields,
         NEW row, row = Created(client, m)
  PROVE  Has(row, c) = Wanted(NoFields, client.defaults, c)
<1> DEFINE d == client.defaults
<1>1. WellFormed(client, entity) /\ FieldsFit(client) /\ DefaultsFit(client, d)
  BY ClientFits DEF WellFormed, SavesFit
<1>2. Kept(client, m, asked) /\ m.op = "create"
  BY SavedMutation DEF Defaults
<1>3. Holds(client, m, asked, c) /\ c \notin DOMAIN m.added /\ c \notin m.cleared
  BY <1>2 DEF Kept, IsMutation
<1>4. DOMAIN mutation = {"op", "id", "where", "set", "added", "cleared"}
  BY DEF BuilderInv, IsMutation
<1>5. c \in d.times \cup DOMAIN d.values => c \in DOMAIN m.set
  BY <1>4, DefaultedIs
<1>6. DOMAIN m.set \subseteq DOMAIN client.fields
  BY <1>2 DEF Kept, IsMutation
<1>7. DOMAIN row = DOMAIN m.set /\ \A f \in DOMAIN m.set : row[f] = Stored(client.fields[f], m.set[f])
  BY <1>1, <1>6 DEF Created, StoredFields, CreateSpec, Restrict, FieldsFit
<1> HIDE DEF d
<1>8. CASE c \in DOMAIN asked
  <2>1. asked[c][1] = "is" /\ c \in DOMAIN m.set /\ m.set[c] = asked[c][2]
    BY <1>3, <1>8 DEF Holds
  <2>2. Wanted(NoFields, d, c) = Ptr(Stored(client.fields[c], asked[c][2]))
    BY <1>8, <2>1 DEF Wanted
  <2> QED
    BY <1>7, <2>1, <2>2 DEF Has, d
<1>9. CASE c \notin DOMAIN asked
  <2>1. c \in DOMAIN m.set => \/ c \in d.times /\ m.set[c] = Clock
                              \/ c \in DOMAIN d.values /\ m.set[c] = d.values[c]
    BY <1>2, <1>3, <1>9 DEF Holds, Unasked, Defaults, d
  <2>2. CASE c \in d.times
    <3>1. client.fields[c] = "time" /\ c \notin DOMAIN d.values /\ m.set[c] = Clock
      BY <1>1, <1>5, <2>1, <2>2 DEF DefaultsFit, d
    <3> QED
      BY <1>5, <1>7, <1>9, <2>2, <3>1 DEF Has, Wanted, d
  <2>3. CASE c \notin d.times /\ c \in DOMAIN d.values
    <3>1. client.fields[c] # "time" /\ m.set[c] = d.values[c]
      BY <1>1, <1>5, <2>1, <2>3 DEF DefaultsFit, d
    <3>2. Stored(client.fields[c], m.set[c]) = d.values[c]
      BY <3>1, StoredOther
    <3> QED
      BY <1>5, <1>7, <1>9, <2>3, <3>2 DEF Has, Wanted, d
  <2>4. CASE c \notin d.times /\ c \notin DOMAIN d.values
    <3>1. c \notin DOMAIN NoFields
      BY DEF NoFields
    <3>2. Wanted(NoFields, d, c) = Nil
      BY <1>9, <2>4, <3>1 DEF Wanted
    <3>3. c \notin DOMAIN row
      BY <1>7, <2>1, <2>4
    <3> QED
      BY <3>2, <3>3 DEF Has, d
  <2> QED
    BY <2>2, <2>3, <2>4
<1> QED
  BY <1>8, <1>9

\* What an update leaves of a row; that the row fits rules out an edge that is cleared.
LEMMA UpdatedHas ==
  ASSUME BuilderInv, outcome # "saved", Updating,
         NEW m, m = Defaulted(client.update.defaults, mutation, Clock),
         AssignsOnce(client.update, m), NEW c \in DOMAIN client.fields,
         NEW before, NEW row, row = Updated(client, m, before),
         Tables[entity].notNull \subseteq DOMAIN row
  PROVE  Has(row, c) = Wanted(before, client.update.defaults, c)
<1> DEFINE d     == client.update.defaults
           set   == DOMAIN m.set
           added == DOMAIN m.added
<1>1. WellFormed(client, entity) /\ DefaultsFit(client, d)
  BY ClientFits DEF WellFormed, SavesFit
<1>2. Kept(client, m, asked) /\ m.op # "create"
  BY SavedMutation DEF Defaults, Updating
<1>3. Holds(client, m, asked, c)
  BY <1>2 DEF Kept
<1>4. DOMAIN mutation = {"op", "id", "where", "set", "added", "cleared"}
  BY DEF BuilderInv, IsMutation
<1>5. c \in d.times \cup DOMAIN d.values => c \in set
  BY <1>4, DefaultedIs
<1>6. /\ SetColumns(client.update, m) = set
      /\ AddedColumns(client.update, m) = added
      /\ ClearedColumns(client.update, m) = m.cleared
  BY <1>1, <1>2 DEF SetColumns, AddedColumns, ClearedColumns, Kept, IsMutation, WellFormed, UpdateFits
<1>7. m.cleared \cap (set \cup added) = {}
  BY <1>6 DEF AssignsOnce
<1>8. DOMAIN row = (DOMAIN before \cup set \cup added) \ m.cleared
  BY <1>6 DEF Updated
<1>9. c \in client.update.edges => c \notin m.cleared
  BY <1>1, <1>8 DEF WellFormed, TableFits
<1>10. /\ c \in set /\ c \notin added /\ c \notin m.cleared => row[c] = Stored(client.fields[c], m.set[c])
       /\ c \in added /\ c \notin set /\ c \notin m.cleared =>
             row[c] = IF c \in DOMAIN before THEN Sum2(client.fields[c], before[c], m.added[c])
                                             ELSE m.added[c]
       /\ c \in DOMAIN before /\ c \notin set /\ c \notin added /\ c \notin m.cleared => row[c] = before[c]
  BY <1>6 DEF Updated
<1> HIDE DEF d, set, added
<1>11. CASE c \in DOMAIN asked
  <2>1. CASE asked[c][1] = "is"
    <3>1. c \in set /\ c \notin added /\ c \notin m.cleared /\ m.set[c] = asked[c][2]
      BY <1>3, <1>7, <1>11, <2>1 DEF Holds, set, added
    <3>2. Wanted(before, d, c) = Ptr(Stored(client.fields[c], asked[c][2]))
      BY <1>11, <2>1 DEF Wanted
    <3> QED
      BY <1>8, <1>10, <3>1, <3>2 DEF Has, d
  <2>2. CASE asked[c] = <<"null">>
    <3>1. c \in m.cleared
      BY <1>3, <1>11, <2>2 DEF Holds
    <3>2. Wanted(before, d, c) = Nil
      BY <1>11, <2>2 DEF Wanted
    <3> QED
      BY <1>8, <3>1, <3>2 DEF Has, d
  <2>3. CASE asked[c][1] = "plus"
    <3>1. c \in added /\ c \notin set /\ c \notin m.cleared /\ m.added[c] = asked[c][2]
      BY <1>3, <1>11, <2>3 DEF Holds, set, added
    <3>2. Wanted(before, d, c) =
             Ptr(IF c \in DOMAIN before THEN Sum2(client.fields[c], before[c], asked[c][2])
                                        ELSE asked[c][2])
      BY <1>11, <2>3 DEF Wanted
    <3> QED
      BY <1>8, <1>10, <3>1, <3>2 DEF Has, d
  <2> QED
    BY <1>3, <1>11, <2>1, <2>2, <2>3 DEF Holds
<1>12. CASE c \notin DOMAIN asked
  <2>1. /\ c \notin added /\ c \notin m.cleared
        /\ c \in set => \/ c \in d.times /\ m.set[c] = Clock
                        \/ c \in DOMAIN d.values /\ m.set[c] = d.values[c]
    BY <1>2, <1>3, <1>9, <1>12 DEF Holds, Unasked, Defaults, d, set, added
  <2>2. CASE c \in d.times
    <3>1. client.fields[c] = "time" /\ c \notin DOMAIN d.values /\ m.set[c] = Clock
      BY <1>1, <1>5, <2>1, <2>2 DEF DefaultsFit, d
    <3> QED
      BY <1>5, <1>8, <1>10, <1>12, <2>1, <2>2, <3>1 DEF Has, Wanted, d
  <2>3. CASE c \notin d.times /\ c \in DOMAIN d.values
    <3>1. client.fields[c] # "time" /\ m.set[c] = d.values[c]
      BY <1>1, <1>5, <2>1, <2>3 DEF DefaultsFit, d
    <3>2. Stored(client.fields[c], m.set[c]) = d.values[c]
      BY <3>1, StoredOther
    <3> QED
      BY <1>5, <1>8, <1>10, <1>12, <2>1, <2>3, <3>2 DEF Has, Wanted, d
  <2>4. CASE c \notin d.times /\ c \notin DOMAIN d.values
    BY <1>8, <1>10, <1>12, <2>1, <2>4 DEF Has, Wanted, d
  <2> QED
    BY <2>2, <2>3, <2>4
<1> QED
  BY <1>11, <1>12

\* The calls, and the saves that are refused, leave the table.
LEMMA QuietLastWord == ASSUME UNCHANGED rows, ~Saves PROVE LastWord
  BY DEF LastWord

LEMMA LastWordOfCall ==
  ASSUME NEW m, NEW request, Called(m, request)
  PROVE  LastWord
  BY QuietLastWord DEF Called, Saves

LEMMA LastWordOfRefusal ==
  ASSUME NEW m, NEW ends, Refuse(m, ends)
  PROVE  LastWord
  BY QuietLastWord DEF Refuse, Saves

LEMMA LastWordOfCreate == ASSUME BuilderInv, Create PROVE LastWord
<1>1. mutation.op = "create" /\ outcome # "saved"
  BY DEF Create
<1>2. PICK m : m = Defaulted(client.defaults, mutation, Clock)
  OBVIOUS
<1>3. PICK row : row = Created(client, m)
  OBVIOUS
<1>4. \/ Accept([m EXCEPT !.id = Ptr(3)], With(rows, 3, row), Ptr(NewNode(client, m)))
      \/ Refuse(m, FALSE)
  BY <1>2, <1>3 DEF Create
<1>5. CASE Accept([m EXCEPT !.id = Ptr(3)], With(rows, 3, row), Ptr(NewNode(client, m)))
  <2>1. rows' = With(rows, 3, row) /\ outcome' = "saved"
    BY <1>5 DEF Accept
  <2>2. DOMAIN rows = {1, 2}
    BY <1>1 DEF BuilderInv, Rows
  <2>3. rows'[3] = row /\ \A i \in DOMAIN rows : rows'[i] = rows[i]
    BY <2>1, <2>2 DEF With
  <2>4. \A c \in DOMAIN client.fields : Has(rows'[3], c) = Wanted(NoFields, client.defaults, c)
    BY <1>1, <1>2, <1>3, <2>3, CreatedHas
  <2> QED
    BY <1>1, <2>1, <2>3, <2>4 DEF LastWord, Updating
<1>6. CASE Refuse(m, FALSE)
  BY <1>6, LastWordOfRefusal
<1> QED
  BY <1>4, <1>5, <1>6

LEMMA LastWordOfUpdate == ASSUME BuilderInv, Update PROVE LastWord
<1>1. Updating /\ outcome # "saved" /\ mutation.op # "create"
  BY DEF Update, Updating
<1>2. PICK m : m = Defaulted(client.update.defaults, mutation, Clock)
  OBVIOUS
<1>3. PICK ids : ids = Targets(client, m, rows)
  OBVIOUS
<1>4. PICK table : table = [i \in DOMAIN rows |-> IF i \in ids THEN Updated(client, m, rows[i]) ELSE rows[i]]
  OBVIOUS
<1>5. PICK n : \/ AssignsOnce(client.update, m) /\ FitsAll(table, ids) /\ Accept(m, table, n)
               \/ Refuse(m, FALSE)
  BY <1>2, <1>3, <1>4 DEF Update
<1>6. CASE AssignsOnce(client.update, m) /\ FitsAll(table, ids) /\ Accept(m, table, n)
  <2>1. rows' = table /\ outcome' = "saved"
    BY <1>6 DEF Accept
  <2>2. m.id = mutation.id /\ m.where = mutation.where
    BY <1>1, <1>2, SavedMutation DEF Defaults
  <2>3. ids = Targets(client, mutation, rows)
    BY <1>3, <2>2 DEF Targets
  <2>4. ASSUME NEW i \in DOMAIN rows, i \in ids, NEW c \in DOMAIN client.fields
        PROVE  Has(rows'[i], c) = Wanted(rows[i], client.update.defaults, c)
    <3>1. rows'[i] = Updated(client, m, rows[i])
      BY <1>4, <2>1, <2>4
    <3>2. Fits(Tables, Database(table), entity, i, table[i])
      BY <1>6, <2>4 DEF FitsAll
    <3>3. Tables[entity].notNull \subseteq DOMAIN rows'[i]
      BY <2>1, <3>2 DEF Fits
    <3> QED
      BY <1>1, <1>2, <1>6, <3>1, <3>3, UpdatedHas
  <2>5. \A i \in DOMAIN rows : i \notin ids => rows'[i] = rows[i]
    BY <1>4, <2>1
  <2> QED
    BY <1>1, <2>1, <2>3, <2>4, <2>5 DEF LastWord
<1>7. CASE Refuse(m, FALSE)
  BY <1>7, LastWordOfRefusal
<1> QED
  BY <1>5, <1>6, <1>7

LEMMA LastWordOfDelete == ASSUME Delete PROVE LastWord
<1>1. mutation.op \in {"delete", "deleteOne"}
  BY DEF Delete
<1>2. PICK table : Accept(mutation, table, Nil) \/ Refuse(mutation, TRUE)
  BY DEF Delete
<1>3. CASE Accept(mutation, table, Nil)
  BY <1>1, <1>3 DEF Accept, LastWord, Updating
<1>4. CASE Refuse(mutation, TRUE)
  BY <1>4, LastWordOfRefusal
<1> QED
  BY <1>2, <1>3, <1>4

LEMMA LastWordOfInterfere == ASSUME BuilderInv, Interfere PROVE LastWord
<1>1. outcome # "saved" /\ outcome' = outcome /\ writes' = writes + 1
  BY DEF Interfere
<1>2. writes' # writes
  BY <1>1 DEF BuilderInv, BuilderTypeOK
<1> QED
  BY <1>1, <1>2 DEF LastWord, Saves

LEMMA LastWordStep == ASSUME BuilderInv, [BuilderNext]_builderVars PROVE LastWord \/ UNCHANGED builderVars
<1>1. CASE Set
  BY <1>1, LastWordOfCall DEF Set
<1>2. CASE SetNillable
  BY <1>2, LastWordOfCall DEF SetNillable
<1>3. CASE Add
  BY <1>3, LastWordOfCall DEF Add
<1>4. CASE Append2
  BY <1>4, LastWordOfCall DEF Append2
<1>5. CASE Clear
  BY <1>5, LastWordOfCall DEF Clear
<1>6. CASE ClearToOne
  BY <1>6, LastWordOfCall DEF ClearToOne
<1>7. CASE Reset
  BY <1>7, LastWordOfCall DEF Reset
<1>8. CASE ResetToOne
  BY <1>8, LastWordOfCall DEF ResetToOne
<1>9. CASE Where
  BY <1>9, LastWordOfCall DEF Where
<1>10. CASE Old
  BY <1>10, QuietLastWord DEF Old, Saves
<1> QED
  BY <1>1, <1>2, <1>3, <1>4, <1>5, <1>6, <1>7, <1>8, <1>9, <1>10, LastWordOfCreate,
     LastWordOfUpdate, LastWordOfDelete, LastWordOfInterfere DEF BuilderNext

-----------------------------------------------------------------------------
\* BuilderTypeOK, for every number of calls and all their arguments: a mutation keeps
\* to the columns of its entity, and clears what can be cleared.
THEOREM BuilderTypes == BuilderSpec => []BuilderTypeOK
<1>1. BuilderInv => BuilderTypeOK
  BY DEF BuilderInv
<1> QED
  BY BuilderInvInit, BuilderInvStep, <1>1, PTL DEF BuilderSpec

\* NodeTellsRow, for every number of calls and all their arguments: the node that Save
\* returns is the row as it was stored, but for the precision of time stamps.
THEOREM NodesTellRows == BuilderSpec => []NodeTellsRow
<1>1. BuilderInv => NodeTellsRow
  BY DEF BuilderInv, NodeTellsRow
<1> QED
  BY BuilderInvInit, BuilderInvStep, <1>1, PTL DEF BuilderSpec

\* LastWordWins, for every number of calls and all their arguments: a save leaves in each
\* column what was asked last, and one that is refused leaves the table.
THEOREM LastWordIsKept == BuilderSpec => LastWordWins
<1>1. BuilderInv /\ [BuilderNext]_builderVars => [LastWord]_builderVars
  BY LastWordStep
<1> QED
  BY BuilderInvInit, BuilderInvStep, <1>1, PTL DEF BuilderSpec, LastWordWins
=================================================================================
