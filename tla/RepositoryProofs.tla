---------------------------- MODULE RepositoryProofs ----------------------------
(***************************************************************************)
(* The repository over ent: what the tables hold, for every scope, every   *)
(* name, list and time, and that each method does what Store says of it.   *)
(*                                                                         *)
(* First RepInv is kept: a row that is written is one that its table and   *)
(* its entity's check let through (Written, WriteKeeps).  Then, what is    *)
(* written is followed into the records that the service sees: an insert   *)
(* adds a record that fits the arguments (Made, Grown), an update turns    *)
(* one record into another with the fields that it names (Remade, Turned), *)
(* a query answers with records that are there (Found, Answers, PageOf).   *)
(***************************************************************************)
EXTENDS Repository, EntBuilderProofs, FiniteSetTheorems, SequenceTheorems

\* A row that its table takes and its entity's check lets through.
RowOK(t, row) ==
    /\ DOMAIN row \subseteq DOMAIN Clients[t].fields
    /\ Tables[t].notNull \subseteq DOMAIN row
    /\ Passes(Clients[t].check, row)
    /\ \A c \in DOMAIN row : Clients[t].fields[c] = "time" => row[c] \in Nat

\* The ids of a table are given in order.
Numbered(t) == \E n \in Nat : DOMAIN db[t] = 1..n

\* The rows of a table are RowOK, numbered, and none where the table is not in use.
TablesInv ==
    /\ DOMAIN db = DOMAIN Tables
    /\ \A t \in DOMAIN Tables :
         /\ Numbered(t)
         /\ t \notin DOMAIN scope => DOMAIN db[t] = {}
         /\ \A i \in DOMAIN db[t] : RowOK(t, db[t][i]) /\ i <= scope[t]

\* No two users have one name.
UsersInv == \A i, j \in DOMAIN db.users : i # j => db.users[i].username # db.users[j].username

\* A run is of an audit that is there.
RunsInv == \A i \in DOMAIN db.audit_runs : db.audit_runs[i].audit_id \in DOMAIN db.audits

\* An issue is of an audit and a run that are there.
IssuesInv ==
    \A i \in DOMAIN db.issues :
        /\ db.issues[i].audit_id \in DOMAIN db.audits
        /\ db.issues[i].audit_run_id \in DOMAIN db.audit_runs

\* The inductive invariant.
RepInv ==
    /\ TablesInv /\ UsersInv /\ RunsInv /\ IssuesInv
    /\ scope \in Scopes
    /\ clock \in 2..MaxTime
    /\ call.ok \in BOOLEAN

-----------------------------------------------------------------------------
LEMMA TablesAre ==
  /\ DOMAIN Tables = {"audits", "audit_runs", "issues", "policies", "policy_runs", "schedules", "users"}
  /\ DOMAIN Clients = DOMAIN Tables
  BY DEF Tables, Clients

LEMMA TableConstraints ==
  /\ DOMAIN Tables["users"].references = {} /\ Tables["users"].unique = {"username"}
  /\ DOMAIN Tables["audit_runs"].references = {"audit_id"}
  /\ Tables["audit_runs"].references["audit_id"] = "audits"
  /\ DOMAIN Tables["issues"].references = {"audit_id", "audit_run_id"}
  /\ Tables["issues"].references["audit_id"] = "audits"
  /\ Tables["issues"].references["audit_run_id"] = "audit_runs"
<1>1. Tables["users"] = UsersTable /\ Tables["audit_runs"] = AuditRunsTable /\ Tables["issues"] = IssuesTable
  BY DEF Tables
<1> QED
  BY <1>1 DEF UsersTable, AuditRunsTable, IssuesTable, Table, NoFields

LEMMA RepInvTypes == RepInv => RepositoryTypeOK
<1> SUFFICES ASSUME RepInv PROVE RepositoryTypeOK
  OBVIOUS
<1>1. ASSUME NEW t \in DOMAIN db, NEW i \in DOMAIN db[t]
      PROVE  /\ i <= scope[t]
             /\ DOMAIN db[t][i] \subseteq DOMAIN Clients[t].fields
             /\ Passes(Clients[t].check, db[t][i])
  BY <1>1 DEF RepInv, TablesInv, RowOK
<1> QED
  BY <1>1 DEF RepInv, UsersInv, RunsInv, IssuesInv, RepositoryTypeOK

LEMMA RepInit == RepositoryInit => RepInv
<1> SUFFICES ASSUME RepositoryInit PROVE RepInv
  OBVIOUS
<1>1. DOMAIN db = DOMAIN Tables /\ \A t \in DOMAIN Tables : DOMAIN db[t] = {}
  BY DEF RepositoryInit, NoFields
<1>2. 0 \in Nat /\ 1..0 = {}
  OBVIOUS
<1>3. \A t \in DOMAIN Tables : Numbered(t)
  BY <1>1, <1>2 DEF Numbered
<1>4. TablesInv
  BY <1>1, <1>3 DEF TablesInv
<1>5. DOMAIN db["users"] = {} /\ DOMAIN db["audit_runs"] = {} /\ DOMAIN db["issues"] = {}
  BY <1>1, TablesAre
<1>6. UsersInv /\ RunsInv /\ IssuesInv
  BY <1>5 DEF UsersInv, RunsInv, IssuesInv
<1>7. scope \in Scopes /\ clock = 2 /\ call.ok = FALSE
  BY DEF RepositoryInit, NoCall
<1>8. clock \in 2..MaxTime
  BY <1>7, RepositoryAssumption
<1> QED
  BY <1>4, <1>6, <1>7, <1>8 DEF RepInv

-----------------------------------------------------------------------------
(***************************************************************************)
(* Writes.                                                                 *)
(***************************************************************************)
\* The table gets or changes one row.
Written(t, id, row) ==
    /\ DOMAIN db' = DOMAIN db
    /\ \A u \in DOMAIN db : u # t => db'[u] = db[u]
    /\ DOMAIN db'[t] = DOMAIN db[t] \cup {id}
    /\ db'[t][id] = row
    /\ \A i \in DOMAIN db[t] : i # id => db'[t][i] = db[t][i]

LEMMA WriteKeeps ==
  ASSUME RepInv, NEW t \in DOMAIN scope, NEW id, id <= scope[t], NEW row, RowOK(t, row),
         Written(t, id, row), Numbered(t)', Fits(Tables, db', t, id, row),
         UNCHANGED <<scope, clock>>, call'.ok \in BOOLEAN
  PROVE  RepInv'
<1>1. t \in DOMAIN Tables /\ DOMAIN db = DOMAIN Tables
  BY RepositoryAssumption DEF RepInv, TablesInv
<1>2. TablesInv'
  <2>1. DOMAIN db' = DOMAIN Tables
    BY <1>1 DEF Written
  <2>2. ASSUME NEW u \in DOMAIN Tables, u # t
        PROVE  /\ Numbered(u)'
               /\ u \notin DOMAIN scope' => DOMAIN db'[u] = {}
               /\ \A i \in DOMAIN db'[u] : RowOK(u, db'[u][i]) /\ i <= scope'[u]
    <3>1. db'[u] = db[u]
      BY <1>1, <2>2 DEF Written
    <3> QED
      BY <3>1 DEF RepInv, TablesInv, Numbered
  <2>3. \A i \in DOMAIN db'[t] : RowOK(t, db'[t][i]) /\ i <= scope'[t]
    BY <1>1 DEF Written, RepInv, TablesInv
  <2> QED
    BY <2>1, <2>2, <2>3 DEF TablesInv
<1>3. ASSUME NEW u \in DOMAIN Tables PROVE DOMAIN db[u] \subseteq DOMAIN db'[u]
  BY <1>1 DEF Written
<1>4. UsersInv'
  <2>1. CASE t = "users"
    <3>1. \A i \in DOMAIN db'["users"] \ {id} : db'["users"][i].username # row.username
      BY <2>1, TableConstraints DEF Fits
    <3> QED
      BY <2>1, <3>1 DEF Written, RepInv, UsersInv
  <2>2. CASE t # "users"
    BY <1>1, <2>2, TablesAre DEF Written, RepInv, UsersInv
  <2> QED
    BY <2>1, <2>2
<1>5. RunsInv'
  <2>1. DOMAIN db["audits"] \subseteq DOMAIN db'["audits"]
    BY <1>3, TablesAre
  <2>2. CASE t = "audit_runs"
    <3>1. "audit_id" \in DOMAIN row
      <4>1. "audit_id" \in Tables["audit_runs"].notNull
        BY DEF Tables, AuditRunsTable, Table
      <4> QED
        BY <2>2, <4>1 DEF RowOK
    <3>2. row.audit_id \in DOMAIN db'["audits"]
      BY <2>2, <3>1, TableConstraints DEF Fits
    <3> QED
      BY <2>1, <2>2, <3>2 DEF Written, RepInv, RunsInv
  <2>3. CASE t # "audit_runs"
    <3>1. db'["audit_runs"] = db["audit_runs"]
      BY <1>1, <2>3, TablesAre DEF Written
    <3> QED
      BY <2>1, <3>1 DEF RepInv, RunsInv
  <2> QED
    BY <2>2, <2>3
<1>6. IssuesInv'
  <2>1. /\ DOMAIN db["audits"] \subseteq DOMAIN db'["audits"]
        /\ DOMAIN db["audit_runs"] \subseteq DOMAIN db'["audit_runs"]
    BY <1>3, TablesAre
  <2>2. CASE t = "issues"
    <3>1. "audit_id" \in DOMAIN row /\ "audit_run_id" \in DOMAIN row
      <4>1. {"audit_id", "audit_run_id"} \subseteq Tables["issues"].notNull
        BY DEF Tables, IssuesTable, Table
      <4> QED
        BY <2>2, <4>1 DEF RowOK
    <3>2. row.audit_id \in DOMAIN db'["audits"] /\ row.audit_run_id \in DOMAIN db'["audit_runs"]
      BY <2>2, <3>1, TableConstraints DEF Fits
    <3> QED
      BY <2>1, <2>2, <3>2 DEF Written, RepInv, IssuesInv
  <2>3. CASE t # "issues"
    <3>1. db'["issues"] = db["issues"]
      BY <1>1, <2>3, TablesAre DEF Written
    <3> QED
      BY <2>1, <3>1 DEF RepInv, IssuesInv
  <2> QED
    BY <2>2, <2>3
<1> QED
  BY <1>2, <1>4, <1>5, <1>6 DEF RepInv

\* What writes nothing.
LEMMA QuietKeeps ==
  ASSUME RepInv, UNCHANGED <<scope, db>>, clock' \in 2..MaxTime, call'.ok \in BOOLEAN
  PROVE  RepInv'
<1>1. TablesInv' /\ UsersInv' /\ RunsInv' /\ IssuesInv'
  BY DEF RepInv, TablesInv, Numbered, UsersInv, RunsInv, IssuesInv
<1> QED
  BY <1>1 DEF RepInv

-----------------------------------------------------------------------------
\* The empty text, by a name.
Empty == ""

\* Arguments that a table's columns can hold.
FieldsOK(t, fields) ==
    /\ DOMAIN fields \subseteq DOMAIN Clients[t].fields
    /\ \A c \in DOMAIN fields : Clients[t].fields[c] = "time" => fields[c] \in Nat

\* The mutations that Save and UpdateOneID save.
Filled(t, fields) ==
    Defaulted(Clients[t].defaults, [NewMutation("create", Nil) EXCEPT !.set = fields], clock)

\* The mutation of an update that is given fields, with the defaults of its Save.
Patched(t, id, fields) ==
    Defaulted(Clients[t].update.defaults,
              [NewMutation("updateOne", Ptr(id)) EXCEPT !.set = fields], clock)

\* What defaults make of the arguments.
LEMMA DefaultedFields ==
  ASSUME NEW e, NEW d, DefaultsFit(e, d), NEW op, NEW id, NEW fields,
         DOMAIN fields \subseteq DOMAIN e.fields,
         \A c \in DOMAIN fields : e.fields[c] = "time" => fields[c] \in Nat,
         NEW now \in Nat,
         NEW m, m = Defaulted(d, [NewMutation(op, id) EXCEPT !.set = fields], now)
  PROVE  /\ DOMAIN m.set = DOMAIN fields \cup DOMAIN d.values \cup d.times
         /\ \A c \in DOMAIN fields : m.set[c] = fields[c]
         /\ DOMAIN m.set \subseteq DOMAIN e.fields
         /\ \A c \in DOMAIN m.set : e.fields[c] = "time" => m.set[c] \in Nat
         /\ DOMAIN m.added = {} /\ m.cleared = {}
<1>1. PICK k : k = [NewMutation(op, id) EXCEPT !.set = fields]
  OBVIOUS
<1>2. /\ DOMAIN k = {"op", "id", "where", "set", "added", "cleared"}
      /\ k.set = fields /\ DOMAIN k.added = {} /\ k.cleared = {}
  BY <1>1 DEF NewMutation, NoFields
<1>3. m = Defaulted(d, k, now)
  BY <1>1
<1>4. /\ m.added = k.added /\ m.cleared = k.cleared
      /\ DOMAIN m.set = DOMAIN fields \cup DOMAIN d.values \cup d.times
      /\ \A c \in DOMAIN fields : m.set[c] = fields[c]
      /\ \A c \in DOMAIN d.values \ DOMAIN fields : m.set[c] = d.values[c]
      /\ \A c \in d.times \ (DOMAIN d.values \cup DOMAIN fields) : m.set[c] = now
  <2>1. m = [k EXCEPT !.set = Merge(Merge(k.set, d.values), [c \in d.times |-> now])]
    BY <1>3 DEF Defaulted
  <2>2. /\ m.added = k.added /\ m.cleared = k.cleared
        /\ m.set = Merge(Merge(fields, d.values), [c \in d.times |-> now])
    BY <1>2, <2>1
  <2> QED
    BY <2>2 DEF Merge
<1> QED
  BY <1>2, <1>4 DEF DefaultsFit

LEMMA FilledIs ==
  ASSUME RepInv, NEW t \in DOMAIN Clients, NEW fields, FieldsOK(t, fields),
         NEW m, m = Filled(t, fields)
  PROVE  /\ DOMAIN m.set = DOMAIN fields \cup DOMAIN Clients[t].defaults.values \cup Clients[t].defaults.times
         /\ \A c \in DOMAIN fields : m.set[c] = fields[c]
         /\ DOMAIN m.set \subseteq DOMAIN Clients[t].fields
         /\ \A c \in DOMAIN m.set : Clients[t].fields[c] = "time" => m.set[c] \in Nat
<1>1. DefaultsFit(Clients[t], Clients[t].defaults)
  BY EntitiesFit DEF WellFormed, SavesFit
<1>2. clock \in Nat
  BY DEF RepInv
<1> QED
  BY <1>1, <1>2, DefaultedFields DEF Filled, FieldsOK

LEMMA PatchedIs ==
  ASSUME RepInv, NEW t \in DOMAIN Clients, NEW fields, FieldsOK(t, fields), NEW id,
         NEW m, m = Patched(t, id, fields)
  PROVE  /\ DOMAIN m.set = DOMAIN fields \cup DOMAIN Clients[t].update.defaults.values
                             \cup Clients[t].update.defaults.times
         /\ \A c \in DOMAIN fields : m.set[c] = fields[c]
         /\ DOMAIN m.set \subseteq DOMAIN Clients[t].fields
         /\ \A c \in DOMAIN m.set : Clients[t].fields[c] = "time" => m.set[c] \in Nat
         /\ DOMAIN m.added = {} /\ m.cleared = {}
<1>1. DefaultsFit(Clients[t], Clients[t].update.defaults)
  BY EntitiesFit DEF WellFormed, SavesFit
<1>2. clock \in Nat
  BY DEF RepInv
<1> QED
  BY <1>1, <1>2, DefaultedFields DEF Patched, FieldsOK

\* A row with columns set in it.
Overwritten(kinds, set, before, row) ==
    /\ DOMAIN row = DOMAIN before \cup DOMAIN set
    /\ \A c \in DOMAIN set : row[c] = Stored(kinds[c], set[c])
    /\ \A c \in DOMAIN before \ DOMAIN set : row[c] = before[c]

LEMMA CreatedIs ==
  ASSUME NEW t \in DOMAIN Clients, NEW m, DOMAIN m.set \subseteq DOMAIN Clients[t].fields,
         NEW row, row = Created(Clients[t], m)
  PROVE  Overwritten(Clients[t].fields, m.set, NoFields, row)
<1>1. FieldsFit(Clients[t])
  BY EntitiesFit DEF WellFormed
<1>2. /\ DOMAIN row = DOMAIN m.set
      /\ \A c \in DOMAIN m.set : row[c] = Stored(Clients[t].fields[c], m.set[c])
  BY <1>1 DEF Created, StoredFields, CreateSpec, Restrict, FieldsFit
<1>3. DOMAIN NoFields = {}
  BY DEF NoFields
<1> QED
  BY <1>2, <1>3 DEF Overwritten

LEMMA UpdatedIs ==
  ASSUME NEW t \in DOMAIN Clients, NEW m, DOMAIN m.set \subseteq DOMAIN Clients[t].fields,
         DOMAIN m.added = {}, m.cleared = {}, NEW before,
         NEW row, row = Updated(Clients[t], m, before)
  PROVE  Overwritten(Clients[t].fields, m.set, before, row)
<1> DEFINE e == Clients[t]
<1>1. UpdateFits(e)
  BY EntitiesFit DEF WellFormed
<1>2. /\ SetColumns(e.update, m) = DOMAIN m.set
      /\ AddedColumns(e.update, m) = {} /\ ClearedColumns(e.update, m) = {}
  BY <1>1 DEF SetColumns, AddedColumns, ClearedColumns, UpdateFits
<1> HIDE DEF e
<1>3. row = Updated(e, m, before)
  BY DEF e
<1> QED
  BY <1>2, <1>3 DEF Updated, Overwritten, e

\* Stored texts are as they were, stored times are times.
LEMMA StoredRow ==
  ASSUME NEW t \in DOMAIN Clients, NEW c \in DOMAIN Clients[t].fields, NEW v
  PROVE  /\ c \in Clients[t].check.notEmpty => Stored(Clients[t].fields[c], v) = v
         /\ Clients[t].fields[c] = "time" /\ v \in Nat => Stored(Clients[t].fields[c], v) \in Nat
<1>1. ChecksFit(Clients[t])
  BY EntitiesFit DEF WellFormed
<1>2. c \in Clients[t].check.notEmpty => Clients[t].fields[c] # "time"
  BY <1>1 DEF ChecksFit
<1> QED
  BY <1>2, StoredTime, StoredOther

\* A row passes the create builder's check if what it had before did, and the
\* update's own check, or the create builder's, lets through what is set.
LEMMA PassesSet ==
  ASSUME NEW t \in DOMAIN Clients, NEW set, DOMAIN set \subseteq DOMAIN Clients[t].fields,
         NEW before, NEW row, Overwritten(Clients[t].fields, set, before, row),
         Passes(Clients[t].check, before) \/ Passes(Clients[t].check, set),
         \A c \in Clients[t].check.notEmpty \cap DOMAIN set : set[c] # Empty,
         \A c \in Clients[t].check.notEmpty \cap DOMAIN before : before[c] # Empty
  PROVE  Passes(Clients[t].check, row)
<1> DEFINE check == Clients[t].check
<1>1. check.required \subseteq DOMAIN row \cup check.defaults
  <2>1. \/ check.required \subseteq DOMAIN before \cup check.defaults
        \/ check.required \subseteq DOMAIN set \cup check.defaults
    BY Zenon DEF Passes
  <2> QED
    BY <2>1 DEF Overwritten
<1>2. ASSUME NEW c \in check.notEmpty \cap DOMAIN row PROVE row[c] # Empty
  <2>1. CASE c \in DOMAIN set
    <3>1. row[c] = set[c]
      BY <2>1, StoredRow DEF Overwritten
    <3> QED
      BY <2>1, <3>1
  <2>2. CASE c \notin DOMAIN set
    BY <2>2 DEF Overwritten
  <2> QED
    BY <2>1, <2>2
<1> QED
  BY <1>1, <1>2, Zenon DEF Passes, Empty

LEMMA PassesCreated ==
  ASSUME NEW t \in DOMAIN Clients, NEW m, DOMAIN m.set \subseteq DOMAIN Clients[t].fields,
         NEW row, Overwritten(Clients[t].fields, m.set, NoFields, row),
         Passes(Clients[t].check, m.set)
  PROVE  Passes(Clients[t].check, row)
<1>1. \A c \in Clients[t].check.notEmpty \cap DOMAIN m.set : m.set[c] # Empty
  BY Zenon DEF Passes, Empty
<1>2. DOMAIN NoFields = {}
  BY DEF NoFields
<1> QED
  BY <1>1, <1>2, PassesSet

LEMMA PassesUpdated ==
  ASSUME NEW t \in DOMAIN Clients, NEW m, DOMAIN m.set \subseteq DOMAIN Clients[t].fields,
         NEW before, NEW row, Overwritten(Clients[t].fields, m.set, before, row),
         Passes(Clients[t].check, before), Checked(Clients[t].update, m)
  PROVE  Passes(Clients[t].check, row)
<1>1. Clients[t].check.notEmpty = Clients[t].update.notEmpty
  BY EntitiesFit DEF WellFormed, ChecksFit
<1>2. \A c \in Clients[t].update.notEmpty \cap DOMAIN m.set : m.set[c] # Empty
  BY Zenon DEF Checked, Empty
<1>3. \A c \in Clients[t].check.notEmpty \cap DOMAIN before : before[c] # Empty
  BY Zenon DEF Passes, Empty
<1> QED
  BY <1>1, <1>2, <1>3, PassesSet

LEMMA AnswersAre ==
  ASSUME NEW method, NEW args, NEW v, NEW c, c \in {Failed(method, args), Answered(method, args, v)}
  PROVE  c.ok \in BOOLEAN /\ c.method = method /\ c.args = args /\ (c.ok => c.value = v)
<1>1. CASE c = Failed(method, args)
  BY <1>1 DEF Failed
<1>2. CASE c = Answered(method, args, v)
  BY <1>2 DEF Answered
<1> QED
  BY <1>1, <1>2

-----------------------------------------------------------------------------
\* Save, when the insert is done.
Inserted(method, args, t, m, id) ==
    /\ id \notin DOMAIN db[t] /\ id <= scope[t] /\ Numbered(t)'
    /\ Passes(Clients[t].check, m.set)
    /\ Written(t, id, Created(Clients[t], m))
    /\ Fits(Tables, db', t, id, Created(Clients[t], m))
    /\ call' \in {Failed(method, args),
                  Answered(method, args, <<id, To(t, NewNode(Clients[t], m))>>)}

LEMMA SaveMeans ==
  ASSUME RepInv, NEW method, NEW args, NEW t, NEW fields, Save(method, args, t, fields)
  PROVE  /\ t \in DOMAIN scope /\ t \in DOMAIN Tables /\ call.method = "none"
         /\ UNCHANGED <<scope, clock>>
         /\ \/ db' = db /\ call' = Failed(method, args)
            \/ \E id : Inserted(method, args, t, Filled(t, fields), id)
<1>1. t \in DOMAIN scope /\ call.method = "none" /\ UNCHANGED <<scope, clock>>
  BY DEF Save, Free
<1>2. t \in DOMAIN Tables /\ DOMAIN db = DOMAIN Tables
  BY <1>1, RepositoryAssumption DEF RepInv, TablesInv
<1>3. PICK m : m = Filled(t, fields)
  OBVIOUS
<1>4. PICK row : row = Created(Clients[t], m)
  OBVIOUS
<1>5. PICK id : id = Cardinality(DOMAIN db[t]) + 1
  OBVIOUS
<1>6. PICK new : new = [db EXCEPT ![t] = With(@, id, row)]
  OBVIOUS
<1>7. /\ id <= scope[t]
      /\ \/ db' = db /\ call' = Failed(method, args)
         \/ /\ Passes(Clients[t].check, m.set) /\ Fits(Tables, new, t, id, new[t][id])
            /\ db' = new
            /\ call' \in {Failed(method, args),
                          Answered(method, args, <<id, To(t, NewNode(Clients[t], m))>>)}
  BY <1>3, <1>4, <1>5, <1>6, Zenon DEF Save, Filled
<1>8. PICK n \in Nat : DOMAIN db[t] = 1..n
  BY <1>2 DEF RepInv, TablesInv, Numbered
<1>9. id = n + 1
  <2>1. Cardinality(1..n) = n
    BY FS_Interval
  <2> QED
    BY <1>5, <1>8, <2>1
<1>10. CASE db' = db /\ call' = Failed(method, args)
  BY <1>1, <1>2, <1>10
<1>11. CASE db' = new
  <2>1. PICK table : table = With(db[t], id, row)
    OBVIOUS
  <2>2. DOMAIN table = DOMAIN db[t] \cup {id} /\ table[id] = row
        /\ \A i \in DOMAIN db[t] : i # id => table[i] = db[t][i]
    BY <2>1 DEF With
  <2>3. /\ DOMAIN db' = DOMAIN db /\ db'[t] = table
        /\ \A u \in DOMAIN db : u # t => db'[u] = db[u]
    BY <1>2, <1>6, <1>11, <2>1
  <2>4. Written(t, id, row)
    BY <2>2, <2>3 DEF Written
  <2>5. DOMAIN db'[t] = 1..(n + 1)
    BY <1>8, <1>9, <2>2, <2>3
  <2>6. Numbered(t)'
    BY <2>5 DEF Numbered
  <2>7. id \notin DOMAIN db[t]
    BY <1>8, <1>9
  <2>8. CASE db' = db /\ call' = Failed(method, args)
    BY <1>1, <1>2, <2>8
  <2>9. CASE /\ Passes(Clients[t].check, m.set) /\ Fits(Tables, new, t, id, new[t][id])
             /\ call' \in {Failed(method, args),
                           Answered(method, args, <<id, To(t, NewNode(Clients[t], m))>>)}
    <3>1. Fits(Tables, db', t, id, row)
      BY <1>11, <2>2, <2>3, <2>9
    <3>2. Inserted(method, args, t, m, id)
      BY <1>4, <1>7, <2>4, <2>6, <2>7, <2>9, <3>1 DEF Inserted
    <3> QED
      BY <1>1, <1>2, <1>3, <3>2
  <2> QED
    BY <1>7, <2>8, <2>9
<1> QED
  BY <1>7, <1>10, <1>11

LEMMA SaveKeeps ==
  ASSUME RepInv, NEW method, NEW args, NEW t, NEW fields, FieldsOK(t, fields),
         Save(method, args, t, fields)
  PROVE  RepInv'
<1>1. t \in DOMAIN scope /\ t \in DOMAIN Clients /\ UNCHANGED <<scope, clock>>
  BY SaveMeans, TablesAre
<1>2. CASE db' = db /\ call' = Failed(method, args)
  <2>1. call'.ok \in BOOLEAN /\ clock' \in 2..MaxTime
    BY <1>1, <1>2 DEF Failed, RepInv
  <2> QED
    BY <1>1, <1>2, <2>1, QuietKeeps
<1>3. CASE \E id : Inserted(method, args, t, Filled(t, fields), id)
  <2>1. PICK m : m = Filled(t, fields)
    OBVIOUS
  <2>2. PICK id : Inserted(method, args, t, m, id)
    BY <1>3, <2>1
  <2>3. PICK row : row = Created(Clients[t], m)
    OBVIOUS
  <2>4. /\ DOMAIN m.set \subseteq DOMAIN Clients[t].fields
        /\ \A c \in DOMAIN m.set : Clients[t].fields[c] = "time" => m.set[c] \in Nat
    BY <1>1, <2>1, FilledIs
  <2>5. Overwritten(Clients[t].fields, m.set, NoFields, row) /\ DOMAIN NoFields = {}
    BY <1>1, <2>3, <2>4, CreatedIs DEF NoFields
  <2>6. Passes(Clients[t].check, row)
    <3>1. Passes(Clients[t].check, m.set)
      BY <2>2 DEF Inserted
    <3> QED
      BY <1>1, <2>4, <2>5, <3>1, PassesCreated
  <2>7. Tables[t].notNull \subseteq DOMAIN row
    BY <2>2, <2>3 DEF Inserted, Fits
  <2>8. \A c \in DOMAIN row : Clients[t].fields[c] = "time" => row[c] \in Nat
    BY <1>1, <2>4, <2>5, StoredRow DEF Overwritten
  <2>9. RowOK(t, row)
    BY <2>4, <2>5, <2>6, <2>7, <2>8 DEF RowOK, Overwritten
  <2>10. call'.ok \in BOOLEAN
    <3>1. PICK v : v = <<id, To(t, NewNode(Clients[t], m))>>
      OBVIOUS
    <3>2. call' \in {Failed(method, args), Answered(method, args, v)}
      BY <2>2, <3>1, Zenon DEF Inserted
    <3> QED
      BY <3>2, AnswersAre
  <2> QED
    BY <1>1, <2>2, <2>3, <2>9, <2>10, WriteKeeps DEF Inserted
<1> QED
  BY <1>2, <1>3, SaveMeans

-----------------------------------------------------------------------------
\* UpdateOneID, when the update is done.
Amended(method, args, t, id, m, quiet) ==
    /\ id \in DOMAIN db[t]
    /\ Checked(Clients[t].update, m)
    /\ Written(t, id, Updated(Clients[t], m, db[t][id]))
    /\ Fits(Tables, db', t, id, Updated(Clients[t], m, db[t][id]))
    /\ call' \in {Failed(method, args),
                  Answered(method, args,
                      <<id, IF quiet THEN Nil ELSE To(t, Read(Clients[t], db'[t][id]))>>)}

LEMMA UpdateMeans ==
  ASSUME RepInv, NEW method, NEW args, NEW t, NEW id, NEW fields, NEW quiet,
         UpdateOneID(method, args, t, id, fields, quiet)
  PROVE  /\ t \in DOMAIN scope /\ t \in DOMAIN Tables /\ call.method = "none"
         /\ UNCHANGED <<scope, clock>>
         /\ \/ db' = db /\ call' = Failed(method, args)
            \/ Amended(method, args, t, id, Patched(t, id, fields), quiet)
<1>1. t \in DOMAIN scope /\ call.method = "none" /\ UNCHANGED <<scope, clock>>
  BY DEF UpdateOneID, Free
<1>2. t \in DOMAIN Tables /\ DOMAIN db = DOMAIN Tables
  BY <1>1, RepositoryAssumption DEF RepInv, TablesInv
<1>3. PICK m : m = Patched(t, id, fields)
  OBVIOUS
<1>4. PICK row : row = Updated(Clients[t], m, db[t][id])
  OBVIOUS
<1>5. PICK new : new = [db EXCEPT ![t] = With(@, id, row)]
  OBVIOUS
<1>6. \/ db' = db /\ call' = Failed(method, args)
      \/ /\ id \in DOMAIN db[t]
         /\ Checked(Clients[t].update, m) /\ Fits(Tables, new, t, id, new[t][id])
         /\ db' = new
         /\ call' \in {Failed(method, args),
                       Answered(method, args,
                           <<id, IF quiet THEN Nil ELSE To(t, Read(Clients[t], new[t][id]))>>)}
  BY <1>3, <1>4, <1>5, Zenon DEF UpdateOneID, Patched
<1>7. CASE db' = db /\ call' = Failed(method, args)
  BY <1>1, <1>2, <1>7
<1>8. CASE /\ id \in DOMAIN db[t]
           /\ Checked(Clients[t].update, m) /\ Fits(Tables, new, t, id, new[t][id])
           /\ db' = new
           /\ call' \in {Failed(method, args),
                         Answered(method, args,
                           <<id, IF quiet THEN Nil ELSE To(t, Read(Clients[t], new[t][id]))>>)}
  <2>1. PICK table : table = With(db[t], id, row)
    OBVIOUS
  <2>2. DOMAIN table = DOMAIN db[t] \cup {id} /\ table[id] = row
        /\ \A i \in DOMAIN db[t] : i # id => table[i] = db[t][i]
    BY <2>1 DEF With
  <2>3. /\ DOMAIN db' = DOMAIN db /\ db'[t] = table
        /\ \A u \in DOMAIN db : u # t => db'[u] = db[u]
    BY <1>2, <1>5, <1>8, <2>1
  <2>4. Written(t, id, row)
    BY <2>2, <2>3 DEF Written
  <2>5. Fits(Tables, db', t, id, row)
    BY <1>8, <2>2, <2>3
  <2>6. Amended(method, args, t, id, m, quiet)
    BY <1>4, <1>8, <2>4, <2>5 DEF Amended
  <2> QED
    BY <1>1, <1>2, <1>3, <2>6
<1> QED
  BY <1>6, <1>7, <1>8

LEMMA UpdateKeeps ==
  ASSUME RepInv, NEW method, NEW args, NEW t, NEW id, NEW fields, FieldsOK(t, fields), NEW quiet,
         UpdateOneID(method, args, t, id, fields, quiet)
  PROVE  RepInv'
<1>1. t \in DOMAIN scope /\ t \in DOMAIN Clients /\ UNCHANGED <<scope, clock>>
  BY UpdateMeans, TablesAre
<1>2. CASE db' = db /\ call' = Failed(method, args)
  <2>1. call'.ok \in BOOLEAN /\ clock' \in 2..MaxTime
    BY <1>1, <1>2 DEF Failed, RepInv
  <2> QED
    BY <1>1, <1>2, <2>1, QuietKeeps
<1>3. CASE Amended(method, args, t, id, Patched(t, id, fields), quiet)
  <2>1. PICK m : m = Patched(t, id, fields)
    OBVIOUS
  <2>2. Amended(method, args, t, id, m, quiet)
    BY <1>3, <2>1
  <2>3. PICK before : before = db[t][id]
    OBVIOUS
  <2>4. PICK row : row = Updated(Clients[t], m, before)
    OBVIOUS
  <2>5. /\ DOMAIN m.set \subseteq DOMAIN Clients[t].fields
        /\ \A c \in DOMAIN m.set : Clients[t].fields[c] = "time" => m.set[c] \in Nat
        /\ DOMAIN m.added = {} /\ m.cleared = {}
    BY <1>1, <2>1, PatchedIs
  <2>6. Overwritten(Clients[t].fields, m.set, before, row)
    BY <1>1, <2>4, <2>5, UpdatedIs
  <2>7. RowOK(t, before) /\ id <= scope[t]
    BY <1>1, <2>2, <2>3, TablesAre DEF Amended, RepInv, TablesInv
  <2>8. Passes(Clients[t].check, row)
    <3>1. Checked(Clients[t].update, m) /\ Passes(Clients[t].check, before)
      BY <2>2, <2>7 DEF Amended, RowOK
    <3> QED
      BY <1>1, <2>5, <2>6, <3>1, PassesUpdated
  <2>9. Tables[t].notNull \subseteq DOMAIN row
    BY <2>2, <2>3, <2>4 DEF Amended, Fits
  <2>10. \A c \in DOMAIN row : Clients[t].fields[c] = "time" => row[c] \in Nat
    BY <1>1, <2>5, <2>6, <2>7, StoredRow DEF RowOK, Overwritten
  <2>11. RowOK(t, row)
    BY <2>5, <2>6, <2>7, <2>8, <2>9, <2>10 DEF RowOK, Overwritten
  <2>12. call'.ok \in BOOLEAN
    <3>1. PICK v : v = <<id, IF quiet THEN Nil ELSE To(t, Read(Clients[t], db'[t][id]))>>
      OBVIOUS
    <3>2. call' \in {Failed(method, args), Answered(method, args, v)}
      BY <2>2, <3>1, Zenon DEF Amended
    <3> QED
      BY <3>2, AnswersAre
  <2>13. Numbered(t)'
    <3>1. Numbered(t)
      BY <1>1, TablesAre DEF RepInv, TablesInv
    <3>2. DOMAIN db'[t] = DOMAIN db[t]
      BY <2>2 DEF Amended, Written
    <3> QED
      BY <3>1, <3>2 DEF Numbered
  <2> QED
    BY <1>1, <2>2, <2>3, <2>4, <2>7, <2>11, <2>12, <2>13, WriteKeeps DEF Amended
<1> QED
  BY <1>2, <1>3, UpdateMeans

-----------------------------------------------------------------------------
(***************************************************************************)
(* The invariant, method by method.                                        *)
(***************************************************************************)
LEMMA ClockIs == RepInv => clock \in Nat
  BY DEF RepInv

LEMMA OnlyKeeps ==
  ASSUME RepInv, NEW method, NEW args, NEW t, NEW ids, Only(method, args, t, ids)
  PROVE  RepInv'
<1>1. call'.ok \in BOOLEAN
  <2>1. \E v : call' \in {Failed(method, args), Answered(method, args, v)}
    BY Zenon DEF Only
  <2> QED
    BY <2>1, AnswersAre
<1>2. UNCHANGED <<scope, db, clock>> /\ clock' \in 2..MaxTime
  BY DEF Only, RepInv
<1> QED
  BY <1>1, <1>2, QuietKeeps

LEMMA AllKeeps ==
  ASSUME RepInv, NEW method, NEW args, NEW t, NEW ids, All(method, args, t, ids)
  PROVE  RepInv'
<1>1. call'.ok \in BOOLEAN
  <2>1. PICK v : call' \in {Failed(method, args), Answered(method, args, v)}
    BY Zenon DEF All
  <2> QED
    BY <2>1, AnswersAre
<1>2. UNCHANGED <<scope, db, clock>> /\ clock' \in 2..MaxTime
  BY DEF All, RepInv
<1> QED
  BY <1>1, <1>2, QuietKeeps

LEMMA ListKeeps == ASSUME RepInv, ListIssues PROVE RepInv'
<1>1. PICK page, size, v : call' \in {Failed("ListIssues", <<page, size>>), Answered("ListIssues", <<page, size>>, v)}
  BY Zenon DEF ListIssues
<1>2. call'.ok \in BOOLEAN
  BY <1>1, AnswersAre
<1>3. UNCHANGED <<scope, db, clock>> /\ clock' \in 2..MaxTime
  BY DEF ListIssues, RepInv
<1> QED
  BY <1>2, <1>3, QuietKeeps

LEMMA AuditFieldsOK == ASSUME NEW name, NEW queries PROVE FieldsOK("audits", AuditRow(name, queries))
<1>1. Clients["audits"].fields = AuditFields
  BY DEF Clients, AuditClient
<1> QED
  BY <1>1 DEF FieldsOK, AuditRow, AuditFields

LEMMA AuditRunFieldsOK == ASSUME NEW audit PROVE FieldsOK("audit_runs", AuditRunRow(audit))
<1>1. Clients["audit_runs"].fields = AuditRunFields
  BY DEF Clients, AuditRunClient
<1> QED
  BY <1>1 DEF FieldsOK, AuditRunRow, AuditRunFields

LEMMA IssueFieldsOK ==
  ASSUME NEW audit, NEW run, NEW actual
  PROVE  FieldsOK("issues", IssueRow(audit, run, "q", "expected", actual, "description"))
<1>1. Clients["issues"].fields = IssueFields
  BY DEF Clients, IssueClient
<1> QED
  BY <1>1 DEF FieldsOK, IssueRow, IssueFields

LEMMA PolicyFieldsOK == ASSUME NEW name, NEW audits PROVE FieldsOK("policies", PolicyRow(name, audits))
<1>1. Clients["policies"].fields = PolicyAuditFields
  BY DEF Clients, PolicyAuditClient
<1> QED
  BY <1>1 DEF FieldsOK, PolicyRow, PolicyAuditFields

LEMMA PolicyRunFieldsOK == ASSUME NEW policy, NEW list PROVE FieldsOK("policy_runs", PolicyRunRow(policy, list))
<1>1. Clients["policy_runs"].fields = PolicyRunFields
  BY DEF Clients, PolicyRunClient
<1> QED
  BY <1>1 DEF FieldsOK, PolicyRunRow, PolicyRunFields

LEMMA UserFieldsOK ==
  ASSUME NEW name, NEW password
  PROVE  FieldsOK("users", UserRow(name, password, "admin"))
<1>1. Clients["users"].fields = UserFields
  BY DEF Clients, UserClient
<1> QED
  BY <1>1 DEF FieldsOK, UserRow, UserFields

LEMMA ScheduleFieldsOK ==
  ASSUME NEW id, NEW next \in Nat
  PROVE  FieldsOK("schedules", ScheduleRow("audit", id, 60, next))
<1>1. Clients["schedules"].fields = ScheduleFields
  BY DEF Clients, ScheduleClient
<1> QED
  BY <1>1 DEF FieldsOK, ScheduleRow, ScheduleFields

\* The fields of a result.
ResultFields(status, now, value, msg) ==
    Merge([status |-> status, completed_at |-> now],
          Merge(IfGiven("actual_value", value), IfGiven("error_message", msg)))

\* What a result gives: a value or a message only if there is one.
ResultGives(f, status, now, value, msg) ==
    /\ DOMAIN f = {"status", "completed_at"} \cup (IF value = Nil THEN {} ELSE {"actual_value"})
                      \cup (IF msg = Nil THEN {} ELSE {"error_message"})
    /\ f["status"] = status /\ f["completed_at"] = now
    /\ value # Nil => f["actual_value"] = value[1]
    /\ msg # Nil => f["error_message"] = msg[1]

LEMMA ResultFieldsAre ==
  ASSUME NEW status, NEW now, NEW value, NEW msg, NEW f, f = ResultFields(status, now, value, msg)
  PROVE  ResultGives(f, status, now, value, msg)
<1>1. PICK a : a = IfGiven("actual_value", value)
  OBVIOUS
<1>2. PICK b : b = IfGiven("error_message", msg)
  OBVIOUS
<1>3. DOMAIN a = (IF value = Nil THEN {} ELSE {"actual_value"}) /\ (value # Nil => a["actual_value"] = value[1])
  BY <1>1 DEF IfGiven, NoFields
<1>4. DOMAIN b = (IF msg = Nil THEN {} ELSE {"error_message"}) /\ (msg # Nil => b["error_message"] = msg[1])
  BY <1>2 DEF IfGiven, NoFields
<1>5. PICK c : c = Merge(a, b)
  OBVIOUS
<1>6. /\ DOMAIN c = DOMAIN a \cup DOMAIN b
      /\ value # Nil => c["actual_value"] = value[1]
      /\ msg # Nil => c["error_message"] = msg[1]
  BY <1>3, <1>4, <1>5 DEF Merge
<1>7. f = Merge([status |-> status, completed_at |-> now], c)
  BY <1>1, <1>2, <1>5 DEF ResultFields
<1> QED
  BY <1>3, <1>4, <1>6, <1>7 DEF Merge, ResultGives

LEMMA ResultFieldsOK ==
  ASSUME NEW status, NEW now \in Nat, NEW value, NEW msg
  PROVE  FieldsOK("audit_runs", ResultFields(status, now, value, msg))
<1>1. Clients["audit_runs"].fields = AuditRunFields
  BY DEF Clients, AuditRunClient
<1>2. PICK f : f = ResultFields(status, now, value, msg)
  OBVIOUS
<1>3. ResultGives(f, status, now, value, msg)
  BY ZenonT(30), <1>2, ResultFieldsAre
<1>4. FieldsOK("audit_runs", f)
  BY <1>1, <1>3 DEF FieldsOK, AuditRunFields, ResultGives
<1> QED
  BY <1>2, <1>4

LEMMA ResultKeeps == ASSUME RepInv, UpdateAuditRunResult PROVE RepInv'
<1>1. PICK run, status, value, msg :
         UpdateOneID("UpdateAuditRunResult", <<run, status, value, msg>>, "audit_runs", run,
                     ResultFields(status, clock, value, msg), FALSE)
  BY Zenon DEF UpdateAuditRunResult, ResultFields
<1>2. PICK f : f = ResultFields(status, clock, value, msg)
  OBVIOUS
<1>3. FieldsOK("audit_runs", f)
  BY <1>2, ClockIs, ResultFieldsOK
<1> QED
  BY <1>1, <1>2, <1>3, UpdateKeeps

LEMMA StatusFieldsOK ==
  ASSUME NEW status, NEW now \in Nat, NEW f, f = [status |-> status, completed_at |-> now]
  PROVE  FieldsOK("policy_runs", f)
<1>1. Clients["policy_runs"].fields = PolicyRunFields
  BY DEF Clients, PolicyRunClient
<1> QED
  BY <1>1 DEF FieldsOK, PolicyRunFields

LEMMA StatusKeeps == ASSUME RepInv, UpdatePolicyRunStatus PROVE RepInv'
<1>1. PICK run, status :
         UpdateOneID("UpdatePolicyRunStatus", <<run, status>>, "policy_runs", run,
                    [status |-> status, completed_at |-> clock], FALSE)
  BY DEF UpdatePolicyRunStatus
<1>2. PICK f : f = [status |-> status, completed_at |-> clock]
  OBVIOUS
<1>3. FieldsOK("policy_runs", f)
  BY <1>2, ClockIs, StatusFieldsOK
<1> QED
  BY <1>1, <1>2, <1>3, UpdateKeeps

LEMMA NextRunFieldsOK ==
  ASSUME NEW next \in Nat, NEW f, f = [next_run_at |-> next]
  PROVE  FieldsOK("schedules", f)
<1>1. Clients["schedules"].fields = ScheduleFields
  BY DEF Clients, ScheduleClient
<1> QED
  BY <1>1 DEF FieldsOK, ScheduleFields

LEMMA NextRunKeeps == ASSUME RepInv, UpdateScheduleNextRun PROVE RepInv'
<1>1. PICK id \in Ids, next \in 1..MaxTime :
         UpdateOneID("UpdateScheduleNextRun", <<id, next>>, "schedules", id,
                    [next_run_at |-> next], TRUE)
  BY DEF UpdateScheduleNextRun
<1>2. PICK f : f = [next_run_at |-> next]
  OBVIOUS
<1>3. next \in Nat
  BY RepositoryAssumption
<1>4. FieldsOK("schedules", f)
  BY <1>2, <1>3, NextRunFieldsOK
<1> QED
  BY <1>1, <1>2, <1>4, UpdateKeeps

LEMMA ScheduleKeeps == ASSUME RepInv, CreateSchedule PROVE RepInv'
<1>1. PICK id \in Ids, next \in 1..MaxTime :
         Save("CreateSchedule", <<id, next>>, "schedules", ScheduleRow("audit", id, 60, next))
  BY DEF CreateSchedule
<1>2. next \in Nat
  BY RepositoryAssumption
<1> QED
  BY <1>1, <1>2, ScheduleFieldsOK, SaveKeeps

LEMMA TickKeeps == ASSUME RepInv, Tick PROVE RepInv'
<1>1. clock' \in 2..MaxTime /\ UNCHANGED <<scope, db, call>>
  BY RepositoryAssumption DEF Tick, RepInv
<1>2. call'.ok \in BOOLEAN
  BY <1>1 DEF RepInv
<1> QED
  BY <1>1, <1>2, QuietKeeps

LEMMA ReturnKeeps == ASSUME RepInv, Return PROVE RepInv'
<1>1. call' = NoCall /\ UNCHANGED <<scope, db, clock>>
  BY DEF Return
<1>2. call'.ok \in BOOLEAN /\ clock' \in 2..MaxTime
  BY <1>1 DEF NoCall, RepInv
<1> QED
  BY <1>1, <1>2, QuietKeeps

LEMMA RepStep == ASSUME RepInv, [RepositoryNext]_repositoryVars PROVE RepInv'
<1>1. CASE CreateAudit
  BY <1>1, AuditFieldsOK, SaveKeeps DEF CreateAudit
<1>2. CASE GetAudit
  BY <1>2, OnlyKeeps DEF GetAudit
<1>3. CASE CreateAuditRun
  BY <1>3, AuditRunFieldsOK, SaveKeeps DEF CreateAuditRun
<1>4. CASE UpdateAuditRunResult
  BY <1>4, ResultKeeps
<1>5. CASE GetAuditRun
  BY <1>5, OnlyKeeps DEF GetAuditRun
<1>6. CASE GetAuditRunsByIDs
  BY <1>6, AllKeeps DEF GetAuditRunsByIDs
<1>7. CASE CreateIssue
  BY <1>7, IssueFieldsOK, SaveKeeps DEF CreateIssue
<1>8. CASE ListIssues
  BY <1>8, ListKeeps
<1>9. CASE GetIssue
  BY <1>9, OnlyKeeps DEF GetIssue
<1>10. CASE CreatePolicy
  BY <1>10, PolicyFieldsOK, SaveKeeps DEF CreatePolicy
<1>11. CASE GetPolicy
  BY <1>11, OnlyKeeps DEF GetPolicy
<1>12. CASE CreatePolicyRun
  BY <1>12, PolicyRunFieldsOK, SaveKeeps DEF CreatePolicyRun
<1>13. CASE GetPolicyRun
  BY <1>13, OnlyKeeps DEF GetPolicyRun
<1>14. CASE UpdatePolicyRunStatus
  BY <1>14, StatusKeeps
<1>15. CASE CreateUser
  BY <1>15, UserFieldsOK, SaveKeeps DEF CreateUser
<1>16. CASE GetUserByUsername
  BY <1>16, OnlyKeeps DEF GetUserByUsername
<1>17. CASE CreateSchedule
  BY <1>17, ScheduleKeeps
<1>18. CASE GetDueSchedules
  BY <1>18, AllKeeps DEF GetDueSchedules
<1>19. CASE UpdateScheduleNextRun
  BY <1>19, NextRunKeeps
<1>20. CASE Tick
  BY <1>20, TickKeeps
<1>21. CASE Return
  BY <1>21, ReturnKeeps
<1>22. CASE UNCHANGED repositoryVars
  <2>1. UNCHANGED <<scope, db>> /\ clock' \in 2..MaxTime /\ call'.ok \in BOOLEAN
    BY <1>22 DEF repositoryVars, RepInv
  <2> QED
    BY <2>1, QuietKeeps
<1> QED
  BY <1>1, <1>2, <1>3, <1>4, <1>5, <1>6, <1>7, <1>8, <1>9, <1>10, <1>11, <1>12, <1>13, <1>14,
     <1>15, <1>16, <1>17, <1>18, <1>19, <1>20, <1>21, <1>22 DEF RepositoryNext

\* RepositoryTypeOK, for every scope, name, list and time: every row is one that its table
\* takes and its entity's check lets through, and leads to rows that are there.
THEOREM RowsAreSound == RepositorySpec => []RepositoryTypeOK
  BY RepInit, RepStep, RepInvTypes, PTL DEF RepositorySpec

-----------------------------------------------------------------------------
(***************************************************************************)
(* The records that the service sees.                                      *)
(***************************************************************************)
LEMMA RecordsAre ==
  ASSUME NEW t \in DOMAIN scope
  PROVE  /\ DOMAIN Records[t] = DOMAIN db[t]
         /\ \A i \in DOMAIN db[t] : Records[t][i] = To(t, Read(Clients[t], db[t][i]))
  BY DEF Records, Node

LEMMA RecordsStay == UNCHANGED <<scope, db>> => Records' = Records
  BY DEF Records, Node

\* One record is added or changed.
Recorded(t, id, r) ==
    /\ Records' = [Records EXCEPT ![t] =
                     [i \in DOMAIN @ \cup {id} |-> IF i = id THEN Records'[t][id] ELSE @[i]]]
    /\ DOMAIN Records'[t] = DOMAIN Records[t] \cup {id}
    /\ Records'[t][id] = r

LEMMA RecordWritten ==
  ASSUME RepInv, NEW t \in DOMAIN scope, NEW id, NEW row, Written(t, id, row), scope' = scope
  PROVE  Recorded(t, id, To(t, Read(Clients[t], row)))
<1>1. DOMAIN scope \subseteq DOMAIN db
  BY RepositoryAssumption DEF RepInv, TablesInv
<1>2. DOMAIN Records = DOMAIN scope /\ DOMAIN Records' = DOMAIN scope
  BY DEF Records
<1>3. ASSUME NEW u \in DOMAIN scope, u # t PROVE Records'[u] = Records[u]
  BY <1>1, <1>3 DEF Written, Records, Node
<1>4. PICK new : new = Records'[t]
  OBVIOUS
<1>5. new = [i \in DOMAIN db'[t] |-> To(t, Read(Clients[t], db'[t][i]))]
  BY <1>4 DEF Records, Node
<1>6. DOMAIN Records[t] = DOMAIN db[t] /\ \A i \in DOMAIN db[t] : Records[t][i] = To(t, Read(Clients[t], db[t][i]))
  BY RecordsAre
<1>7. /\ DOMAIN new = DOMAIN Records[t] \cup {id} /\ new[id] = To(t, Read(Clients[t], row))
      /\ \A i \in DOMAIN Records[t] : i # id => new[i] = Records[t][i]
  BY <1>5, <1>6 DEF Written
<1>8. new = [i \in DOMAIN new |-> new[i]]
  BY <1>5
<1>9. new = [i \in DOMAIN Records[t] \cup {id} |-> IF i = id THEN new[id] ELSE Records[t][i]]
  BY <1>7, <1>8
<1>10. Records' = [Records EXCEPT ![t] = new]
  <2>1. Records = [u \in DOMAIN scope |-> Records[u]] /\ Records' = [u \in DOMAIN scope |-> Records'[u]]
    BY DEF Records
  <2> QED
    BY <1>2, <1>3, <1>4, <2>1
<1> QED
  BY <1>2, <1>4, <1>7, <1>9, <1>10 DEF Recorded

-----------------------------------------------------------------------------
(***************************************************************************)
(* Nodes.                                                                  *)
(***************************************************************************)
\* The node n is assigned from a row, or from the fields of a mutation.
Assigned(kinds, pointers, f, n) ==
    /\ \A c \in DOMAIN kinds \cap DOMAIN f : n[c] = IF c \in pointers THEN Ptr(f[c]) ELSE f[c]
    /\ \A c \in DOMAIN kinds \ DOMAIN f : n[c] = IF c \in pointers THEN Nil ELSE Zero(kinds[c])

LEMMA ReadAssigns ==
  ASSUME NEW t \in DOMAIN Clients, NEW row, NEW n, n = Read(Clients[t], row)
  PROVE  Assigned(Clients[t].fields, Clients[t].pointers, row, n)
<1> DEFINE e == Clients[t]
<1>1. FieldsFit(e)
  BY EntitiesFit DEF WellFormed
<1> HIDE DEF e
<1>2. PICK f : f = Selected(e, row)
  OBVIOUS
<1>3. DOMAIN f = DOMAIN row \cap DOMAIN e.fields /\ \A c \in DOMAIN f : f[c] = row[c]
  BY <1>1, <1>2 DEF Selected, Restrict, FieldsFit
<1>4. n = Assign(e, f)
  BY <1>2 DEF Read, e
<1>5. Assigned(e.fields, e.pointers, row, n)
  BY <1>3, <1>4 DEF Assign, Assigned
<1> QED
  BY <1>5 DEF e

LEMMA NewAssigns ==
  ASSUME NEW t \in DOMAIN Clients, NEW m, DOMAIN m.set \subseteq DOMAIN Clients[t].fields,
         NEW n, n = NewNode(Clients[t], m)
  PROVE  Assigned(Clients[t].fields, Clients[t].pointers, m.set, n)
<1> DEFINE e == Clients[t]
<1>1. FieldsFit(e)
  BY EntitiesFit DEF WellFormed
<1> HIDE DEF e
<1>2. PICK f : f = CreateSpec(e, m)
  OBVIOUS
<1>3. DOMAIN f = DOMAIN m.set /\ \A c \in DOMAIN f : f[c] = m.set[c]
  BY <1>1, <1>2 DEF CreateSpec, Restrict, FieldsFit, e
<1>4. n = Assign(e, f)
  BY <1>2 DEF NewNode, e
<1>5. Assigned(e.fields, e.pointers, m.set, n)
  BY <1>3, <1>4 DEF Assign, Assigned
<1> QED
  BY <1>5 DEF e

LEMMA StoredNear == ASSUME NEW v \in Nat PROVE v <= Stored("time", v) /\ Stored("time", v) <= v + 1
<1>1. (v % 2) \in {0, 1}
  OBVIOUS
<1> QED
  BY <1>1 DEF Stored

\* The node k of a row beside the node n that the row was created from.
Alike(kinds, pointers, set, n, k) ==
    \A c \in DOMAIN kinds :
        /\ kinds[c] # "time" \/ c \notin DOMAIN set => n[c] = k[c]
        /\ kinds[c] = "time" /\ c \in DOMAIN set /\ c \notin pointers => Abstract!Near(n[c], k[c])

LEMMA CreatedAlike ==
  ASSUME NEW t \in DOMAIN Clients, NEW set, DOMAIN set \subseteq DOMAIN Clients[t].fields,
         \A c \in DOMAIN set : Clients[t].fields[c] = "time" => set[c] \in Nat,
         NEW row, Overwritten(Clients[t].fields, set, NoFields, row),
         NEW n, Assigned(Clients[t].fields, Clients[t].pointers, set, n),
         NEW k, Assigned(Clients[t].fields, Clients[t].pointers, row, k)
  PROVE  Alike(Clients[t].fields, Clients[t].pointers, set, n, k)
<1>1. PICK kinds : kinds = Clients[t].fields
  OBVIOUS
<1>2. PICK pointers : pointers = Clients[t].pointers
  OBVIOUS
<1>3. DOMAIN row = DOMAIN set /\ \A c \in DOMAIN set : row[c] = Stored(kinds[c], set[c])
  BY <1>1 DEF Overwritten, NoFields
<1>4. ASSUME NEW c \in DOMAIN kinds, kinds[c] # "time" \/ c \notin DOMAIN set
      PROVE  n[c] = k[c]
  <2>1. CASE c \notin DOMAIN set
    BY <1>1, <1>2, <1>3, <2>1 DEF Assigned
  <2>2. CASE c \in DOMAIN set
    <3>1. row[c] = set[c]
      BY <1>3, <1>4, <2>2, StoredOther
    <3> QED
      BY <1>1, <1>2, <1>3, <2>2, <3>1 DEF Assigned
  <2> QED
    BY <2>1, <2>2
<1>5. ASSUME NEW c \in DOMAIN kinds, kinds[c] = "time", c \in DOMAIN set, c \notin pointers
      PROVE  Abstract!Near(n[c], k[c])
  <2>1. n[c] = set[c] /\ k[c] = Stored("time", set[c]) /\ set[c] \in Nat
    BY <1>1, <1>2, <1>3, <1>5 DEF Assigned
  <2>2. n[c] <= k[c] /\ k[c] <= n[c] + 1 /\ n[c] \in Nat
    BY <2>1, StoredNear
  <2>3. k[c] \in Nat
    BY <2>1, StoredTime
  <2> QED
    BY <2>2, <2>3 DEF Abstract!Near
<1> QED
  BY <1>1, <1>2, <1>4, <1>5 DEF Alike

\* The columns that a create builder sets when it is given fields.
SetIn(t, fields) == DOMAIN fields \cup DOMAIN Clients[t].defaults.values \cup Clients[t].defaults.times

\* The node n that Save returns for the fields, and the node k that its row is read as.
Made(kinds, pointers, set, fields, n, k) ==
    /\ \A c \in DOMAIN kinds :
        /\ kinds[c] # "time" \/ c \notin set => n[c] = k[c]
        /\ kinds[c] = "time" /\ c \in set /\ c \notin pointers => Abstract!Near(n[c], k[c])
    /\ \A c \in DOMAIN kinds \ set : k[c] = IF c \in pointers THEN Nil ELSE Zero(kinds[c])
    /\ \A c \in DOMAIN fields :
        /\ kinds[c] # "time" => k[c] = IF c \in pointers THEN Ptr(fields[c]) ELSE fields[c]
        /\ kinds[c] = "time" /\ c \notin pointers => Abstract!Near(k[c], fields[c])

LEMMA NearIsEven ==
  ASSUME NEW u, NEW v, Abstract!Near(u, v)
  PROVE  Abstract!Near(v, u)
  BY DEF Abstract!Near

LEMMA SaveMakes ==
  ASSUME RepInv, NEW t \in DOMAIN Clients, NEW fields, FieldsOK(t, fields),
         NEW m, m = Filled(t, fields),
         NEW n, n = NewNode(Clients[t], m),
         NEW k, k = Read(Clients[t], Created(Clients[t], m))
  PROVE  Made(Clients[t].fields, Clients[t].pointers, SetIn(t, fields), fields, n, k)
<1>1. PICK kinds : kinds = Clients[t].fields
  OBVIOUS
<1>2. PICK pointers : pointers = Clients[t].pointers
  OBVIOUS
<1>3. PICK set : set = m.set
  OBVIOUS
<1>4. PICK row : row = Created(Clients[t], m)
  OBVIOUS
<1>5. /\ DOMAIN set = SetIn(t, fields)
      /\ \A c \in DOMAIN fields : set[c] = fields[c]
      /\ DOMAIN set \subseteq DOMAIN kinds
      /\ \A c \in DOMAIN set : kinds[c] = "time" => set[c] \in Nat
  BY <1>1, <1>3, FilledIs DEF SetIn
<1>6. Overwritten(kinds, set, NoFields, row)
  BY <1>1, <1>3, <1>4, <1>5, CreatedIs
<1>7. Assigned(kinds, pointers, set, n) /\ Assigned(kinds, pointers, row, k)
  BY <1>1, <1>2, <1>3, <1>4, <1>5, NewAssigns, ReadAssigns
<1>8. Alike(kinds, pointers, set, n, k)
  BY <1>1, <1>2, <1>5, <1>6, <1>7, CreatedAlike
<1>9. DOMAIN row = DOMAIN set
  BY <1>6 DEF Overwritten, NoFields
<1>10. \A c \in DOMAIN kinds \ DOMAIN set : k[c] = IF c \in pointers THEN Nil ELSE Zero(kinds[c])
  BY <1>7, <1>9 DEF Assigned
<1>11. ASSUME NEW c \in DOMAIN fields
       PROVE  /\ kinds[c] # "time" => k[c] = IF c \in pointers THEN Ptr(fields[c]) ELSE fields[c]
              /\ kinds[c] = "time" /\ c \notin pointers => Abstract!Near(k[c], fields[c])
  <2>1. c \in DOMAIN set /\ c \in DOMAIN kinds /\ set[c] = fields[c]
    BY <1>5 DEF SetIn
  <2>2. n[c] = IF c \in pointers THEN Ptr(fields[c]) ELSE fields[c]
    BY <1>7, <2>1 DEF Assigned
  <2>3. kinds[c] # "time" => n[c] = k[c]
    BY <1>8, <2>1 DEF Alike
  <2>4. kinds[c] = "time" /\ c \notin pointers => Abstract!Near(n[c], k[c])
    BY <1>8, <2>1 DEF Alike
  <2> QED
    BY <2>2, <2>3, <2>4, NearIsEven
<1>12. Made(kinds, pointers, DOMAIN set, fields, n, k)
  BY <1>8, <1>10, <1>11 DEF Made, Alike
<1> QED
  BY <1>1, <1>2, <1>5, <1>12

-----------------------------------------------------------------------------
(***************************************************************************)
(* What is saved, entity by entity.                                        *)
(***************************************************************************)
LEMMA AuditMade ==
  ASSUME NEW name, NEW queries, NEW f, f = AuditRow(name, queries), NEW n, NEW k,
         Made(Clients["audits"].fields, Clients["audits"].pointers, SetIn("audits", f), f, n, k)
  PROVE  /\ Abstract!Agree(To("audits", n), To("audits", k))
         /\ To("audits", k).Name = name /\ To("audits", k).SQLQuery = queries
<1>1. /\ Clients["audits"].fields = AuditFields /\ Clients["audits"].pointers = {}
      /\ SetIn("audits", f) = {"name", "queries", "created_at", "updated_at"}
  BY DEF Clients, AuditClient, AuditPointers, SetIn, AuditRow, AuditDefaults, Now, NoFields
<1>2. DOMAIN f = {"name", "queries"} /\ f["name"] = name /\ f["queries"] = queries
  BY DEF AuditRow
<1>3. /\ n.name = k.name /\ n.queries = k.queries
      /\ Abstract!Near(n.created_at, k.created_at) /\ Abstract!Near(n.updated_at, k.updated_at)
      /\ k.name = name /\ k.queries = queries
  BY <1>1, <1>2 DEF Made, AuditFields
<1>4. To("audits", n) = toAudit(n) /\ To("audits", k) = toAudit(k)
  BY DEF To
<1>5. Abstract!Agree(toAudit(n), toAudit(k))
  BY <1>3 DEF Abstract!Agree, Abstract!Stamps, toAudit
<1> QED
  BY <1>3, <1>4, <1>5 DEF toAudit

LEMMA AuditRunMade ==
  ASSUME NEW audit, NEW f, f = AuditRunRow(audit), NEW n, NEW k,
         Made(Clients["audit_runs"].fields, Clients["audit_runs"].pointers,
              SetIn("audit_runs", f), f, n, k)
  PROVE  /\ Abstract!Agree(To("audit_runs", n), To("audit_runs", k))
         /\ To("audit_runs", k).AuditID = audit /\ To("audit_runs", k).Status = "running"
         /\ To("audit_runs", k).ActualValue = Nil /\ To("audit_runs", k).Error = Nil
         /\ To("audit_runs", k).CompletedAt = Nil
<1>1. /\ Clients["audit_runs"].fields = AuditRunFields
      /\ Clients["audit_runs"].pointers = {"actual_value", "error_message", "completed_at"}
      /\ SetIn("audit_runs", f) = {"audit_id", "status", "started_at", "created_at", "updated_at"}
  BY DEF Clients, AuditRunClient, AuditRunPointers, SetIn, AuditRunRow, AuditRunDefaults, Now, NoFields
<1>2. DOMAIN f = {"audit_id", "status"} /\ f["audit_id"] = audit /\ f["status"] = "running"
  BY DEF AuditRunRow
<1>3. /\ n.audit_id = k.audit_id /\ n.status = k.status /\ n.actual_value = k.actual_value
      /\ n.error_message = k.error_message /\ n.completed_at = k.completed_at
      /\ Abstract!Near(n.started_at, k.started_at)
      /\ k.audit_id = audit /\ k.status = "running"
      /\ k.actual_value = Nil /\ k.error_message = Nil /\ k.completed_at = Nil
  BY <1>1, <1>2 DEF Made, AuditRunFields
<1>4. To("audit_runs", n) = toAuditRun(n) /\ To("audit_runs", k) = toAuditRun(k)
  BY DEF To
<1>5. Abstract!Agree(toAuditRun(n), toAuditRun(k))
  BY <1>3 DEF Abstract!Agree, Abstract!Stamps, toAuditRun
<1> QED
  BY <1>3, <1>4, <1>5 DEF toAuditRun

LEMMA IssueMade ==
  ASSUME NEW audit, NEW run, NEW actual, NEW f,
         f = IssueRow(audit, run, "q", "expected", actual, "description"), NEW n, NEW k,
         Made(Clients["issues"].fields, Clients["issues"].pointers, SetIn("issues", f), f, n, k)
  PROVE  /\ Abstract!Agree(To("issues", n), To("issues", k))
         /\ To("issues", k).AuditID = audit /\ To("issues", k).AuditRunID = run
         /\ To("issues", k).ActualValue = actual
<1>1. /\ Clients["issues"].fields = IssueFields /\ Clients["issues"].pointers = {}
      /\ SetIn("issues", f) = {"audit_id", "audit_run_id", "query_name", "expected_value",
                               "actual_value", "description", "created_at", "updated_at"}
  BY DEF Clients, IssueClient, IssuePointers, SetIn, IssueRow, IssueDefaults, Now, NoFields
<1>2. /\ DOMAIN f = {"audit_id", "audit_run_id", "query_name", "expected_value", "actual_value",
                     "description"}
      /\ f["audit_id"] = audit /\ f["audit_run_id"] = run /\ f["actual_value"] = actual
  BY DEF IssueRow
<1>3. /\ n.audit_id = k.audit_id /\ n.audit_run_id = k.audit_run_id
      /\ n.query_name = k.query_name /\ n.expected_value = k.expected_value
      /\ n.actual_value = k.actual_value /\ n.description = k.description
      /\ Abstract!Near(n.created_at, k.created_at)
  BY <1>1 DEF Made, IssueFields
<1>4. k.audit_id = audit /\ k.audit_run_id = run /\ k.actual_value = actual
  BY <1>1, <1>2 DEF Made, IssueFields
<1>5. To("issues", n) = toIssue(n) /\ To("issues", k) = toIssue(k)
  BY DEF To
<1>6. Abstract!Agree(toIssue(n), toIssue(k))
  BY <1>3 DEF Abstract!Agree, Abstract!Stamps, toIssue
<1> QED
  BY <1>4, <1>5, <1>6 DEF toIssue

LEMMA PolicyMade ==
  ASSUME NEW name, NEW audits, NEW f, f = PolicyRow(name, audits), NEW n, NEW k,
         Made(Clients["policies"].fields, Clients["policies"].pointers, SetIn("policies", f), f, n, k)
  PROVE  /\ Abstract!Agree(To("policies", n), To("policies", k))
         /\ To("policies", k).Name = name /\ To("policies", k).AuditIDs = audits
<1>1. /\ Clients["policies"].fields = PolicyAuditFields /\ Clients["policies"].pointers = {}
      /\ SetIn("policies", f) = {"name", "audit_ids", "created_at", "updated_at"}
  BY DEF Clients, PolicyAuditClient, PolicyAuditPointers, SetIn, PolicyRow, PolicyAuditDefaults, Now,
        NoFields
<1>2. DOMAIN f = {"name", "audit_ids"} /\ f["name"] = name /\ f["audit_ids"] = audits
  BY DEF PolicyRow
<1>3. /\ n.name = k.name /\ n.audit_ids = k.audit_ids
      /\ Abstract!Near(n.created_at, k.created_at) /\ Abstract!Near(n.updated_at, k.updated_at)
      /\ k.name = name /\ k.audit_ids = audits
  BY <1>1, <1>2 DEF Made, PolicyAuditFields
<1>4. To("policies", n) = toPolicy(n) /\ To("policies", k) = toPolicy(k)
  BY DEF To
<1>5. Abstract!Agree(toPolicy(n), toPolicy(k))
  BY <1>3 DEF Abstract!Agree, Abstract!Stamps, toPolicy
<1> QED
  BY <1>3, <1>4, <1>5 DEF toPolicy

LEMMA PolicyRunMade ==
  ASSUME NEW policy, NEW list, NEW f, f = PolicyRunRow(policy, list), NEW n, NEW k,
         Made(Clients["policy_runs"].fields, Clients["policy_runs"].pointers,
              SetIn("policy_runs", f), f, n, k)
  PROVE  /\ Abstract!Agree(To("policy_runs", n), To("policy_runs", k))
         /\ To("policy_runs", k).PolicyID = policy /\ To("policy_runs", k).AuditRunIDs = list
         /\ To("policy_runs", k).Status = "running" /\ To("policy_runs", k).CompletedAt = Nil
<1>1. /\ Clients["policy_runs"].fields = PolicyRunFields
      /\ Clients["policy_runs"].pointers = {"completed_at"}
      /\ SetIn("policy_runs", f) = {"policy_id", "audit_run_ids", "status", "started_at"}
  BY DEF Clients, PolicyRunClient, PolicyRunPointers, SetIn, PolicyRunRow, PolicyRunDefaults
<1>2. /\ DOMAIN f = {"policy_id", "audit_run_ids", "status"}
      /\ f["policy_id"] = policy /\ f["audit_run_ids"] = list /\ f["status"] = "running"
  BY DEF PolicyRunRow
<1>3. /\ n.policy_id = k.policy_id /\ n.status = k.status /\ n.audit_run_ids = k.audit_run_ids
      /\ n.completed_at = k.completed_at
      /\ Abstract!Near(n.started_at, k.started_at)
      /\ k.policy_id = policy /\ k.audit_run_ids = list /\ k.status = "running"
      /\ k.completed_at = Nil
  BY <1>1, <1>2 DEF Made, PolicyRunFields
<1>4. To("policy_runs", n) = toPolicyRun(n) /\ To("policy_runs", k) = toPolicyRun(k)
  BY DEF To
<1>5. Abstract!Agree(toPolicyRun(n), toPolicyRun(k))
  BY <1>3 DEF Abstract!Agree, Abstract!Stamps, toPolicyRun
<1> QED
  BY <1>3, <1>4, <1>5 DEF toPolicyRun

LEMMA UserMade ==
  ASSUME NEW name, NEW password, NEW f, f = UserRow(name, password, "admin"), NEW n, NEW k,
         Made(Clients["users"].fields, Clients["users"].pointers, SetIn("users", f), f, n, k)
  PROVE  /\ Abstract!Agree(To("users", n), To("users", k))
         /\ To("users", k).Username = name /\ To("users", k).Password = password
<1>1. /\ Clients["users"].fields = UserFields /\ Clients["users"].pointers = {}
  BY DEF Clients, UserClient, UserPointers
<1>2. /\ DOMAIN f = {"username", "password", "role"}
      /\ f["username"] = name /\ f["password"] = password
  BY DEF UserRow
<1>3. /\ n.username = k.username /\ n.password = k.password /\ n.role = k.role
      /\ k.username = name /\ k.password = password
  BY <1>1, <1>2 DEF Made, UserFields
<1>4. To("users", n) = toUser(n) /\ To("users", k) = toUser(k)
  BY DEF To
<1>5. Abstract!Agree(toUser(n), toUser(k))
  BY <1>3 DEF Abstract!Agree, Abstract!Stamps, toUser
<1> QED
  BY <1>3, <1>4, <1>5 DEF toUser

LEMMA ScheduleMade ==
  ASSUME NEW id, NEW next, NEW f, f = ScheduleRow("audit", id, 60, next), NEW n, NEW k,
         Made(Clients["schedules"].fields, Clients["schedules"].pointers, SetIn("schedules", f), f, n, k)
  PROVE  /\ Abstract!Agree(To("schedules", n), To("schedules", k))
         /\ To("schedules", k).TargetID = id /\ Abstract!Near(To("schedules", k).NextRunAt, next)
<1>1. /\ Clients["schedules"].fields = ScheduleFields /\ Clients["schedules"].pointers = {}
      /\ SetIn("schedules", f) = {"target_type", "target_id", "interval_seconds", "next_run_at",
                                  "created_at"}
  BY DEF Clients, ScheduleClient, SchedulePointers, SetIn, ScheduleRow, ScheduleDefaults
<1>2. /\ DOMAIN f = {"target_type", "target_id", "interval_seconds", "next_run_at"}
      /\ f["target_id"] = id /\ f["next_run_at"] = next
  BY DEF ScheduleRow
<1>3. /\ n.target_type = k.target_type /\ n.target_id = k.target_id
      /\ n.interval_seconds = k.interval_seconds
      /\ Abstract!Near(n.next_run_at, k.next_run_at) /\ Abstract!Near(n.created_at, k.created_at)
      /\ k.target_id = id /\ Abstract!Near(k.next_run_at, next)
  BY <1>1, <1>2 DEF Made, ScheduleFields
<1>4. To("schedules", n) = toSchedule(n) /\ To("schedules", k) = toSchedule(k)
  BY DEF To
<1>5. Abstract!Agree(toSchedule(n), toSchedule(k))
  BY <1>3 DEF Abstract!Agree, Abstract!Stamps, toSchedule
<1> QED
  BY <1>3, <1>4, <1>5 DEF toSchedule

-----------------------------------------------------------------------------
(***************************************************************************)
(* What a save does to the records.                                        *)
(***************************************************************************)
\* The record s is added, and r is answered.
Grown(t, id, r, s) ==
    /\ id \in DOMAIN Records'[t] \ DOMAIN Records[t]
    /\ Records' = [Records EXCEPT ![t] =
                     [i \in DOMAIN @ \cup {id} |-> IF i = id THEN Records'[t][id] ELSE @[i]]]
    /\ Records'[t][id] = s
    /\ call'.ok => call'.value[1] = id /\ call'.value[2] = r

\* The fields are ones that check and Postgres let through.
Admitted(t, fields) ==
    /\ \A c \in Clients[t].check.notEmpty \cap DOMAIN fields : fields[c] # Empty
    /\ \A c \in DOMAIN Tables[t].references \cap DOMAIN fields :
          fields[c] \in DOMAIN Records[Tables[t].references[c]]
    /\ \A c \in Tables[t].unique \cap DOMAIN fields, i \in DOMAIN db[t] : db[t][i][c] # fields[c]

\* The call of Save is answered.
Saved(method, args, t, fields) ==
    /\ call.method = "none" /\ call'.method = method /\ call'.args = args
    /\ \/ ~call'.ok /\ Records' = Records
       \/ /\ Admitted(t, fields)
          /\ \E id, n, k :
               /\ Made(Clients[t].fields, Clients[t].pointers, SetIn(t, fields), fields, n, k)
               /\ Grown(t, id, To(t, n), To(t, k))

LEMMA InsertedAnswers ==
  ASSUME NEW method, NEW args, NEW t, NEW m, NEW id, Inserted(method, args, t, m, id),
         NEW v, v = <<id, To(t, NewNode(Clients[t], m))>>
  PROVE  call'.method = method /\ call'.args = args /\ (call'.ok => call'.value = v)
<1>1. call' \in {Failed(method, args), Answered(method, args, v)}
  BY Zenon DEF Inserted
<1> QED
  BY <1>1, AnswersAre

LEMMA InsertedGrows ==
  ASSUME RepInv, NEW method, NEW args, NEW t \in DOMAIN scope, scope' = scope, NEW m, NEW id,
         Inserted(method, args, t, m, id),
         NEW n, n = NewNode(Clients[t], m), NEW k, k = Read(Clients[t], Created(Clients[t], m))
  PROVE  /\ Grown(t, id, To(t, n), To(t, k))
         /\ call'.method = method /\ call'.args = args
<1>1. PICK v : v = <<id, To(t, NewNode(Clients[t], m))>>
  OBVIOUS
<1>2. v = <<id, To(t, n)>>
  BY <1>1
<1>3. call'.method = method /\ call'.args = args /\ (call'.ok => call'.value = v)
  BY <1>1, InsertedAnswers
<1>4. PICK row : row = Created(Clients[t], m)
  OBVIOUS
<1>5. Written(t, id, row) /\ id \notin DOMAIN db[t]
  BY <1>4 DEF Inserted
<1>6. Recorded(t, id, To(t, Read(Clients[t], row)))
  BY <1>5, RecordWritten
<1>7. PICK s : s = To(t, k)
  OBVIOUS
<1>8. Recorded(t, id, s)
  BY <1>4, <1>6, <1>7
<1>9. DOMAIN Records[t] = DOMAIN db[t]
  BY RecordsAre
<1>10. Grown(t, id, To(t, n), s)
  BY <1>2, <1>3, <1>5, <1>8, <1>9 DEF Grown, Recorded
<1> QED
  BY <1>3, <1>7, <1>10

LEMMA ReferencesAre ==
  ASSUME NEW t \in DOMAIN Tables, NEW c \in DOMAIN Tables[t].references
  PROVE  Tables[t].references[c] \in DOMAIN Tables \ {t}
  BY TablesAre DEF Tables, UsersTable, AuditsTable, AuditRunsTable, IssuesTable, PoliciesTable,
     PolicyRunsTable, SchedulesTable, Table, NoFields

\* A table with a row is in use.
LEMMA RowIsRecord ==
  ASSUME RepInv, NEW t \in DOMAIN Tables, NEW i \in DOMAIN db[t]
  PROVE  t \in DOMAIN scope /\ i \in DOMAIN Records[t]
<1>1. t \in DOMAIN scope
  BY DEF RepInv, TablesInv
<1> QED
  BY <1>1, RecordsAre

LEMMA InsertedAdmits ==
  ASSUME RepInv, NEW method, NEW args, NEW t \in DOMAIN Clients, NEW fields, FieldsOK(t, fields),
         NEW m, m = Filled(t, fields), NEW id, Inserted(method, args, t, m, id)
  PROVE  Admitted(t, fields)
<1>1. /\ DOMAIN fields \subseteq DOMAIN m.set /\ \A c \in DOMAIN fields : m.set[c] = fields[c]
      /\ DOMAIN m.set \subseteq DOMAIN Clients[t].fields
  BY FilledIs
<1>2. \A c \in Clients[t].check.notEmpty \cap DOMAIN fields : fields[c] # Empty
  <2>1. Passes(Clients[t].check, m.set)
    BY DEF Inserted
  <2>2. \A c \in Clients[t].check.notEmpty \cap DOMAIN m.set : m.set[c] # Empty
    BY <2>1, Zenon DEF Passes, Empty
  <2> QED
    BY <1>1, <2>2
<1>3. PICK row : row = Created(Clients[t], m)
  OBVIOUS
<1>4. Overwritten(Clients[t].fields, m.set, NoFields, row)
  BY <1>1, <1>3, CreatedIs
<1>5. Fits(Tables, db', t, id, row) /\ Written(t, id, row) /\ id \notin DOMAIN db[t]
  BY <1>3 DEF Inserted
<1>6. WellFormed(Clients[t], t)
  BY EntitiesFit
<1>7. ASSUME NEW c \in DOMAIN fields, Clients[t].fields[c] # "time"
      PROVE  c \in DOMAIN row /\ row[c] = fields[c]
  <2>1. c \in DOMAIN m.set /\ row[c] = Stored(Clients[t].fields[c], m.set[c]) /\ c \in DOMAIN row
    BY <1>1, <1>4, <1>7 DEF Overwritten
  <2> QED
    BY <1>1, <1>7, <2>1, StoredOther
<1>8. ASSUME NEW c \in DOMAIN Tables[t].references \cap DOMAIN fields
      PROVE  fields[c] \in DOMAIN Records[Tables[t].references[c]]
  <2>1. Clients[t].fields[c] # "time"
    BY <1>6 DEF WellFormed, TableFits
  <2>2. PICK u : u = Tables[t].references[c]
    OBVIOUS
  <2>3. fields[c] \in DOMAIN db'[u]
    BY <1>5, <1>7, <2>1, <2>2 DEF Fits
  <2>4. u \in DOMAIN Tables /\ u # t
    BY <2>2, ReferencesAre, TablesAre
  <2>5. fields[c] \in DOMAIN db[u]
    BY <1>5, <2>3, <2>4 DEF Written, RepInv, TablesInv
  <2> QED
    BY <2>2, <2>4, <2>5, RowIsRecord
<1>9. ASSUME NEW c \in Tables[t].unique \cap DOMAIN fields, NEW i \in DOMAIN db[t]
      PROVE  db[t][i][c] # fields[c]
  <2>1. t = "users" /\ c = "username"
    BY <1>9, TablesAre DEF Tables, UsersTable, AuditsTable, AuditRunsTable, IssuesTable, PoliciesTable,
          PolicyRunsTable, SchedulesTable, Table
  <2>2. Clients[t].fields[c] # "time"
    BY <2>1 DEF Clients, UserClient, UserFields
  <2>3. row[c] = fields[c]
    BY <1>7, <2>2
  <2>4. i \in DOMAIN db'[t] \ {id} /\ db'[t][i] = db[t][i]
    BY <1>5 DEF Written
  <2> QED
    BY <1>5, <2>3, <2>4 DEF Fits
<1> QED
  BY <1>2, <1>8, <1>9 DEF Admitted

LEMMA SaveAnswers ==
  ASSUME RepInv, NEW method, NEW args, NEW t, NEW fields, FieldsOK(t, fields),
         Save(method, args, t, fields)
  PROVE  t \in DOMAIN scope /\ Saved(method, args, t, fields)
<1>1. /\ t \in DOMAIN scope /\ t \in DOMAIN Clients /\ call.method = "none" /\ scope' = scope
      /\ \/ db' = db /\ call' = Failed(method, args)
         \/ \E id : Inserted(method, args, t, Filled(t, fields), id)
  BY SaveMeans, TablesAre
<1>2. CASE db' = db /\ call' = Failed(method, args)
  <2>1. call'.method = method /\ call'.args = args /\ ~call'.ok
    BY <1>2 DEF Failed
  <2>2. Records' = Records
    BY <1>1, <1>2, RecordsStay
  <2> QED
    BY <1>1, <2>1, <2>2 DEF Saved
<1>3. CASE \E id : Inserted(method, args, t, Filled(t, fields), id)
  <2>1. PICK m : m = Filled(t, fields)
    OBVIOUS
  <2>2. PICK id : Inserted(method, args, t, m, id)
    BY <1>3, <2>1
  <2>3. PICK n : n = NewNode(Clients[t], m)
    OBVIOUS
  <2>4. PICK k : k = Read(Clients[t], Created(Clients[t], m))
    OBVIOUS
  <2>5. Made(Clients[t].fields, Clients[t].pointers, SetIn(t, fields), fields, n, k)
    BY <1>1, <2>1, <2>3, <2>4, SaveMakes
  <2>6. Grown(t, id, To(t, n), To(t, k)) /\ call'.method = method /\ call'.args = args
    BY <1>1, <2>2, <2>3, <2>4, InsertedGrows
  <2>7. Admitted(t, fields)
    BY <1>1, <2>1, <2>2, InsertedAdmits
  <2> QED
    BY <1>1, <2>5, <2>6, <2>7 DEF Saved
<1> QED
  BY <1>1, <1>2, <1>3

-----------------------------------------------------------------------------
(***************************************************************************)
(* The methods that create.                                                *)
(***************************************************************************)
LEMMA CreateAuditStores == ASSUME RepInv, CreateAudit PROVE Abstract!CreateAudit
<1>1. PICK name, queries : Save("CreateAudit", <<name, queries>>, "audits", AuditRow(name, queries))
  BY DEF CreateAudit
<1>2. PICK f : f = AuditRow(name, queries)
  OBVIOUS
<1>3. Saved("CreateAudit", <<name, queries>>, "audits", f)
  BY <1>1, <1>2, SaveAnswers, AuditFieldsOK
<1>4. Abstract!Calls("CreateAudit") /\ Abstract!Arg(1) = name /\ Abstract!Arg(2) = queries
  BY <1>3 DEF Saved, Abstract!Calls, Abstract!Arg
<1>5. CASE ~call'.ok /\ Records' = Records
  BY <1>4, <1>5, Zenon DEF Abstract!CreateAudit, Abstract!Writes
<1>6. CASE /\ Admitted("audits", f)
           /\ \E id, n, k :
                /\ Made(Clients["audits"].fields, Clients["audits"].pointers, SetIn("audits", f), f, n, k)
                /\ Grown("audits", id, To("audits", n), To("audits", k))
  <2>1. PICK id, n, k :
           /\ Made(Clients["audits"].fields, Clients["audits"].pointers, SetIn("audits", f), f, n, k)
           /\ Grown("audits", id, To("audits", n), To("audits", k))
    BY <1>6
  <2>2. /\ Abstract!Agree(To("audits", n), To("audits", k))
        /\ To("audits", k).Name = name /\ To("audits", k).SQLQuery = queries
    BY <1>2, <2>1, AuditMade
  <2>3. Abstract!Adds("audits", LAMBDA r : r.Name = Abstract!Arg(1) /\ r.SQLQuery = Abstract!Arg(2))
    BY <1>4, <2>1, <2>2 DEF Grown, Abstract!Adds
  <2>4. name # Empty
    <3>1. "name" \in Clients["audits"].check.notEmpty
      BY DEF Clients, AuditClient, Audit
    <3>2. "name" \in DOMAIN f /\ f["name"] = name
      BY <1>2 DEF AuditRow
    <3> QED
      BY <1>6, <3>1, <3>2 DEF Admitted
  <2>5. Abstract!Arg(1) # ""
    BY <1>4, <2>4, Zenon DEF Empty
  <2> QED
    BY <1>4, <2>3, <2>5, Zenon DEF Abstract!CreateAudit, Abstract!Writes
<1> QED
  BY <1>3, <1>5, <1>6 DEF Saved

LEMMA CreateAuditRunStores == ASSUME RepInv, CreateAuditRun PROVE Abstract!CreateAuditRun
<1>1. PICK audit : Save("CreateAuditRun", <<audit>>, "audit_runs", AuditRunRow(audit))
  BY DEF CreateAuditRun
<1>2. PICK f : f = AuditRunRow(audit)
  OBVIOUS
<1>3. Saved("CreateAuditRun", <<audit>>, "audit_runs", f)
  BY <1>1, <1>2, SaveAnswers, AuditRunFieldsOK
<1>4. Abstract!Calls("CreateAuditRun") /\ Abstract!Arg(1) = audit
  BY <1>3 DEF Saved, Abstract!Calls, Abstract!Arg
<1>5. CASE ~call'.ok /\ Records' = Records
  BY <1>4, <1>5 DEF Abstract!CreateAuditRun, Abstract!Writes
<1>6. CASE /\ Admitted("audit_runs", f)
           /\ \E id, n, k :
                /\ Made(Clients["audit_runs"].fields, Clients["audit_runs"].pointers,
                        SetIn("audit_runs", f), f, n, k)
                /\ Grown("audit_runs", id, To("audit_runs", n), To("audit_runs", k))
  <2>1. PICK id, n, k :
           /\ Made(Clients["audit_runs"].fields, Clients["audit_runs"].pointers,
                   SetIn("audit_runs", f), f, n, k)
           /\ Grown("audit_runs", id, To("audit_runs", n), To("audit_runs", k))
    BY <1>6
  <2>2. PICK r : r = To("audit_runs", k)
    OBVIOUS
  <2>3. /\ Abstract!Agree(To("audit_runs", n), r)
        /\ r.AuditID = audit /\ r.Status = "running"
        /\ r.ActualValue = <<>> /\ r.Error = <<>> /\ r.CompletedAt = <<>>
    BY <1>2, <2>1, <2>2, AuditRunMade DEF Nil
  <2>4. Abstract!Adds("audit_runs",
           LAMBDA s : s.AuditID = Abstract!Arg(1) /\ s.Status = "running" /\
                      s.ActualValue = <<>> /\ s.Error = <<>> /\ s.CompletedAt = <<>>)
    BY <1>4, <2>1, <2>2, <2>3 DEF Grown, Abstract!Adds
  <2>5. audit \in DOMAIN Records["audits"]
    <3>1. "audit_id" \in DOMAIN f /\ f["audit_id"] = audit
      BY <1>2 DEF AuditRunRow
    <3> QED
      BY <1>6, <3>1, TableConstraints DEF Admitted
  <2> QED
    BY <1>4, <2>4, <2>5 DEF Abstract!CreateAuditRun, Abstract!Writes
<1> QED
  BY <1>3, <1>5, <1>6 DEF Saved

LEMMA CreateIssueStores == ASSUME RepInv, CreateIssue PROVE Abstract!CreateIssue
<1>1. PICK audit, run, actual :
         Save("CreateIssue", <<audit, run, actual>>, "issues",
              IssueRow(audit, run, "q", "expected", actual, "description"))
  BY DEF CreateIssue
<1>2. PICK f : f = IssueRow(audit, run, "q", "expected", actual, "description")
  OBVIOUS
<1>3. Saved("CreateIssue", <<audit, run, actual>>, "issues", f)
  BY <1>1, <1>2, SaveAnswers, IssueFieldsOK
<1>4. /\ Abstract!Calls("CreateIssue")
      /\ Abstract!Arg(1) = audit /\ Abstract!Arg(2) = run /\ Abstract!Arg(3) = actual
  BY <1>3 DEF Saved, Abstract!Calls, Abstract!Arg
<1>5. CASE ~call'.ok /\ Records' = Records
  BY <1>4, <1>5, Zenon DEF Abstract!CreateIssue, Abstract!Writes
<1>6. CASE /\ Admitted("issues", f)
           /\ \E id, n, k :
                /\ Made(Clients["issues"].fields, Clients["issues"].pointers, SetIn("issues", f), f, n, k)
                /\ Grown("issues", id, To("issues", n), To("issues", k))
  <2>1. PICK id, n, k :
           /\ Made(Clients["issues"].fields, Clients["issues"].pointers, SetIn("issues", f), f, n, k)
           /\ Grown("issues", id, To("issues", n), To("issues", k))
    BY <1>6
  <2>2. /\ Abstract!Agree(To("issues", n), To("issues", k))
        /\ To("issues", k).AuditID = audit /\ To("issues", k).AuditRunID = run
        /\ To("issues", k).ActualValue = actual
    BY <1>2, <2>1, IssueMade
  <2>3. Abstract!Adds("issues",
           LAMBDA r : r.AuditID = Abstract!Arg(1) /\ r.AuditRunID = Abstract!Arg(2) /\
                      r.ActualValue = Abstract!Arg(3))
    BY <1>4, <2>1, <2>2 DEF Grown, Abstract!Adds
  <2>4. /\ {"audit_id", "audit_run_id", "actual_value"} \subseteq DOMAIN f
        /\ f["audit_id"] = audit /\ f["audit_run_id"] = run /\ f["actual_value"] = actual
    BY <1>2 DEF IssueRow
  <2>5. audit \in DOMAIN Records["audits"] /\ run \in DOMAIN Records["audit_runs"]
    BY <1>6, <2>4, TableConstraints DEF Admitted
  <2>6. actual # Empty
    <3>1. "actual_value" \in Clients["issues"].check.notEmpty
      BY DEF Clients, IssueClient, Issue
    <3> QED
      BY <1>6, <2>4, <3>1 DEF Admitted
  <2>7. Abstract!Arg(3) # ""
    BY <1>4, <2>6, Zenon DEF Empty
  <2>8. Abstract!Arg(1) \in DOMAIN Records["audits"] /\ Abstract!Arg(2) \in DOMAIN Records["audit_runs"]
    BY <1>4, <2>5
  <2> QED
    BY <1>4, <2>3, <2>7, <2>8, Zenon DEF Abstract!CreateIssue, Abstract!Writes
<1> QED
  BY <1>3, <1>5, <1>6 DEF Saved

LEMMA CreatePolicyStores == ASSUME RepInv, CreatePolicy PROVE Abstract!CreatePolicy
<1>1. PICK name, audits : Save("CreatePolicy", <<name, audits>>, "policies", PolicyRow(name, audits))
  BY DEF CreatePolicy
<1>2. PICK f : f = PolicyRow(name, audits)
  OBVIOUS
<1>3. Saved("CreatePolicy", <<name, audits>>, "policies", f)
  BY <1>1, <1>2, SaveAnswers, PolicyFieldsOK
<1>4. Abstract!Calls("CreatePolicy") /\ Abstract!Arg(1) = name /\ Abstract!Arg(2) = audits
  BY <1>3 DEF Saved, Abstract!Calls, Abstract!Arg
<1>5. CASE ~call'.ok /\ Records' = Records
  BY <1>4, <1>5, Zenon DEF Abstract!CreatePolicy, Abstract!Writes
<1>6. CASE /\ Admitted("policies", f)
           /\ \E id, n, k :
                /\ Made(Clients["policies"].fields, Clients["policies"].pointers,
                        SetIn("policies", f), f, n, k)
                /\ Grown("policies", id, To("policies", n), To("policies", k))
  <2>1. PICK id, n, k :
           /\ Made(Clients["policies"].fields, Clients["policies"].pointers,
                   SetIn("policies", f), f, n, k)
           /\ Grown("policies", id, To("policies", n), To("policies", k))
    BY <1>6
  <2>2. /\ Abstract!Agree(To("policies", n), To("policies", k))
        /\ To("policies", k).Name = name /\ To("policies", k).AuditIDs = audits
    BY <1>2, <2>1, PolicyMade
  <2>3. Abstract!Adds("policies", LAMBDA r : r.Name = Abstract!Arg(1) /\ r.AuditIDs = Abstract!Arg(2))
    BY <1>4, <2>1, <2>2 DEF Grown, Abstract!Adds
  <2>4. name # Empty
    <3>1. "name" \in Clients["policies"].check.notEmpty
      BY DEF Clients, PolicyAuditClient, PolicyAudit
    <3>2. "name" \in DOMAIN f /\ f["name"] = name
      BY <1>2 DEF PolicyRow
    <3> QED
      BY <1>6, <3>1, <3>2 DEF Admitted
  <2>5. Abstract!Arg(1) # ""
    BY <1>4, <2>4, Zenon DEF Empty
  <2> QED
    BY <1>4, <2>3, <2>5, Zenon DEF Abstract!CreatePolicy, Abstract!Writes
<1> QED
  BY <1>3, <1>5, <1>6 DEF Saved

LEMMA CreatePolicyRunStores == ASSUME RepInv, CreatePolicyRun PROVE Abstract!CreatePolicyRun
<1>1. PICK policy, runs :
         Save("CreatePolicyRun", <<policy, runs>>, "policy_runs", PolicyRunRow(policy, runs))
  BY DEF CreatePolicyRun
<1>2. PICK f : f = PolicyRunRow(policy, runs)
  OBVIOUS
<1>3. Saved("CreatePolicyRun", <<policy, runs>>, "policy_runs", f)
  BY <1>1, <1>2, SaveAnswers, PolicyRunFieldsOK
<1>4. Abstract!Calls("CreatePolicyRun") /\ Abstract!Arg(1) = policy /\ Abstract!Arg(2) = runs
  BY <1>3 DEF Saved, Abstract!Calls, Abstract!Arg
<1>5. CASE ~call'.ok /\ Records' = Records
  BY <1>4, <1>5 DEF Abstract!CreatePolicyRun, Abstract!Writes
<1>6. CASE \E id, n, k :
                /\ Made(Clients["policy_runs"].fields, Clients["policy_runs"].pointers,
                        SetIn("policy_runs", f), f, n, k)
                /\ Grown("policy_runs", id, To("policy_runs", n), To("policy_runs", k))
  <2>1. PICK id, n, k :
           /\ Made(Clients["policy_runs"].fields, Clients["policy_runs"].pointers,
                   SetIn("policy_runs", f), f, n, k)
           /\ Grown("policy_runs", id, To("policy_runs", n), To("policy_runs", k))
    BY <1>6
  <2>2. PICK r : r = To("policy_runs", k)
    OBVIOUS
  <2>3. /\ Abstract!Agree(To("policy_runs", n), r)
        /\ r.PolicyID = policy /\ r.AuditRunIDs = runs /\ r.Status = "running" /\ r.CompletedAt = <<>>
    BY <1>2, <2>1, <2>2, PolicyRunMade DEF Nil
  <2>4. Abstract!Adds("policy_runs",
           LAMBDA s : s.PolicyID = Abstract!Arg(1) /\ s.AuditRunIDs = Abstract!Arg(2) /\
                      s.Status = "running" /\ s.CompletedAt = <<>>)
    BY <1>4, <2>1, <2>2, <2>3 DEF Grown, Abstract!Adds
  <2> QED
    BY <1>4, <2>4 DEF Abstract!CreatePolicyRun, Abstract!Writes
<1> QED
  BY <1>3, <1>5, <1>6 DEF Saved

\* What a record tells of a column that must not be NULL.
LEMMA ColumnIsRead ==
  ASSUME RepInv, NEW t \in DOMAIN scope, NEW i \in DOMAIN db[t], NEW c \in Tables[t].notNull,
         c \notin Clients[t].pointers, NEW n, n = Read(Clients[t], db[t][i])
  PROVE  n[c] = db[t][i][c]
<1>1. t \in DOMAIN Tables /\ t \in DOMAIN Clients
  BY RepositoryAssumption, TablesAre DEF RepInv
<1>2. c \in DOMAIN db[t][i] /\ DOMAIN db[t][i] \subseteq DOMAIN Clients[t].fields
  BY <1>1 DEF RepInv, TablesInv, RowOK
<1>3. Assigned(Clients[t].fields, Clients[t].pointers, db[t][i], n)
  BY <1>1, ReadAssigns
<1> QED
  BY <1>2, <1>3 DEF Assigned

LEMMA CreateUserStores == ASSUME RepInv, CreateUser PROVE Abstract!CreateUser
<1>1. PICK name, password :
         Save("CreateUser", <<name, password>>, "users", UserRow(name, password, "admin"))
  BY DEF CreateUser
<1>2. PICK f : f = UserRow(name, password, "admin")
  OBVIOUS
<1>3. "users" \in DOMAIN scope /\ Saved("CreateUser", <<name, password>>, "users", f)
  BY <1>1, <1>2, SaveAnswers, UserFieldsOK
<1>4. Abstract!Calls("CreateUser") /\ Abstract!Arg(1) = name /\ Abstract!Arg(2) = password
  BY <1>3 DEF Saved, Abstract!Calls, Abstract!Arg
<1>5. CASE ~call'.ok /\ Records' = Records
  BY <1>4, <1>5, Zenon DEF Abstract!CreateUser, Abstract!Writes
<1>6. CASE /\ Admitted("users", f)
           /\ \E id, n, k :
                /\ Made(Clients["users"].fields, Clients["users"].pointers, SetIn("users", f), f, n, k)
                /\ Grown("users", id, To("users", n), To("users", k))
  <2>1. PICK id, n, k :
           /\ Made(Clients["users"].fields, Clients["users"].pointers, SetIn("users", f), f, n, k)
           /\ Grown("users", id, To("users", n), To("users", k))
    BY <1>6
  <2>2. /\ Abstract!Agree(To("users", n), To("users", k))
        /\ To("users", k).Username = name /\ To("users", k).Password = password
    BY <1>2, <2>1, UserMade
  <2>3. Abstract!Adds("users", LAMBDA r : r.Username = Abstract!Arg(1) /\ r.Password = Abstract!Arg(2))
    BY <1>4, <2>1, <2>2 DEF Grown, Abstract!Adds
  <2>4. /\ {"username", "password"} \subseteq DOMAIN f
        /\ f["username"] = name /\ f["password"] = password
    BY <1>2 DEF UserRow
  <2>5. name # Empty /\ password # Empty
    <3>1. {"username", "password"} \subseteq Clients["users"].check.notEmpty
      BY DEF Clients, UserClient, User
    <3> QED
      BY <1>6, <2>4, <3>1 DEF Admitted
  <2>6. Abstract!Arg(1) # "" /\ Abstract!Arg(2) # ""
    BY <1>4, <2>5, Zenon DEF Empty
  <2>7. \A i \in DOMAIN Records["users"] : Records["users"][i].Username # Abstract!Arg(1)
    <3>1. ASSUME NEW i \in DOMAIN Records["users"] PROVE Records["users"][i].Username # name
      <4>1. i \in DOMAIN db["users"]
        BY <1>3, RecordsAre
      <4>2. PICK u : u = Read(Clients["users"], db["users"][i])
        OBVIOUS
      <4>3. Records["users"][i] = To("users", u)
        BY <1>3, <4>1, <4>2, RecordsAre
      <4>4. To("users", u).Username = u["username"]
        BY DEF To, toUser
      <4>5. "username" \in Tables["users"].notNull /\ "username" \notin Clients["users"].pointers
        BY DEF Tables, UsersTable, Table, Clients, UserClient, UserPointers
      <4>6. u["username"] = db["users"][i]["username"]
        BY <1>3, <4>1, <4>2, <4>5, ColumnIsRead
      <4>7. db["users"][i]["username"] # name
        BY <1>6, <2>4, <4>1, TableConstraints DEF Admitted
      <4> QED
        BY <4>3, <4>4, <4>6, <4>7
    <3> QED
      BY <1>4, <3>1
  <2> QED
    BY <1>4, <2>3, <2>6, <2>7, Zenon DEF Abstract!CreateUser, Abstract!Writes
<1> QED
  BY <1>3, <1>5, <1>6 DEF Saved

LEMMA CreateScheduleStores == ASSUME RepInv, CreateSchedule PROVE Abstract!CreateSchedule
<1>1. PICK id \in Ids, next \in 1..MaxTime :
         Save("CreateSchedule", <<id, next>>, "schedules", ScheduleRow("audit", id, 60, next))
  BY DEF CreateSchedule
<1>2. PICK f : f = ScheduleRow("audit", id, 60, next)
  OBVIOUS
<1>3. next \in Nat
  BY RepositoryAssumption
<1>4. Saved("CreateSchedule", <<id, next>>, "schedules", f)
  BY <1>1, <1>2, <1>3, SaveAnswers, ScheduleFieldsOK
<1>5. Abstract!Calls("CreateSchedule") /\ Abstract!Arg(1) = id /\ Abstract!Arg(2) = next
  BY <1>4 DEF Saved, Abstract!Calls, Abstract!Arg
<1>6. CASE ~call'.ok /\ Records' = Records
  BY <1>5, <1>6 DEF Abstract!CreateSchedule, Abstract!Writes
<1>7. CASE \E i, n, k :
                /\ Made(Clients["schedules"].fields, Clients["schedules"].pointers,
                        SetIn("schedules", f), f, n, k)
                /\ Grown("schedules", i, To("schedules", n), To("schedules", k))
  <2>1. PICK i, n, k :
           /\ Made(Clients["schedules"].fields, Clients["schedules"].pointers,
                   SetIn("schedules", f), f, n, k)
           /\ Grown("schedules", i, To("schedules", n), To("schedules", k))
    BY <1>7
  <2>2. /\ Abstract!Agree(To("schedules", n), To("schedules", k))
        /\ To("schedules", k).TargetID = id /\ Abstract!Near(To("schedules", k).NextRunAt, next)
    BY <1>2, <2>1, ScheduleMade
  <2>3. Abstract!Adds("schedules",
           LAMBDA r : r.TargetID = Abstract!Arg(1) /\ Abstract!Near(r.NextRunAt, Abstract!Arg(2)))
    BY <1>5, <2>1, <2>2 DEF Grown, Abstract!Adds
  <2> QED
    BY <1>5, <2>3 DEF Abstract!CreateSchedule, Abstract!Writes
<1> QED
  BY <1>4, <1>6, <1>7 DEF Saved

-----------------------------------------------------------------------------
(***************************************************************************)
(* What an update does to the records.                                     *)
(***************************************************************************)
\* The columns that an update sets when it is given fields.
PatchIn(t, fields) ==
    DOMAIN fields \cup DOMAIN Clients[t].update.defaults.values \cup Clients[t].update.defaults.times

\* The node k of a row, and the node l of the row with fields set in it.
Remade(kinds, pointers, set, fields, k, l) ==
    /\ \A c \in DOMAIN kinds \ set : l[c] = k[c]
    /\ \A c \in DOMAIN fields :
        /\ kinds[c] # "time" => l[c] = IF c \in pointers THEN Ptr(fields[c]) ELSE fields[c]
        /\ kinds[c] = "time" /\ c \in pointers => l[c] # Nil
        /\ kinds[c] = "time" /\ c \notin pointers => Abstract!Near(l[c], fields[c])

\* The record r becomes s.
Turned(t, id, r, s, quiet) ==
    /\ id \in DOMAIN Records[t] /\ Records[t][id] = r
    /\ Records' = [Records EXCEPT ![t][id] = Records'[t][id]]
    /\ Records'[t][id] = s
    /\ call'.ok => call'.value = <<id, IF quiet THEN Nil ELSE s>>

\* The call of UpdateOneID is answered.
Renewed(method, args, t, id, fields, quiet) ==
    /\ call.method = "none" /\ call'.method = method /\ call'.args = args
    /\ \/ ~call'.ok /\ Records' = Records
       \/ \E k, l :
            /\ Remade(Clients[t].fields, Clients[t].pointers, PatchIn(t, fields), fields, k, l)
            /\ Turned(t, id, To(t, k), To(t, l), quiet)

LEMMA UpdateRemakes ==
  ASSUME RepInv, NEW t \in DOMAIN Clients, NEW fields, FieldsOK(t, fields), NEW id,
         NEW m, m = Patched(t, id, fields), NEW before, NEW row, row = Updated(Clients[t], m, before),
         NEW k, k = Read(Clients[t], before), NEW l, l = Read(Clients[t], row)
  PROVE  Remade(Clients[t].fields, Clients[t].pointers, PatchIn(t, fields), fields, k, l)
<1>1. PICK kinds : kinds = Clients[t].fields
  OBVIOUS
<1>2. PICK pointers : pointers = Clients[t].pointers
  OBVIOUS
<1>3. PICK set : set = m.set
  OBVIOUS
<1>4. /\ DOMAIN set = PatchIn(t, fields)
      /\ \A c \in DOMAIN fields : set[c] = fields[c]
      /\ DOMAIN set \subseteq DOMAIN kinds
      /\ DOMAIN m.added = {} /\ m.cleared = {}
  BY <1>1, <1>3, PatchedIs DEF PatchIn
<1>5. Overwritten(kinds, set, before, row)
  BY <1>1, <1>3, <1>4, UpdatedIs
<1>6. Assigned(kinds, pointers, before, k) /\ Assigned(kinds, pointers, row, l)
  BY <1>1, <1>2, ReadAssigns
<1>7. ASSUME NEW c \in DOMAIN kinds \ DOMAIN set PROVE l[c] = k[c]
  <2>1. CASE c \in DOMAIN before
    BY <1>5, <1>6, <1>7, <2>1 DEF Overwritten, Assigned
  <2>2. CASE c \notin DOMAIN before
    BY <1>5, <1>6, <1>7, <2>2 DEF Overwritten, Assigned
  <2> QED
    BY <2>1, <2>2
<1>8. ASSUME NEW c \in DOMAIN fields
      PROVE  /\ kinds[c] # "time" => l[c] = IF c \in pointers THEN Ptr(fields[c]) ELSE fields[c]
             /\ kinds[c] = "time" /\ c \in pointers => l[c] # Nil
             /\ kinds[c] = "time" /\ c \notin pointers => Abstract!Near(l[c], fields[c])
  <2>1. c \in DOMAIN set /\ c \in DOMAIN kinds /\ c \in DOMAIN row
    BY <1>4, <1>5 DEF PatchIn, Overwritten
  <2>2. row[c] = Stored(kinds[c], fields[c])
    BY <1>4, <1>5, <2>1 DEF Overwritten
  <2>3. l[c] = IF c \in pointers THEN Ptr(row[c]) ELSE row[c]
    BY <1>6, <2>1 DEF Assigned
  <2>4. kinds[c] # "time" => row[c] = fields[c]
    BY <2>2, StoredOther
  <2>5. ASSUME kinds[c] = "time" PROVE Abstract!Near(row[c], fields[c])
    <3>1. fields[c] \in Nat
      BY <1>1, <2>5 DEF FieldsOK
    <3>2. /\ fields[c] <= Stored("time", fields[c]) /\ Stored("time", fields[c]) <= fields[c] + 1
          /\ Stored("time", fields[c]) \in Nat
      BY <3>1, StoredNear, StoredTime
    <3> QED
      BY <2>2, <2>5, <3>1, <3>2 DEF Abstract!Near
  <2>6. Ptr(row[c]) # Nil
    BY Pointers
  <2> QED
    BY <2>3, <2>4, <2>5, <2>6
<1>9. Remade(kinds, pointers, DOMAIN set, fields, k, l)
  BY <1>7, <1>8 DEF Remade
<1> QED
  BY <1>1, <1>2, <1>4, <1>9

LEMMA AmendedAnswers ==
  ASSUME NEW method, NEW args, NEW t, NEW id, NEW m, NEW quiet, Amended(method, args, t, id, m, quiet),
         NEW v, v = <<id, IF quiet THEN Nil ELSE To(t, Read(Clients[t], db'[t][id]))>>
  PROVE  call'.method = method /\ call'.args = args /\ (call'.ok => call'.value = v)
<1>1. call' \in {Failed(method, args), Answered(method, args, v)}
  BY Zenon DEF Amended
<1> QED
  BY <1>1, AnswersAre

LEMMA AmendedTurns ==
  ASSUME RepInv, NEW method, NEW args, NEW t \in DOMAIN scope, scope' = scope, NEW m, NEW id, NEW quiet,
         Amended(method, args, t, id, m, quiet),
         NEW k, k = Read(Clients[t], db[t][id]),
         NEW l, l = Read(Clients[t], Updated(Clients[t], m, db[t][id]))
  PROVE  /\ Turned(t, id, To(t, k), To(t, l), quiet)
         /\ call'.method = method /\ call'.args = args
<1>1. PICK v : v = <<id, IF quiet THEN Nil ELSE To(t, Read(Clients[t], db'[t][id]))>>
  OBVIOUS
<1>2. call'.method = method /\ call'.args = args /\ (call'.ok => call'.value = v)
  BY <1>1, AmendedAnswers
<1>3. PICK row : row = Updated(Clients[t], m, db[t][id])
  OBVIOUS
<1>4. Written(t, id, row) /\ id \in DOMAIN db[t]
  BY <1>3 DEF Amended
<1>5. PICK s : s = To(t, l)
  OBVIOUS
<1>6. Recorded(t, id, s)
  BY <1>3, <1>4, <1>5, RecordWritten
<1>7. v = <<id, IF quiet THEN Nil ELSE s>>
  BY <1>1, <1>3, <1>4, <1>5 DEF Written
<1>8. id \in DOMAIN Records[t] /\ Records[t][id] = To(t, k)
  BY <1>4, RecordsAre
<1>9. Records' = [Records EXCEPT ![t][id] = Records'[t][id]]
  <2>1. /\ Records' = [Records EXCEPT ![t] =
                     [i \in DOMAIN @ \cup {id} |-> IF i = id THEN Records'[t][id] ELSE @[i]]]
    BY <1>6 DEF Recorded
  <2>2. t \in DOMAIN Records /\ Records[t] = [i \in DOMAIN Records[t] |-> Records[t][i]]
    BY DEF Records
  <2>3. DOMAIN Records[t] \cup {id} = DOMAIN Records[t]
    BY <1>8
  <2>4. PICK r : r = Records'[t][id]
    OBVIOUS
  <2>5. [i \in DOMAIN Records[t] \cup {id} |-> IF i = id THEN r ELSE Records[t][i]]
          = [Records[t] EXCEPT ![id] = r]
    BY <1>8, <2>2, <2>3
  <2> QED
    BY <2>1, <2>2, <2>4, <2>5
<1>10. Turned(t, id, To(t, k), s, quiet)
  BY <1>2, <1>6, <1>7, <1>8, <1>9 DEF Turned, Recorded
<1> QED
  BY <1>2, <1>5, <1>10

LEMMA UpdateAnswers ==
  ASSUME RepInv, NEW method, NEW args, NEW t, NEW id, NEW fields, FieldsOK(t, fields), NEW quiet,
         UpdateOneID(method, args, t, id, fields, quiet)
  PROVE  Renewed(method, args, t, id, fields, quiet)
<1>1. /\ t \in DOMAIN scope /\ t \in DOMAIN Clients /\ call.method = "none" /\ scope' = scope
      /\ \/ db' = db /\ call' = Failed(method, args)
         \/ Amended(method, args, t, id, Patched(t, id, fields), quiet)
  BY UpdateMeans, TablesAre
<1>2. CASE db' = db /\ call' = Failed(method, args)
  <2>1. call'.method = method /\ call'.args = args /\ ~call'.ok
    BY <1>2 DEF Failed
  <2>2. Records' = Records
    BY <1>1, <1>2, RecordsStay
  <2> QED
    BY <1>1, <2>1, <2>2 DEF Renewed
<1>3. CASE Amended(method, args, t, id, Patched(t, id, fields), quiet)
  <2>1. PICK m : m = Patched(t, id, fields)
    OBVIOUS
  <2>2. Amended(method, args, t, id, m, quiet)
    BY <1>3, <2>1
  <2>3. PICK before : before = db[t][id]
    OBVIOUS
  <2>4. PICK row : row = Updated(Clients[t], m, before)
    OBVIOUS
  <2>5. PICK k : k = Read(Clients[t], before)
    OBVIOUS
  <2>6. PICK l : l = Read(Clients[t], row)
    OBVIOUS
  <2>7. Remade(Clients[t].fields, Clients[t].pointers, PatchIn(t, fields), fields, k, l)
    BY <1>1, <2>1, <2>4, <2>5, <2>6, UpdateRemakes
  <2>8. k = Read(Clients[t], db[t][id]) /\ l = Read(Clients[t], Updated(Clients[t], m, db[t][id]))
    BY <2>3, <2>4, <2>5, <2>6
  <2>9. Turned(t, id, To(t, k), To(t, l), quiet) /\ call'.method = method /\ call'.args = args
    BY <1>1, <2>2, <2>8, AmendedTurns
  <2> QED
    BY <1>1, <2>7, <2>9 DEF Renewed
<1> QED
  BY <1>1, <1>2, <1>3

-----------------------------------------------------------------------------
(***************************************************************************)
(* The methods that update.                                                *)
(***************************************************************************)
\* What a result makes of a run.
Resulted(status, value, msg, r, s) ==
    /\ s.CompletedAt # <<>>
    /\ s = [r EXCEPT !.Status = status, !.CompletedAt = s.CompletedAt,
                     !.ActualValue = IF value = <<>> THEN @ ELSE value,
                     !.Error = IF msg = <<>> THEN @ ELSE msg]

LEMMA ResultMade ==
  ASSUME NEW status, NEW now, NEW value, value = Nil \/ value = Ptr(value[1]),
         NEW msg, msg = Nil \/ msg = Ptr(msg[1]),
         NEW f, f = ResultFields(status, now, value, msg), NEW k, NEW l,
         Remade(Clients["audit_runs"].fields, Clients["audit_runs"].pointers,
                PatchIn("audit_runs", f), f, k, l)
  PROVE  Resulted(status, value, msg, To("audit_runs", k), To("audit_runs", l))
<1>1. ResultGives(f, status, now, value, msg)
  BY ZenonT(30), ResultFieldsAre
<1>2. /\ Clients["audit_runs"].fields = AuditRunFields
      /\ Clients["audit_runs"].pointers = {"actual_value", "error_message", "completed_at"}
      /\ PatchIn("audit_runs", f) = DOMAIN f \cup {"updated_at"}
  BY DEF Clients, AuditRunClient, AuditRunPointers, PatchIn, AuditRunUpdate, Now, NoFields
<1>3. /\ l.audit_id = k.audit_id /\ l.started_at = k.started_at
      /\ l.status = status /\ l.completed_at # Nil
  BY <1>1, <1>2 DEF Remade, ResultGives, AuditRunFields
<1>4. l.actual_value = IF value = Nil THEN k.actual_value ELSE value
  BY <1>1, <1>2 DEF Remade, ResultGives, AuditRunFields
<1>5. l.error_message = IF msg = Nil THEN k.error_message ELSE msg
  BY <1>1, <1>2 DEF Remade, ResultGives, AuditRunFields
<1>6. To("audit_runs", k) = toAuditRun(k) /\ To("audit_runs", l) = toAuditRun(l)
  BY DEF To
<1>7. PICK r : r = toAuditRun(k)
  OBVIOUS
<1>8. PICK s : s = toAuditRun(l)
  OBVIOUS
<1>9. PICK p : p = [r EXCEPT !.Status = status]
  OBVIOUS
<1>10. p = [AuditID |-> k.audit_id, Status |-> status, ActualValue |-> k.actual_value,
            Error |-> k.error_message, StartedAt |-> k.started_at, CompletedAt |-> k.completed_at]
  BY <1>7, <1>9 DEF toAuditRun
<1>11. PICK q : q = [p EXCEPT !.CompletedAt = s.CompletedAt]
  OBVIOUS
<1>12. q = [AuditID |-> k.audit_id, Status |-> status, ActualValue |-> k.actual_value,
            Error |-> k.error_message, StartedAt |-> k.started_at, CompletedAt |-> s.CompletedAt]
  BY <1>10, <1>11
<1>13. PICK a : a = [q EXCEPT !.ActualValue = IF value = <<>> THEN r.ActualValue ELSE value]
  OBVIOUS
<1>14. a = [AuditID |-> k.audit_id, Status |-> status, ActualValue |-> l.actual_value,
            Error |-> k.error_message, StartedAt |-> k.started_at, CompletedAt |-> s.CompletedAt]
  BY <1>4, <1>7, <1>12, <1>13 DEF Nil, toAuditRun
<1>15. s = [a EXCEPT !.Error = IF msg = <<>> THEN r.Error ELSE msg]
  BY <1>3, <1>5, <1>7, <1>8, <1>14 DEF toAuditRun, Nil
<1>16. s.CompletedAt # <<>>
  BY <1>3, <1>8 DEF toAuditRun, Nil
<1>17. Resulted(status, value, msg, r, s)
  BY <1>9, <1>11, <1>13, <1>15, <1>16, Zenon DEF Resulted
<1> QED
  BY <1>6, <1>7, <1>8, <1>17

LEMMA UpdateAuditRunResultStores == ASSUME RepInv, UpdateAuditRunResult PROVE Abstract!UpdateAuditRunResult
<1>1. PICK run, status, value, msg :
         UpdateOneID("UpdateAuditRunResult", <<run, status, value, msg>>, "audit_runs", run,
                     ResultFields(status, clock, value, msg), FALSE)
         /\ value \in {Nil, Ptr(Empty)} /\ msg \in {Nil, Ptr("n")}
  BY Zenon DEF UpdateAuditRunResult, ResultFields, Empty
<1>2. PICK f : f = ResultFields(status, clock, value, msg)
  OBVIOUS
<1>3. (value = Nil \/ value = Ptr(value[1])) /\ (msg = Nil \/ msg = Ptr(msg[1]))
  BY <1>1, Pointers
<1>4. Renewed("UpdateAuditRunResult", <<run, status, value, msg>>, "audit_runs", run, f, FALSE)
  BY <1>1, <1>2, ClockIs, ResultFieldsOK, UpdateAnswers
<1>5. /\ Abstract!Calls("UpdateAuditRunResult")
      /\ Abstract!Arg(1) = run /\ Abstract!Arg(2) = status /\ Abstract!Arg(3) = value
      /\ Abstract!Arg(4) = msg
  BY <1>4 DEF Renewed, Abstract!Calls, Abstract!Arg
<1>6. CASE ~call'.ok /\ Records' = Records
  BY <1>5, <1>6 DEF Abstract!UpdateAuditRunResult, Abstract!Writes
<1>7. CASE \E k, l :
             /\ Remade(Clients["audit_runs"].fields, Clients["audit_runs"].pointers,
                       PatchIn("audit_runs", f), f, k, l)
             /\ Turned("audit_runs", run, To("audit_runs", k), To("audit_runs", l), FALSE)
  <2>1. PICK k, l :
           /\ Remade(Clients["audit_runs"].fields, Clients["audit_runs"].pointers,
                     PatchIn("audit_runs", f), f, k, l)
           /\ Turned("audit_runs", run, To("audit_runs", k), To("audit_runs", l), FALSE)
    BY <1>7
  <2>2. PICK r : r = To("audit_runs", k)
    OBVIOUS
  <2>3. PICK s : s = To("audit_runs", l)
    OBVIOUS
  <2>4. Resulted(status, value, msg, r, s)
    BY <1>2, <1>3, <2>1, <2>2, <2>3, ResultMade
  <2>5. Turned("audit_runs", run, r, s, FALSE)
    BY <2>1, <2>2, <2>3
  <2>6. Abstract!Amends("audit_runs", Abstract!Arg(1), LAMBDA x, y :
                /\ y.CompletedAt # <<>>
                /\ y = [x EXCEPT !.Status = Abstract!Arg(2), !.CompletedAt = y.CompletedAt,
                                 !.ActualValue = IF Abstract!Arg(3) = <<>> THEN @ ELSE Abstract!Arg(3),
                                 !.Error = IF Abstract!Arg(4) = <<>> THEN @ ELSE Abstract!Arg(4)])
    BY <1>5, <2>4, <2>5 DEF Turned, Resulted, Abstract!Amends
  <2> QED
    BY <1>5, <2>6 DEF Abstract!UpdateAuditRunResult, Abstract!Writes
<1> QED
  BY <1>4, <1>6, <1>7 DEF Renewed

\* What a new status makes of a policy's run.
Concluded(status, r, s) ==
    /\ s.CompletedAt # <<>>
    /\ s = [r EXCEPT !.Status = status, !.CompletedAt = s.CompletedAt]

LEMMA StatusMade ==
  ASSUME NEW status, NEW now, NEW f, f = [status |-> status, completed_at |-> now], NEW k, NEW l,
         Remade(Clients["policy_runs"].fields, Clients["policy_runs"].pointers,
                PatchIn("policy_runs", f), f, k, l),
         NEW r, r = To("policy_runs", k), NEW s, s = To("policy_runs", l)
  PROVE  Concluded(status, r, s)
<1>1. /\ Clients["policy_runs"].fields = PolicyRunFields
      /\ Clients["policy_runs"].pointers = {"completed_at"}
      /\ PatchIn("policy_runs", f) = DOMAIN f
  BY DEF Clients, PolicyRunClient, PolicyRunPointers, PatchIn, PolicyRunUpdate, NoDefaults, Now, NoFields
<1>2. DOMAIN f = {"status", "completed_at"} /\ f["status"] = status
  OBVIOUS
<1>3. /\ l.policy_id = k.policy_id /\ l.started_at = k.started_at
      /\ l.audit_run_ids = k.audit_run_ids /\ l.status = status /\ l.completed_at # Nil
  BY <1>1, <1>2 DEF Remade, PolicyRunFields
<1>4. r = toPolicyRun(k) /\ s = toPolicyRun(l)
  BY DEF To
<1>5. PICK q : q = [r EXCEPT !.Status = status]
  OBVIOUS
<1>6. q = [PolicyID |-> k.policy_id, Status |-> status, AuditRunIDs |-> k.audit_run_ids,
           StartedAt |-> k.started_at, CompletedAt |-> k.completed_at]
  BY <1>4, <1>5 DEF toPolicyRun
<1>7. s = [q EXCEPT !.CompletedAt = s.CompletedAt] /\ s.CompletedAt # <<>>
  BY <1>3, <1>4, <1>6 DEF toPolicyRun, Nil
<1> QED
  BY <1>5, <1>7, Zenon DEF Concluded

LEMMA UpdatePolicyRunStatusStores == ASSUME RepInv, UpdatePolicyRunStatus PROVE Abstract!UpdatePolicyRunStatus
<1>1. PICK run, status :
         UpdateOneID("UpdatePolicyRunStatus", <<run, status>>, "policy_runs", run,
                    [status |-> status, completed_at |-> clock], FALSE)
  BY DEF UpdatePolicyRunStatus
<1>2. PICK f : f = [status |-> status, completed_at |-> clock]
  OBVIOUS
<1>3. Renewed("UpdatePolicyRunStatus", <<run, status>>, "policy_runs", run, f, FALSE)
  <2>1. FieldsOK("policy_runs", f)
    BY <1>2, ClockIs, StatusFieldsOK
  <2> QED
    BY <1>1, <1>2, <2>1, UpdateAnswers
<1>4. /\ Abstract!Calls("UpdatePolicyRunStatus")
      /\ Abstract!Arg(1) = run /\ Abstract!Arg(2) = status
  BY <1>3 DEF Renewed, Abstract!Calls, Abstract!Arg
<1>5. CASE ~call'.ok /\ Records' = Records
  BY <1>4, <1>5 DEF Abstract!UpdatePolicyRunStatus, Abstract!Writes
<1>6. CASE \E k, l :
             /\ Remade(Clients["policy_runs"].fields, Clients["policy_runs"].pointers,
                       PatchIn("policy_runs", f), f, k, l)
             /\ Turned("policy_runs", run, To("policy_runs", k), To("policy_runs", l), FALSE)
  <2>1. PICK k, l :
           /\ Remade(Clients["policy_runs"].fields, Clients["policy_runs"].pointers,
                     PatchIn("policy_runs", f), f, k, l)
           /\ Turned("policy_runs", run, To("policy_runs", k), To("policy_runs", l), FALSE)
    BY <1>6
  <2>2. PICK r : r = To("policy_runs", k)
    OBVIOUS
  <2>3. PICK s : s = To("policy_runs", l)
    OBVIOUS
  <2>4. Concluded(status, r, s)
    BY <1>2, <2>1, <2>2, <2>3, StatusMade
  <2>5. Turned("policy_runs", run, r, s, FALSE)
    BY <2>1, <2>2, <2>3
  <2>6. Abstract!Amends("policy_runs", Abstract!Arg(1), LAMBDA x, y :
                /\ y.CompletedAt # <<>>
                /\ y = [x EXCEPT !.Status = Abstract!Arg(2), !.CompletedAt = y.CompletedAt])
    BY <1>4, <2>4, <2>5 DEF Turned, Concluded, Abstract!Amends
  <2> QED
    BY <1>4, <2>6 DEF Abstract!UpdatePolicyRunStatus, Abstract!Writes
<1> QED
  BY <1>3, <1>5, <1>6 DEF Renewed

LEMMA NextRunMade ==
  ASSUME NEW next, NEW f, f = [next_run_at |-> next], NEW k, NEW l,
         Remade(Clients["schedules"].fields, Clients["schedules"].pointers,
                PatchIn("schedules", f), f, k, l),
         NEW r, r = To("schedules", k), NEW s, s = To("schedules", l)
  PROVE  s = [r EXCEPT !.NextRunAt = s.NextRunAt] /\ Abstract!Near(s.NextRunAt, next)
<1>1. /\ Clients["schedules"].fields = ScheduleFields /\ Clients["schedules"].pointers = {}
      /\ PatchIn("schedules", f) = {"next_run_at"}
  BY DEF Clients, ScheduleClient, SchedulePointers, PatchIn, ScheduleUpdate, NoDefaults, Now, NoFields
<1>2. DOMAIN f = {"next_run_at"} /\ f["next_run_at"] = next
  OBVIOUS
<1>3. /\ l.target_type = k.target_type /\ l.target_id = k.target_id
      /\ l.interval_seconds = k.interval_seconds /\ l.created_at = k.created_at
      /\ Abstract!Near(l.next_run_at, next)
  BY <1>1, <1>2 DEF Remade, ScheduleFields
<1>4. r = toSchedule(k) /\ s = toSchedule(l)
  BY DEF To
<1> QED
  BY <1>3, <1>4 DEF toSchedule

LEMMA UpdateScheduleNextRunStores == ASSUME RepInv, UpdateScheduleNextRun PROVE Abstract!UpdateScheduleNextRun
<1>1. PICK id \in Ids, next \in 1..MaxTime :
         UpdateOneID("UpdateScheduleNextRun", <<id, next>>, "schedules", id, [next_run_at |-> next], TRUE)
  BY DEF UpdateScheduleNextRun
<1>2. PICK f : f = [next_run_at |-> next]
  OBVIOUS
<1>3. Renewed("UpdateScheduleNextRun", <<id, next>>, "schedules", id, f, TRUE)
  <2>1. next \in Nat
    BY RepositoryAssumption
  <2>2. FieldsOK("schedules", f)
    BY <1>2, <2>1, NextRunFieldsOK
  <2> QED
    BY <1>1, <1>2, <2>2, UpdateAnswers
<1>4. Abstract!Calls("UpdateScheduleNextRun") /\ Abstract!Arg(1) = id /\ Abstract!Arg(2) = next
  BY <1>3 DEF Renewed, Abstract!Calls, Abstract!Arg
<1>5. CASE ~call'.ok /\ Records' = Records
  BY <1>4, <1>5 DEF Abstract!UpdateScheduleNextRun, Abstract!Writes
<1>6. CASE \E k, l :
             /\ Remade(Clients["schedules"].fields, Clients["schedules"].pointers,
                       PatchIn("schedules", f), f, k, l)
             /\ Turned("schedules", id, To("schedules", k), To("schedules", l), TRUE)
  <2>1. PICK k, l :
           /\ Remade(Clients["schedules"].fields, Clients["schedules"].pointers,
                     PatchIn("schedules", f), f, k, l)
           /\ Turned("schedules", id, To("schedules", k), To("schedules", l), TRUE)
    BY <1>6
  <2>2. PICK r : r = To("schedules", k)
    OBVIOUS
  <2>3. PICK s : s = To("schedules", l)
    OBVIOUS
  <2>4. s = [r EXCEPT !.NextRunAt = s.NextRunAt] /\ Abstract!Near(s.NextRunAt, next)
    BY <1>2, <2>1, <2>2, <2>3, NextRunMade
  <2>5. Turned("schedules", id, r, s, TRUE)
    BY <2>1, <2>2, <2>3
  <2>6. Abstract!Amends("schedules", Abstract!Arg(1), LAMBDA x, y :
                y = [x EXCEPT !.NextRunAt = y.NextRunAt] /\ Abstract!Near(y.NextRunAt, Abstract!Arg(2)))
    BY <1>4, <2>4, <2>5 DEF Turned, Abstract!Amends, Nil
  <2> QED
    BY <1>4, <2>6 DEF Abstract!UpdateScheduleNextRun, Abstract!Writes
<1> QED
  BY <1>3, <1>5, <1>6 DEF Renewed

-----------------------------------------------------------------------------
(***************************************************************************)
(* What a query answers.                                                   *)
(***************************************************************************)
\* The call of Only is answered: with the one record under ids, or not.
Found(method, args, t, ids) ==
    /\ call.method = "none" /\ call'.method = method /\ call'.args = args
    /\ Records' = Records
    /\ call'.ok =>
         /\ \A id \in DOMAIN Records[t] : id \in ids <=> call'.value = <<id, Records[t][id]>>
         /\ call'.value \in {<<id, Records[t][id]>> : id \in DOMAIN Records[t]}

LEMMA OnlyAnswers ==
  ASSUME NEW method, NEW args, NEW t, NEW ids, ids \subseteq DOMAIN db[t], Only(method, args, t, ids)
  PROVE  Found(method, args, t, ids)
<1>1. /\ t \in DOMAIN scope /\ call.method = "none" /\ UNCHANGED <<scope, db, clock>>
      /\ call' \in {Failed(method, args)} \cup
                 {Answered(method, args, <<id, Node(t, id)>>) : id \in {i \in ids : ids = {i}}}
  BY DEF Only, Free
<1>2. Records' = Records
  BY <1>1, RecordsStay
<1>3. CASE call' = Failed(method, args)
  BY <1>1, <1>2, <1>3 DEF Failed, Found
<1>4. ASSUME NEW id \in ids, ids = {id}, call' = Answered(method, args, <<id, Node(t, id)>>)
      PROVE  Found(method, args, t, ids)
  <2>1. call'.method = method /\ call'.args = args /\ call'.value = <<id, Node(t, id)>>
    BY <1>4 DEF Answered
  <2>2. DOMAIN Records[t] = DOMAIN db[t] /\ Records[t][id] = Node(t, id) /\ id \in DOMAIN Records[t]
    BY <1>1, <1>4 DEF Records
  <2>3. call'.value = <<id, Records[t][id]>>
    BY <2>1, <2>2
  <2>4. \A i \in DOMAIN Records[t] : i \in ids <=> call'.value = <<i, Records[t][i]>>
    BY <1>4, <2>3
  <2> QED
    BY <1>1, <1>2, <2>1, <2>2, <2>3, <2>4 DEF Found
<1> QED
  BY <1>1, <1>3, <1>4

\* Under IDEQ, the record under the id.
LEMMA ByID ==
  ASSUME NEW method, NEW t, NEW id, Only(method, <<id>>, t, IDEQ(t, id))
  PROVE  Abstract!Calls(method) /\ Abstract!Reads(Abstract!Finds(t, LAMBDA i, r : i = Abstract!Arg(1)))
<1>1. Found(method, <<id>>, t, IDEQ(t, id))
  <2>1. IDEQ(t, id) \subseteq DOMAIN db[t]
    BY DEF IDEQ, IDIn
  <2> QED
    BY <2>1, OnlyAnswers
<1>2. t \in DOMAIN scope
  BY DEF Only, Free
<1>3. \A i \in DOMAIN Records[t] : i \in IDEQ(t, id) <=> i = id
  BY <1>2, RecordsAre DEF IDEQ, IDIn
<1>4. Abstract!Arg(1) = id
  BY <1>1 DEF Found, Abstract!Arg
<1> QED
  BY <1>1, <1>3, <1>4 DEF Found, Abstract!Calls, Abstract!Reads, Abstract!Finds

LEMMA GetAuditStores == ASSUME GetAudit PROVE Abstract!GetAudit
  BY ByID DEF GetAudit, Abstract!GetAudit

LEMMA GetIssueStores == ASSUME GetIssue PROVE Abstract!GetIssue
  BY ByID DEF GetIssue, Abstract!GetIssue

LEMMA GetPolicyStores == ASSUME GetPolicy PROVE Abstract!GetPolicy
  BY ByID DEF GetPolicy, Abstract!GetPolicy

LEMMA GetPolicyRunStores == ASSUME GetPolicyRun PROVE Abstract!GetPolicyRun
  BY ByID DEF GetPolicyRun, Abstract!GetPolicyRun

\* Under Having, the rows with a value in a column.
LEMMA HavingIs ==
  ASSUME RepInv, NEW t \in DOMAIN scope, NEW c \in Tables[t].notNull, Clients[t].fields[c] # "time",
         NEW v, NEW f, DOMAIN f = {c}, f[c] = v
  PROVE  Having(t, f) = {i \in DOMAIN db[t] : db[t][i][c] = v}
<1>1. \A i \in DOMAIN db[t] : c \in DOMAIN db[t][i]
  BY RepositoryAssumption DEF RepInv, TablesInv, RowOK
<1>2. Stored(Clients[t].fields[c], v) = v
  BY StoredOther
<1>3. PICK where : where = {<<d, f[d]>> : d \in DOMAIN f}
  OBVIOUS
<1>4. where = {<<c, v>>}
  BY <1>3
<1>5. ASSUME NEW i \in DOMAIN db[t] PROVE Matches(Clients[t], db[t][i], where) <=> db[t][i][c] = v
  BY <1>1, <1>2, <1>4 DEF Matches
<1>6. Having(t, f) = {i \in DOMAIN db[t] : Matches(Clients[t], db[t][i], where)}
  BY <1>3, Zenon DEF Having
<1> QED
  BY <1>5, <1>6

LEMMA GetAuditRunStores == ASSUME RepInv, GetAuditRun PROVE Abstract!GetAuditRun
<1>1. PICK audit \in Ids, run \in Ids :
         Only("GetAuditRun", <<audit, run>>, "audit_runs", FindAuditRun(audit, run))
  BY DEF GetAuditRun
<1>2. "audit_runs" \in DOMAIN scope
  BY <1>1 DEF Only, Free
<1>3. "audit_id" \in Tables["audit_runs"].notNull
  BY DEF Tables, AuditRunsTable, Table
<1>4. Clients["audit_runs"].fields["audit_id"] # "time" /\ "audit_id" \notin Clients["audit_runs"].pointers
  BY DEF Clients, AuditRunClient, AuditRunFields, AuditRunPointers
<1>5. PICK f : f = [audit_id |-> audit]
  OBVIOUS
<1>6. DOMAIN f = {"audit_id"} /\ f["audit_id"] = audit
  BY <1>5
<1>7. Having("audit_runs", f) = {i \in DOMAIN db["audit_runs"] : db["audit_runs"][i]["audit_id"] = audit}
  BY <1>2, <1>3, <1>4, <1>6, HavingIs
<1>8. FindAuditRun(audit, run)
        = {i \in DOMAIN db["audit_runs"] : db["audit_runs"][i]["audit_id"] = audit /\ i = run}
  BY <1>5, <1>7 DEF FindAuditRun, IDEQ, IDIn
<1>9. Found("GetAuditRun", <<audit, run>>, "audit_runs", FindAuditRun(audit, run))
  BY <1>1, <1>8, OnlyAnswers
<1>10. ASSUME NEW i \in DOMAIN db["audit_runs"]
       PROVE  Records["audit_runs"][i].AuditID = db["audit_runs"][i]["audit_id"]
  <2>1. PICK n : n = Read(Clients["audit_runs"], db["audit_runs"][i])
    OBVIOUS
  <2>2. n["audit_id"] = db["audit_runs"][i]["audit_id"]
    BY <1>2, <1>3, <1>4, <2>1, ColumnIsRead
  <2>3. Records["audit_runs"][i] = toAuditRun(n)
    BY <1>2, <2>1, RecordsAre DEF To
  <2> QED
    BY <2>2, <2>3 DEF toAuditRun
<1>11. \A i \in DOMAIN Records["audit_runs"] :
          i \in FindAuditRun(audit, run) <=> Records["audit_runs"][i].AuditID = audit /\ i = run
  BY <1>2, <1>8, <1>10, RecordsAre
<1>12. Abstract!Arg(1) = audit /\ Abstract!Arg(2) = run
  BY <1>9 DEF Found, Abstract!Arg
<1> QED
  BY <1>9, <1>11, <1>12 DEF Found, Abstract!GetAuditRun, Abstract!Calls, Abstract!Reads, Abstract!Finds

LEMMA GetUserStores == ASSUME RepInv, GetUserByUsername PROVE Abstract!GetUserByUsername
<1>1. PICK name \in Names :
         Only("GetUserByUsername", <<name>>, "users", Having("users", [username |-> name]))
  BY DEF GetUserByUsername
<1>2. "users" \in DOMAIN scope
  BY <1>1 DEF Only, Free
<1>3. "username" \in Tables["users"].notNull
  BY DEF Tables, UsersTable, Table
<1>4. Clients["users"].fields["username"] # "time" /\ "username" \notin Clients["users"].pointers
  BY DEF Clients, UserClient, UserFields, UserPointers
<1>5. PICK f : f = [username |-> name]
  OBVIOUS
<1>6. DOMAIN f = {"username"} /\ f["username"] = name
  BY <1>5
<1>7. Having("users", f) = {i \in DOMAIN db["users"] : db["users"][i]["username"] = name}
  BY <1>2, <1>3, <1>4, <1>6, HavingIs
<1>8. Found("GetUserByUsername", <<name>>, "users", Having("users", f))
  BY <1>1, <1>5, <1>7, OnlyAnswers
<1>9. ASSUME NEW i \in DOMAIN db["users"]
      PROVE  Records["users"][i].Username = db["users"][i]["username"]
  <2>1. PICK n : n = Read(Clients["users"], db["users"][i])
    OBVIOUS
  <2>2. n["username"] = db["users"][i]["username"]
    BY <1>2, <1>3, <1>4, <2>1, ColumnIsRead
  <2>3. Records["users"][i] = toUser(n)
    BY <1>2, <2>1, RecordsAre DEF To
  <2> QED
    BY <2>2, <2>3 DEF toUser
<1>10. \A i \in DOMAIN Records["users"] : i \in Having("users", f) <=> Records["users"][i].Username = name
  BY <1>2, <1>7, <1>9, RecordsAre
<1>11. Abstract!Arg(1) = name
  BY <1>8 DEF Found, Abstract!Arg
<1> QED
  BY <1>8, <1>10, <1>11 DEF Found, Abstract!GetUserByUsername, Abstract!Calls, Abstract!Reads, Abstract!Finds

\* The call of All is answered: with the records under ids, or not.
Answers(method, args, t, ids) ==
    /\ call.method = "none" /\ call'.method = method /\ call'.args = args
    /\ Records' = Records
    /\ call'.ok =>
         /\ DOMAIN call'.value = ids /\ ids \subseteq DOMAIN Records[t]
         /\ \A id \in ids : call'.value[id] = Records[t][id]

LEMMA AllAnswers ==
  ASSUME NEW method, NEW args, NEW t, NEW ids, ids \subseteq DOMAIN db[t], All(method, args, t, ids)
  PROVE  Answers(method, args, t, ids)
<1>1. PICK v : v = [id \in ids |-> Node(t, id)]
  OBVIOUS
<1>2. /\ t \in DOMAIN scope /\ call.method = "none" /\ UNCHANGED <<scope, db, clock>>
      /\ call' \in {Failed(method, args), Answered(method, args, v)}
  BY <1>1, Zenon DEF All, Free
<1>3. Records' = Records
  BY <1>2, RecordsStay
<1>4. call'.method = method /\ call'.args = args /\ (call'.ok => call'.value = v)
  BY <1>2, AnswersAre
<1>5. DOMAIN Records[t] = DOMAIN db[t] /\ \A i \in DOMAIN db[t] : Records[t][i] = Node(t, i)
  BY <1>2 DEF Records
<1>6. DOMAIN v = ids /\ \A id \in ids : v[id] = Records[t][id]
  BY <1>1, <1>5
<1> QED
  BY <1>2, <1>3, <1>4, <1>5, <1>6 DEF Answers

LEMMA GetAuditRunsStores == ASSUME GetAuditRunsByIDs PROVE Abstract!GetAuditRunsByIDs
<1>1. PICK ids \in SUBSET Ids :
         All("GetAuditRunsByIDs", <<ids>>, "audit_runs", IDIn("audit_runs", ids))
  BY DEF GetAuditRunsByIDs
<1>2. Answers("GetAuditRunsByIDs", <<ids>>, "audit_runs", IDIn("audit_runs", ids))
  <2>1. IDIn("audit_runs", ids) \subseteq DOMAIN db["audit_runs"]
    BY DEF IDIn
  <2> QED
    BY <1>1, <2>1, AllAnswers
<1>3. Abstract!Arg(1) = ids
  BY <1>2 DEF Answers, Abstract!Arg
<1>4. DOMAIN Records["audit_runs"] = DOMAIN db["audit_runs"]
  BY <1>1, RecordsAre DEF All, Free
<1>5. \A i \in DOMAIN Records["audit_runs"] : i \in IDIn("audit_runs", ids) <=> i \in ids
  BY <1>4 DEF IDIn
<1> QED
  BY <1>2, <1>3, <1>5
     DEF Answers, Abstract!GetAuditRunsByIDs, Abstract!Calls, Abstract!Reads, Abstract!Lists

LEMMA GetDueSchedulesStores == ASSUME RepInv, GetDueSchedules PROVE Abstract!GetDueSchedules
<1>1. PICK due : due = {i \in DOMAIN db["schedules"] :
                          db["schedules"][i].next_run_at <= Stored("time", clock)}
  OBVIOUS
<1>2. All("GetDueSchedules", <<clock>>, "schedules", due)
  BY <1>1 DEF GetDueSchedules
<1>3. Answers("GetDueSchedules", <<clock>>, "schedules", due)
  BY <1>1, <1>2, AllAnswers
<1>4. "schedules" \in DOMAIN scope
  BY <1>2 DEF All, Free
<1>5. "next_run_at" \in Tables["schedules"].notNull
  BY DEF Tables, SchedulesTable, Table
<1>6. /\ Clients["schedules"].fields["next_run_at"] = "time"
      /\ "next_run_at" \notin Clients["schedules"].pointers
  BY DEF Clients, ScheduleClient, ScheduleFields, SchedulePointers
<1>7. ASSUME NEW i \in DOMAIN db["schedules"]
      PROVE  /\ Records["schedules"][i].NextRunAt = db["schedules"][i].next_run_at
             /\ db["schedules"][i].next_run_at \in Nat
  <2>1. PICK n : n = Read(Clients["schedules"], db["schedules"][i])
    OBVIOUS
  <2>2. n["next_run_at"] = db["schedules"][i]["next_run_at"]
    BY <1>4, <1>5, <1>6, <2>1, ColumnIsRead
  <2>3. Records["schedules"][i] = toSchedule(n)
    BY <1>4, <2>1, RecordsAre DEF To
  <2>4. RowOK("schedules", db["schedules"][i])
    BY TablesAre DEF RepInv, TablesInv
  <2>5. db["schedules"][i]["next_run_at"] \in Nat
    BY <1>5, <1>6, <2>4 DEF RowOK
  <2> QED
    BY <2>2, <2>3, <2>5 DEF toSchedule
<1>8. clock \in Nat /\ clock <= Stored("time", clock) /\ Stored("time", clock) <= clock + 1
      /\ Stored("time", clock) \in Nat
  BY ClockIs, StoredNear, StoredTime
<1>9. DOMAIN Records["schedules"] = DOMAIN db["schedules"]
  BY <1>4, RecordsAre
<1>10. \A i \in DOMAIN Records["schedules"] : Records["schedules"][i].NextRunAt <= clock => i \in due
  BY <1>1, <1>7, <1>8, <1>9
<1>11. \A i \in due : Records["schedules"][i].NextRunAt <= clock + 1
  BY <1>1, <1>7, <1>8, <1>9
<1>12. Abstract!Arg(1) = clock
  BY <1>3 DEF Answers, Abstract!Arg
<1> QED
  BY <1>3, <1>10, <1>11, <1>12
     DEF Answers, Abstract!GetDueSchedules, Abstract!Calls, Abstract!Reads, Abstract!Lists

-----------------------------------------------------------------------------
(***************************************************************************)
(* The pages of ListIssues.                                                *)
(***************************************************************************)
\* s is the ids of D in an order, the latest first.
LatestFirst(D, s, at) ==
    /\ s \in [1..Cardinality(D) -> D]
    /\ \A i, j \in 1..Cardinality(D) : i < j => s[i] # s[j] /\ at[s[i]] >= at[s[j]]

\* What is later than the k-th is among those before it.
LEMMA LaterComeBefore ==
  ASSUME NEW D, IsFiniteSet(D), NEW at, \A d \in D : at[d] \in Nat, NEW s, LatestFirst(D, s, at),
         NEW k \in 1..Cardinality(D), NEW later, \A d \in later : d \in D /\ at[d] > at[s[k]]
  PROVE  Cardinality(later) < k
<1>1. PICK n \in Nat : n = Cardinality(D)
  BY FS_CardinalityType
<1>2. s \in [1..n -> D] /\ \A i, j \in 1..n : i < j => s[i] # s[j] /\ at[s[i]] >= at[s[j]]
  BY <1>1 DEF LatestFirst
<1>3. \A d \in D : \E i \in 1..n : s[i] = d
  <2>1. \A i, j \in 1..n : s[i] = s[j] => i = j
    <3> SUFFICES ASSUME NEW i \in 1..n, NEW j \in 1..n, i # j PROVE s[i] # s[j]
      OBVIOUS
    <3>1. i < j \/ j < i
      OBVIOUS
    <3> QED
      BY <1>2, <3>1
  <2>2. s \in Injection(1..n, D)
    BY <1>2, <2>1 DEF Injection, IsInjective
  <2>3. Cardinality(1..n) = n
    BY FS_Interval
  <2>4. s \in Surjection(1..n, D)
    BY <1>1, <2>2, <2>3, FS_Injection
  <2> QED
    BY <2>4 DEF Surjection
<1>4. PICK js : js = {j \in 1..n : s[j] \in later}
  OBVIOUS
<1>5. k \in 1..n
  BY <1>1
<1>6. js \subseteq 1..(k - 1)
  <2> SUFFICES ASSUME NEW j \in js, ~(j < k) PROVE FALSE
    BY <1>4, <1>5
  <2>1. j \in 1..n /\ at[s[j]] > at[s[k]]
    BY <1>4
  <2>2. s[j] \in D /\ s[k] \in D
    BY <1>2, <1>5, <2>1
  <2>3. CASE j = k
    BY <2>1, <2>2, <2>3
  <2>4. CASE k < j
    BY <1>2, <1>5, <2>1, <2>2, <2>4
  <2> QED
    BY <1>5, <2>1, <2>3, <2>4
<1>7. IsFiniteSet(1..(k - 1)) /\ Cardinality(1..(k - 1)) = k - 1
  BY <1>5, FS_Interval
<1>8. IsFiniteSet(js) /\ Cardinality(js) <= k - 1
  BY <1>6, <1>7, FS_Subset
<1>9. PICK f : f = [j \in js |-> s[j]]
  OBVIOUS
<1>10. f \in Surjection(js, later)
  <2>1. f \in [js -> later]
    BY <1>4, <1>9
  <2>2. \A d \in later : \E j \in js : f[j] = d
    BY <1>3, <1>4, <1>9
  <2> QED
    BY <2>1, <2>2 DEF Surjection
<1>11. Cardinality(later) <= Cardinality(js) /\ IsFiniteSet(later)
  BY <1>8, <1>10, FS_Surjection
<1>12. Cardinality(later) \in Nat /\ Cardinality(js) \in Nat
  BY <1>8, <1>11, FS_CardinalityType
<1> QED
  BY <1>5, <1>8, <1>11, <1>12

\* Where a page ends.
CutAt(before, size, n, end) ==
    /\ end \in Nat /\ end <= n
    /\ (IF before + 1 <= end THEN end - (before + 1) + 1 ELSE 0)
         = (IF n <= before THEN 0 ELSE IF n - before < size THEN n - before ELSE size)

LEMMA CutIs ==
  ASSUME NEW before \in Nat, NEW size \in Nat, NEW n \in Nat, NEW end,
         end = IF before + size < n THEN before + size ELSE n
  PROVE  CutAt(before, size, n, end)
<1>1. CASE before + size < n
  BY <1>1 DEF CutAt
<1>2. CASE ~(before + size < n)
  BY <1>2 DEF CutAt
<1> QED
  BY <1>1, <1>2

\* The slice that an offset and a limit make.
\* What follows the first ones of s, and not more than size of it.
SliceOf(list, s, before, size) ==
    /\ Len(list) = IF Len(s) <= before THEN 0
                   ELSE IF Len(s) - before < size THEN Len(s) - before ELSE size
    /\ \A i \in 1..Len(list) : before + i \in 1..Len(s) /\ list[i] = s[before + i]

LEMMA PageIs ==
  ASSUME NEW S, NEW s \in Seq(S), NEW page \in Ids, NEW size \in Ids, NEW before,
         before = (page - 1) * size, NEW list, list = Page(s, page, size)
  PROVE  before \in Nat /\ list \in Seq(S) /\ SliceOf(list, s, before, size)
<1>1. PICK last : last = page * size
  OBVIOUS
<1>2. page \in {1, 2} /\ size \in {1, 2}
  BY DEF Ids
<1>3. before \in Nat /\ last = before + size /\ size \in Nat
  BY <1>1, <1>2
<1>4. PICK n : n = Len(s)
  OBVIOUS
<1>5. n \in Nat /\ s \in [1..n -> S]
  BY <1>4, LenProperties
<1>6. PICK end : end = IF last < n THEN last ELSE n
  OBVIOUS
<1>7. list = SubSeq(s, before + 1, end)
  BY <1>1, <1>4, <1>6, Zenon DEF Page
<1>8. CutAt(before, size, n, end)
  BY <1>3, <1>5, <1>6, CutIs
<1>9. \A i \in (before + 1)..end : s[i] \in S
  BY <1>3, <1>5, <1>8 DEF CutAt
<1>10. /\ list \in Seq(S)
       /\ Len(list) = IF before + 1 <= end THEN end - (before + 1) + 1 ELSE 0
       /\ \A i \in 1..(end - (before + 1) + 1) : list[i] = s[(before + 1) + i - 1]
  BY <1>3, <1>7, <1>8, <1>9, SubSeqProperties DEF CutAt
<1>11. Len(list) = IF n <= before THEN 0 ELSE IF n - before < size THEN n - before ELSE size
  BY <1>8, <1>10 DEF CutAt
<1>12. ASSUME NEW i \in 1..Len(list) PROVE before + i \in 1..n /\ list[i] = s[before + i]
  <2>1. i \in 1..(end - (before + 1) + 1) /\ (before + 1) + i - 1 = before + i
    BY <1>3, <1>8, <1>10 DEF CutAt
  <2>2. list[i] = s[(before + 1) + i - 1]
    BY <1>10, <2>1
  <2> QED
    BY <1>3, <1>5, <1>8, <2>1, <2>2 DEF CutAt
<1> QED
  BY <1>3, <1>4, <1>10, <1>11, <1>12 DEF SliceOf

LEMMA IssueTimes ==
  ASSUME RepInv, "issues" \in DOMAIN scope, NEW D, D = DOMAIN db["issues"]
  PROVE  /\ IsFiniteSet(D) /\ DOMAIN Records["issues"] = D
         /\ \A i \in D : /\ db["issues"][i]["created_at"] \in Nat
                         /\ Records["issues"][i].CreatedAt = db["issues"][i]["created_at"]
<1>1. RepInv /\ "issues" \in DOMAIN Tables
  BY TablesAre
<1>2. IsFiniteSet(D)
  <2>1. PICK n \in Nat : D = 1..n
    BY <1>1 DEF RepInv, TablesInv, Numbered
  <2> QED
    BY <2>1, FS_Interval
<1>3. "created_at" \in Tables["issues"].notNull
  BY DEF Tables, IssuesTable, Table
<1>4. /\ Clients["issues"].fields["created_at"] = "time"
      /\ "created_at" \notin Clients["issues"].pointers
  BY DEF Clients, IssueClient, IssueFields, IssuePointers
<1>5. ASSUME NEW i \in D
      PROVE  /\ db["issues"][i]["created_at"] \in Nat
             /\ Records["issues"][i].CreatedAt = db["issues"][i]["created_at"]
  <2>1. PICK n : n = Read(Clients["issues"], db["issues"][i])
    OBVIOUS
  <2>2. n["created_at"] = db["issues"][i]["created_at"]
    BY <1>3, <1>4, <2>1, ColumnIsRead
  <2>3. Records["issues"][i] = toIssue(n)
    BY <2>1, RecordsAre DEF To
  <2>4. RowOK("issues", db["issues"][i])
    BY <1>1 DEF RepInv, TablesInv
  <2> QED
    BY <1>3, <1>4, <2>2, <2>3, <2>4 DEF RowOK, toIssue
<1> QED
  BY <1>2, <1>5, RecordsAre

\* A page of records: what ListIssues answers, and what Store asks of it.
PageOf(value, s, before, size) ==
    /\ Len(value) = IF Len(s) <= before THEN 0
                    ELSE IF Len(s) - before < size THEN Len(s) - before ELSE size
    /\ DOMAIN value = 1..Len(value)
    /\ \A i \in DOMAIN value : /\ before + i \in 1..Len(s)
                               /\ value[i][1] = s[before + i]
                               /\ value[i][2] = Records["issues"][s[before + i]]

LEMMA PageAnswered ==
  ASSUME "issues" \in DOMAIN scope, NEW s, NEW before, NEW size,
         NEW list \in Seq(DOMAIN db["issues"]), SliceOf(list, s, before, size),
         NEW value, value = [i \in DOMAIN list |-> <<list[i], Node("issues", list[i])>>]
  PROVE  PageOf(value, s, before, size)
<1>1. PICK D : D = DOMAIN db["issues"]
  OBVIOUS
<1>2. list \in Seq(D) /\ SliceOf(list, s, before, size)
  BY <1>1
<1>3. PICK n : n = Len(list)
  OBVIOUS
<1>4. n \in Nat /\ DOMAIN list = 1..n /\ \A i \in 1..n : list[i] \in D
  BY <1>2, <1>3, LenProperties
<1>5. DOMAIN value = 1..n /\ \A i \in 1..n : value[i] = <<list[i], Node("issues", list[i])>>
  BY <1>4
<1>6. Len(value) = n
  <2>1. PICK T : T = {value[i] : i \in 1..n}
    OBVIOUS
  <2>2. value \in [1..n -> T]
    BY <1>4, <1>5, <2>1
  <2>3. value \in Seq(T)
    BY <1>4, <2>2, SeqDef
  <2>4. Len(value) \in Nat /\ DOMAIN value = 1..Len(value)
    BY <2>3, LenProperties
  <2> QED
    BY <1>4, <1>5, <2>4
<1>7. \A i \in D : Records["issues"][i] = Node("issues", i)
  BY <1>1 DEF Records
<1>8. \A i \in 1..n : /\ value[i][1] = s[before + i] /\ before + i \in 1..Len(s)
                      /\ value[i][2] = Records["issues"][s[before + i]]
  BY <1>2, <1>3, <1>4, <1>5, <1>7 DEF SliceOf
<1> QED
  BY <1>2, <1>3, <1>5, <1>6, <1>8 DEF PageOf, SliceOf

\* A page of the issues in order is what Store asks for.
LEMMA PageTells ==
  ASSUME RepInv, "issues" \in DOMAIN scope, NEW D, D = DOMAIN db["issues"],
         NEW at, at = [i \in D |-> db["issues"][i]["created_at"]], NEW s, LatestFirst(D, s, at),
         NEW before \in Nat, NEW size \in Ids, NEW value, PageOf(value, s, before, size),
         NEW i \in DOMAIN value, NEW later,
         later = {d \in DOMAIN Records["issues"] :
                    Records["issues"][d].CreatedAt > Records["issues"][value[i][1]].CreatedAt}
  PROVE  /\ value[i][1] \in DOMAIN Records["issues"]
         /\ value[i][2] = Records["issues"][value[i][1]]
         /\ Cardinality(later) < before + i
         /\ \A j \in 1..(i - 1) :
              value[j][1] # value[i][1] /\ value[j][2].CreatedAt >= value[i][2].CreatedAt
<1>1. /\ IsFiniteSet(D) /\ DOMAIN Records["issues"] = D
      /\ \A d \in D : at[d] \in Nat /\ Records["issues"][d].CreatedAt = at[d]
  BY IssueTimes
<1>2. PICK n \in Nat : n = Cardinality(D)
  BY <1>1, FS_CardinalityType
<1>3. /\ s \in [1..n -> D] /\ \A k, l \in 1..n : k < l => s[k] # s[l] /\ at[s[k]] >= at[s[l]]
  BY <1>2 DEF LatestFirst
<1>4. Len(s) = n
  <2>1. s \in Seq(D)
    BY <1>2, <1>3, SeqDef
  <2>2. Len(s) \in Nat /\ 1..Len(s) = 1..n
    BY <1>3, <2>1, LenProperties
  <2> QED
    BY <1>2, <2>2
<1>5. PICK k : k = before + i
  OBVIOUS
<1>6. PICK length : length = Len(value)
  OBVIOUS
<1>7. /\ DOMAIN value = 1..length
      /\ \A j \in 1..length : /\ before + j \in 1..n
                              /\ value[j][1] = s[before + j]
                              /\ value[j][2] = Records["issues"][s[before + j]]
  BY <1>4, <1>6 DEF PageOf
<1>8. length \in Nat
  <2>1. i \in 1..length
    BY <1>7
  <2>2. size \in Nat
    BY DEF Ids
  <2> QED
    BY <1>2, <1>4, <1>6, <2>1, <2>2 DEF PageOf
<1>9. /\ i \in 1..length /\ k \in 1..n /\ s[k] \in D
      /\ value[i][1] = s[k] /\ value[i][2] = Records["issues"][s[k]]
  BY <1>3, <1>5, <1>7
<1>10. Cardinality(later) < k
  <2>1. \A d \in later : d \in D /\ at[d] > at[s[k]]
    BY <1>1, <1>9
  <2>2. k \in 1..Cardinality(D) /\ \A d \in D : at[d] \in Nat
    BY <1>1, <1>2, <1>9
  <2> QED
    BY <1>1, <2>1, <2>2, LaterComeBefore, Zenon
<1>11. ASSUME NEW j \in 1..(i - 1)
       PROVE  value[j][1] # value[i][1] /\ value[j][2].CreatedAt >= value[i][2].CreatedAt
  <2>1. j \in 1..length /\ before + j < k
    BY <1>5, <1>8, <1>9
  <2>2. PICK l : l = before + j
    OBVIOUS
  <2>3. l \in 1..n /\ l < k /\ value[j][1] = s[l] /\ value[j][2] = Records["issues"][s[l]]
    BY <1>7, <2>1, <2>2
  <2>4. s[l] # s[k] /\ at[s[l]] >= at[s[k]] /\ s[l] \in D
    BY <1>3, <1>9, <2>3
  <2> QED
    BY <1>1, <1>9, <2>3, <2>4
<1> QED
  BY <1>1, <1>5, <1>9, <1>10, <1>11

\* Store's Cardinality, which comes with an instance of its own, is Cardinality.
LEMMA CardinalityIs == \A S : Abstract!Cardinality(S) = Cardinality(S)
  BY Zenon DEF Abstract!Cardinality, Cardinality

LEMMA ListIssuesStores == ASSUME RepInv, ListIssues PROVE Abstract!ListIssues
<1>1. PICK page \in Ids, size \in Ids, s \in Ordered :
         /\ Free("issues")
         /\ call' \in {Failed("ListIssues", <<page, size>>),
                       Answered("ListIssues", <<page, size>>,
                                [i \in DOMAIN Page(s, page, size) |->
                                   <<Page(s, page, size)[i], Node("issues", Page(s, page, size)[i])>>])}
         /\ UNCHANGED <<scope, db, clock>>
  BY Zenon DEF ListIssues
<1>2. PICK list : list = Page(s, page, size)
  OBVIOUS
<1>3. PICK value : value = [i \in DOMAIN list |-> <<list[i], Node("issues", list[i])>>]
  OBVIOUS
<1>4. call' \in {Failed("ListIssues", <<page, size>>), Answered("ListIssues", <<page, size>>, value)}
  BY <1>1, <1>2, <1>3, Zenon
<1>5. /\ call'.method = "ListIssues" /\ call'.args = <<page, size>> /\ (call'.ok => call'.value = value)
      /\ "issues" \in DOMAIN scope /\ call.method = "none" /\ Records' = Records
  BY <1>1, <1>4, AnswersAre, RecordsStay DEF Free
<1>6. PICK D : D = DOMAIN db["issues"]
  OBVIOUS
<1>7. PICK at : at = [i \in D |-> db["issues"][i]["created_at"]]
  OBVIOUS
<1>8. IsFiniteSet(D) /\ Cardinality(D) \in Nat /\ DOMAIN Records["issues"] = D
  BY <1>5, <1>6, IssueTimes, FS_CardinalityType
<1>9. LatestFirst(D, s, at)
  <2>1. /\ s \in [1..Cardinality(D) -> D]
        /\ \A i, j \in DOMAIN s : i < j =>
              s[i] # s[j] /\ db["issues"][s[i]].created_at >= db["issues"][s[j]].created_at
    BY <1>6 DEF Ordered
  <2> QED
    BY <1>7, <2>1 DEF LatestFirst
<1>10. s \in Seq(D) /\ Len(s) = Cardinality(D)
  <2>1. PICK n : n = Cardinality(D)
    OBVIOUS
  <2>2. s \in [1..n -> D] /\ n \in Nat
    BY <1>8, <1>9, <2>1 DEF LatestFirst
  <2>3. s \in Seq(D)
    BY <2>2, SeqDef
  <2>4. Len(s) \in Nat /\ 1..Len(s) = 1..n
    BY <2>2, <2>3, LenProperties
  <2> QED
    BY <2>1, <2>2, <2>3, <2>4
<1>11. PICK before : before = (page - 1) * size
  OBVIOUS
<1>12. PageOf(value, s, before, size) /\ before \in Nat
  <2>1. before \in Nat /\ list \in Seq(D) /\ SliceOf(list, s, before, size)
    BY <1>2, <1>10, <1>11, PageIs
  <2> QED
    BY <1>3, <1>5, <1>6, <2>1, PageAnswered
<1>13. Abstract!Arg(1) = page /\ Abstract!Arg(2) = size
  BY <1>5 DEF Abstract!Arg
<1>14. call'.ok => /\ (Abstract!Arg(1) - 1) * Abstract!Arg(2) \in Nat /\ Abstract!Arg(2) \in Ids
                   /\ PageOf(call'.value, s, (Abstract!Arg(1) - 1) * Abstract!Arg(2), Abstract!Arg(2))
  BY <1>5, <1>11, <1>12, <1>13, Zenon
<1>15. ASSUME call'.ok, NEW i \in DOMAIN call'.value
       PROVE  /\ call'.value[i][1] \in DOMAIN Records["issues"]
              /\ call'.value[i][2] = Records["issues"][call'.value[i][1]]
              /\ Abstract!Cardinality({d \in DOMAIN Records["issues"] :
                    Records["issues"][d].CreatedAt > Records["issues"][call'.value[i][1]].CreatedAt})
                  < (Abstract!Arg(1) - 1) * Abstract!Arg(2) + i
              /\ \A j \in 1..(i - 1) :
                   /\ call'.value[j][1] # call'.value[i][1]
                   /\ call'.value[j][2].CreatedAt >= call'.value[i][2].CreatedAt
  <2>1. /\ call'.value[i][1] \in DOMAIN Records["issues"]
        /\ call'.value[i][2] = Records["issues"][call'.value[i][1]]
        /\ Cardinality({d \in DOMAIN Records["issues"] :
                    Records["issues"][d].CreatedAt > Records["issues"][call'.value[i][1]].CreatedAt})
              < (Abstract!Arg(1) - 1) * Abstract!Arg(2) + i
        /\ \A j \in 1..(i - 1) :
             /\ call'.value[j][1] # call'.value[i][1]
             /\ call'.value[j][2].CreatedAt >= call'.value[i][2].CreatedAt
    BY <1>5, <1>6, <1>7, <1>9, <1>14, <1>15, PageTells, Zenon
  <2>2. PICK later : later = {d \in DOMAIN Records["issues"] :
                    Records["issues"][d].CreatedAt > Records["issues"][call'.value[i][1]].CreatedAt}
    OBVIOUS
  <2>3. Abstract!Cardinality(later) = Cardinality(later)
    BY CardinalityIs
  <2> QED
    BY <2>1, <2>2, <2>3, Zenon
<1>16. call'.ok => Len(call'.value) =
          IF Abstract!Cardinality(DOMAIN Records["issues"]) <= (Abstract!Arg(1) - 1) * Abstract!Arg(2) THEN 0
          ELSE IF Abstract!Cardinality(DOMAIN Records["issues"]) - (Abstract!Arg(1) - 1) * Abstract!Arg(2) < Abstract!Arg(2)
               THEN Abstract!Cardinality(DOMAIN Records["issues"]) - (Abstract!Arg(1) - 1) * Abstract!Arg(2)
               ELSE Abstract!Arg(2)
  BY <1>8, <1>10, <1>14, CardinalityIs, Zenon DEF PageOf
<1> QED
  BY <1>5, <1>15, <1>16, ZenonT(60)
     DEF Abstract!ListIssues, Abstract!Calls, Abstract!Reads

-----------------------------------------------------------------------------
(***************************************************************************)
(* The refinement.                                                         *)
(***************************************************************************)
LEMMA ReturnStores == ASSUME Return PROVE Abstract!Return
<1>1. Records' = Records
  BY RecordsStay DEF Return
<1>2. call.method # "none" /\ call' = NoCall
  BY DEF Return
<1>3. call'.method = "none"
  BY <1>2, Zenon DEF NoCall
<1> QED
  BY <1>1, <1>2, <1>3 DEF Abstract!Return

LEMMA StoreBegins == RepositoryInit => Abstract!StoreInit
<1> SUFFICES ASSUME RepositoryInit PROVE Abstract!StoreInit
  OBVIOUS
<1>1. ASSUME NEW t \in DOMAIN Records PROVE DOMAIN Records[t] = {}
  <2>1. t \in DOMAIN scope /\ t \in DOMAIN Tables
    BY <1>1, RepositoryAssumption DEF Records, RepositoryInit
  <2>2. DOMAIN db[t] = {}
    BY <2>1 DEF RepositoryInit, NoFields
  <2> QED
    BY <2>1, <2>2, RecordsAre
<1>2. call.method = "none"
  BY Zenon DEF RepositoryInit, NoCall
<1> QED
  BY <1>1, <1>2 DEF Abstract!StoreInit

LEMMA StoreStep ==
  ASSUME RepInv, [RepositoryNext]_repositoryVars PROVE [Abstract!StoreNext]_(Abstract!storeVars)
<1>1. CASE CreateAudit \/ CreateAuditRun \/ CreateIssue \/ CreatePolicy \/ CreatePolicyRun
             \/ CreateUser \/ CreateSchedule
  BY <1>1, CreateAuditStores, CreateAuditRunStores, CreateIssueStores, CreatePolicyStores,
     CreatePolicyRunStores, CreateUserStores, CreateScheduleStores DEF Abstract!StoreNext
<1>2. CASE UpdateAuditRunResult \/ UpdatePolicyRunStatus \/ UpdateScheduleNextRun
  BY <1>2, UpdateAuditRunResultStores, UpdatePolicyRunStatusStores, UpdateScheduleNextRunStores
     DEF Abstract!StoreNext
<1>3. CASE GetAudit \/ GetAuditRun \/ GetAuditRunsByIDs \/ ListIssues \/ GetIssue \/ GetPolicy
             \/ GetPolicyRun \/ GetUserByUsername \/ GetDueSchedules
  BY <1>3, GetAuditStores, GetAuditRunStores, GetAuditRunsStores, ListIssuesStores, GetIssueStores,
     GetPolicyStores, GetPolicyRunStores, GetUserStores, GetDueSchedulesStores DEF Abstract!StoreNext
<1>4. CASE Return
  BY <1>4, ReturnStores DEF Abstract!StoreNext
<1>5. CASE Tick \/ UNCHANGED repositoryVars
  <2>1. UNCHANGED <<scope, db, call>>
    BY <1>5 DEF Tick, repositoryVars
  <2> QED
    BY <2>1, RecordsStay DEF Abstract!storeVars
<1> QED
  BY <1>1, <1>2, <1>3, <1>4, <1>5 DEF RepositoryNext

\* Each method of EntRepository does what Store says of it, for every scope, every name
\* and list, every time and every fault: in builders, columns and NULLs an insert adds
\* one record that fits its arguments or nothing, an update changes the fields that it
\* names and no other, a query answers the records that it asks for.
THEOREM ImplementsTheStore == RepositorySpec => ImplementsStore
<1>1. RepositoryInit => Abstract!StoreInit
  BY StoreBegins
<1>2. RepInv /\ [RepositoryNext]_repositoryVars => [Abstract!StoreNext]_(Abstract!storeVars)
  BY StoreStep
<1>3. RepInv /\ [RepositoryNext]_repositoryVars => RepInv'
  BY RepStep
<1> QED
  BY RepInit, <1>1, <1>2, <1>3, PTL DEF RepositorySpec, ImplementsStore, Abstract!StoreSpec
================================================================================
