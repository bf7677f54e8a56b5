------------------------------ MODULE EntBuilder -------------------------------
(***************************************************************************)
(* One builder of ent at work on one entity: it is asked for changes call  *)
(* by call, tells old values, and saves; a save that is refused leaves the *)
(* builder as it is, to be changed and saved again.  Meanwhile other       *)
(* processes update row 1, with builders of their own.                     *)
(*                                                                         *)
(* Every table has rows 1 and 2; rows 3 do not exist.                      *)
(***************************************************************************)
EXTENDS Entities, FiniteSets

CONSTANTS
    MaxCalls,      \* calls before the last save
    MaxWrites,     \* updates by other processes
    MaxColumns,    \* columns that such an update sets, besides its defaults
    TextArgs, IntArgs, ListArgs, TimeArgs   \* what a column may be set to, by kind

ASSUME BuilderAssumption == MaxCalls \in Nat /\ MaxWrites \in Nat /\ TimeArgs \subseteq Nat

VARIABLES
    entity,     \* the entity, by the name of its table
    rows,       \* its table; the others stay as they are
    mutation,   \* the builder's mutation
    old,        \* oldValue: Nil, or the node it has loaded or was given
    done,       \* the mutation was saved
    outcome,    \* "building", "refused" or "saved"
    node,       \* Nil, or the node that Save returned
    asked,      \* history: by column, what the calls ask for
    told,       \* history: by column, the old value that was told
    past,       \* history: the nodes that row 1 was before the save
    calls,      \* the number of calls
    writes      \* the number of updates by other processes

builderVars ==
    <<entity, rows, mutation, old, done, outcome, node, asked, told, past, calls, writes>>

client == Clients[entity]

Args(c) ==
    [text |-> TextArgs, int |-> IntArgs, list |-> ListArgs, time |-> TimeArgs][client.fields[c]]

\* The rows of the tables at first: every edge of row 1 and 2 leads to row 1.
Sample(e, i) ==
    LET edges == DOMAIN Tables[e.query.from].references
        Of(c) == CASE c \in edges -> 1
                   [] c \notin edges /\ e.fields[c] = "int" -> i
                   [] e.fields[c] = "text" -> <<"a", "b">>[i]
                   [] e.fields[c] = "list" -> <<i>>
                   [] e.fields[c] = "time" -> 2 * i
    IN  [c \in IF i = 1 THEN DOMAIN e.fields ELSE Tables[e.query.from].notNull |-> Of(c)]

Samples == [t \in DOMAIN Tables |-> [i \in {1, 2} |-> Sample(Clients[t], i)]]

Database(table) == [Samples EXCEPT ![entity] = table]

\* The time of the n-th update of other processes, and that of every save.
Moment(n) == 2 * n + 5
Clock == Moment(MaxWrites)

\* A create builder is empty, or has what the check wants; UpdateOne is given a
\* node, UpdateOneID an id.
BuilderInit ==
    /\ entity \in DOMAIN Clients
    /\ rows = Samples[entity]
    /\ \/ \E full \in BOOLEAN :
            /\ mutation = [NewMutation("create", Nil) EXCEPT !.set =
                    IF full THEN [c \in client.check.required |->
                                     IF client.fields[c] = "text" THEN "c" ELSE Sample(client, 1)[c]]
                            ELSE NoFields]
            /\ old = Nil
       \/ mutation \in {NewMutation("updateOne", Ptr(i)) : i \in {1, 3}} /\ old = Nil
       \/ mutation = NewMutation("updateOne", Ptr(1)) /\ old = Ptr(Read(client, rows[1]))
       \/ mutation \in {NewMutation(op, Nil) : op \in {"update", "delete"}} /\ old = Nil
       \/ mutation \in {NewMutation("deleteOne", Ptr(i)) : i \in {1, 2, 3}} /\ old = Nil
    /\ done = FALSE
    /\ outcome = "building"
    /\ node = Nil
    /\ asked = [c \in DOMAIN mutation.set |-> <<"is", mutation.set[c]>>]
    /\ told = NoFields
    /\ past = {Read(client, rows[1])}
    /\ calls = 0
    /\ writes = 0

-----------------------------------------------------------------------------
(***************************************************************************)
(* Calls.  The builder passes them on to the mutation, which anyone may    *)
(* also reach through Mutation() to reset a field or ask for an old value. *)
(***************************************************************************)
Updating == mutation.op \in {"update", "updateOne"}

\* The fields that the builder has a call for.
Offers(call) ==
    LET builder == IF Updating THEN client.updater ELSE client.setters
    IN  IF mutation.op \in {"delete", "deleteOne"} \/ call \notin DOMAIN builder THEN {}
        ELSE builder[call]

Can(call, c) == call \in client.methods[c]

Called(m, request) ==
    /\ outcome # "saved" /\ calls < MaxCalls
    /\ mutation' = m
    /\ asked' = request
    /\ calls' = calls + 1
    /\ UNCHANGED <<entity, rows, old, done, outcome, node, told, past, writes>>

Asks(c, what) == With(asked, c, what)

Set ==
    \E c \in Offers("Set") : Can("Set", c) /\ \E v \in Args(c) :
        Called(SetField(mutation, c, v), Asks(c, <<"is", v>>))

SetNillable == \E c \in Offers("Nil") : Can("Set", c) /\ Called(mutation, asked)

\* What is asked for after a sum is asked for.
Plus(c, v) ==
    IF c \notin DOMAIN asked THEN <<"plus", v>>
    ELSE IF asked[c] = <<"null">> THEN <<"is", v>>
    ELSE <<asked[c][1], Sum2(client.fields[c], asked[c][2], v)>>

\* What the library makes of a sum or an append to a field that is set is not modelled.
Add ==
    \E c \in Offers("Add") : Can("Add", c) /\ c \notin DOMAIN mutation.set /\
        Called(AddField(client, mutation, c, 1), Asks(c, Plus(c, 1)))

Append2 ==
    \E c \in Offers("Append") : Can("Append", c) /\ c \notin DOMAIN mutation.set /\
        Called(AddField(client, mutation, c, <<2>>), Asks(c, Plus(c, <<2>>)))

Clear ==
    \E c \in Offers("Clear") : Can("Clear", c) /\
        Called(ClearField(mutation, c), Asks(c, <<"null">>))

ClearToOne ==
    \E c \in Offers("ClearEdge") : Can("ClearEdge", c) /\
        Called(ClearEdge(mutation, c), Asks(c, <<"null">>))

Reset ==
    \E c \in DOMAIN client.fields : Can("Reset", c) /\
        Called(IF Can("ClearEdge", c) THEN ResetEdgeField(mutation, c)
                                      ELSE ResetField(mutation, c), Without(asked, c))

ResetToOne ==
    \E c \in DOMAIN client.fields : Can("ResetEdge", c) /\
        Called(ResetField(mutation, c), Without(asked, c))

\* A condition on the rows that an update or a delete is for.
Where ==
    /\ mutation.op \in {"update", "delete"} /\ mutation.where = {}
    /\ \E c \in DOMAIN client.fields : \E v \in Args(c) :
         Called([mutation EXCEPT !.where = {<<c, v>>}], asked)

\* Mutant of OldValue: the row is read at every call until the save.
OldValueAnew == IF done THEN old ELSE Ptr(Read(client, rows[1]))

\* The row is read at the first call, and not after the save.
OldValue == IF old = Nil THEN Ptr(Read(client, rows[1])) ELSE old

Old ==
    /\ mutation.op = "updateOne" /\ mutation.id = Ptr(1)
    /\ old = Nil => ~done
    /\ calls < MaxCalls
    /\ \E c \in DOMAIN client.fields : Can("Old", c) /\ told' = With(told, c, OldValue[1][c])
    /\ old' = OldValue
    /\ calls' = calls + 1
    /\ UNCHANGED <<entity, rows, mutation, done, outcome, node, asked, past, writes>>

-----------------------------------------------------------------------------
(***************************************************************************)
(* Saving.  What ent or Postgres refuses changes nothing; a delete is done *)
(* all the same.                                                           *)
(***************************************************************************)
Refuse(m, ends) ==
    /\ mutation' = m
    /\ outcome' = "refused"
    /\ done' = (done \/ ends)
    /\ UNCHANGED <<entity, rows, old, node, asked, told, past, calls, writes>>

\* Mutant of Accept: the mutation is not marked as done.
AcceptOpen(m, table, n) ==
    /\ mutation' = m
    /\ rows' = table
    /\ outcome' = "saved"
    /\ node' = n
    /\ UNCHANGED <<entity, old, done, asked, told, past, calls, writes>>

Accept(m, table, n) ==
    /\ mutation' = m
    /\ rows' = table
    /\ done' = TRUE
    /\ outcome' = "saved"
    /\ node' = n
    /\ UNCHANGED <<entity, old, asked, told, past, calls, writes>>

FitsAll(table, ids) == \A i \in ids : Fits(Tables, Database(table), entity, i, table[i])

Create ==
    LET m    == Defaulted(client.defaults, mutation, Clock)
        table == With(rows, 3, Created(client, m))
    IN  /\ mutation.op = "create" /\ outcome # "saved"
        /\ IF Passes(client.check, m.set) /\ FitsAll(table, {3})
           THEN Accept([m EXCEPT !.id = Ptr(3)], table, Ptr(NewNode(client, m)))
           ELSE Refuse(m, FALSE)

\* UpdateOne misses a row that is not there; Update of no row is none.
Update ==
    LET m    == Defaulted(client.update.defaults, mutation, Clock)
        ids  == Targets(client, m, rows)
        table == [i \in DOMAIN rows |-> IF i \in ids THEN Updated(client, m, rows[i]) ELSE rows[i]]
        one  == mutation.op = "updateOne"
    IN  /\ Updating /\ outcome # "saved"
        /\ IF /\ Checked(client.update, m) /\ AssignsOnce(client.update, m)
              /\ one => ids # {}
              /\ FitsAll(table, ids)
           THEN Accept(m, table, IF one THEN Ptr(Read(client, table[m.id[1]])) ELSE Nil)
           ELSE Refuse(m, FALSE)

Delete ==
    LET ids == Targets(client, mutation, rows)
    IN  /\ mutation.op \in {"delete", "deleteOne"} /\ outcome # "saved"
        /\ IF /\ mutation.op = "deleteOne" => ids # {}
              /\ \A i \in ids : Unreferenced(Tables, Database(rows), entity, i)
           THEN Accept(mutation, Restrict(rows, DOMAIN rows \ ids), Nil)
           ELSE Refuse(mutation, TRUE)

\* What an update may set: some columns, each to any value of its kind.
Settings ==
    LET Values == [text : TextArgs, int : IntArgs, list : ListArgs, time : TimeArgs]
        Columns(e) == {cs \in SUBSET e.updater.Set : Cardinality(cs) <= MaxColumns}
    IN  [t \in DOMAIN Clients |->
            UNION {{[c \in cs |-> v[c][Clients[t].fields[c]]] : v \in [cs -> Values]} :
                       cs \in Columns(Clients[t])}]

\* Another process updates row 1.
Interfere ==
    /\ outcome # "saved" /\ writes < MaxWrites
    /\ \E set \in Settings[entity] :
         LET new   == [NewMutation("updateOne", Ptr(1)) EXCEPT !.set = set]
             m     == Defaulted(client.update.defaults, new, Moment(writes))
             table == [rows EXCEPT ![1] = Updated(client, m, @)]
         IN  /\ Checked(client.update, m) /\ FitsAll(table, {1})
             /\ rows' = table
             /\ past' = past \cup {Read(client, table[1])}
    /\ writes' = writes + 1
    /\ UNCHANGED <<entity, mutation, old, done, outcome, node, asked, told, calls>>

BuilderNext ==
    \/ Set \/ SetNillable \/ Add \/ Append2 \/ Clear \/ ClearToOne \/ Reset \/ ResetToOne
    \/ Where \/ Old \/ Create \/ Update \/ Delete \/ Interfere

BuilderSpec == BuilderInit /\ [][BuilderNext]_builderVars
-----------------------------------------------------------------------------
NodeOf(e, n) ==
    /\ DOMAIN n = DOMAIN e.fields
    /\ \A c \in e.pointers : n[c] = Nil \/ Len(n[c]) = 1

\* Mutations hold what their entity's fields can, and nodes have its fields.
BuilderTypeOK ==
    /\ entity \in DOMAIN Clients
    /\ DOMAIN mutation.set \cup DOMAIN mutation.added \cup mutation.cleared
         \subseteq DOMAIN client.fields
    /\ \A c \in mutation.cleared : {"Clear", "ClearEdge"} \cap client.methods[c] # {}
    /\ outcome \in {"building", "refused", "saved"}
    /\ outcome = "saved" => done
    /\ done /\ outcome # "saved" => mutation.op \in {"delete", "deleteOne"}
    /\ \A n \in past : NodeOf(client, n)
    /\ node # Nil => NodeOf(client, node[1])
    /\ calls \in 0..MaxCalls /\ writes \in 0..MaxWrites

\* What the calls ask of a column of a row, Nil for NULL: the last word, or else
\* the default of now or the value it had.
Wanted(row, defaults, c) ==
    IF c \in DOMAIN asked
    THEN CASE asked[c][1] = "is"   -> Ptr(Stored(client.fields[c], asked[c][2]))
           [] asked[c][1] = "null" -> Nil
           [] asked[c][1] = "plus" ->
                Ptr(IF c \in DOMAIN row THEN Sum2(client.fields[c], row[c], asked[c][2])
                                        ELSE asked[c][2])
    ELSE IF c \in defaults.times THEN Ptr(Stored("time", Clock))
    ELSE IF c \in DOMAIN defaults.values THEN Ptr(defaults.values[c])
    ELSE IF c \in DOMAIN row THEN Ptr(row[c]) ELSE Nil

Has(row, c) == IF c \in DOMAIN row THEN Ptr(row[c]) ELSE Nil

Saves == outcome # "saved" /\ outcome' = "saved"

LastWord ==
    /\ Saves /\ mutation.op = "create" =>
         /\ \A i \in DOMAIN rows : rows'[i] = rows[i]
         /\ \A c \in DOMAIN client.fields :
              Has(rows'[3], c) = Wanted(NoFields, client.defaults, c)
    /\ Saves /\ Updating =>
         \A i \in DOMAIN rows :
            IF i \in Targets(client, mutation, rows)
            THEN \A c \in DOMAIN client.fields :
                    Has(rows'[i], c) = Wanted(rows[i], client.update.defaults, c)
            ELSE rows'[i] = rows[i]
    /\ outcome' = "refused" /\ writes' = writes => rows' = rows

\* Whatever was asked of a builder before, in whatever order, a save that succeeds
\* leaves in each column what was asked last, and touches no other row; a save that
\* is refused leaves every table as it was.
LastWordWins == [][LastWord]_builderVars

\* A node as it is once its time stamps have been stored.
Rounded(n) ==
    [c \in DOMAIN n |->
        CASE client.fields[c] # "time" -> n[c]
          [] client.fields[c] = "time" /\ c \notin client.pointers -> Stored("time", n[c])
          [] client.fields[c] = "time" /\ c \in client.pointers ->
               IF n[c] = Nil THEN Nil ELSE Ptr(Stored("time", n[c][1]))]

\* The node that Save returns is the row as the next query reads it, but for the
\* precision of time stamps.
NodeTellsRow ==
    node # Nil =>
        Rounded(node[1]) = Read(client, rows[mutation.id[1]])

\* All the old values a mutation tells belong together, however often other
\* processes update the row between two questions: the row had them at one time,
\* and that was before the save (the once of withXID, the done of Save).
OldValuesAgree == \E n \in past : \A c \in DOMAIN told : told[c] = n[c]
================================================================================
