---------------------------------- MODULE Ent ----------------------------------
(***************************************************************************)
(* The runtime that every entity generated by ent shares: mutations, the   *)
(* save of a builder, deletion, and the reading of rows back into nodes.   *)
(*                                                                         *)
(* What differs between entities is data, a record that module Entities    *)
(* gives for each.  A row is a function from the columns that are not NULL *)
(* to values.  Columns have kinds: "text", "int", "list" (JSON) or "time". *)
(***************************************************************************)
EXTENDS Naturals, Sequences, Functions

Nil    == <<>>        \* a nil pointer
Ptr(v) == <<v>>       \* a pointer to v

NoFields == [c \in {} |-> Nil]

\* A function with those fields of another that it lacks.
Merge(f, g) == [c \in DOMAIN f \cup DOMAIN g |-> IF c \in DOMAIN f THEN f[c] ELSE g[c]]

\* Postgres keeps time stamps in a unit that is coarser than Go's: two ticks.
Stored(kind, v) == IF kind = "time" THEN v + (v % 2) ELSE v

StoredFields(e, f) == [c \in DOMAIN f |-> Stored(e.fields[c], f[c])]

Zero(kind) ==
    CASE kind = "text" -> "" [] kind = "list" -> <<>> [] kind \in {"int", "time"} -> 0

-----------------------------------------------------------------------------
(***************************************************************************)
(* Mutations.  set and added hold the pointers of the struct that are not  *)
(* nil, cleared is clearedFields, and for an edge's column the edge's flag. *)
(***************************************************************************)
NewMutation(op, id) ==
    [op |-> op, id |-> id, where |-> {}, set |-> NoFields, added |-> NoFields, cleared |-> {}]

With(f, c, v) == [d \in DOMAIN f \cup {c} |-> IF d = c THEN v ELSE f[d]]

Without(f, c) == Restrict(f, DOMAIN f \ {c})

SetField(m, c, v) == [m EXCEPT !.set = With(@, c, v), !.added = Without(@, c)]

Sum2(kind, v, w) == IF kind = "list" THEN v \o w ELSE v + w

\* A number is added to what was added before, a list appended to it.
AddField(e, m, c, v) ==
    LET sum == IF c \in DOMAIN m.added THEN Sum2(e.fields[c], m.added[c], v) ELSE v
    IN  [m EXCEPT !.added = With(@, c, sum)]

ClearField(m, c) ==
    [m EXCEPT !.set = Without(@, c), !.added = Without(@, c), !.cleared = @ \cup {c}]

\* An edge is cleared beside the id that was set for it.
ClearEdge(m, c) == [m EXCEPT !.cleared = @ \cup {c}]

\* Mutant of ResetField: a cleared field stays cleared.
ResetFieldSet(m, c) == [m EXCEPT !.set = Without(@, c), !.added = Without(@, c)]

ResetField(m, c) ==
    [m EXCEPT !.set = Without(@, c), !.added = Without(@, c), !.cleared = @ \ {c}]

\* ResetAuditID forgets the id, and not that the edge was cleared.
ResetEdgeField(m, c) == [m EXCEPT !.set = Without(@, c)]

-----------------------------------------------------------------------------
(***************************************************************************)
(* Rows and nodes.  db maps the names of tables to functions from ids to   *)
(* rows; tables is the schema of each, from the migration.                 *)
(***************************************************************************)
\* The node that a row, or the fields of a create builder, are assigned to.
Assign(e, fields) ==
    [c \in DOMAIN e.fields |->
        IF c \in e.pointers THEN IF c \in DOMAIN fields THEN Ptr(fields[c]) ELSE Nil
        ELSE IF c \in DOMAIN fields THEN fields[c] ELSE Zero(e.fields[c])]

\* The columns a query selects.
Selected(e, row) == Restrict(row, DOMAIN row \cap e.query.columns)

Read(e, row) == Assign(e, Selected(e, row))

\* A predicate asks a column to equal a value; NULL equals nothing.
Matches(e, row, where) ==
    \A p \in where : p[1] \in DOMAIN row /\ row[p[1]] = Stored(e.fields[p[1]], p[2])

Targets(e, m, table) ==
    {i \in DOMAIN table : (m.id = Nil \/ m.id = Ptr(i)) /\ Matches(e, table[i], m.where)}

\* Whether Postgres takes a row under an id: NOT NULL, foreign keys and UNIQUE.
Fits(tables, db, name, id, row) ==
    LET t == tables[name]
    IN  /\ t.notNull \subseteq DOMAIN row
        /\ \A c \in DOMAIN t.references \cap DOMAIN row : row[c] \in DOMAIN db[t.references[c]]
        /\ \A c \in t.unique, i \in DOMAIN db[name] \ {id} : db[name][i][c] # row[c]

\* Whether Postgres lets a row go: ON DELETE NO ACTION.
Unreferenced(tables, db, name, id) ==
    \A s \in DOMAIN tables : \A c \in DOMAIN tables[s].references :
        tables[s].references[c] = name =>
            \A i \in DOMAIN db[s] : c \in DOMAIN db[s][i] => db[s][i][c] # id

-----------------------------------------------------------------------------
(***************************************************************************)
(* Saving.                                                                 *)
(***************************************************************************)
\* A default is filled in for a field that was not set.
Defaulted(defaults, m, now) ==
    [m EXCEPT !.set = Merge(Merge(@, defaults.values), [c \in defaults.times |-> now])]

\* What the create builder inserts, and assigns to the node it returns.
CreateSpec(e, m) == Restrict(m.set, DOMAIN m.set \cap e.spec)

\* Mutant of NewNode: the pointers of the node are not assigned.
NewNodePlain(e, m) == Assign(e, Restrict(CreateSpec(e, m), DOMAIN CreateSpec(e, m) \ e.pointers))

NewNode(e, m) == Assign(e, CreateSpec(e, m))

\* The row of a create builder.
Created(e, m) == StoredFields(e, CreateSpec(e, m))

\* Refused by check: an empty text, or an edge that is both cleared and set.
Checked(update, m) ==
    /\ \A c \in update.notEmpty \cap DOMAIN m.set : m.set[c] # ""
    /\ update.edges \cap m.cleared \cap DOMAIN m.set = {}

\* The columns an update assigns: to a value, to a sum, to NULL.
SetColumns(update, m)     == DOMAIN m.set \cap (update.set \cup update.edges)
AddedColumns(update, m)   == DOMAIN m.added \cap update.add
ClearedColumns(update, m) == m.cleared \cap (update.clear \cup update.edges)

\* Postgres refuses an UPDATE that assigns a column twice.
AssignsOnce(update, m) ==
    ClearedColumns(update, m) \cap (SetColumns(update, m) \cup AddedColumns(update, m)) = {}

\* A row after an update; a sum with NULL is the added value.
Updated(e, m, row) ==
    LET set   == SetColumns(e.update, m)
        added == AddedColumns(e.update, m)
    IN  [c \in (DOMAIN row \cup set \cup added) \ ClearedColumns(e.update, m) |->
            CASE c \in set -> Stored(e.fields[c], m.set[c])
              [] c \in added \ DOMAIN row -> m.added[c]
              [] c \in added \cap DOMAIN row -> Sum2(e.fields[c], row[c], m.added[c])
              [] OTHER -> row[c]]
================================================================================
