------------------------------ MODULE Evaluation ------------------------------
(***************************************************************************)
(* One query of an audit, from the rule an administrator sends to the      *)
(* outcome ExecuteAuditRun acts on: what CreateAudit lets through, what    *)
(* RunScalarQuery makes of the driver's value, how it is compared with the *)
(* expected text, and whether the issue of a deviation can be stored.      *)
(*                                                                         *)
(* The last phase is one of the Outcomes that AuditRun takes as given.     *)
(*                                                                         *)
(* A text is a body between blanks, or none; what the parsers of strconv   *)
(* read in a body is a relation between bodies and values.                 *)
(***************************************************************************)
EXTENDS Naturals, Schema

CONSTANTS
    Bodies,      \* the bodies of the texts that are sent or stored
    Statements   \* the forms of sql_query: a subset of AllStatements

AllStatements == {"select", "selectParen", "two", "write", "blank"}

ASSUME TextsAssumption == Statements \subseteq AllStatements /\ "" \in Bodies

Texts == [body : Bodies, padded : BOOLEAN]

\* A type as sent: base after ToLower and TrimSpace, odd if that changed it.
Types == [base : {"int", "string", "bool", "float", "date"}, odd : BOOLEAN]

Rules == [sql : Statements, type : Types, expected : Texts]

\* What strconv.ParseInt, ParseFloat and ParseBool accept: NaN equals nothing.
IntForms ==
    ({"7", "07"} \X {"seven"}) \cup {<<"1", "one">>, <<"1000000", "million">>}
    \cup {<<"9007199254740992", "2^53">>, <<"9007199254740993", "2^53+1">>}

FloatForms ==
    {<<f[1], IF f[2] = "2^53+1" THEN "2^53" ELSE f[2]>> : f \in IntForms}
    \cup {<<"7.0", "seven">>, <<"1e+06", "million">>, <<"9.007199254740992e+15", "2^53">>}

BoolForms == ({"1", "t", "true"} \X {"yes"}) \cup ({"f", "false"} \X {"no"})

\* What fmt.Sprint makes of the driver's values but texts: a float64 is printed
\* with an exponent from a million on, a numeric comes as []byte.
Prints ==
    {<<"int64", "seven", "7">>, <<"int64", "one", "1">>, <<"int64", "million", "1000000">>,
     <<"int64", "2^53", "9007199254740992">>, <<"int64", "2^53+1", "9007199254740993">>,
     <<"float64", "seven", "7">>, <<"float64", "million", "1e+06">>,
     <<"float64", "2^53", "9.007199254740992e+15">>,
     <<"bool", "yes", "true">>, <<"bool", "no", "false">>,
     <<"null", "nothing", "null">>, <<"numeric", "seven", "[55]">>}

\* A column's value; a text is its own.
Columns ==
    {[kind |-> p[1], value |-> p[2], padded |-> FALSE] : p \in Prints}
    \cup [kind : {"text"}, value : Bodies, padded : BOOLEAN]

NoColumn == [kind |-> "none", value |-> "", padded |-> FALSE]
NoText   == [body |-> "", padded |-> FALSE]

VARIABLES
    phase,    \* how far the rule has come
    rule,     \* the query rule
    column,   \* the first column of the query's first row
    actual    \* what RunScalarQuery returns

vars == <<phase, rule, column, actual>>

Init ==
    /\ phase  = "sent"
    /\ rule   \in Rules
    /\ column = NoColumn
    /\ actual = NoText

-----------------------------------------------------------------------------
Blank(t) == t.body = ""

\* Trimmed, without a semicolon, and "select" followed by a blank: "select(1)"
\* and a select with a semicolon in a literal ("two") are refused.
ValidSQLQuery(sql) == sql = "select"

\* Mutant of Normal: the type is compared as it was sent.
NormalAsSent(t) == IF t.odd THEN "other" ELSE t.base

Normal(t) == t.base

ValidExpectedType(t) == t.base \in {"int", "string", "bool", "float"}

\* Mutant of Valid: the expected value is not looked at.
ValidButValue(r) == ValidSQLQuery(r.sql) /\ ValidExpectedType(r.type)

Valid(r) == ValidSQLQuery(r.sql) /\ ValidExpectedType(r.type) /\ ~Blank(r.expected)

ValidateRule ==
    /\ phase = "sent"
    /\ phase' = IF Valid(rule) THEN "stored" ELSE "refused"
    /\ UNCHANGED <<rule, column, actual>>

Printed(c) ==
    IF c.kind = "text" THEN c.value
    ELSE CHOOSE s \in {p[3] : p \in Prints} : <<c.kind, c.value, s>> \in Prints

\* Mutant of Sprint: NULL is printed as it comes.
SprintNil(c) ==
    [body |-> IF c.kind = "null" THEN "<nil>" ELSE Printed(c), padded |-> c.padded]

Sprint(c) == [body |-> Printed(c), padded |-> c.padded]

\* A query without a row, or with two columns, is an error; further rows are not read.
RunScalarQuery ==
    /\ phase = "stored"
    /\ \/ \E c \in Columns : column' = c /\ actual' = Sprint(c) /\ phase' = "run"
       \/ phase' = "fail" /\ UNCHANGED <<column, actual>>
    /\ UNCHANGED rule

Forms(t) ==
    CASE t = "int" -> IntForms [] t = "float" -> FloatForms [] t = "bool" -> BoolForms

ValuesEqualByType(t, e, a) ==
    IF Normal(t) \in {"int", "float", "bool"}
    THEN \E f, g \in Forms(Normal(t)) : f[1] = e.body /\ g[1] = a.body /\ f[2] = g[2]
    ELSE e.body = a.body

\* What a text is to ent: empty or not.
Written(t) == IF t = NoText THEN "" ELSE "text"

\* The issue of a deviation; its description says what was expected and returned.
IssueOf(r, a) == IssueRow("audit", "run", "query", Written(r.expected), Written(a), "text")

Compare ==
    /\ phase = "run"
    /\ phase' = IF ValuesEqualByType(rule.type, rule.expected, actual) THEN "match"
                ELSE IF Passes(Issue, IssueOf(rule, actual)) THEN "deviate"
                ELSE "blank"
    /\ UNCHANGED <<rule, column, actual>>

Next == ValidateRule \/ RunScalarQuery \/ Compare

Spec == Init /\ [][Next]_vars
-----------------------------------------------------------------------------
\* Every variable has its type; NULL is the text "null".
TypeOK ==
    /\ phase  \in {"sent", "stored", "refused", "run", "match", "deviate", "blank", "fail"}
    /\ rule   \in Rules
    /\ column \in Columns \cup {NoColumn}
    /\ actual \in [body : Bodies \cup {p[3] : p \in Prints}, padded : BOOLEAN]

NativeKind == [int |-> "int64", float |-> "float64", bool |-> "bool", string |-> "text"]

\* What the expected text says of a column of the type's own kind, without printing.
Denotes(r, c) ==
    IF r.type.base = "string" THEN r.expected.body = c.value
                              ELSE <<r.expected.body, c.value>> \in Forms(r.type.base)

\* For a column of the type's own kind, printing and parsing lose nothing: the
\* query matches just when the expected text denotes the column's value.
NativeColumnsCompare ==
    phase \in {"match", "deviate", "blank"} /\ column.kind = NativeKind[rule.type.base] =>
        (phase = "match" <=> Denotes(rule, column))

\* A deviation can be stored as an issue unless the query returned an empty text:
\* what CreateAudit lets through meets the validators of another table.
DeviationsAreIssues ==
    phase = "blank" => column.kind = "text" /\ column.value = "" /\ ~column.padded
=============================================================================
