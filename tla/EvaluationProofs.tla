--------------------------- MODULE EvaluationProofs ---------------------------
(***************************************************************************)
(* A rule's way from CreateAudit to its outcome, for every set of texts    *)
(* and statements: what the comparison says of a column, and when the      *)
(* issue of a deviation cannot be stored.                                  *)
(*                                                                         *)
(* The induction: a rule that is run is valid, what is compared is the     *)
(* printed column, and the last phase tells what Compare found (EvalInv).  *)
(***************************************************************************)
EXTENDS Evaluation, TLAPS

Done == {"match", "deviate", "blank"}

Followed ==
    /\ phase \in {"stored", "run"} \cup Done => Valid(rule)
    /\ phase \in {"run"} \cup Done => column \in Columns /\ actual = Sprint(column)
    /\ phase \in Done =>
         (phase = "match" <=> ValuesEqualByType(rule.type, rule.expected, actual))
    /\ phase = "blank" => ~Passes(Issue, IssueOf(rule, actual))

EvalInv == TypeOK /\ Followed

-----------------------------------------------------------------------------
(***************************************************************************)
(* Printing.                                                               *)
(***************************************************************************)
\* A value is printed in one way.
LEMMA PrintIsUnique ==
  ASSUME NEW p \in Prints
  PROVE  Printed([kind |-> p[1], value |-> p[2], padded |-> FALSE]) = p[3]
<1> DEFINE c == [kind |-> p[1], value |-> p[2], padded |-> FALSE]
<1>1. c.kind = p[1] /\ c.value = p[2] /\ c.kind # "text"
  BY DEF Prints
<1>2. p = <<p[1], p[2], p[3]>>
  BY DEF Prints
<1>3. <<c.kind, c.value, p[3]>> \in Prints /\ p[3] \in {q[3] : q \in Prints}
  BY <1>1, <1>2
<1>4. \A s : <<c.kind, c.value, s>> \in Prints => s = p[3]
  BY <1>1 DEF Prints
<1>5. (CHOOSE s \in {q[3] : q \in Prints} : <<c.kind, c.value, s>> \in Prints) = p[3]
  BY <1>3, <1>4
<1> QED
  BY <1>1, <1>5 DEF Printed

\* A column is a text, or one of Prints.
LEMMA ColumnIs ==
  ASSUME NEW c \in Columns
  PROVE  \/ /\ c.kind = "text" /\ c.value \in Bodies /\ c.padded \in BOOLEAN
            /\ Printed(c) = c.value
         \/ \E p \in Prints : /\ c.kind = p[1] /\ c.value = p[2] /\ c.padded = FALSE
                              /\ Printed(c) = p[3]
<1>1. CASE c \in [kind : {"text"}, value : Bodies, padded : BOOLEAN]
  BY <1>1 DEF Printed
<1>2. CASE \E p \in Prints : c = [kind |-> p[1], value |-> p[2], padded |-> FALSE]
  BY <1>2, PrintIsUnique
<1> QED
  BY <1>1, <1>2 DEF Columns

LEMMA SprintType ==
  ASSUME NEW c \in Columns
  PROVE  Sprint(c) \in [body : Bodies \cup {p[3] : p \in Prints}, padded : BOOLEAN]
  BY ColumnIs DEF Sprint

-----------------------------------------------------------------------------
(***************************************************************************)
(* Comparing.                                                              *)
(***************************************************************************)
\* A text that the parser reads as v and nothing else is equal to the texts that
\* it reads as v.
LEMMA ReadAs ==
  ASSUME NEW t, Normal(t) \in {"int", "float", "bool"}, NEW e, NEW a, NEW v,
         \A f \in Forms(Normal(t)) : f = <<f[1], f[2]>>,
         \A x : <<a.body, x>> \in Forms(Normal(t)) <=> x = v
  PROVE  ValuesEqualByType(t, e, a) <=> <<e.body, v>> \in Forms(Normal(t))
<1>1. ASSUME NEW f \in Forms(Normal(t)), NEW g \in Forms(Normal(t)),
             f[1] = e.body, g[1] = a.body, f[2] = g[2]
      PROVE  <<e.body, v>> \in Forms(Normal(t))
  <2>1. g[2] = v
    BY <1>1
  <2> QED
    BY <1>1, <2>1
<1>2. ASSUME <<e.body, v>> \in Forms(Normal(t))
      PROVE  \E f, g \in Forms(Normal(t)) : f[1] = e.body /\ g[1] = a.body /\ f[2] = g[2]
  <2>1. <<a.body, v>> \in Forms(Normal(t))
    OBVIOUS
  <2> QED
    BY <1>2, <2>1
<1> QED
  BY <1>1, <1>2 DEF ValuesEqualByType

\* Every form is a body and what it is read as.
LEMMA FormsArePairs ==
  ASSUME NEW t \in {"int", "float", "bool"}, NEW f \in Forms(t)
  PROVE  f = <<f[1], f[2]>>
<1>1. ASSUME NEW g \in IntForms PROVE g = <<g[1], g[2]>>
  BY DEF IntForms
<1>2. ASSUME NEW g \in FloatForms PROVE g = <<g[1], g[2]>>
  BY DEF FloatForms
<1>3. ASSUME NEW g \in BoolForms PROVE g = <<g[1], g[2]>>
  BY DEF BoolForms
<1> QED
  BY <1>1, <1>2, <1>3 DEF Forms

\* What is printed of a type's own values is read back as the value it was.
LEMMA PrintsReadBack ==
  ASSUME NEW t \in {"int", "float", "bool"}, NEW p \in Prints, p[1] = NativeKind[t]
  PROVE  \A x : <<p[3], x>> \in Forms(t) <=> x = p[2]
<1>1. CASE t = "int"
  BY <1>1 DEF Prints, NativeKind, Forms, IntForms
<1>2. CASE t = "float"
  <2>1. \/ p[3] = "7" /\ p[2] = "seven"
        \/ p[3] = "1e+06" /\ p[2] = "million"
        \/ p[3] = "9.007199254740992e+15" /\ p[2] = "2^53"
    BY <1>2 DEF Prints, NativeKind
  <2>2. <<"7", "seven">> \in IntForms
    BY DEF IntForms
  <2>3. <<"7", "seven">> \in FloatForms
    <3> DEFINE f == <<"7", "seven">>
    <3>1. f \in IntForms /\ <<"7", "seven">> = <<f[1], IF f[2] = "2^53+1" THEN "2^53" ELSE f[2]>>
      BY <2>2
    <3>2. \E g \in IntForms : <<"7", "seven">> = <<g[1], IF g[2] = "2^53+1" THEN "2^53" ELSE g[2]>>
      BY <3>1
    <3> QED
      BY <3>2 DEF FloatForms
  <2>4. <<p[3], p[2]>> \in FloatForms
    BY <2>1, <2>3 DEF FloatForms
  <2>5. ASSUME NEW x, <<p[3], x>> \in FloatForms PROVE x = p[2]
    <3>1. CASE \E f \in IntForms : <<p[3], x>> = <<f[1], IF f[2] = "2^53+1" THEN "2^53" ELSE f[2]>>
      <4>1. PICK f \in IntForms : p[3] = f[1] /\ x = (IF f[2] = "2^53+1" THEN "2^53" ELSE f[2])
        BY <3>1
      <4>2. p[3] = "7" /\ f[2] = "seven"
        BY <2>1, <4>1 DEF IntForms
      <4> QED
        BY <2>1, <4>1, <4>2
    <3>2. CASE <<p[3], x>> \in {<<"7.0", "seven">>, <<"1e+06", "million">>,
                               <<"9.007199254740992e+15", "2^53">>}
      BY <2>1, <3>2
    <3> QED
      BY <2>5, <3>1, <3>2 DEF FloatForms
  <2> QED
    BY <1>2, <2>4, <2>5 DEF Forms
<1>3. CASE t = "bool"
  BY <1>3 DEF Prints, NativeKind, Forms, BoolForms
<1> QED
  BY <1>1, <1>2, <1>3

-----------------------------------------------------------------------------
(***************************************************************************)
(* Storing an issue.                                                       *)
(***************************************************************************)
Empty == ""

\* Nothing that is printed is empty.
LEMMA PrintsSaySomething == ASSUME NEW p \in Prints PROVE p[3] # Empty
<1>1. p[3] \in {"7", "1", "1000000", "9007199254740992", "9007199254740993", "1e+06",
                "9.007199254740992e+15", "true", "false", "null", "[55]"}
  BY DEF Prints
<1>2. \A s \in {"7", "1", "1000000", "9007199254740992", "9007199254740993", "1e+06",
                "9.007199254740992e+15", "true", "false", "null", "[55]"} : s # Empty
  BY Zenon DEF Empty
<1> QED
  BY <1>1, <1>2

LEMMA TextIsWritten == ASSUME NEW t, t.body # Empty PROVE Written(t) # Empty
<1>1. NoText.body = Empty
  BY Zenon DEF NoText, Empty
<1>2. Written(t) = "text"
  <2>1. t # NoText
    BY <1>1
  <2> QED
    BY <2>1, Zenon DEF Written
<1> QED
  BY <1>2, Zenon DEF Empty

LEMMA OnlyNoTextIsNotWritten == ASSUME NEW t, Written(t) = Empty PROVE t.body = Empty /\ t.padded = FALSE
<1>1. t = [body |-> Empty, padded |-> FALSE]
  BY Zenon DEF Written, NoText, Empty
<1> QED
  BY <1>1

LEMMA IssuePasses ==
  ASSUME NEW expected, NEW shown, NEW description,
         expected # Empty, shown # Empty, description # Empty
  PROVE  Passes(Issue, IssueRow("audit", "run", "query", expected, shown, description))
<1> DEFINE row == IssueRow("audit", "run", "query", expected, shown, description)
<1>1. Issue.required \subseteq DOMAIN row \cup Issue.defaults
  BY DEF Issue, IssueRow
<1>2. \A f \in Issue.notEmpty : row[f] # Empty
  BY DEF Issue, IssueRow
<1> HIDE DEF row
<1>3. Passes(Issue, row)
  BY <1>1, <1>2, Zenon DEF Passes, Empty
<1> QED
  BY <1>3 DEF row

-----------------------------------------------------------------------------
LEMMA TypesAreKnown ==
  ASSUME NEW r \in Rules, Valid(r)
  PROVE  /\ r.type.base \in {"int", "float", "bool", "string"}
         /\ Normal(r.type) = r.type.base
         /\ r.expected.body # Empty
<1>1. r.type.base \in {"int", "float", "bool", "string"}
  BY DEF Valid, ValidExpectedType
<1>2. ~Blank(r.expected)
  BY DEF Valid
<1>3. r.expected.body # Empty
  BY <1>2, Zenon DEF Blank, Empty
<1> QED
  BY <1>1, <1>3 DEF Normal

\* What is compared is what the column holds, if the column is of the type's own kind.
LEMMA NativeComparison ==
  ASSUME NEW r \in Rules, Valid(r), NEW c \in Columns, c.kind = NativeKind[r.type.base]
  PROVE  ValuesEqualByType(r.type, r.expected, Sprint(c)) <=> Denotes(r, c)
<1> DEFINE t == r.type.base
<1>1. CASE t = "string"
  <2>1. c.kind = "text"
    BY <1>1 DEF NativeKind
  <2>2. Sprint(c).body = c.value
    BY <2>1 DEF Sprint, Printed
  <2> QED
    BY <1>1, <2>2, TypesAreKnown DEF ValuesEqualByType, Denotes
<1>2. CASE t \in {"int", "float", "bool"}
  <2>1. c.kind \in {"int64", "float64", "bool"}
    BY <1>2 DEF NativeKind
  <2>2. PICK p \in Prints : c.kind = p[1] /\ c.value = p[2] /\ Printed(c) = p[3]
    BY <2>1, ColumnIs
  <2>3. \A x : <<Sprint(c).body, x>> \in Forms(t) <=> x = c.value
    BY <1>2, <2>2, PrintsReadBack DEF Sprint
  <2>4. \A f \in Forms(t) : f = <<f[1], f[2]>>
    BY <1>2, FormsArePairs
  <2>5. Normal(r.type) = t
    BY DEF Normal
  <2>6. ValuesEqualByType(r.type, r.expected, Sprint(c)) <=> <<r.expected.body, c.value>> \in Forms(t)
    BY <1>2, <2>3, <2>4, <2>5, ReadAs
  <2> QED
    BY <1>2, <2>6 DEF Denotes
<1> QED
  BY <1>1, <1>2, TypesAreKnown

\* Only a column that is an empty text makes an issue that ent refuses.
LEMMA OnlyEmptyIsRefused ==
  ASSUME NEW r \in Rules, Valid(r), NEW c \in Columns, ~Passes(Issue, IssueOf(r, Sprint(c)))
  PROVE  c.kind = "text" /\ c.value = Empty /\ ~c.padded
<1>1. Written(r.expected) # Empty
  BY TypesAreKnown, TextIsWritten
<1>2. "text" # Empty
  BY Zenon DEF Empty
<1>3. Written(Sprint(c)) = Empty
  BY <1>1, <1>2, IssuePasses DEF IssueOf
<1>4. Sprint(c).body = Empty /\ Sprint(c).padded = FALSE
  BY <1>3, OnlyNoTextIsNotWritten
<1>5. Printed(c) = Empty /\ c.padded = FALSE
  BY <1>4 DEF Sprint
<1> QED
  BY <1>5, ColumnIs, PrintsSaySomething

-----------------------------------------------------------------------------
LEMMA EvalInit == Init => EvalInv
<1> SUFFICES ASSUME Init PROVE EvalInv
  OBVIOUS
<1>1. phase = "sent" /\ rule \in Rules /\ column = NoColumn /\ actual = NoText
  BY DEF Init
<1>2. NoText \in [body : Bodies \cup {p[3] : p \in Prints}, padded : BOOLEAN]
  <2>1. Empty \in Bodies
    BY TextsAssumption, Zenon DEF Empty
  <2>2. NoText = [body |-> Empty, padded |-> FALSE]
    BY Zenon DEF NoText, Empty
  <2> QED
    BY <2>1, <2>2
<1> QED
  BY <1>1, <1>2 DEF EvalInv, TypeOK, Followed, Done

LEMMA EvalStep == EvalInv /\ [Next]_vars => EvalInv'
<1> SUFFICES ASSUME EvalInv, [Next]_vars PROVE EvalInv'
  OBVIOUS
<1>1. CASE ValidateRule
  BY <1>1 DEF ValidateRule, EvalInv, TypeOK, Followed, Done
<1>2. CASE RunScalarQuery
  <2>1. CASE \E c \in Columns : column' = c /\ actual' = Sprint(c) /\ phase' = "run"
    BY <1>2, <2>1, SprintType DEF RunScalarQuery, EvalInv, TypeOK, Followed, Done
  <2>2. CASE phase' = "fail" /\ UNCHANGED <<column, actual>>
    BY <1>2, <2>2 DEF RunScalarQuery, EvalInv, TypeOK, Followed, Done
  <2> QED
    BY <1>2, <2>1, <2>2 DEF RunScalarQuery
<1>3. CASE Compare
  BY <1>3 DEF Compare, EvalInv, TypeOK, Followed, Done
<1>4. CASE UNCHANGED vars
  BY <1>4 DEF vars, EvalInv, TypeOK, Followed, Done
<1> QED
  BY <1>1, <1>2, <1>3, <1>4 DEF Next

\* Every step keeps the rule one that was sent, and the answer one that is printed.
THEOREM EvaluationTypes == Spec => []TypeOK
<1>1. EvalInv => TypeOK
  BY DEF EvalInv
<1> QED
  BY EvalInit, EvalStep, <1>1, PTL DEF Spec

\* NativeColumnsCompare, for every set of texts: for a column of the type's own kind the
\* way through Sprint and strconv loses nothing.
THEOREM NativeColumnsAreCompared == Spec => []NativeColumnsCompare
<1>1. EvalInv => NativeColumnsCompare
  BY NativeComparison DEF EvalInv, TypeOK, Followed, Done, NativeColumnsCompare
<1> QED
  BY EvalInit, EvalStep, <1>1, PTL DEF Spec

\* DeviationsAreIssues, for every set of texts: what validateAuditRule lets through and
\* RunScalarQuery returns makes an issue that ent takes, but for an empty text.
THEOREM DeviationsBecomeIssues == Spec => []DeviationsAreIssues
<1>1. EvalInv => DeviationsAreIssues
  <2> SUFFICES ASSUME EvalInv, phase = "blank" PROVE DeviationsAreIssues
    BY Zenon DEF DeviationsAreIssues
  <2>1. column.kind = "text" /\ column.value = Empty /\ ~column.padded
    BY OnlyEmptyIsRefused DEF EvalInv, TypeOK, Followed, Done
  <2> QED
    BY <2>1, Zenon DEF DeviationsAreIssues, Empty
<1> QED
  BY EvalInit, EvalStep, <1>1, PTL DEF Spec
===============================================================================
