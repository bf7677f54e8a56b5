--------------------------- MODULE SchedulerProofs ---------------------------
(***************************************************************************)
(* With one replica, starts keep their distance, for every number of       *)
(* schedules, every interval and every number of failures.  The time since *)
(* the last start and the time left to the next one always add up to the   *)
(* interval (Distance), if it fits a Duration (AheadOfFitting), and a      *)
(* row that waits in a round is still due (Round): no one else can have    *)
(* served it.                                                              *)
(***************************************************************************)
EXTENDS Scheduler, TLAPS

\* One API process, as on a developer's machine.
Alone == \E r \in Replicas : Replicas = {r}

\* The written, or about to be written, next run is an interval after the start.
Distance ==
    /\ \A s \in Schedules : noted[s] /\ Fits(interval[s]) =>
          since[s] + wait[s] >= interval[s]
    /\ \A r \in Replicas : phase[r] = "noting" /\ Fits(interval[current[r]]) =>
          since[current[r]] + next[r] >= interval[current[r]]

\* What a replica serves and has yet to serve.
Round ==
    \A r \in Replicas :
        /\ phase[r] \in {"running", "noting"} =>
              /\ current[r] \in Schedules \ due[r]
              /\ Exists(current[r]) /\ ~noted[current[r]]
        /\ \A s \in due[r] : wait[s] = 0 /\ Exists(s)

IInv == TypeOK /\ Distance /\ Round

USE IdsAssumption, TimesAssumption, FailuresAssumption

LEMMA InitInv == Init => IInv
  BY DEF Init, IInv, TypeOK, Distance, Round

LEMMA IntervalFits == ASSUME NEW n \in Asked PROVE IntervalOf(n) \in 1 .. Longest
  BY DEF IntervalOf

LEMMA QuotientBound ==
    ASSUME NEW a \in Nat, NEW b \in Nat \ {0}, NEW d \in Nat, d <= a * b
    PROVE  d \div b \in 0 .. a
  OBVIOUS

LEMMA QuotientOfMultiple == ASSUME NEW a \in Nat, NEW b \in Nat \ {0} PROVE (a * b) \div b = a
  OBVIOUS

LEMMA RemainderBound ==
    ASSUME NEW a \in Nat, NEW b \in Nat \ {0} PROVE a % b \in 0 .. a
  OBVIOUS

LEMMA RemainderOfSmall ==
    ASSUME NEW a \in Nat, NEW b \in Nat \ {0}, a < b PROVE a % b = a
  OBVIOUS

\* However the product wraps, no time is put further ahead than asked for.
LEMMA AheadType == ASSUME NEW n \in 0 .. Longest PROVE Ahead(n) \in 0 .. Longest
<1> DEFINE d == (n * Second) % Durations
<1>1. n * Second \in Nat
  OBVIOUS
<1>2. d \in Nat /\ d <= n * Second
  BY <1>1, RemainderBound
<1>3. d \div Second \in 0 .. n
  BY <1>2, QuotientBound
<1>4. Ahead(n) = d \div Second \/ Ahead(n) = 0
  BY DEF Ahead
<1> QED BY <1>3, <1>4

\* An interval that fits a Duration is put ahead in full.
LEMMA AheadOfFitting == ASSUME NEW n \in 0 .. Longest, Fits(n) PROVE Ahead(n) = n
<1>1. n * Second \in Nat /\ 2 * (n * Second) = 2 * n * Second
  OBVIOUS
<1>2. 2 * (n * Second) < Durations
  BY <1>1 DEF Fits
<1>3. (n * Second) % Durations = n * Second
  BY <1>1, <1>2, RemainderOfSmall
<1>4. (n * Second) \div Second = n
  BY QuotientOfMultiple
<1> QED BY <1>2, <1>3, <1>4 DEF Ahead

LEMMA ElapseInv == ASSUME IInv, Elapse PROVE IInv'
<1> USE DEF IInv, Elapse
<1>1. TypeOK'
  BY DEF TypeOK, Sooner, Beat
<1>2. ASSUME NEW s \in Schedules PROVE
         since[s] \in 0 .. Longest /\ wait[s] \in 0 .. Longest /\ interval[s] \in 0 .. Longest
  BY DEF TypeOK
<1>3. ASSUME NEW s \in Schedules, noted[s], Fits(interval[s])
      PROVE  since'[s] + wait'[s] >= interval[s]
  BY <1>2, <1>3 DEF Distance, Sooner
<1>4. ASSUME NEW r \in Replicas, phase[r] = "noting", Fits(interval[current[r]])
      PROVE  since'[current[r]] + next'[r] >= interval[current[r]]
  <2>1. current[r] \in Schedules
    BY <1>4 DEF Round
  <2>2. next[r] \in 0 .. Longest
    BY DEF TypeOK
  <2>3. next'[r] = Sooner(next[r]) /\ since[current[r]] + next[r] >= interval[current[r]]
    BY <1>4 DEF Distance
  <2>4. since'[current[r]] = IF since[current[r]] < Longest THEN since[current[r]] + 1
                                                            ELSE since[current[r]]
    BY <2>1
  <2>5. /\ since[current[r]] \in 0 .. Longest
        /\ interval[current[r]] \in 0 .. Longest
    BY <1>2, <2>1
  <2> QED BY <2>2, <2>3, <2>4, <2>5 DEF Sooner
<1>5. Distance'
  BY <1>3, <1>4 DEF Distance
<1>6. Round'
  BY DEF Round, Sooner, Exists, TypeOK
<1> QED BY <1>1, <1>5, <1>6

LEMMA CreateScheduleInv ==
    ASSUME IInv, NEW s \in Schedules, NEW n \in Asked, CreateSchedule(s, n) PROVE IInv'
<1> USE DEF IInv, CreateSchedule
<1>1. IntervalOf(n) \in 1 .. Longest /\ Ahead(IntervalOf(n)) \in 0 .. Longest
  BY IntervalFits, AheadType
<1>2. TypeOK'
  BY <1>1 DEF TypeOK, tickerVars
<1>3. \A r \in Replicas : s \notin due[r]
  BY DEF Round, Exists
<1>4. Round'
  BY <1>1, <1>3 DEF Round, Exists, TypeOK, tickerVars
<1>5. ASSUME NEW t \in Schedules, noted[t], Fits(interval'[t])
      PROVE  since'[t] + wait'[t] >= interval'[t]
  <2>1. CASE t = s
    <3>1. interval'[t] = IntervalOf(n) /\ wait'[t] = Ahead(IntervalOf(n)) /\ since'[t] = 0
      BY <2>1 DEF TypeOK
    <3>2. Ahead(IntervalOf(n)) = IntervalOf(n)
      BY <1>1, <1>5, <3>1, AheadOfFitting
    <3> QED BY <1>1, <3>1, <3>2
  <2>2. CASE t # s
    BY <1>5, <2>2 DEF Distance, TypeOK
  <2> QED BY <2>1, <2>2
<1>6. ASSUME NEW r \in Replicas, phase[r] = "noting", Fits(interval'[current[r]])
      PROVE  since'[current[r]] + next[r] >= interval'[current[r]]
  <2>1. current[r] \in Schedules \ {s}
    BY <1>6 DEF Round, Exists
  <2> QED BY <1>6, <2>1 DEF Distance, TypeOK
<1> QED BY <1>2, <1>4, <1>5, <1>6 DEF Distance, tickerVars

LEMMA GetDueSchedulesInv ==
    ASSUME IInv, NEW r \in Replicas, GetDueSchedules(r) PROVE IInv'
<1> USE DEF IInv, GetDueSchedules
<1>1. TypeOK'
  BY DEF TypeOK, Fails, tableVars, historyVars
<1>2. Distance'
  BY DEF Distance, TypeOK, tableVars, historyVars
<1>3. Round'
  BY DEF Round, TypeOK, IsDue, Exists, tableVars, historyVars
<1> QED BY <1>1, <1>2, <1>3

LEMMA TriggerInv ==
    ASSUME IInv, NEW r \in Replicas, NEW s \in Schedules, Trigger(r, s), Alone
    PROVE  IInv'
<1> USE DEF IInv, Trigger
<1>1. TypeOK'
  BY DEF TypeOK, tableVars, tickerVars
<1>2. Distance'
  BY DEF Distance, Alone, TypeOK, tableVars
<1>3. Round'
  BY DEF Round, Alone, TypeOK, Exists, tableVars
<1> QED BY <1>1, <1>2, <1>3

LEMMA ComputeNextRunInv ==
    ASSUME IInv, NEW r \in Replicas, ComputeNextRun(r) PROVE IInv'
<1> USE DEF IInv, ComputeNextRun
<1>1. current[r] \in Schedules
  BY DEF Round
<1>2. since[current[r]] \in 0 .. Longest /\ interval[current[r]] \in 0 .. Longest
  BY <1>1 DEF TypeOK
<1>3. Ahead(interval[current[r]]) \in 0 .. Longest
  BY <1>2, AheadType
<1>4. TypeOK'
  BY <1>1, <1>3 DEF TypeOK, tableVars, historyVars, tickerVars
<1>5. Distance'
  <2>1. Fits(interval[current[r]]) => Ahead(interval[current[r]]) = interval[current[r]]
    BY <1>2, AheadOfFitting
  <2> QED BY <1>2, <1>3, <2>1 DEF Distance, TypeOK, tableVars, historyVars
<1>6. Round'
  BY DEF Round, TypeOK, Exists, tableVars, historyVars
<1> QED BY <1>4, <1>5, <1>6

LEMMA UpdateInv ==
    ASSUME IInv, NEW r \in Replicas, UpdateScheduleNextRun(r), Alone PROVE IInv'
<1> USE DEF IInv, UpdateScheduleNextRun
<1>1. current[r] \in Schedules \ due[r]
  BY DEF Round
<1>2. TypeOK'
  <2>1. failures' \in 0 .. MaxFailures
    BY DEF TypeOK, Fails
  <2>2. wait' \in [Schedules -> 0 .. Longest] /\ noted' \in [Schedules -> BOOLEAN]
    BY <1>1 DEF TypeOK
  <2>3. /\ phase' \in [Replicas -> {"idle", "serving", "running", "noting", "down"}]
        /\ current' \in [Replicas -> Schedules \cup {0}]
        /\ next' \in [Replicas -> 0 .. Longest]
    BY DEF TypeOK, Afterwards
  <2> QED BY <2>1, <2>2, <2>3 DEF TypeOK, tickerVars
<1>3. Distance'
  BY <1>1 DEF Distance, Alone, Afterwards, TypeOK, tickerVars
<1>4. Round'
  BY <1>1 DEF Round, Alone, Afterwards, TypeOK, Exists, tickerVars
<1> QED BY <1>2, <1>3, <1>4

LEMMA CrashInv == ASSUME IInv, NEW r \in Replicas, Crash(r) PROVE IInv'
<1> USE DEF IInv, Crash, tableVars, historyVars
<1>1. TypeOK'
  BY DEF TypeOK
<1>2. Distance'
  BY DEF TypeOK, Distance
<1>3. Round'
  BY DEF TypeOK, Round, Exists
<1> QED BY <1>1, <1>2, <1>3

LEMMA StartSchedulerInv == ASSUME IInv, NEW r \in Replicas, StartScheduler(r) PROVE IInv'
<1> USE DEF IInv, StartScheduler, tableVars, historyVars
<1>1. TypeOK'
  BY DEF TypeOK
<1>2. Distance'
  BY DEF TypeOK, Distance
<1>3. Round'
  BY DEF TypeOK, Round, Exists
<1> QED BY <1>1, <1>2, <1>3

LEMMA NextInv == IInv /\ [Next]_vars /\ Alone => IInv'
<1> SUFFICES ASSUME IInv, [Next]_vars, Alone PROVE IInv'
  OBVIOUS
<1>1. CASE UNCHANGED vars
  BY <1>1 DEF vars, IInv, TypeOK, Distance, Round, Exists
<1>2. CASE Next
  BY <1>2, ElapseInv, CreateScheduleInv, GetDueSchedulesInv, TriggerInv,
     ComputeNextRunInv, UpdateInv, CrashInv, StartSchedulerInv DEF Next, Serve
<1> QED BY <1>1, <1>2

\* Type correctness of the loop, for every instance with one replica.
THEOREM TypeCorrect == ASSUME Alone PROVE Spec => []TypeOK
<1>1. IInv => TypeOK
  BY DEF IInv
<1> QED BY <1>1, InitInv, NextInv, PTL DEF Spec

\* Starts of a target are an interval apart, unless the row could not be written
\* after the last one: processPendingSchedules counts from after the run.
THEOREM StartsKeepDistance == ASSUME Alone PROVE Spec => StartsAreSpaced
<1>1. ASSUME IInv, NEW r \in Replicas, NEW s \in Schedules, Trigger(r, s)
      PROVE  since[s] >= interval[s] \/ ~noted[s] \/ ~Fits(interval[s])
  <2>1. wait[s] = 0
    BY <1>1 DEF IInv, Round, Trigger
  <2> QED BY <1>1, <2>1 DEF IInv, Distance, TypeOK
<1>2. IInv => [\A r \in Replicas, s \in Schedules :
                 Trigger(r, s) =>
                   since[s] >= interval[s] \/ ~noted[s] \/ ~Fits(interval[s])]_vars
  BY <1>1
<1> QED BY <1>2, InitInv, NextInv, PTL DEF Spec, StartsAreSpaced
=============================================================================
