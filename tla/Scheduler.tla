------------------------------ MODULE Scheduler ------------------------------
(***************************************************************************)
(* The schedules, and the loop that every API replica runs over them.      *)
(*                                                                         *)
(* StartScheduler starts a goroutine with a ticker of five seconds; at     *)
(* each tick processPendingSchedules reads the due rows of schedules, and  *)
(* for one after the other starts the target (RunAudit or RunPolicy), asks *)
(* for the time and writes next_run_at.  Nothing marks a row as taken, and *)
(* errors are dropped.                                                     *)
(*                                                                         *)
(* Time is relative: wait[s] is what is left until next_run_at and since[s]*)
(* what has passed since the last start, so that no clock grows for ever.  *)
(* Replicas read the same time.  A target may take as long as it likes.    *)
(***************************************************************************)
EXTENDS Integers

CONSTANTS
    Schedules,    \* the ids rows of schedules may get
    Replicas,     \* the API processes: two in k8s/api.yaml
    Period,       \* the period of the ticker: five seconds
    Asked,        \* the values of interval_seconds callers send
    Default,      \* what an interval of zero or less becomes: a minute
    Longest,      \* no interval is longer; how far since counts
    Second,       \* time.Second, in the units a time.Duration counts: 10^9
    Durations,    \* how many values a time.Duration has: 2^64
    MaxFailures   \* a bound on database errors and crashes together

\* Identity columns count from 1.
ASSUME IdsAssumption == Schedules \subseteq Nat \ {0}

\* Times are whole seconds.
ASSUME TimesAssumption ==
    /\ Period \in Nat \ {0} /\ Longest \in Nat /\ Default \in 1 .. Longest
    /\ Asked \subseteq Int /\ \A n \in Asked : n <= Longest
    /\ Second \in Nat \ {0} /\ Durations \in Nat \ {0}

ASSUME FailuresAssumption == MaxFailures \in Nat

VARIABLES
    \* the table schedules
    interval,    \* interval[s]: interval_seconds, 0 without a row
    wait,        \* wait[s]: the time left to next_run_at, 0 when due
    \* history
    since,       \* since[s]: the time since s was last started, or created
    noted,       \* noted[s]: next_run_at was written after that start
    failures,    \* the database errors and crashes so far
    \* per replica
    phase,       \* where its loop is
    beat,        \* the ticker's phase
    tick,        \* the ticker's channel, which holds one tick
    due,         \* dueSchedules, as far as not yet served
    current,     \* the schedule it serves, or 0
    next         \* the time left to the nextRun it computed

tableVars   == <<interval, wait>>
historyVars == <<since, noted>>
tickerVars  == <<beat, tick>>
vars        == <<interval, wait, since, noted, failures, phase, beat, tick, due,
                 current, next>>

\* Mutant of IntervalOf: intervals are taken as they come.
IntervalAsGiven(n) == n

IntervalOf(n) == IF n <= 0 THEN Default ELSE n

\* Mutant of Ahead: the wait is counted in half seconds.
AheadHalved(n) == n \div 2

\* How far ahead time.Duration(n) * time.Second puts a time: the product wraps,
\* and one that is negative puts it into the past, which is as good as now.
Ahead(n) ==
    LET d == (n * Second) % Durations
    IN  IF 2 * d < Durations THEN d \div Second ELSE 0

\* The interval in nanoseconds is a time.Duration: up to 292 years are.
Fits(n) == 2 * n * Second < Durations

Exists(s) == interval[s] # 0

Init ==
    /\ interval = [s \in Schedules |-> 0]
    /\ wait     = [s \in Schedules |-> 0]
    /\ since    = [s \in Schedules |-> 0]
    /\ noted    = [s \in Schedules |-> TRUE]
    /\ failures = 0
    /\ phase    = [r \in Replicas |-> "idle"]
    /\ beat     = [r \in Replicas |-> 0]
    /\ tick     = [r \in Replicas |-> FALSE]
    /\ due      = [r \in Replicas |-> {}]
    /\ current  = [r \in Replicas |-> 0]
    /\ next     = [r \in Replicas |-> 0]

-----------------------------------------------------------------------------
(***************************************************************************)
(* Time, for everything that counts it.  A tick finds the channel empty,   *)
(* or is dropped.                                                          *)
(***************************************************************************)
Sooner(n) == IF n = 0 THEN 0 ELSE n - 1
Beat(n)   == (n + 1) % Period

Elapse ==
    /\ wait'  = [s \in Schedules |-> Sooner(wait[s])]
    /\ since' = [s \in Schedules |-> IF since[s] < Longest THEN since[s] + 1 ELSE since[s]]
    /\ next'  = [r \in Replicas |-> Sooner(next[r])]
    /\ beat'  = [r \in Replicas |-> IF phase[r] = "down" THEN 0 ELSE Beat(beat[r])]
    /\ tick'  = [r \in Replicas |-> tick[r] \/ (phase[r] # "down" /\ Beat(beat[r]) = 0)]
    /\ UNCHANGED <<interval, noted, failures, phase, due, current>>

\* CreateSchedule; that an insert may fail is that it may not happen.
CreateSchedule(s, n) ==
    /\ ~Exists(s)
    /\ interval' = [interval EXCEPT ![s] = IntervalOf(n)]
    /\ wait'     = [wait EXCEPT ![s] = Ahead(IntervalOf(n))]
    /\ since'    = [since EXCEPT ![s] = 0]
    /\ UNCHANGED <<noted, failures, phase, tickerVars, due, current, next>>

-----------------------------------------------------------------------------
(***************************************************************************)
(* StartScheduler's loop on replica r.                                     *)
(***************************************************************************)
\* A call of the database: done, refused, or done although it returns an error.
Fails(w) ==
    /\ w = "ok" \/ failures < MaxFailures
    /\ failures' = IF w = "ok" THEN failures ELSE failures + 1

\* Mutant of IsDue: the comparison rounds to the coming unit.
IsDueSoon(s) == Exists(s) /\ wait[s] <= 1

IsDue(s) == Exists(s) /\ wait[s] = 0

GetDueSchedules(r) ==
    /\ phase[r] = "idle"
    /\ tick[r]
    /\ tick' = [tick EXCEPT ![r] = FALSE]
    /\ \E w \in {"ok", "failed"} :
          /\ Fails(w)
          /\ due' = [due EXCEPT ![r] = IF w = "ok" THEN {s \in Schedules : IsDue(s)} ELSE {}]
          /\ phase' = [phase EXCEPT ![r] = IF due'[r] = {} THEN "idle" ELSE "serving"]
    /\ UNCHANGED <<tableVars, historyVars, beat, current, next>>

\* RunAudit or RunPolicy begins.  The rows were read in no particular order.
Trigger(r, s) ==
    /\ phase[r] = "serving"
    /\ s \in due[r]
    /\ phase'   = [phase EXCEPT ![r] = "running"]
    /\ due'     = [due EXCEPT ![r] = @ \ {s}]
    /\ current' = [current EXCEPT ![r] = s]
    /\ since'   = [since EXCEPT ![s] = 0]
    /\ noted'   = [noted EXCEPT ![s] = FALSE]
    /\ UNCHANGED <<tableVars, failures, tickerVars, next>>

\* It returns, with whatever result, and the next run is computed.
ComputeNextRun(r) ==
    /\ phase[r] = "running"
    /\ phase' = [phase EXCEPT ![r] = "noting"]
    /\ next'  = [next EXCEPT ![r] = Ahead(interval[current[r]])]
    /\ UNCHANGED <<tableVars, historyVars, failures, tickerVars, due, current>>

\* Mutant of Afterwards: a round serves one schedule.
AfterwardsIdle(r) == "idle"

Afterwards(r) == IF due[r] = {} THEN "idle" ELSE "serving"

UpdateScheduleNextRun(r) ==
    /\ phase[r] = "noting"
    /\ \E w \in {"ok", "failed", "unacked"} :
          /\ Fails(w)
          /\ IF w = "failed"
             THEN UNCHANGED <<wait, noted>>
             ELSE /\ wait'  = [wait EXCEPT ![current[r]] = next[r]]
                  /\ noted' = [noted EXCEPT ![current[r]] = TRUE]
    /\ phase'   = [phase EXCEPT ![r] = Afterwards(r)]
    /\ current' = [current EXCEPT ![r] = 0]
    /\ next'    = [next EXCEPT ![r] = 0]
    /\ UNCHANGED <<interval, since, tickerVars, due>>

\* The process ends, in the middle of a round too: main does not wait for it.
Crash(r) ==
    /\ phase[r] # "down"
    /\ failures < MaxFailures
    /\ failures' = failures + 1
    /\ phase'   = [phase EXCEPT ![r] = "down"]
    /\ due'     = [due EXCEPT ![r] = {}]
    /\ current' = [current EXCEPT ![r] = 0]
    /\ next'    = [next EXCEPT ![r] = 0]
    /\ tick'    = [tick EXCEPT ![r] = FALSE]
    /\ UNCHANGED <<tableVars, historyVars, beat>>

StartScheduler(r) ==
    /\ phase[r] = "down"
    /\ phase' = [phase EXCEPT ![r] = "idle"]
    /\ beat'  = [beat EXCEPT ![r] = 0]
    /\ UNCHANGED <<tableVars, historyVars, failures, tick, due, current, next>>
-----------------------------------------------------------------------------
Serve(r) ==
    \/ GetDueSchedules(r) \/ (\E s \in Schedules : Trigger(r, s))
    \/ ComputeNextRun(r) \/ UpdateScheduleNextRun(r)

Next ==
    \/ Elapse
    \/ \E s \in Schedules, n \in Asked : CreateSchedule(s, n)
    \/ \E r \in Replicas : Serve(r) \/ Crash(r) \/ StartScheduler(r)

Spec == Init /\ [][Next]_vars

\* Time passes, a loop that can go on does (RunAudit and RunPolicy return: see
\* AuditRun), and a process that died is restarted (by Kubernetes).
FairSpec ==
    /\ Spec
    /\ WF_vars(Elapse)
    /\ \A r \in Replicas : WF_vars(Serve(r)) /\ WF_vars(StartScheduler(r))
-----------------------------------------------------------------------------
(***************************************************************************)
(* Properties.                                                             *)
(***************************************************************************)
\* Every variable has its type.
TypeOK ==
    /\ interval \in [Schedules -> 0 .. Longest]
    /\ wait     \in [Schedules -> 0 .. Longest]
    /\ since    \in [Schedules -> 0 .. Longest]
    /\ noted    \in [Schedules -> BOOLEAN]
    /\ failures \in 0 .. MaxFailures
    /\ phase    \in [Replicas -> {"idle", "serving", "running", "noting", "down"}]
    /\ beat     \in [Replicas -> 0 .. Period - 1]
    /\ tick     \in [Replicas -> BOOLEAN]
    /\ due      \in [Replicas -> SUBSET Schedules]
    /\ current  \in [Replicas -> Schedules \cup {0}]
    /\ next     \in [Replicas -> 0 .. Longest]

\* Two starts of a target are an interval apart at least, and the first one an
\* interval after the creation; only a start whose next_run_at was never written
\* (crash, database) may be repeated sooner (README: "controls how often").  An
\* interval of more than 292 years overflows, and its target may start at every
\* tick.
StartsAreSpaced ==
    [][\A r \in Replicas, s \in Schedules :
         Trigger(r, s) => since[s] >= interval[s] \/ ~noted[s] \/ ~Fits(interval[s])]_vars

\* A schedule is started again and again, whatever its neighbours in the list
\* do (one whose interval overflows is due at every tick), and although a
\* process dies or a call of the database fails.
ScheduleRecurs == \A s \in Schedules : Exists(s) ~> Exists(s) /\ since[s] = 0 /\ ~noted[s]
=============================================================================
