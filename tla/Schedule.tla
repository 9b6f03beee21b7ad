------------------------------ MODULE Schedule ------------------------------
(***************************************************************************)
(* The schedule grammar of codex-cron-core and the computation of a job's  *)
(* next firing instant (schedule.rs).  The module has no state.            *)
(*                                                                         *)
(* Instants are natural numbers: the only unit the code adds is the        *)
(* minute.  A cron expression is a model value and croner, the library     *)
(* that evaluates it, is the constant operator Occurrence.                 *)
(***************************************************************************)
EXTENDS Integers

CONSTANTS
    None,               \* Rust's Option::None
    MaxTime,            \* bound: the last instant a wall clock shows
    CronExprs,          \* the cron expressions that parse
    Occurrence(_, _)    \* croner: first occurrence of an expression strictly
                        \* after an instant, None when it finds no such one

Instants == 0..MaxTime

ASSUME NoneAssumption == None \notin Int

ASSUME MaxTimeAssumption == MaxTime \in Nat

\* The contract of find_next_occurrence(after, inclusive = false).
ASSUME OccurrenceAssumption ==
    \A e \in CronExprs, after \in Instants :
        \/ Occurrence(e, after) = None
        \/ Occurrence(e, after) \in Nat /\ Occurrence(e, after) > after

-----------------------------------------------------------------------------

\* A period is an integer, not a positive one: compute_next_run casts the
\* stored u64 to i64 and guards against what comes out of it.
IntervalSchedule == [kind : {"interval"}, minutes : Int]
CronSchedule     == [kind : {"cron"}, expr : CronExprs]
OnceSchedule     == [kind : {"once"}, run_at : Nat]

Schedule == IntervalSchedule \cup CronSchedule \cup OnceSchedule

OptInstant == Nat \cup {None}

-----------------------------------------------------------------------------

\* Defect: the next slot, missed or not.
NextOnGridNoSkip(first, period, now) == first

\* The first instant after now on the grid first, first + period, ...
\* The loop that computes it is modelled step by step in FastForward.
NextOnGrid(first, period, now) ==
    IF first > now THEN first ELSE now + period - ((now - first) % period)

NextInterval(minutes, last, now) ==
    LET anchor == IF last = None THEN now ELSE last
    IN  IF minutes <= 0 THEN None
                        ELSE NextOnGrid(anchor + minutes, minutes, now)

NextCron(expr, last, now) ==
    Occurrence(expr, IF last # None /\ last > now THEN last ELSE now)

NextOnce(run_at, last) == IF last = None THEN run_at ELSE None

compute_next_run(schedule, last, now) ==
    CASE schedule.kind = "interval" -> NextInterval(schedule.minutes, last, now)
      [] schedule.kind = "cron"     -> NextCron(schedule.expr, last, now)
      [] schedule.kind = "once"     -> NextOnce(schedule.run_at, last)

=============================================================================
