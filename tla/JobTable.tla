------------------------------ MODULE JobTable ------------------------------
(***************************************************************************)
(* The durable job record of codex-cron-core (job.rs) and the table of     *)
(* jobs that JobStore loads and saves whole.  The module has no state.     *)
(*                                                                         *)
(* Kept of a job is what decides when it fires and when it is retired.     *)
(* What is only handed to the executor or shown to the user (name, prompt, *)
(* script, workdir, model, delivery targets) is left out, and so is the    *)
(* order of the vector in jobs.json: a table maps every id that may exist  *)
(* to its job, or to None.                                                 *)
(***************************************************************************)
EXTENDS Schedule

CONSTANTS
    Jobs,           \* every job id that may exist
    Schedules,      \* the schedules users give
    Times           \* the repeat limits users give, None for forever

ASSUME SchedulesAssumption == Schedules \subseteq Schedule

ASSUME TimesAssumption == Times \subseteq Nat \cup {None}

-----------------------------------------------------------------------------

\* The states that reach jobs.json.  The code has two more, Done and Failed:
\* tick() sets them on jobs it is about to delete, and never saves them.
JobState == {"scheduled", "running", "paused"}

RunStatus == {"success", "failed", "silent", "refused"}

\* repeat.times and repeat.completed are the fields times and completed.
Job == [ schedule    : Schedules,
         times       : Times,
         completed   : Nat,
         enabled     : BOOLEAN,
         state       : JobState,
         next_run_at : OptInstant,
         last_run_at : Instants \cup {None},   \* clock readings of passes
         last_status : RunStatus \cup {None} ]

\* None is a value of its own, and a job is a record.
ASSUME NoneIsNoJob == None \notin Job

Table == [Jobs -> Job \cup {None}]

Present(table) == {j \in Jobs : table[j] # None}

\* Job::new
NewJob(schedule, times, now) ==
    [ schedule    |-> schedule,
      times       |-> times,
      completed   |-> 0,
      enabled     |-> TRUE,
      state       |-> "scheduled",
      next_run_at |-> compute_next_run(schedule, None, now),
      last_run_at |-> None,
      last_status |-> None ]

=============================================================================
