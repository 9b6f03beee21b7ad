------------------------------ MODULE Commands ------------------------------
(***************************************************************************)
(* The commands that change jobs.json from the terminal (cmd_add, cmd_edit,*)
(* cmd_remove, cmd_set_paused and cmd_run in cli.rs), next to the passes   *)
(* of module Tick.  A command loads the whole table, changes one job in    *)
(* memory and saves the whole table.  It does not take the tick lock, so a *)
(* pass, or another command, may save between its load and its save, and   *)
(* whoever saves last wins.  cmd_run then makes a pass of its own, with    *)
(* the one job as its target.                                              *)
(***************************************************************************)
EXTENDS SharedFile

CONSTANTS
    Cmds,           \* the processes that run commands, among Ticks
    Ops,            \* the commands that are used
    MaxCommands     \* bound: commands issued

AllOps == {"add", "edit", "edit_schedule", "remove", "pause", "resume", "run"}

ASSUME CmdsAssumption == Cmds \subseteq Ticks

ASSUME OpsAssumption == Ops \subseteq AllOps

ASSUME MaxCommandsAssumption == MaxCommands \in Nat

VARIABLES
    cmd,        \* the command each process is running
    \* History: nothing below is read by the program.
    issued,     \* how many commands were issued
    wish,       \* per job, what the user was last told about it, or that it
                \* has retired
    taken,      \* when a pass took the last slot of each job, None if never
                \* or if a command has set the next run since
    asked       \* the jobs a run command armed and no pass has taken since

cmdVars == <<cmd, issued, wish, taken, asked, lost>>
allVars == <<vars, cmdVars>>

Command == [ pc     : {"idle", "loaded", "saved"},
             op     : AllOps \cup {None},
             target : Jobs \cup {None},
             base   : Table,        \* what was loaded
             jobs   : Table ]       \* what will be saved

NoCommand == [ pc |-> "idle", op |-> None, target |-> None,
               base |-> NoTable, jobs |-> NoTable ]

Wishes == {"unborn", "active", "paused", "removed", "retired"}

\* The processes that only make full passes.
Daemons == Ticks \ Cmds

-----------------------------------------------------------------------------
(* What each command does to the job *)

\* Defects: the state is one that is never saved; only the flag, or only the
\* state, is set.
PausedAsDone(job) == [job EXCEPT !.enabled = FALSE, !.state = "done"]

PausedFlagOnly(job) == [job EXCEPT !.enabled = FALSE]

PausedStateOnly(job) == [job EXCEPT !.state = "paused"]

Paused(job) == [job EXCEPT !.enabled = FALSE, !.state = "paused"]

Resumed(job, now) ==
    [job EXCEPT !.enabled     = TRUE,
                !.state       = "scheduled",
                !.next_run_at = compute_next_run(job.schedule, job.last_run_at, now)]

Rescheduled(job, schedule, now) ==
    [job EXCEPT !.next_run_at = compute_next_run(schedule, job.last_run_at, now),
                !.schedule    = schedule]

\* Defect: a paused job is armed and stays held.
ArmedStillHeld(job, now) == [job EXCEPT !.next_run_at = now]

ArmedNow(job, now) ==
    [job EXCEPT !.enabled = TRUE, !.state = "scheduled", !.next_run_at = now]

\* What edit may do to the repeat limit: a new one, or none is given.
Limited(job) == {[job EXCEPT !.times = n] : n \in (Times \ {None}) \cup {job.times}}

\* The jobs a command may leave in the place of this one.
Results(op, job, now) ==
    CASE op = "edit"          -> Limited(job)
      [] op = "edit_schedule" -> UNION {Limited(Rescheduled(job, s, now)) : s \in Schedules}
      [] op = "remove"        -> {None}
      [] op = "pause"         -> {Paused(job)}
      [] op = "resume"        -> {Resumed(job, now)}
      [] op = "run"           -> {ArmedNow(job, now)}

-----------------------------------------------------------------------------
(* The steps of a command *)

CInit ==
    /\ clock = 0
    /\ disk \in [Jobs -> {None} \cup {NewJob(s, n, 0) : s \in Schedules, n \in Times}]
    /\ lock = None
    /\ pass = [t \in Ticks |-> Idle]
    /\ fired = [j \in Jobs |-> <<>>]
    /\ settled = [j \in Jobs |-> 0]
    /\ recorded = [j \in Jobs |-> {}]
    /\ faults = 0
    /\ cmd = [c \in Cmds |-> NoCommand]
    /\ issued = 0
    /\ wish = [j \in Jobs |-> IF disk[j] = None THEN "unborn" ELSE "active"]
    /\ taken = [j \in Jobs |-> None]
    /\ asked = {}
    /\ lost = FALSE

\* Nobody runs a command while the process is busy with a pass or another one.
Free(c) == cmd[c].pc = "idle" /\ pass[c].pc = "idle" /\ issued < MaxCommands

\* Defect: the job is saved without the others.
LoadedAlone(c, op, j, job) ==
    /\ cmd' = [cmd EXCEPT ![c] = [pc |-> "loaded", op |-> op, target |-> j,
                                  base |-> disk, jobs |-> [NoTable EXCEPT ![j] = job]]]
    /\ issued' = issued + 1
    /\ UNCHANGED <<vars, taken, asked, lost>>

Loaded(c, op, j, job) ==
    /\ cmd' = [cmd EXCEPT ![c] = [pc |-> "loaded", op |-> op, target |-> j,
                                  base |-> disk, jobs |-> [disk EXCEPT ![j] = job]]]
    /\ issued' = issued + 1
    /\ UNCHANGED <<vars, taken, asked, lost>>

\* cmd_add: load, push the new job.  The id is new, nobody had it before.
LoadAdd(c, j) ==
    /\ Free(c)
    /\ "add" \in Ops
    /\ wish[j] = "unborn"
    /\ \A d \in Cmds : cmd[d].target # j
    /\ \E s \in Schedules, n \in Times : Loaded(c, "add", j, NewJob(s, n, clock))
    /\ UNCHANGED wish

\* The other commands: load, find the job (else an error), change it.
LoadChange(c, op, j) ==
    /\ Free(c)
    /\ op \in Ops \ {"add"}
    /\ disk[j] # None
    /\ \E job \in Results(op, disk[j], clock) : Loaded(c, op, j, job)
    /\ UNCHANGED wish

WishAfter(op, old) ==
    CASE op \in {"add", "resume", "run"}          -> "active"
      [] op = "pause"                             -> "paused"
      [] op = "remove"                            -> "removed"
      [] op \in {"edit", "edit_schedule"}         -> old

\* store.save(&jobs)?
Save(c) ==
    LET op == cmd[c].op
        j  == cmd[c].target
    IN  /\ cmd[c].pc = "loaded"
        /\ disk' = cmd[c].jobs
        /\ cmd' = [cmd EXCEPT ![c] = IF op = "run"
                                     THEN [NoCommand EXCEPT !.pc = "saved", !.target = j]
                                     ELSE NoCommand]
        /\ wish' = [wish EXCEPT ![j] = WishAfter(op, @)]
        /\ taken' = [taken EXCEPT ![j] =
                         IF op \in {"edit_schedule", "resume", "run"} THEN None ELSE @]
        /\ asked' = CASE op = "run"  -> asked \cup {j}
                      [] op = "edit" -> asked
                      [] OTHER       -> asked \ {j}
        /\ Overwrites(cmd[c].base)
        /\ UNCHANGED <<clock, lock, pass, fired, settled, recorded, faults, issued>>

\* cmd_run goes on to a pass over its job, if it finds the lock free ...
RunTryLock(c) ==
    /\ cmd[c].pc = "saved"
    /\ TryLock(c, {cmd[c].target})
    /\ cmd' = [cmd EXCEPT ![c] = NoCommand]
    /\ UNCHANGED <<issued, wish, taken, asked, lost>>

\* ... and else prints "did not fire (already running elsewhere?)".
RunSkips(c) ==
    /\ cmd[c].pc = "saved"
    /\ lock # None
    /\ cmd' = [cmd EXCEPT ![c] = NoCommand]
    /\ UNCHANGED <<vars, issued, wish, taken, asked, lost>>

\* The command fails to save, or is killed.
CommandDies(c) ==
    /\ cmd[c].pc # "idle"
    /\ faults < MaxFaults
    /\ faults' = faults + 1
    /\ cmd' = [cmd EXCEPT ![c] = NoCommand]
    /\ UNCHANGED <<clock, disk, lock, pass, fired, settled, recorded,
                   issued, wish, taken, asked, lost>>

\* The jobs whose next slot a step of pass t takes for good.
Claims(t) ==
    IF pass[t].pc = "advanced" /\ pass'[t].pc = "running" THEN Snapshots(t) ELSE {}

\* A step of pass t saves the outcome of a run after which job j retires.
LastRunSaved(t, j) ==
    /\ pass[t].pc = "running" /\ pass'[t].pc = "delivering"
    /\ j \in Snapshots(t)
    /\ disk'[j] = None

\* A step of a pass, with what it does to the history.
PassWorks(t) ==
    /\ Work(t)
    /\ LosesUpdate(t)
    /\ wish' = [j \in Jobs |-> IF wish[j] = "active" /\ LastRunSaved(t, j)
                               THEN "retired" ELSE wish[j]]
    /\ taken' = [j \in Jobs |-> IF j \in Claims(t) THEN pass[t].now ELSE taken[j]]
    /\ asked' = asked \ Claims(t)
    /\ UNCHANGED <<cmd, issued>>

CNext ==
    \/ SetClock /\ UNCHANGED cmdVars
    \/ \E t \in Daemons : TryLock(t, Jobs) /\ UNCHANGED cmdVars
    \/ \E t \in Ticks : PassWorks(t)
    \/ \E t \in Ticks : Fault(t) /\ UNCHANGED cmdVars
    \/ \E c \in Cmds, j \in Jobs : LoadAdd(c, j)
    \/ \E c \in Cmds, op \in AllOps, j \in Jobs : LoadChange(c, op, j)
    \/ \E c \in Cmds : Save(c) \/ RunTryLock(c) \/ RunSkips(c) \/ CommandDies(c)

CFairness ==
    /\ \A t \in Daemons : WF_allVars(TryLock(t, Jobs) /\ UNCHANGED cmdVars)
    /\ \A t \in Ticks : WF_allVars(PassWorks(t))
    /\ \A c \in Cmds : WF_allVars(Save(c) \/ RunTryLock(c) \/ RunSkips(c))

CSpec == CInit /\ [][CNext]_allVars /\ CFairness

-----------------------------------------------------------------------------
(* Properties *)

CTypeOK ==
    /\ TypeOK
    /\ cmd \in [Cmds -> Command]
    /\ issued \in 0..MaxCommands
    /\ wish \in [Jobs -> Wishes]
    /\ taken \in [Jobs -> OptInstant]
    /\ asked \subseteq Jobs
    /\ lost \in BOOLEAN

\* The job is what the user was last told of it; it is there until it is
\* removed or retires.
AsTold(word, job) ==
    CASE word \in {"unborn", "removed", "retired"} -> job = None
      [] word = "paused"                           -> job # None /\ ~job.enabled
      [] word = "active"                           -> job # None /\ job.enabled

KeepsWish(j) == AsTold(wish[j], disk[j])

\* Whatever overwrites whatever, a job that is not enabled says it is paused
\* and the other way round: the two fields are never mixed from two writers.
PausedIffDisabled ==
    \A j \in Jobs : disk[j] # None => (disk[j].state = "paused" <=> ~disk[j].enabled)

\* Pass t takes a slot of j that no command has set since another pass took
\* one, and that pass has used it or passed it.
TakesOldSlot(t, j) ==
    /\ j \in Claims(t)
    /\ taken[j] # None
    /\ pass[t].slot[j] <= taken[j]

\* At most once, between the commands: no pass takes an old slot of a job
\* nobody has re-armed, unless a save has overwritten a change it had not read.
NoRefireUnlessLost ==
    [][\A t \in Ticks, j \in Jobs : TakesOldSlot(t, j) => lost]_allVars

\* "At-most-once: the next tick never double-fires".
NoRefire == [][\A t \in Ticks, j \in Jobs : ~TakesOldSlot(t, j)]_allVars

\* The clock has been set back to before the job's next run.
ClockBehind(j) ==
    disk[j] # None /\ disk[j].next_run_at # None /\ disk[j].next_run_at > clock

\* A job the user asked to run now does run, in the pass of the command or, if
\* that finds the lock taken, in a later one.
RunIsHonoured ==
    \A j \in Jobs : j \in asked ~> \/ j \notin asked
                                   \/ lost
                                   \/ faults > 0
                                   \/ ClockBehind(j)

\* A once job that waits for an instant still ahead.
WaitsForItsInstant(job) ==
    /\ job # None
    /\ job.schedule.kind = "once"
    /\ job.state = "scheduled"
    /\ job.schedule.run_at > clock

\* "Run once, at that instant": such a job is armed for it.
OnceWillFire ==
    \A j \in Jobs :
        WaitsForItsInstant(disk[j]) => disk[j].next_run_at = disk[j].schedule.run_at

=============================================================================
