-------------------------------- MODULE Tick --------------------------------
(***************************************************************************)
(* The tick engine of codex-cron (core tick.rs) as its callers run it      *)
(* (run_one_tick in cli.rs): every scheduling pass is a process that takes *)
(* the cross-process lock or skips, loads jobs.json, advances the due jobs *)
(* and saves before it runs them in chunks of max_parallel threads, saves  *)
(* the outcomes, delivers and lets the lock go.  Several processes make    *)
(* passes: the daemon and any number of external `codex-cron tick`.        *)
(*                                                                         *)
(* A save is one step: atomic_write renames a finished file over           *)
(* jobs.json.  A process may be killed between any two steps, which frees  *)
(* the lock (flock) and forgets everything but jobs.json.  The wall clock  *)
(* may jump either way, as system time does.                               *)
(***************************************************************************)
EXTENDS JobTable, Sequences, FiniteSets

CONSTANTS
    Ticks,          \* the processes that make scheduling passes
    MaxParallel,    \* the max_parallel that tick() is given
    Statuses,       \* what a run may report
    MaxFaults       \* bound: kills, failed loads and saves, lost deliveries

ASSUME TicksAssumption == None \notin Ticks

ASSUME MaxParallelAssumption == MaxParallel \in Nat

ASSUME StatusesAssumption == Statuses \subseteq RunStatus

ASSUME MaxFaultsAssumption == MaxFaults \in Nat

\* None is a value of its own, and a firing is a record.
ASSUME NoneIsNoFiring == None \notin [slot : Nat, at : Nat]

VARIABLES
    clock,      \* the wall clock
    disk,       \* the table in jobs.json
    lock,       \* the process that holds .tick.lock, or None
    pass,       \* the pass each process is making
    \* History: nothing below is read by the program.
    fired,      \* per job, the runs started (run_one), in order
    settled,    \* per job, how many of its runs had their outcome saved
    recorded,   \* per job, the slots whose run has a Markdown record
    faults      \* the faults so far

vars == <<clock, disk, lock, pass, fired, settled, recorded, faults>>

-----------------------------------------------------------------------------
(* The state of a pass *)

NoTable == [j \in Jobs |-> None]
NoSlot  == [j \in Jobs |-> None]

Pass == [ pc      : {"idle", "locked", "advanced", "running", "delivering"},
          now     : Instants,           \* let now = clock.now_utc()
          targets : SUBSET Jobs,        \* TickConfig::target_job_ids
          jobs    : Table,              \* let mut jobs
          slot    : [Jobs -> OptInstant],   \* the next_run_at a snapshot fired
          queue   : SUBSET Jobs,        \* snapshots to run, then to deliver
          running : SUBSET Jobs,        \* the chunk whose threads are running
          outcome : [Jobs -> RunStatus \cup {None}] ]   \* outputs

\* A process between two passes, or a new one started after a kill.
Idle == [ pc      |-> "idle",
          now     |-> 0,
          targets |-> {},
          jobs    |-> NoTable,
          slot    |-> NoSlot,
          queue   |-> {},
          running |-> {},
          outcome |-> [j \in Jobs |-> None] ]

Snapshots(t) == {j \in Jobs : pass[t].slot[j] # None}

-----------------------------------------------------------------------------
(* What tick() does to the jobs it loaded *)

\* Crash recovery: a job left running belongs to a dead process.
Recovered(table) ==
    [j \in Jobs |-> IF table[j] # None /\ table[j].state = "running"
                    THEN [table[j] EXCEPT !.state = "scheduled"]
                    ELSE table[j]]

IsDue(job, now) ==
    /\ job # None
    /\ job.enabled
    /\ job.next_run_at # None
    /\ job.next_run_at <= now

Due(table, targets, now) == {j \in targets : IsDue(table[j], now)}

\* Defect: anchored to the wall clock of the pass, not to the slot.
AdvancedFromNow(job, now) ==
    [job EXCEPT !.last_run_at = now,
                !.next_run_at = compute_next_run(job.schedule, now, now),
                !.state       = "running",
                !.completed   = @ + 1]

Advanced(job, now) ==
    [job EXCEPT !.last_run_at = now,
                !.next_run_at = compute_next_run(job.schedule, job.next_run_at, now),
                !.state       = "running",
                !.completed   = @ + 1]

\* Defect: one firing too many.
RetiresLate(job) ==
    \/ job.schedule.kind = "once"
    \/ job.times # None /\ job.completed > job.times

Retires(job) ==
    \/ job.schedule.kind = "once"
    \/ job.times # None /\ job.completed >= job.times

\* Defect: a retired job is marked and stays in the table.
SettledKeepsDone(job, status) ==
    [job EXCEPT !.last_status = status,
                !.state = IF Retires(job) THEN "done" ELSE "scheduled"]

\* The job after its outcome is marked: gone when it retires.
Settled(job, status) ==
    IF Retires(job) THEN None
    ELSE [job EXCEPT !.last_status = status, !.state = "scheduled"]

-----------------------------------------------------------------------------
(* The steps of a pass *)

Init ==
    /\ clock = 0
    /\ disk \in [Jobs -> {NewJob(s, n, 0) : s \in Schedules, n \in Times}]
    /\ lock = None
    /\ pass = [t \in Ticks |-> Idle]
    /\ fired = [j \in Jobs |-> <<>>]
    /\ settled = [j \in Jobs |-> 0]
    /\ recorded = [j \in Jobs |-> {}]
    /\ faults = 0

\* Defect: the lock is taken whoever holds it.
TryLockUnchecked(t, targets) ==
    /\ pass[t].pc = "idle"
    /\ lock' = t
    /\ pass' = [pass EXCEPT ![t] = [Idle EXCEPT !.pc      = "locked",
                                                !.now     = clock,
                                                !.targets = targets]]
    /\ UNCHANGED <<clock, disk, fired, settled, recorded, faults>>

\* try_acquire_tick_lock, and the clock read that opens tick().  A process
\* that finds the lock taken prints that it skips and changes nothing.
TryLock(t, targets) ==
    /\ pass[t].pc = "idle"
    /\ lock = None
    /\ lock' = t
    /\ pass' = [pass EXCEPT ![t] = [Idle EXCEPT !.pc      = "locked",
                                                !.now     = clock,
                                                !.targets = targets]]
    /\ UNCHANGED <<clock, disk, fired, settled, recorded, faults>>

\* The pass ends: its locals are dropped and so is the lock.
Leave(t) ==
    /\ lock' = None
    /\ pass' = [pass EXCEPT ![t] = Idle]

DueAtLoad(t) == Due(disk, pass[t].targets, pass[t].now)

\* Defect: the early return keeps the lock.
LoadNothingDueHoldsLock(t) ==
    /\ pass[t].pc = "locked"
    /\ DueAtLoad(t) = {}
    /\ pass' = [pass EXCEPT ![t] = Idle]
    /\ UNCHANGED <<clock, disk, lock, fired, settled, recorded, faults>>

\* Nothing due: tick() returns without a save.
LoadNothingDue(t) ==
    /\ pass[t].pc = "locked"
    /\ DueAtLoad(t) = {}
    /\ Leave(t)
    /\ UNCHANGED <<clock, disk, fired, settled, recorded, faults>>

\* Load, recover, select the due jobs and advance them, all in memory.
LoadAndAdvance(t) ==
    LET due   == DueAtLoad(t)
        table == Recovered(disk)
    IN  /\ pass[t].pc = "locked"
        /\ due # {}
        /\ pass' = [pass EXCEPT ![t] = [@ EXCEPT
                        !.pc    = "advanced",
                        !.jobs  = [j \in Jobs |->
                            IF j \in due THEN Advanced(table[j], pass[t].now)
                                         ELSE table[j]],
                        !.slot  = [j \in Jobs |->
                            IF j \in due THEN table[j].next_run_at ELSE None],
                        !.queue = due]]
        /\ UNCHANGED <<clock, disk, lock, fired, settled, recorded, faults>>

\* Defect: the advance is not made durable before the run.
SaveAdvancedSkipped(t) ==
    /\ pass[t].pc = "advanced"
    /\ pass' = [pass EXCEPT ![t].pc = "running"]
    /\ UNCHANGED <<clock, disk, lock, fired, settled, recorded, faults>>

\* Defect: the lock is let go before the run, as the design document has it.
SaveAdvancedAndUnlock(t) ==
    /\ pass[t].pc = "advanced"
    /\ disk' = pass[t].jobs
    /\ lock' = None
    /\ pass' = [pass EXCEPT ![t].pc = "running"]
    /\ UNCHANGED <<clock, fired, settled, recorded, faults>>

\* store.save(&jobs)?, the at-most-once line.
SaveAdvanced(t) ==
    /\ pass[t].pc = "advanced"
    /\ disk' = pass[t].jobs
    /\ pass' = [pass EXCEPT ![t].pc = "running"]
    /\ UNCHANGED <<clock, lock, fired, settled, recorded, faults>>

\* Defect: max_parallel snapshots at a time, 0 as it is (chunks() itself would
\* panic).  run_one_tick resolves a 0 first; another caller of tick() may not.
CapUnchecked == MaxParallel

Cap == IF MaxParallel = 0 THEN 1 ELSE MaxParallel

IsChunk(chunk, queue) ==
    /\ chunk \subseteq queue
    /\ \/ Cardinality(chunk) = Cap
       \/ chunk = queue /\ Cardinality(queue) < Cap

\* run_due spawns the threads of the next chunk once the previous chunk has
\* been joined.  Which jobs it takes is the order of the vector, left out.
StartChunk(t) ==
    /\ pass[t].pc = "running"
    /\ pass[t].running = {}
    /\ \E chunk \in (SUBSET pass[t].queue) \ {{}} :
           /\ IsChunk(chunk, pass[t].queue)
           /\ pass' = [pass EXCEPT ![t].running = chunk,
                                   ![t].queue   = @ \ chunk]
           /\ fired' = [j \in Jobs |->
                  IF j \in chunk
                  THEN Append(fired[j], [slot |-> pass[t].slot[j],
                                         at   |-> pass[t].now])
                  ELSE fired[j]]
    /\ UNCHANGED <<clock, disk, lock, settled, recorded, faults>>

\* run_one returns on the thread of job j.
Finish(t, j, status) ==
    /\ pass[t].pc = "running"
    /\ j \in pass[t].running
    /\ pass' = [pass EXCEPT ![t].running    = @ \ {j},
                            ![t].outcome[j] = status]
    /\ UNCHANGED <<clock, disk, lock, fired, settled, recorded, faults>>

AllJoined(t) ==
    /\ pass[t].pc = "running"
    /\ pass[t].queue = {}
    /\ pass[t].running = {}

ToDeliver(t) == {j \in Snapshots(t) : pass[t].outcome[j] # "silent"}

\* Defect: the outcomes are delivered and not saved.
SaveOutcomesSkipped(t) ==
    /\ AllJoined(t)
    /\ pass' = [pass EXCEPT ![t].pc = "delivering", ![t].queue = ToDeliver(t)]
    /\ UNCHANGED <<clock, disk, lock, fired, settled, recorded, faults>>

\* Mark the outcomes, drop the jobs that retire, save.
SaveOutcomes(t) ==
    /\ AllJoined(t)
    /\ disk' = [j \in Jobs |-> IF j \in Snapshots(t)
                               THEN Settled(pass[t].jobs[j], pass[t].outcome[j])
                               ELSE pass[t].jobs[j]]
    /\ pass' = [pass EXCEPT ![t].pc = "delivering", ![t].queue = ToDeliver(t)]
    /\ settled' = [j \in Jobs |-> IF j \in Snapshots(t) THEN settled[j] + 1 ELSE settled[j]]
    /\ UNCHANGED <<clock, lock, fired, recorded, faults>>

\* Defect: an error leaves the loop, and the outputs behind it.
DeliverAllOrStop(t, j) ==
    /\ pass[t].pc = "delivering"
    /\ j \in pass[t].queue
    /\ \/ /\ pass' = [pass EXCEPT ![t].queue = @ \ {j}]
          /\ recorded' = [recorded EXCEPT ![j] = @ \cup {pass[t].slot[j]}]
          /\ UNCHANGED faults
       \/ /\ faults < MaxFaults
          /\ pass' = [pass EXCEPT ![t].queue = {}]
          /\ faults' = faults + 1
          /\ UNCHANGED recorded
    /\ UNCHANGED <<clock, disk, lock, fired, settled>>

\* FileDelivery of one output; an error is reported and never fatal.
Deliver(t, j) ==
    /\ pass[t].pc = "delivering"
    /\ j \in pass[t].queue
    /\ pass' = [pass EXCEPT ![t].queue = @ \ {j}]
    /\ \/ /\ recorded' = [recorded EXCEPT ![j] = @ \cup {pass[t].slot[j]}]
          /\ UNCHANGED faults
       \/ /\ faults < MaxFaults
          /\ faults' = faults + 1
          /\ UNCHANGED recorded
    /\ UNCHANGED <<clock, disk, lock, fired, settled>>

\* tick() returns its report and the lock is dropped.
Return(t) ==
    /\ pass[t].pc = "delivering"
    /\ pass[t].queue = {}
    /\ Leave(t)
    /\ UNCHANGED <<clock, disk, fired, settled, recorded, faults>>

\* load() or save() fails: `?` leaves tick() with jobs.json as it was.
StoreFails(t) ==
    /\ pass[t].pc \in {"locked", "advanced"} \/ AllJoined(t)
    /\ faults < MaxFaults
    /\ faults' = faults + 1
    /\ Leave(t)
    /\ UNCHANGED <<clock, disk, fired, settled, recorded>>

\* The process is killed, or a thread of the chunk panics the pass.
Kill(t) ==
    /\ pass[t].pc # "idle"
    /\ faults < MaxFaults
    /\ faults' = faults + 1
    /\ Leave(t)
    /\ UNCHANGED <<clock, disk, fired, settled, recorded>>

\* Time passes, or somebody sets the clock.
SetClock ==
    /\ \E instant \in Instants \ {clock} : clock' = instant
    /\ UNCHANGED <<disk, lock, pass, fired, settled, recorded, faults>>

\* What a pass does by itself once it has the lock.
Work(t) ==
    \/ LoadNothingDue(t)
    \/ LoadAndAdvance(t)
    \/ SaveAdvanced(t)
    \/ StartChunk(t)
    \/ \E j \in Jobs, status \in Statuses : Finish(t, j, status)
    \/ SaveOutcomes(t)
    \/ \E j \in Jobs : Deliver(t, j)
    \/ Return(t)

Fault(t) == StoreFails(t) \/ Kill(t)

Next ==
    \/ SetClock
    \/ \E t \in Ticks : TryLock(t, Jobs) \/ Work(t) \/ Fault(t)

\* Each process keeps making passes (the daemon's loop, the external
\* scheduler), and a pass that holds the lock goes on: executors return.
Fairness == \A t \in Ticks : WF_vars(TryLock(t, Jobs)) /\ WF_vars(Work(t))

Spec == Init /\ [][Next]_vars /\ Fairness

-----------------------------------------------------------------------------
(* Properties *)

\* The table pass t is about to save is the one in jobs.json now, with its
\* own changes and no others.
FreshAt(t) ==
    /\ pass[t].pc = "advanced" =>
           \A j \in Jobs :
               IF j \in Snapshots(t)
               THEN /\ disk[j] # None
                    /\ pass[t].jobs[j] = Advanced(Recovered(disk)[j], pass[t].now)
               ELSE pass[t].jobs[j] = Recovered(disk)[j]
    /\ pass[t].pc = "running" => disk = pass[t].jobs

TypeOK ==
    /\ clock \in Instants
    /\ disk \in Table
    /\ lock \in Ticks \cup {None}
    /\ pass \in [Ticks -> Pass]
    /\ fired \in [Jobs -> Seq([slot : Nat, at : Instants])]
    /\ settled \in [Jobs -> Nat]
    /\ recorded \in [Jobs -> SUBSET Nat]
    /\ faults \in 0..MaxFaults

\* One writer at a time: a process is inside a pass exactly while it holds
\* the lock, so no two passes ever overlap (README, "One writer at a time").
OnePassAtATime == \A t \in Ticks : pass[t].pc # "idle" <=> lock = t

\* What a pass saves last was read from the file it overwrites: between the
\* load and the last save of a pass the file changes only by its own saves,
\* so no save of tick() throws away what another process has written.
FreshCopy == \A t \in Ticks : FreshAt(t)

\* At most once: whatever is killed and whichever process makes the pass, no
\* slot of a job is handed to an executor twice, and none after a later one.
AtMostOnce ==
    \A j \in Jobs : \A k \in 1..Len(fired[j]) : \A i \in 1..(k - 1) :
        fired[j][i].slot < fired[j][k].slot

\* No burst after downtime: the slots a late pass has missed are never fired
\* later, because the next slot of the job lies after the late pass itself.
SingleCatchUp ==
    \A j \in Jobs : \A k \in 1..Len(fired[j]) : \A i \in 1..(k - 1) :
        fired[j][i].at < fired[j][k].slot

\* The slots a job has fired and the one it will fire next.
Slots(j) ==
    {fired[j][k].slot : k \in DOMAIN fired[j]} \cup ({disk[j].next_run_at} \ {None})

\* No drift: however late the passes were, the slots of an interval job are
\* those of the grid that started when it was added, at instant 0; a once job
\* fires its own instant.
NoDrift ==
    \A j \in Jobs : disk[j] # None =>
        LET schedule == disk[j].schedule
        IN  \A slot \in Slots(j) :
                CASE schedule.kind = "interval" -> slot % schedule.minutes = 0
                  [] schedule.kind = "once"     -> slot = schedule.run_at
                  [] schedule.kind = "cron"     ->
                        \E after \in Instants : slot = Occurrence(schedule.expr, after)

\* The runs after which a job retires; a limit of 0 lets it run once as well.
Limit(times) == IF times = 0 THEN 1 ELSE times

\* A job leaves the table with the outcome of its last run: whatever is killed
\* between the two saves, a job that is still there has had fewer runs whose
\* outcome was saved than its limit, so that each run beyond the limit makes
\* up for one whose outcome was lost.
RepeatBound ==
    \A j \in Jobs :
        disk[j] # None /\ disk[j].times # None => settled[j] < Limit(disk[j].times)

\* "Stop and delete after this many runs": no run is started beyond the limit.
StopsAtLimit ==
    \A j \in Jobs :
        disk[j] # None /\ disk[j].times # None => Len(fired[j]) <= Limit(disk[j].times)

\* When outputs are delivered the outcomes are durable: jobs.json no longer
\* says of any job that it is running.
DurableBeforeDelivery ==
    \A t \in Ticks : pass[t].pc = "delivering" =>
        \A j \in Jobs : disk[j] # None => disk[j].state # "running"

\* The outputs pass t has gone past and left without a record.
Unrecorded(t) ==
    {j \in Snapshots(t) \ pass[t].queue :
        /\ pass[t].pc = "delivering"
        /\ pass[t].outcome[j] # "silent"
        /\ pass[t].slot[j] \notin recorded[j]}

\* "Delivery failures are reported, never fatal": a failed delivery costs its own
\* output and no other, so that a pass leaves as many outputs without a record
\* as there were faults, at most.
FailureCostsOneOutput == \A t \in Ticks : Cardinality(Unrecorded(t)) <= faults

\* No due job waits for ever: some pass fires it or skips past it, with kills
\* and failed saves in between.
DueJobsAreServed == \A j \in Jobs : []<>(~IsDue(disk[j], clock))

\* Every pass ends and frees the lock for the next one.
PassesEnd == \A t \in Ticks : pass[t].pc # "idle" ~> pass[t].pc = "idle"

-----------------------------------------------------------------------------
(* The promise the engine keeps: module Firing *)

NextSlot == [j \in Jobs |-> IF disk[j] = None THEN None ELSE disk[j].next_run_at]

\* Snapshots whose advance is saved and whose thread is not spawned yet.
Claimed ==
    [j \in Jobs |->
        IF \E t \in Ticks : pass[t].pc = "running" /\ j \in pass[t].queue
        THEN [slot |-> pass[lock].slot[j], at |-> pass[lock].now]
        ELSE None]

Promise == INSTANCE Firing WITH next <- NextSlot, claimed <- Claimed, log <- fired

\* The engine implements the promise: the slot of a job moves only when a
\* pass claims it, past that pass, and claims are started once or forgotten.
KeepsPromise == Promise!Spec

=============================================================================
