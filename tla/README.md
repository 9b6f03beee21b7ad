# A verification of codex-cron

`codex-cron` is a single-host scheduler: jobs in one JSON file, a tick engine
that fires the due ones, and any number of processes that share the file.
This directory holds TLA+ models of it, the TLC runs that check them and the
theorems that TLAPS proves about them. Paths below are relative to the
repository root; `core/` stands for `crates/codex-cron-core/src/` and `cli/`
for `crates/codex-cron-cli/src/`.

## 1. The system

| Component | Code | State it keeps | Operations |
|---|---|---|---|
| schedule | `core/schedule.rs` | none | parse what a user types, compute the next run |
| job table | `core/job.rs`, `cli/store.rs` | `jobs.json`: every job, its next and last run, repeat count, enabled flag, state | load whole, save whole (atomic rename) |
| tick lock | `cli/store.rs` | `.tick.lock`, held by one process | try to take, release on drop or death |
| tick engine | `core/tick.rs` | the locals of one pass | load, recover, select, advance, save, run in chunks, settle, save, deliver |
| pass callers | `cli/cli.rs`, `cli/daemon.rs` | none | `tick`, the daemon's loop, `run` |
| commands | `cli/cli.rs` | none | add, edit, remove, pause, resume, run |
| file writer | `cli/store.rs` (`atomic_write`) | a temporary file, the target | create, write, sync, rename, sync the directory; used for `jobs.json`, `config.toml`, outputs and evidence |
| event loop | `cli/event_loop.rs`, `core/event_loop.rs` | chain length, decisions, evidence file | re-arm and run one job until a decision ends the chain |
| executors | `cli/executor.rs` | child processes | shell, codex, ao2; codex is handed the newest output of another job as context |
| delivery | `cli/delivery.rs` | `output/<id>/*.md`, `output/<id>/runs.jsonl` | a file of its own and a log line per output, webhooks with an allowlist and three attempts |
| scanner | `core/scan.rs` | none | refuse a prompt |
| configuration | `cli/config.rs`, `cli/paths.rs` | `config.toml` | read by each pass |

How they interact. Every process goes through the file. A *pass* takes the
tick lock without waiting and skips when it is taken; it keeps the lock from
before its load until its outputs are delivered. A *command* loads the table,
changes one job and saves the table, and takes no lock; `run` then makes a pass
over its one job. The event loop does the same in a chain. Inside a pass the
jobs run on threads, `max_parallel` at a time, a chunk joined before the next
is spawned.

What is hard about it: processes that overlap; a process killed between the two
saves of a pass, or a machine that loses power inside one; a save that fails
when the jobs have already run; a table that was loaded minutes before it is
saved; a wall clock that jumps; a schedule that is recomputed from different
anchors by the engine and by the commands; repeat limits that are counted in one
save and enforced in another; a chain that arms its job again whatever a user
has done to it; minutes that go through a product, a cast and two types with
limits of their own; stamps that collide; two records of one run; servers that
do not answer; and outputs of one job that become the prompt of another.

What makes each part correct:

- schedule: what is typed is read as what it says or refused; the next run lies
  after now, on the anchor's grid, and skips none;
- file writer: readers find a whole file at every moment, and after a power loss;
- tick engine: no slot fires twice, no missed slot fires late in a burst, the
  grid does not drift, a repeat limit stops the job, the outcome is durable
  before it is delivered, the lock is always given back;
- commands: what the user was told about a job stays true until he is told
  something else, and a job nobody re-armed does not fire a slot again;
- event loop: the chain stays within its limits, follows the decisions of its
  runs, touches no other job and leaves evidence;
- executors: no agent is handed an injection pattern, whoever wrote it; the first
  decision in an output is the one that counts;
- delivery: history is only added to, its two records agree, every webhook that is
  allowed gets its attempts, and the report says what became of them.

## 2. Modules

| Module | Models | State | Actions |
|---|---|---|---|
| `Schedule` | `compute_next_run` | none (operators) | |
| `FastForward` | the loop in its interval arm | arguments, cursor, result | one per statement |
| `Grammar` | `parse_schedule`, `parse_duration` and the call that follows (extends `FastForward`) | `text`, `schedule` | one per form of a schedule, refusals, panics, the call |
| `JobTable` | the job record, `Job::new` | none (operators) | |
| `DurableFile` | the abstract promise about a file that is replaced whole | `content`, `stable`, `writing` | `Begin`, `Replace`, `GiveUp`, `Settle`, `PowerLoss` |
| `AtomicWrite` | `atomic_write` and the file system below it | `target`, `ondisk`, `tmp`, `data`, `call` | one per system call, errors, kills, write-back, power loss |
| `Firing` | the abstract promise about firings | `next`, `claimed`, `log` | `Claim`, `Start`, `Forget`, `Retire` |
| `Tick` | the tick engine, the lock, the store, the callers of passes | `clock`, `disk`, `lock`, `pass` | one per step between two visible effects |
| `SharedFile` | a save next to writers that take no lock (extends `Tick`) | `lost` | |
| `Commands` | the commands next to the passes (extends `SharedFile`) | `cmd` | load and save of each command, the pass of `run` |
| `LastWord` | what becomes of what the user was told (extends `Commands`) | `heard`, `overrun` | those of `Commands`, with the history |
| `EventLoop` | event loops next to the passes (extends `SharedFile`) | `loop`, `file`, `evidence` | begin, check, arm, pass, decide, evidence |
| `UserAndLoops` | commands and event loops over the same file (extends `Commands` and `EventLoop`) | those of both | the steps of both |
| `Decision` | `parse_event_loop_decision` | none (operators) | |
| `Outputs` | executors, scanner, delivery (extends `Decision`) | `deliver`, `dir`, `log`, `pass`, `posts` | a run, a file, a log line, a post, failures, kills |

`MCGrammar`, `MCAtomicWrite`, `MCTick`, `MCCommands`, `MCEventLoop`,
`MCUserAndLoops` and `MCOutputs` give the constants their values.
`ScheduleProofs`, `GrammarProofs`, `TickProofs`, `AtomicWriteProofs`,
`CommandsProofs`, `EventLoopProofs`, `UserAndLoopsProofs` and `OutputsProofs`
hold the proofs. Operators marked
"Defect" are faults a maintainer could make; nothing uses them, they stand
beside the definitions they would replace.

### Schedule and FastForward

Instants are natural numbers and the unit is the minute, the only unit the code
adds. The interval arm is the closed form `NextOnGrid`; `FastForward` is the
code's `while next <= now { next += period }`, one iteration per step, and its
property `ComputesNextInterval` says that both agree. The minutes may be any
integer, since the code casts a stored `u64` to `i64` and guards against what
comes out. croner, which evaluates cron expressions, is the constant operator
`Occurrence` with its contract as an assumption: an occurrence strictly after
the given instant, or none.

### Grammar

A typed schedule is what the parser can tell of it: its form (`every <dur>`, a
bare duration, a timestamp, five cron fields, blank, other) and, in a duration,
its digits and its unit. The digits become a `u64`, are multiplied by the unit,
stored, cast to `i64`, turned into a `TimeDelta` and added to a `DateTime`;
`Width`, `MaxDelta` and `MaxDate` are where each of these ends. Where chrono
panics the model stops in `"panicked"`; where the product overflows both builds
are there, the one that panics and the one that wraps. A call then goes through
`FastForward`, each step of which must also keep its cursor a date. The initial
states of `FastForward` are the calls of a pass, for a stored interval.

### AtomicWrite and DurableFile

A call of `atomic_write` is five system calls, and between any two another
writer, an error, a kill or a power loss may come. The file system is a directory
(`target`, `tmp`), inodes with their content (`data`, `Torn` until all is
written), and a disk that lags behind: `ondisk` is where the name leads after a
power loss, and content that was not synced is `Torn` then. A process is its pid,
which names its temporary file, so that a new process may find the one a killed
process left. `DirSyncFails` is the best-effort sync of the directory, after
which the caller is told `Ok` all the same; `acked` counts only the calls that
did sync. `DurableFile` is what callers rely on: a call replaces the content at
most once and in one step, or gives up. Its `Replace` is what a save is in `Tick`,
`Commands` and `EventLoop`.

### Tick

`pass[t]` is the stack frame of `tick()` in process `t`; `disk` is `jobs.json`;
`lock` is the flock. The steps of a pass are cut where another process, a kill
or a failure could come between two effects:

| Action | Code |
|---|---|
| `TryLock` | `try_acquire_tick_lock`, `clock.now_utc()` (`cli/store.rs` 114, `core/tick.rs` 176) |
| `LoadNothingDue` | load, recovery, selection, early return (177-207) |
| `LoadAndAdvance` | load, recovery, selection, advance in memory (177-220) |
| `SaveAdvanced` | the first save, "the at-most-once line" (221) |
| `StartChunk`, `Finish` | `run_due`, `run_one` (296-357) |
| `SaveOutcomes` | outcomes, retirement, the second save (235-270) |
| `Deliver`, `Return` | delivery loop, report, lock dropped (272-292) |
| `StoreFails` | `?` on a load or a save |
| `Kill` | the process dies; the lock goes with it, `jobs.json` stays |
| `SetClock` | time passes, or the clock is set, forward or back |

A save is one step because `AtomicWrite` implements `DurableFile`. What this
leaves out is a power loss after a save whose directory sync failed: `atomic_write`
answers `Ok` to it, the disk may still have the old table, and a slot that was
fired would be due again. `Tick` has kills and failed saves but no power loss. The
order of the vector in `jobs.json` is left out: which due jobs share a chunk and
in which order outputs are delivered is a choice of the model. `fired` (the slots
of the runs of a job), `settled` (how many of them had their outcome saved),
`recorded` (the outputs delivered) and `faults` are history and no guard of the
code's actions reads them; `faults` bounds how many faults are tried.

### Firing

What the engine promises, without processes, locks, files or threads: each job
has one slot that may be claimed, a pass claims due slots, the next slot of a
claimed job lies after the pass, a claim is started at most once or forgotten.
`Tick` implements it with `next` read from the file, `claimed` from the queue
of the pass that holds the lock, and `log` from `fired` (`KeepsPromise`).

### SharedFile

`lost` becomes true when any save overwrites a table that its writer had not
read: `LosesUpdate` for the saves of a pass, `Overwrites` for those of commands
and chains. Both take the history from here, so that the theorems about one
carry over to the other.

### Commands

A command is a load (`LoadAdd`, `LoadChange`, which also computes the changed
table) and a `Save`, with anything in between. `run` continues with `RunTryLock`
or `RunSkips`. `base` remembers what a command loaded. `wish` is what the user
was last told about each job (that it is there and enabled, paused, or removed) or
what he can tell from its limit (`"retired"`, when the save after its last run
takes it out), `asked` the jobs he asked to run now, `taken` when a pass last
took a slot nobody has re-armed since. `AsTold` says what a word claims of a job
in a table: a removed, retired or unborn job is not in it, a paused one is and is
not enabled, an active one is and is enabled.

### LastWord

Who may undo a word. `heard[j]` are the processes that have read `jobs.json`
since the last word about job `j`; `overrun` are the jobs saved since that word by
a process that had not. A word clears both for its job. So `LastWordStands` is
about one job and one save, where `lost` of `SharedFile` becomes true once and
for all.

### EventLoop

`loop[c]` is the stack of `run_tick_loop` and `run_loop` in process `c`: the
jobs still to chain (`todo`), whether a full pass follows (`tick`), and the
locals of the chain. `LoadToArm` and `SaveArmed` are the unlocked block at the
top of the loop (`cli/event_loop.rs` 51-61), `ChainTryLock` or `ChainSkips` the
target pass (63-80), the pass itself is `Tick`'s, and `PassReturns`, `Decide`,
`LimitReached` and `WriteEvidence` follow (81-191). `Abort` is any `?`, which
leaves `run_tick_loop` as well, before its full pass. The time limit is a flag
(`Expire`), since the code measures it with a monotonic clock that has nothing
to do with `clock`; it may rise wherever the code looks at it. A decision is its
action and whether it names the goal of the chain; a run leaves one in its
output or in the decision file, or none, and any run of the job may write the
file. `ran` counts the runs a chain has started.

### UserAndLoops

Both modules at once, over the same table, passes and history `lost`. A step is
a step of `EventLoop`, with what it does to the user's history (`taken`,
`asked`, and `wish` where `run-loop` arms the job it was asked for), or a step
of a command. A process in the middle of a command makes no pass.

### Decision and Outputs

A text is the sequence of its lines, and a line is what the code can tell of it:
blank, plain, one of the two halves of an injection pattern or a whole one, the
silent gate, a decision, a decision that is malformed in one of three ways, JSON
of another kind, broken JSON. `parse_event_loop_decision`, `scan` and
`is_wake_agent_false` read such texts, and `run_one` makes them from what a child
prints. A file of `dir` is a name (stamp and suffix), the text and the status of
its run; `log` is the lines of `runs.jsonl`, where `Fragment` is a line that was
cut short and `Spoilt` what the next line becomes behind it. `pass` is
`run_one_tick` from the choice of the due jobs to its report, with the position
in the delivery loop, in the targets of a job and in the attempts of a target;
`posts` is the history of the posts. Only one pass runs at a time, which is what
`OnePassAtATime` of `Tick` says, and no other process writes below `output/`.

## 3. Runs

| Run | Instance | Asks |
|---|---|---|
| `grammar` | 12 bits, deltas up to 2000 minutes, dates up to 200, numbers at the edges of `i64` and `u64`; periods 0..6, anchors and clocks 0..14 | is a schedule read as what it says, does the loop land on the one next slot, does every call return |
| `tick` | 2 jobs, 2 processes, an interval, a cron and a once schedule, limits none and 1, instants 0..4, `max_parallel` 0, 1 fault | the engine's promises, `Firing`, are due jobs served and do passes end |
| `commands` | 2 jobs that may yet be added, limits none and 1, the daemon and 2 terminals, every command, 2 commands, 1 fault | what two unlocked writers and the passes can do to each other and to a job they do not mean, and that a run that was asked for happens |
| `event_loop` | 1 job, limits none and 1, a process that chains and one that makes full passes, 1 chain of at most 2 runs, decisions in the output (goal pinned) or in a file, 1 fault, instants 0..1 | is a chain bounded, true to its decisions, honest about its runs, and does it end |
| `user_and_loops` | 1 job that may yet be added, limits none and 1, a process that chains and a user with 1 command of any kind, 1 fault | does the user's word stand while a chain is under way |
| `atomic_write` | 2 processes, 3 writes of 2 values, 4 inodes, 2 faults | is the file whole, is a synced save durable, and `DurableFile` |
| `outputs` | a watchdog and an agent that is handed its output, 2 passes, 2 stamps, 2 webhooks on 2 hosts, the allowlist empty or with one of them, 1 fault | is history kept, does its log agree, are webhooks tried and reported, are prompts clean |

Bounds and why they are enough. `grammar` is the machine at a width where each
edge is in the instance: 34 h is the last duration below 2^11 minutes, 68 h the
last below 2^12, 3 d the first that overflows; a period of 6 in 15 instants
makes the loop iterate from 0 to 14 times. Two jobs and two processes are the
least with which passes exclude each other and one job is in a table whose other
job changes; `max_parallel` 0 is taken for 1, so that a chunk is smaller than the
queue. Instants 0..4 hold two slots of the grid of 2, a late pass, and a clock set
back; the cron expression takes the odd instants. One fault at every step covers
each single crash point; a second one is an independent repetition of the first,
and the theorems hold for any number. The runs of `tick` all fail and those of
`commands` are all silent: a pass tells no other difference between them than
that a silent output is not delivered. In `commands` each of the two jobs can be the
one a save does not mean: an add is lost to a command on the other job. The clock
stands still there, since a table is stale by what was saved and not by how late
it is, and a job becomes due because it is run; in `user_and_loops` the clock
goes on. Two commands are the least that can
overwrite each other. The VIEW of `commands` hides the histories of `Tick`, which
no property of that run reads, and of `heard` the processes that will read
`jobs.json` again before they save; repeat limits are followed in `tick` and
`event_loop`. A chain of two runs has a
first iteration and one that the first run decided on, and a repeat limit of 1
retires the job inside the chain. The VIEW of `event_loop` keeps the count of
outcomes saved (`settled`) and hides `fired`, `recorded` and `evidence`: no guard
and no property of that run reads more, so that two states with one view have the
same steps and the same answers; the view of `user_and_loops` hides what none of
its properties reads, in the same way. In `user_and_loops` a single command can come
between any two steps of the chain. In `atomic_write` two faults are a kill that
leaves a temporary file and a power loss while the next owner of its pid writes;
an inode more than the names and descriptors in use is always free. In `outputs`
the second pass is the first whose prompt has a context, two stamps can collide,
go up or go back, and three outputs of a watchdog are a pattern over two lines,
the first half of one (its second half is the agent's own prompt) and a silent
gate.

`grammar`, `atomic_write` and `outputs` switch off the deadlock check: a call ends
for good, and writes and passes are bounded. No other run does.

### Disagreements the runs show

Each of these runs checks one sentence of the repository and finds it false.

| Run | Sentence | What happens |
|---|---|---|
| `double_fire` | "the next tick never double-fires", `core/tick.rs` 9 | an edit of any field saves the table from before a pass: the slot that was fired is due again |
| `repeat_after_kill` | "Stop and delete after this many runs.", `cli/cli.rs` 107, and "stop (and delete) after `n` firings", `core/job.rs` 51 | a pass is killed, or its second save fails, after the last run of a job was counted: nothing looks at the count again, and the job runs once more at its next slot |
| `once_never_fires` | "Run **once**, at that instant", `README.md` 72 | an edit to a once schedule on a job that has fired leaves it scheduled with no next run |
| `pause_in_chain` | "Pause a job (kept, never fires until resumed)", `cli/cli.rs` 45 | the next iteration of a chain enables and arms its job without a look at it: the paused job fires |
| `no_evidence` | "writes durable event-loop status evidence after each chain", `docs/superpowers/plans/2026-06-12-codex-cron-event-loop.md` 7 | a chain that has run finds the lock taken: it ends with an error and leaves no evidence |

What does hold in the same setting is checked too. Runs whose outcome is saved
never exceed the limit: the save that records the last one takes the job out
(`RepeatBound`), also where chains arm it again (`LimitUnlessLost`). What the user
was told of a job, that it was added, paused, resumed or removed, is only undone
by a save of a process that had read `jobs.json` before he was told
(`LastWordStands`); without a save over a change its writer had not read no slot
fires again (`NoRefireUnlessLost`). Next to event loops the only other
exception is the one `pause_in_chain` shows (`UndoneByItsChainOnly`), and slots
fire twice in no other way (`NoSlotTwiceUnlessLost`). So a tick lock around each
load and save of the commands and of the chains would rule out the lost updates,
and `double_fire` with them.

One more sentence is not what the code does, by a clock that repeats a stamp or is
set back: "The most recent `<ts>.md`", `cli/executor.rs` 191. The names decide, and
`ContextIsFirstOfLatestStamp` says how: the context is of the latest stamp, however
old the run, and of the runs with that stamp it is the first and not the last,
since `-1.md` sorts before `.md`. Stamps count nanoseconds, so that a clock set back is the
likelier way there: its job's context stays an old run until the stamps have
passed it.

## 4. Fairness

`Fairness` gives weak fairness to two things: each process keeps trying to make
a pass (the daemon's loop, `cli/daemon.rs` 22-32, or the OS scheduler), and a
pass that has the lock goes on. The second one assumes that executors return.
The code sets no timeout on a child process, so a child that hangs holds the
lock for ever; that is an assumption of the runs and not a result. Nothing is
fair about the clock, faults or users. `CFairness` adds that a command, once
started, goes on, and that the daemon makes passes. `LFairness` is only that the
process that chains goes on, in its loop or in its pass: a chain ends whatever
the other processes do, since it never waits for the lock. In `Grammar` the
call goes on. In `Outputs` only the delivery loop is fair: a post is given up
after 10 seconds (`cli/delivery.rs`), while a child may run for ever, so that
`DeliveryEnds` begins where the children have ended. `AtomicWrite` and
`UserAndLoops` state no fairness.

## 5. Proofs

TLAPS checks, for every number of jobs, processes, threads, faults and every
set of schedules that meets the named assumptions of the modules, each safety
property the passing runs check. What follows is the argument of each proof
module and the inductive invariant it needs.

`ScheduleProofs` has no theorem of its own: the arithmetic of `%` and what
`compute_next_run` returns (`NextRunAfterNow`, `NextRunType`).

`GrammarProofs`. `CallInv` is the invariant of the interval loop: the target of
the cursor on the grid does not move (`IterateKeepsTarget`), and the cursor is the
first slot or has the slot before it not after now (`OnGridSoFar`).

- `LoopComputesNextInterval`, `LoopLandsOnNextSlot`: the loop returns the closed
  form, and lands on the one next slot, for the calls of `FastForward`.
- `TypedIntervalsAreComputed`, `TypedIntervalsLand`: the same for what was typed.
- `DurationsAreRead`: `ReadsTheGrammar`. `GInv` adds to `CallInv` what the text was
  read as (`TypedInv`) and that a call for it has the period it says
  (`DurationInv`). What lies within the calendar is below 2^(w-1), where neither
  `% 2^w` nor the cast changes it (`SpanIsAsked`); every panic then asks for an
  instant beyond the calendar.

`TickProofs`.

- `TypeCorrect`: `TypeOK`. It is not inductive alone: what a pass holds must be
  typed by the step it is at, and a snapshot must exist in the table (`PassOK`);
  `TypeInv` adds that.
- `PassesExclude`: `OnePassAtATime`, inductive together with the types.
- `PassesReadWhatTheyOverwrite`, `CatchesUpOnce`, `FiresAtMostOnce`:
  `FreshCopy`, `SingleCatchUp` and `AtMostOnce`, from `SafetyInv`. What a pass
  saves was computed from the file as it is, because it alone writes it while it
  has the lock; a saved slot lies after every firing so far, because an advance
  puts it after the instant of the pass (`NextRunAfterNow`) and the pass fires
  only what it has saved; so a later claim is of a later slot, and a kill in
  between only forgets a claim.
- `OutcomesAreDurable`, `RepeatsAreBounded`, `SlotsStayOnTrack`:
  `DurableBeforeDelivery`, `RepeatBound` and `NoDrift`. `CleanInv`: while the
  jobs of a pass run, the table it will save calls no other job running.
  `ViewInv`: what a pass is about to save has the schedules, limits and counts
  of the file, with its own firings added until the advance is saved.
  `CountsInv`: of a job in the table no more runs have a saved outcome than its
  count says, one less while a pass has yet to save one, and fewer than its
  limit, because the save that would make them as many takes it out; runs that
  were counted and never got an outcome are in the count alone. `TrackInv`: the
  slots that were fired, are held by a pass, or are next, are slots of the
  schedule, because the next one is computed from the last one and not from the
  clock (`NextOnGridStays`).
- `FailuresCostThemselves`: `FailureCostsOneOutput`, from `CostInv`: each step of a
  delivery either records its output or is a fault, so that the outputs left
  behind are no more than the faults.
- `ImplementsFiring`: `KeepsPromise`, that every step of the engine is a
  `Claim`, `Start`, `Forget`, `Retire` or nothing at all of `Firing`.
  `SafetyInv` is strengthened with `ClaimsAll`: between its load and its first
  save a pass has every snapshot still queued, so that this save claims exactly
  the slots it advances.
- `PromisesFireOnce`: what implements `Firing` fires no slot twice
  (`NeverAgain`), whether it is this engine or another.

`AtomicWriteProofs`.

- `FileIsWhole`, `AckedSaveIsDurable`, `ImplementsDurableFile`: `WholeFile`,
  `AckedIsDurable` and `ReplacesWhole`, for any number of processes, inodes, writes
  and faults. `FileInv` strengthens the first one: the inode a call writes is its
  own temporary file and no name of the target (`Apart`), and past its sync it
  holds the caller's value, synced (`Progress`). So a rename puts a whole and
  durable file in place, and what the disk had before stays whole. `DiskInv`
  orders the renames: what was acknowledged is no later than what is on the disk,
  and that no later than the target.

`CommandsProofs`. Commands write without the lock, so `FreshCopy` is gone and every
step of a pass must be looked at over a table it may not have read. `CommandSteps`
says once what any step does to `jobs.json`, the passes and the commands.

- `LastWordTypeCorrect`: `WTypeOK`, with `CTypeOK` (`CommandsTypeCorrect`) from
  `CTypeInv`: a command in flight holds the table it loaded with one job changed
  as it was asked to (`CmdOK`).
- `HeldJobsSaySo`: `PausedIffDisabled`, from `AgreeInv`: the two fields agree in
  every table there is, the file, the tables of passes and of commands, so
  that whoever saves last saves tables that agree.
- `UsersHaveTheLastWord`: `LastWordStands`, from `WordInv`: unless a job is
  overrun, `jobs.json` says of it what the user was told, and so does every table
  that was loaded since, by a command or by a pass (`WordAt`). A writer saves the
  job it does not mean as it has loaded it (`CommandMoves`), a pass changes of
  the jobs it takes nothing a word is about (`WordLoaded`) and removes one only
  with the word that it has retired (`WordSaved`); a word is true when it is
  given (`WordSpoken`). `BusyInv`: a process in the middle of a command makes no
  pass, so that what it has read is of one kind.
- `RearmedOrLost`: `NoRefireUnlessLost`, from `RefireInv`: the slot in the file lies
  after the last one taken, what a pass holds for the jobs it took lies after
  the pass, and no table in flight knows a job that is yet to be added
  (`BirthInv`).

`EventLoopProofs`. `LInv` relates a chain, the pass its process is in and the runs
it has started: `ChainOK` says, at each step of the chain, how many that are, and
in its pass which of the two counts holds (`PassOfChain`).

- `LoopsTypeCorrect`, `ChainsAreBounded`, `EvidenceIsTheCount`,
  `GoesOnOnlyOnItsWord`: `LTypeOK`, `ChainIsBounded`, `EvidenceCountsRuns` and
  `ContinuesOnItsWord`, from `LInv`.
- `ArmingKeepsTheLimit`: `LimitUnlessLost`, from `LimitInv`: until a save is lost,
  arming keeps the counts and the limits of the file, and `ViewInv` and `CountsInv` of
  `TickProofs` stay true.

`UserAndLoopsProofs`. A step of a loop or a pass is one the commands know, a step
of a pass or of the clock, with one exception: `SaveArmed`. So `UInv` is the
invariants of both parts and, about that one step, that a chain arms a table in
which paused and disabled agree and which has no job yet to be added
(`LoadedOK`).

- `OnlyItsChainUndoesAWord`, `ArmedAgainOrLost`: `UndoneByItsChainOnly` and
  `NoSlotTwiceUnlessLost`.
- `HeldJobsSaySoInChains`, `ChainsStayBounded`, `EvidenceStaysTheCount`,
  `ChainsStillListen`: what `Commands` and `EventLoop` promise by themselves they
  keep next to each other.

`OutputsProofs`. `BaseInv` has the types, that the names in a directory are
finitely many and distinct (`FilesOK`), that a pass on its way delivers what it
ran (`WayOK`), and that a job it has yet to deliver has no file of this pass
(`NoFileYet`).

- `HistoryIsKept`: `NeverOverwritten`; `unique_run_md` finds a free name
  (`UniqueIsFree`).
- `ContextHasTheLatestStamp`: `ContextIsFirstOfLatestStamp`, from `FirstIsBare`: a
  name has a suffix because an earlier run has its stamp without one. A directory
  has a last name (`LatestExists`), and that is always a bare stamp.
- `AgentsAreHandedCleanPrompts`: `AgentPromptsAreClean`. The scanner normalises
  a text to its words, to which blank lines add nothing (`BlanksAddNothing`), so
  that two halves with only blank lines between them are neighbours.
- `FirstDecisionStands`: `DecisionStands`, for any text (`FirstDecides`).
- `NoTargetIsPassedOver`, `ErrorsAreReported`: `EveryTargetIsTried` and
  `HookReportIsTrue`, from `HookInv`: the posts of a job are those of the
  targets behind its position and of the attempts made at the present one.
- `LogAndFilesAgree`: `LogAgreesWithFiles`, from `LogInv`: no file has two
  lines, a line has its file, and the files without a line, counted together
  with an open end of the log that will spoil the next line (`Debt`), are at
  most two per fault.

Where these go by induction over the lines of a text or the files of a
directory, they take the least natural number that would be a counterexample
(`LeastNat`, from the theorems on well-founded relations), since the
induction theorems of the library take an operator that the provers cannot
instantiate.

What a reader must believe: the assumptions named in the modules (`None` is no
integer, job, firing, line or text, croner's contract, the event-loop jobs of the
file are finitely many, `2^w` is twice `2^(w-1)`, the constants are of their
types). TLC evaluates them in every run.

Model-checked and not proved, because the prover has no support for fairness:
`Answers`, `DueJobsAreServed`, `PassesEnd`, `RunIsHonoured`,
`LoopsEnd` and `DeliveryEnds`. The disagreements of section 3 are runs only.

## 6. Not modelled, and the plan

Next:

1. Two processes that chain the same job at once, and a `tick-loop` over two
   event-loop jobs: the modules allow both and the theorems cover them; the
   instances are large.
2. Proofs: that a run that was asked for takes its job (the step behind
   `RunIsHonoured`), `RepeatBound` next to commands that change a limit or arm a
   job again, and the delivery of `Outputs` under the concurrent passes of `Tick`.
3. A power loss in `Tick` after a save whose directory sync failed, which would
   bring back the table from before the advance.

Observed and not asked, because no text of the repository settles it: a resumed
interval job starts a new grid at the wall clock; a refusal quotes its pattern,
so that a job with the refused one as its context is refused as well; a decision
file that a run did not write again is read again; a chain past its time limit
reports that even if its last run stopped it; the first event loop that fails
costs the others and the ordinary jobs the rest of that `tick-loop`, and an
event-loop job that is due again when that comes to its full pass is run there
once, as an ordinary job; a duration beyond the calendar panics or, in a release
build, may wrap to a short one.

Visible in the code without a run: a pass holds the lock while its jobs run and
while it delivers, where `docs/superpowers/specs/2026-05-29-codex-cron-design.md`
171 has it freed before.

Left out for good: permissions and the creation of directories, the text of
TOML, JSON and Markdown, the list of patterns and their case, arguments,
environment and working directory of children, the difference between the code's
own reading of a URL and a client's, redirects, injection patterns over three or
more lines, service unit files, and `list`, `show`, `doctor` and `config`, because
no property here depends on them.
