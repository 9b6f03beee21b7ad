--------------------------- MODULE CommandsProofs ---------------------------
(***************************************************************************)
(* The commands of the terminal next to the passes, for any number of      *)
(* processes, jobs, commands and faults.  A command may save in the middle *)
(* of a pass, so that nothing here rests on SafetyInv: what a pass has     *)
(* loaded is only known to be jobs.json as long as no change is lost.      *)
(***************************************************************************)
EXTENDS LastWord, TickProofs

-----------------------------------------------------------------------------
(* The job a command leaves *)

\* What the user asked for is in the job that takes the place of the old one.
Told(op, old, job) ==
    CASE op \in {"add", "resume", "run"} -> job # None /\ job.enabled
      [] op = "remove"                   -> job = None
      [] op = "pause"         -> /\ old # None /\ job # None /\ ~job.enabled
                                 /\ job.next_run_at = old.next_run_at
      [] op = "edit"          -> /\ old # None /\ job # None /\ job.enabled = old.enabled
                                 /\ job.next_run_at = old.next_run_at
      [] op = "edit_schedule" -> old # None /\ job # None /\ job.enabled = old.enabled

Agrees(job) == job # None => (job.state = "paused" <=> ~job.enabled)

LEMMA LimitedJobs ==
    ASSUME NEW job \in Job, NEW r \in Limited(job)
    PROVE  /\ r \in Job
           /\ r.enabled = job.enabled /\ r.state = job.state
           /\ r.next_run_at = job.next_run_at
<1>1. PICK n \in (Times \ {None}) \cup {job.times} : r = [job EXCEPT !.times = n]
  BY DEF Limited
<1>2. n \in Times
  BY <1>1 DEF Job
<1>3. QED
  BY <1>1, <1>2 DEF Job

LEMMA RescheduledJob ==
    ASSUME NEW job \in Job, NEW s \in Schedules, NEW now \in Instants
    PROVE  /\ Rescheduled(job, s, now) \in Job
           /\ Rescheduled(job, s, now).enabled = job.enabled
           /\ Rescheduled(job, s, now).state = job.state
<1> DEFINE next == compute_next_run(s, job.last_run_at, now)
<1>1. next \in OptInstant
  BY NextRunType, SchedulesAssumption DEF Job
<1>2. Rescheduled(job, s, now) = [job EXCEPT !.next_run_at = next, !.schedule = s]
  BY DEF Rescheduled
<1> HIDE DEF next
<1>3. QED
  BY <1>1, <1>2 DEF Job

LEMMA ResumedJob ==
    ASSUME NEW job \in Job, NEW now \in Instants
    PROVE  /\ Resumed(job, now) \in Job
           /\ Resumed(job, now).enabled /\ Resumed(job, now).state = "scheduled"
<1> DEFINE next == compute_next_run(job.schedule, job.last_run_at, now)
<1>1. next \in OptInstant
  BY NextRunType, SchedulesAssumption DEF Job
<1>2. Resumed(job, now) = [job EXCEPT !.enabled = TRUE, !.state = "scheduled",
                                      !.next_run_at = next]
  BY DEF Resumed
<1> HIDE DEF next
<1>3. QED
  BY <1>1, <1>2 DEF Job, JobState

\* What a command makes of the job it found.
LEMMA ResultsTold ==
    ASSUME NEW op \in AllOps \ {"add"}, NEW job \in Job, NEW now \in Instants,
           NEW r \in Results(op, job, now)
    PROVE  /\ r \in Job \cup {None}
           /\ Told(op, job, r)
           /\ Agrees(job) => Agrees(r)
<1> now \in Nat /\ job # None
  BY InstantsAreNat, NoneIsNoJob
<1>1. CASE op = "edit"
  <2>1. r \in Limited(job)
    BY <1>1 DEF Results
  <2>2. QED
    BY <1>1, <2>1, LimitedJobs, NoneIsNoJob DEF Told, Agrees
<1>2. CASE op = "edit_schedule"
  <2>1. PICK s \in Schedules : r \in Limited(Rescheduled(job, s, now))
    BY <1>2 DEF Results
  <2>2. QED
    BY <1>2, <2>1, LimitedJobs, RescheduledJob, NoneIsNoJob DEF Told, Agrees
<1>3. CASE op = "remove"
  BY <1>3 DEF Results, Told, Agrees
<1>4. CASE op = "pause"
  <2>1. r = Paused(job)
    BY <1>4 DEF Results
  <2>2. /\ r \in Job /\ ~r.enabled /\ r.state = "paused"
        /\ r.next_run_at = job.next_run_at
    BY <2>1 DEF Paused, Job, JobState
  <2>3. QED
    BY <1>4, <2>2, NoneIsNoJob DEF Told, Agrees
<1>5. CASE op = "resume"
  <2>1. r = Resumed(job, now)
    BY <1>5 DEF Results
  <2>2. r \in Job /\ r.enabled /\ r.state = "scheduled"
    BY <2>1, ResumedJob
  <2>3. QED
    BY <1>5, <2>2, NoneIsNoJob DEF Told, Agrees
<1>6. CASE op = "run"
  <2>1. r = ArmedNow(job, now)
    BY <1>6 DEF Results
  <2>2. r \in Job /\ r.enabled /\ r.state = "scheduled"
    BY <2>1 DEF ArmedNow, Job, JobState, OptInstant
  <2>3. QED
    BY <1>6, <2>2, NoneIsNoJob DEF Told, Agrees
<1>7. QED
  BY <1>1, <1>2, <1>3, <1>4, <1>5, <1>6 DEF AllOps

LEMMA NewJobTold ==
    ASSUME NEW s \in Schedules, NEW n \in Times, NEW now \in Instants, NEW old
    PROVE  /\ NewJob(s, n, now) \in Job
           /\ Told("add", old, NewJob(s, n, now))
           /\ Agrees(NewJob(s, n, now))
<1>1. NewJob(s, n, now) \in Job /\ NewJob(s, n, now) # None
  BY NewJobType, NoneIsNoJob
<1>2. NewJob(s, n, now).enabled /\ NewJob(s, n, now).state = "scheduled"
  BY DEF NewJob
<1>3. QED
  BY <1>1, <1>2 DEF Told, Agrees

-----------------------------------------------------------------------------
(* Types, and what any step does.  A command in flight has the table it     *)
(* loaded, with the one job changed as the user asked for.                  *)

CmdOK(c) ==
    /\ cmd[c].pc # "idle" => cmd[c].target \in Jobs
    /\ cmd[c].pc = "loaded" =>
           LET j == cmd[c].target
           IN  /\ cmd[c].op \in AllOps
               /\ \A k \in Jobs \ {j} : cmd[c].jobs[k] = cmd[c].base[k]
               /\ Told(cmd[c].op, cmd[c].base[j], cmd[c].jobs[j])

CTypeInv ==
    /\ TypeInv
    /\ CTypeOK
    /\ \A c \in Cmds : CmdOK(c)

\* The job that a command puts in the place of job j as it is now.
Replaces(c, op, j, job) ==
    /\ Free(c)
    /\ \/ /\ op = "add"
          /\ wish[j] = "unborn"
          /\ \A d \in Cmds : cmd[d].target # j
          /\ \E s \in Schedules, n \in Times : job = NewJob(s, n, clock)
       \/ /\ op \in AllOps \ {"add"}
          /\ disk[j] # None
          /\ job \in Results(op, disk[j], clock)

Loads(c, op, j, job) ==
    Replaces(c, op, j, job) /\ Loaded(c, op, j, job) /\ UNCHANGED wish

Drops(c) == cmd' = [cmd EXCEPT ![c] = NoCommand]

\* The steps of the system, by what they do to jobs.json, the passes and the
\* commands.
LEMMA CommandSteps ==
    ASSUME CTypeInv, [CNext]_allVars
    PROVE  \/ UNCHANGED <<disk, lock, pass, fired, cmdVars>> /\ (SetClock \/ UNCHANGED vars)
           \/ \E t \in Ticks, targets \in SUBSET Jobs :
                  /\ TryLock(t, targets)
                  /\ (t \notin Cmds /\ cmd' = cmd) \/ (t \in Cmds /\ Drops(t))
                  /\ UNCHANGED <<issued, wish, taken, asked, lost>>
           \/ \E t \in Ticks : PassWorks(t)
           \/ \E t \in Ticks : Fault(t) /\ UNCHANGED cmdVars
           \/ \E c \in Cmds, op \in AllOps, j \in Jobs : \E job : Loads(c, op, j, job)
           \/ \E c \in Cmds : Save(c)
           \/ \E c \in Cmds :
                  /\ Drops(c)
                  /\ faults' = faults \/ (faults < MaxFaults /\ faults' = faults + 1)
                  /\ UNCHANGED <<clock, disk, lock, pass, fired, settled, recorded,
                                 issued, wish, taken, asked, lost>>
<1>1. CASE SetClock /\ UNCHANGED cmdVars
  BY <1>1 DEF SetClock
<1>2. ASSUME NEW c \in Cmds, NEW j \in Jobs, LoadAdd(c, j)
      PROVE  \E job : Loads(c, "add", j, job)
  BY <1>2 DEF LoadAdd, Loads, Replaces
<1>3. ASSUME NEW c \in Cmds, NEW op \in AllOps, NEW j \in Jobs, LoadChange(c, op, j)
      PROVE  \E job : Loads(c, op, j, job)
  BY <1>3 DEF LoadChange, Loads, Replaces
<1>4. ASSUME NEW c \in Cmds, RunTryLock(c)
      PROVE  /\ TryLock(c, {cmd[c].target}) /\ {cmd[c].target} \in SUBSET Jobs /\ Drops(c)
             /\ UNCHANGED <<issued, wish, taken, asked, lost>>
  BY <1>4 DEF RunTryLock, Drops, CTypeInv, CmdOK
<1>5. ASSUME NEW c \in Cmds, RunSkips(c) \/ CommandDies(c)
      PROVE  /\ Drops(c)
             /\ faults' = faults \/ (faults < MaxFaults /\ faults' = faults + 1)
             /\ UNCHANGED <<clock, disk, lock, pass, fired, settled, recorded,
                            issued, wish, taken, asked, lost>>
  BY <1>5 DEF RunSkips, CommandDies, Drops, vars
<1>6. ASSUME NEW t \in Daemons, TryLock(t, Jobs), UNCHANGED cmdVars
      PROVE  /\ t \in Ticks \ Cmds /\ TryLock(t, Jobs) /\ Jobs \in SUBSET Jobs /\ cmd' = cmd
             /\ UNCHANGED <<issued, wish, taken, asked, lost>>
  BY <1>6 DEF Daemons, cmdVars
<1>7. CASE UNCHANGED allVars
  BY <1>7 DEF allVars, vars
<1>8. "add" \in AllOps /\ Cmds \subseteq Ticks
  BY CmdsAssumption DEF AllOps
<1>9. QED
  BY <1>1, <1>2, <1>3, <1>4, <1>5, <1>6, <1>7, <1>8 DEF CNext

LEMMA LoadedCommand ==
    ASSUME CTypeInv, NEW c \in Cmds, NEW op \in AllOps, NEW j \in Jobs, NEW job,
           Loads(c, op, j, job)
    PROVE  /\ job \in Job \cup {None}
           /\ Told(op, disk[j], job)
           /\ Agrees(disk[j]) => Agrees(job)
           /\ cmd' \in [Cmds -> Command]
           /\ cmd'[c].pc = "loaded" /\ cmd'[c].op = op /\ cmd'[c].target = j
           /\ cmd'[c].base = disk /\ cmd'[c].jobs[j] = job
           /\ \A k \in Jobs \ {j} : cmd'[c].jobs[k] = disk[k]
           /\ \A d \in Cmds \ {c} : cmd'[d] = cmd[d]
           /\ UNCHANGED <<vars, wish, taken, asked, lost>>
<1>1. clock \in Instants /\ disk \in Table /\ cmd \in [Cmds -> Command]
  BY DEF CTypeInv, CTypeOK, TypeOK
<1>2. job \in Job \cup {None} /\ Told(op, disk[j], job) /\ (Agrees(disk[j]) => Agrees(job))
  <2>1. CASE op = "add"
    BY <1>1, <2>1, NewJobTold DEF Loads, Replaces
  <2>2. CASE op # "add"
    <3>1. disk[j] \in Job /\ job \in Results(op, disk[j], clock)
      BY <1>1, <2>2 DEF Loads, Replaces, Table
    <3>2. QED
      BY <1>1, <2>2, <3>1, ResultsTold
  <2>3. QED
    BY <2>1, <2>2
<1> DEFINE table == [disk EXCEPT ![j] = job]
<1>3. table \in Table /\ table[j] = job /\ \A k \in Jobs \ {j} : table[k] = disk[k]
  BY <1>1, <1>2 DEF Table
<1>4. cmd' = [cmd EXCEPT ![c] = [pc |-> "loaded", op |-> op, target |-> j,
                                 base |-> disk, jobs |-> table]]
  BY DEF Loads, Loaded
<1> HIDE DEF table
<1>5. [pc |-> "loaded", op |-> op, target |-> j, base |-> disk, jobs |-> table] \in Command
  BY <1>1, <1>3 DEF Command
<1>6. UNCHANGED <<vars, wish, taken, asked, lost>>
  BY DEF Loads, Loaded
<1>7. QED
  BY <1>1, <1>2, <1>3, <1>4, <1>5, <1>6

LEMMA DroppedCommand ==
    ASSUME CTypeInv, NEW c \in Cmds, Drops(c)
    PROVE  /\ cmd' \in [Cmds -> Command]
           /\ cmd'[c] = NoCommand
           /\ \A d \in Cmds \ {c} : cmd'[d] = cmd[d]
<1>1. NoCommand \in Command
  BY DEF NoCommand, Command, NoTable, Table
<1>2. QED
  BY <1>1 DEF CTypeInv, CTypeOK, Drops

\* A save puts the table of the command in the place of jobs.json, and tells
\* the user.
LEMMA SavedCommand ==
    ASSUME CTypeInv, NEW c \in Cmds, Save(c)
    PROVE  LET op == cmd[c].op
               j  == cmd[c].target
           IN  /\ op \in AllOps /\ j \in Jobs /\ cmd[c].pc = "loaded"
               /\ disk' = cmd[c].jobs /\ disk' \in Table
               /\ \A k \in Jobs \ {j} : disk'[k] = cmd[c].base[k]
               /\ Told(op, cmd[c].base[j], disk'[j])
               /\ cmd' \in [Cmds -> Command]
               /\ cmd'[c].pc \in {"idle", "saved"} /\ cmd'[c].jobs = NoTable
               /\ cmd'[c].pc = "saved" => op = "run" /\ cmd'[c].target = j
               /\ \A d \in Cmds \ {c} : cmd'[d] = cmd[d]
               /\ wish' \in [Jobs -> Wishes]
               /\ wish'[j] = WishAfter(op, wish[j])
               /\ \A k \in Jobs \ {j} : wish'[k] = wish[k]
               /\ lost' = (lost \/ disk # cmd[c].base)
               /\ UNCHANGED <<pass, fired>>
<1> DEFINE op == cmd[c].op
           j  == cmd[c].target
           next == IF op = "run" THEN [NoCommand EXCEPT !.pc = "saved", !.target = j]
                                 ELSE NoCommand
<1>1. /\ cmd[c].pc = "loaded" /\ j \in Jobs /\ op \in AllOps
      /\ cmd[c] \in Command /\ cmd \in [Cmds -> Command] /\ wish \in [Jobs -> Wishes]
      /\ \A k \in Jobs \ {j} : cmd[c].jobs[k] = cmd[c].base[k]
      /\ Told(op, cmd[c].base[j], cmd[c].jobs[j])
  BY DEF Save, CTypeInv, CTypeOK, CmdOK
<1>2. disk' = cmd[c].jobs /\ disk' \in Table
  BY <1>1 DEF Save, Command
<1>3. /\ next \in Command /\ next.pc \in {"idle", "saved"} /\ next.jobs = NoTable
      /\ next.pc = "saved" => op = "run" /\ next.target = j
  BY <1>1 DEF NoCommand, Command, NoTable, Table
<1>4. cmd' = [cmd EXCEPT ![c] = next]
  BY DEF Save
<1> HIDE DEF next
<1>5. WishAfter(op, wish[j]) \in Wishes
  BY <1>1 DEF WishAfter, Wishes, AllOps
<1>6. wish' = [wish EXCEPT ![j] = WishAfter(op, wish[j])]
  BY DEF Save
<1>7. lost' = (lost \/ disk # cmd[c].base) /\ UNCHANGED <<pass, fired>>
  BY DEF Save, Overwrites
<1>8. QED
  BY <1>1, <1>2, <1>3, <1>4, <1>5, <1>6, <1>7

LEMMA PassWorksTypes ==
    ASSUME CTypeInv, NEW t \in Ticks, PassWorks(t)
    PROVE  CTypeInv'
<1>1. TypeInv' /\ pass[t].now \in Nat
  BY TypeInductive, InstantsAreNat DEF CTypeInv, PassWorks, Next, TypeInv, TypeOK, Pass
<1>2. taken' \in [Jobs -> OptInstant] /\ asked' \subseteq Jobs /\ lost' \in BOOLEAN
  BY <1>1 DEF PassWorks, LosesUpdate, CTypeInv, CTypeOK, OptInstant
<1>3. UNCHANGED <<cmd, issued>> /\ wish' \in [Jobs -> Wishes]
  BY DEF PassWorks, CTypeInv, CTypeOK, Wishes
<1>4. QED
  BY <1>1, <1>2, <1>3 DEF CTypeInv, CTypeOK, CmdOK, TypeInv

LEMMA CTypeInductive ==
    ASSUME CTypeInv, [CNext]_allVars
    PROVE  CTypeInv'
<1>1. CASE UNCHANGED cmdVars /\ (SetClock \/ UNCHANGED vars)
  <2>1. TypeInv'
    BY <1>1, TypeInductive DEF CTypeInv, Next
  <2>2. QED
    BY <1>1, <2>1 DEF CTypeInv, CTypeOK, CmdOK, TypeInv, cmdVars
<1>2. ASSUME NEW t \in Ticks, NEW targets \in SUBSET Jobs, TryLock(t, targets),
             cmd' = cmd \/ (t \in Cmds /\ Drops(t)),
             UNCHANGED <<issued, wish, taken, asked, lost>>
      PROVE  CTypeInv'
  <2>1. TypeInv'
    BY <1>2, TryLockType DEF CTypeInv
  <2>2. cmd' \in [Cmds -> Command] /\ \A c \in Cmds : CmdOK(c)'
    BY <1>2, DroppedCommand DEF CTypeInv, CTypeOK, CmdOK, NoCommand
  <2>3. QED
    BY <1>2, <2>1, <2>2 DEF CTypeInv, CTypeOK, TypeInv
<1>3. ASSUME NEW t \in Ticks, PassWorks(t) PROVE CTypeInv'
  BY <1>3, PassWorksTypes
<1>4. ASSUME NEW t \in Ticks, Fault(t), UNCHANGED cmdVars PROVE CTypeInv'
  <2>1. TypeInv'
    BY <1>4, TypeInductive DEF CTypeInv, Next
  <2>2. QED
    BY <1>4, <2>1 DEF CTypeInv, CTypeOK, CmdOK, TypeInv, cmdVars
<1>5. ASSUME NEW c \in Cmds, NEW op \in AllOps, NEW j \in Jobs, NEW job,
             Loads(c, op, j, job)
      PROVE  CTypeInv'
  <2>1. TypeInv'
    BY <1>5, TypeInductive DEF CTypeInv, Loads, Loaded
  <2>2. issued' \in 0..MaxCommands
    BY <1>5, MaxCommandsAssumption DEF CTypeInv, CTypeOK, Loads, Replaces, Free, Loaded
  <2>3. \A d \in Cmds : CmdOK(d)'
    BY <1>5, LoadedCommand DEF CTypeInv, CmdOK
  <2>4. QED
    BY <1>5, <2>1, <2>2, <2>3, LoadedCommand DEF CTypeInv, CTypeOK, TypeInv
<1>6. ASSUME NEW c \in Cmds, Save(c) PROVE CTypeInv'
  <2>1. disk' \in Table /\ UNCHANGED <<clock, lock, pass, fired, settled, recorded, faults>>
    BY <1>6, SavedCommand DEF Save
  <2>2. TypeInv'
    BY <2>1 DEF CTypeInv, TypeInv, TypeOK
  <2>3. \A d \in Cmds : CmdOK(d)'
    BY <1>6, SavedCommand DEF CTypeInv, CmdOK
  <2>4. taken' \in [Jobs -> OptInstant] /\ asked' \subseteq Jobs /\ lost' \in BOOLEAN
    <3>1. cmd[c].target \in Jobs /\ asked \subseteq Jobs /\ taken \in [Jobs -> OptInstant]
      BY <1>6, SavedCommand DEF CTypeInv, CTypeOK
    <3>2. asked' \subseteq asked \cup {cmd[c].target}
      BY <1>6 DEF Save
    <3>3. taken' \in [Jobs -> OptInstant] /\ lost' \in BOOLEAN
      BY <1>6, <3>1 DEF Save, Overwrites, OptInstant, CTypeInv, CTypeOK
    <3>4. QED
      BY <3>1, <3>2, <3>3
  <2>5. QED
    BY <1>6, <2>2, <2>3, <2>4, SavedCommand DEF Save, CTypeInv, CTypeOK, TypeInv
<1>7. ASSUME NEW c \in Cmds, Drops(c),
             faults' = faults \/ (faults < MaxFaults /\ faults' = faults + 1),
             UNCHANGED <<clock, disk, lock, pass, fired, settled, recorded,
                         issued, wish, taken, asked, lost>>
      PROVE  CTypeInv'
  <2>1. TypeInv'
    <3>1. faults' \in 0..MaxFaults
      BY <1>7, MaxFaultsAssumption DEF CTypeInv, TypeInv, TypeOK
    <3>2. QED
      BY <1>7, <3>1 DEF CTypeInv, TypeInv, TypeOK
  <2>2. \A d \in Cmds : CmdOK(d)'
    BY <1>7, DroppedCommand DEF CTypeInv, CmdOK, NoCommand
  <2>3. QED
    BY <1>7, <2>1, <2>2, DroppedCommand DEF CTypeInv, CTypeOK, TypeInv
<1>8. QED
  BY <1>1, <1>2, <1>3, <1>4, <1>5, <1>6, <1>7, CommandSteps

LEMMA CTypeInit == CInit => CTypeInv
<1> SUFFICES ASSUME CInit PROVE CTypeInv
  OBVIOUS
<1>1. disk \in Table
  BY NewJobType, InstantsAreNat DEF CInit, Table
<1>2. TypeInv
  BY <1>1, InstantsAreNat, IdleType, IdlePassOK, MaxFaultsAssumption
  DEF CInit, TypeInv, TypeOK
<1>3. cmd \in [Cmds -> Command] /\ \A c \in Cmds : CmdOK(c)
  BY DEF CInit, NoCommand, Command, NoTable, Table, CmdOK
<1>4. issued \in 0..MaxCommands
  BY MaxCommandsAssumption DEF CInit
<1>5. wish \in [Jobs -> Wishes] /\ taken \in [Jobs -> OptInstant]
  BY DEF CInit, Wishes, OptInstant
<1>6. QED
  BY <1>2, <1>3, <1>4, <1>5 DEF CInit, CTypeInv, CTypeOK, TypeInv

\* Whoever saves over whom, jobs.json only ever holds well-formed jobs.
THEOREM CommandsTypeCorrect == CSpec => []CTypeOK
<1>1. CTypeInv /\ [CNext]_allVars => CTypeInv'
  BY CTypeInductive
<1>2. CTypeInv => CTypeOK
  BY DEF CTypeInv
<1>3. QED
  BY <1>1, <1>2, CTypeInit, PTL DEF CSpec

-----------------------------------------------------------------------------
(* One writer at a time holds for the passes of commands too. *)

LEMMA CommandsOnePass ==
    ASSUME CTypeInv, OnePassAtATime, [CNext]_allVars
    PROVE  OnePassAtATime'
<1> TypeInv
  BY DEF CTypeInv
<1>1. ASSUME NEW t \in Ticks, NEW targets \in SUBSET Jobs, TryLock(t, targets)
      PROVE  OnePassAtATime'
  BY <1>1, OnePassTryLock
<1>2. ASSUME NEW t \in Ticks, Work(t) \/ Fault(t) PROVE OnePassAtATime'
  BY <1>2, OnePassInductive DEF Next
<1>3. CASE UNCHANGED <<lock, pass>>
  BY <1>3 DEF OnePassAtATime
<1>4. QED
  BY <1>1, <1>2, <1>3, CommandSteps DEF PassWorks, Loads, Loaded, Save, vars

-----------------------------------------------------------------------------
(* The two fields that say a job is held.  They agree in jobs.json and in   *)
(* every table that is loaded: a pass only takes enabled jobs, and the jobs *)
(* it has taken are the ones it says are running.                           *)

Agreed(table) == \A j \in Jobs : Agrees(table[j])

AgreeInv ==
    /\ Agreed(disk)
    /\ \A t \in Ticks : Agreed(pass[t].jobs)
    /\ \A t \in Ticks : \A j \in Snapshots(t) : pass[t].jobs[j].state = "running"
    /\ \A c \in Cmds : Agreed(cmd[c].jobs)

LEMMA NoTableAgrees == Agreed(NoTable)
BY DEF Agreed, Agrees, NoTable

LEMMA RecoveredAgrees ==
    ASSUME NEW table \in Table, Agreed(table), NEW j \in Jobs
    PROVE  Agrees(Recovered(table)[j])
<1>1. CASE table[j] = None
  BY <1>1, RecoveredType DEF Agrees
<1>2. CASE table[j] # None
  BY <1>2, RecoveredFields DEF Agreed, Agrees
<1>3. QED
  BY <1>1, <1>2

LEMMA AgreePass ==
    ASSUME CTypeInv, OnePassAtATime, AgreeInv, NEW t \in Ticks, Work(t) \/ Fault(t),
           cmd' = cmd
    PROVE  AgreeInv'
<1> DEFINE TakenRun == \A j \in Snapshots(t) : pass[t].jobs[j].state = "running"
<1>1. TypeInv /\ disk \in Table /\ pass[t] \in Pass /\ PassOK(pass[t])
  BY DEF CTypeInv, TypeInv, TypeOK
<1>2. Agreed(disk) /\ Agreed(pass[t].jobs) /\ TakenRun
  BY DEF AgreeInv
<1>3. \A u \in Ticks \ {t} : pass'[u] = pass[u]
  BY <1>1, HolderSteps
<1>4. SUFFICES Agreed(disk') /\ Agreed(pass'[t].jobs) /\ TakenRun'
  BY <1>3 DEF AgreeInv, Snapshots
<1>5. CASE LoadAndAdvance(t)
  <2>1. disk' = disk
    BY <1>1, <1>5, LoadedJobs
  <2>2. ASSUME NEW j \in Snapshots(t)'
        PROVE  Agrees(pass'[t].jobs[j]) /\ pass'[t].jobs[j].state = "running"
    <3>1. j \in Jobs /\ disk[j] # None /\ disk[j].enabled
      BY <1>1, <1>5, LoadedJobs DEF IsDue, Snapshots
    <3>2. pass'[t].jobs[j] = Advanced(Recovered(disk)[j], pass[t].now)
      BY <1>1, <1>5, LoadedJobs
    <3>3. Recovered(disk)[j] \in Job /\ Recovered(disk)[j].enabled
      BY <1>1, <3>1, RecoveredFields
    <3>4. QED
      BY <3>2, <3>3, AdvancedFields DEF Agrees
  <2>3. ASSUME NEW j \in Jobs \ Snapshots(t)' PROVE Agrees(pass'[t].jobs[j])
    BY <1>1, <1>2, <1>5, LoadedJobs, RecoveredAgrees
  <2>4. QED
    BY <1>2, <2>1, <2>2, <2>3 DEF Agreed
<1>6. CASE pass'[t] = Idle /\ disk' = disk
  <2>1. pass'[t].jobs = NoTable /\ Snapshots(t)' = {}
    BY <1>6 DEF Idle, NoSlot, Snapshots
  <2>2. QED
    BY <1>2, <1>6, <2>1, NoTableAgrees
<1>7. CASE pass'[t].jobs = pass[t].jobs /\ pass'[t].slot = pass[t].slot /\ disk' = disk
  BY <1>2, <1>7 DEF Snapshots
<1>8. CASE pass'[t].jobs = pass[t].jobs /\ pass'[t].slot = pass[t].slot /\ SaveAdvanced(t)
  BY <1>2, <1>8 DEF Snapshots, SaveAdvanced
<1>9. CASE pass'[t].jobs = pass[t].jobs /\ pass'[t].slot = pass[t].slot /\ SaveOutcomes(t)
  <2>1. ASSUME NEW j \in Snapshots(t) PROVE Agrees(disk'[j])
    <3>1. j \in Jobs /\ pass[t].jobs[j] \in Job
          /\ pass[t].outcome[j] \in RunStatus \cup {None}
      BY <1>1 DEF Snapshots, PassOK, Pass, Table
    <3>2. disk'[j] = Settled(pass[t].jobs[j], pass[t].outcome[j])
      BY <1>9, <3>1 DEF SaveOutcomes
    <3>3. pass[t].jobs[j].enabled
      BY <1>2, <3>1, NoneIsNoJob DEF Agreed, Agrees
    <3>4. QED
      BY <3>1, <3>2, <3>3, SettledFields DEF Agrees
  <2>2. \A j \in Jobs \ Snapshots(t) : disk'[j] = pass[t].jobs[j]
    BY <1>9 DEF SaveOutcomes
  <2>3. Agreed(disk')
    BY <1>2, <2>1, <2>2 DEF Agreed
  <2>4. QED
    BY <1>2, <1>9, <2>3 DEF Snapshots
<1>10. QED
  BY <1>1, <1>5, <1>6, <1>7, <1>8, <1>9, PassSteps

LEMMA AgreeTryLock ==
    ASSUME CTypeInv, OnePassAtATime, AgreeInv, NEW t \in Ticks, NEW targets \in SUBSET Jobs,
           TryLock(t, targets), cmd' = cmd \/ (t \in Cmds /\ Drops(t))
    PROVE  AgreeInv'
<1>1. /\ pass'[t].jobs = NoTable /\ pass'[t].slot = NoSlot /\ disk' = disk
      /\ \A u \in Ticks \ {t} : pass'[u] = pass[u]
  BY OnePassTryLock DEF CTypeInv
<1>2. Snapshots(t)' = {} /\ \A u \in Ticks \ {t} : Snapshots(u)' = Snapshots(u)
  BY <1>1 DEF Snapshots, NoSlot
<1>3. \A c \in Cmds : Agreed(cmd'[c].jobs)
  BY DroppedCommand, NoTableAgrees DEF AgreeInv, NoCommand
<1>4. QED
  BY <1>1, <1>2, <1>3, NoTableAgrees DEF AgreeInv

LEMMA AgreeInductive ==
    ASSUME CTypeInv, OnePassAtATime, AgreeInv, [CNext]_allVars
    PROVE  AgreeInv'
<1>1. ASSUME UNCHANGED <<disk, pass>>, \A c \in Cmds : Agreed(cmd'[c].jobs)
      PROVE  AgreeInv'
  BY <1>1 DEF AgreeInv, Snapshots
<1>2. NoCommand.jobs = NoTable
  BY DEF NoCommand
<1>4. ASSUME NEW c \in Cmds, NEW op \in AllOps, NEW j \in Jobs, NEW job,
             Loads(c, op, j, job)
      PROVE  AgreeInv'
  <2>1. Agreed(cmd'[c].jobs)
    BY <1>4, LoadedCommand DEF AgreeInv, Agreed
  <2>2. UNCHANGED <<disk, pass>> /\ \A d \in Cmds \ {c} : cmd'[d] = cmd[d]
    BY <1>4, LoadedCommand DEF vars
  <2>3. QED
    BY <1>1, <2>1, <2>2 DEF AgreeInv
<1>5. ASSUME NEW c \in Cmds, Save(c) PROVE AgreeInv'
  BY <1>5, SavedCommand, NoTableAgrees DEF AgreeInv, Snapshots
<1>6. ASSUME NEW c \in Cmds, Drops(c), UNCHANGED <<disk, pass>> PROVE AgreeInv'
  BY <1>1, <1>2, <1>6, DroppedCommand, NoTableAgrees DEF AgreeInv
<1>7. ASSUME UNCHANGED <<disk, pass, cmd>> PROVE AgreeInv'
  BY <1>1, <1>7 DEF AgreeInv
<1>8. QED
  BY <1>4, <1>5, <1>6, <1>7, AgreeTryLock, AgreePass, CommandSteps DEF PassWorks, cmdVars

LEMMA AgreeInit == CInit => AgreeInv
<1> SUFFICES ASSUME CInit PROVE AgreeInv
  OBVIOUS
<1>1. Agreed(disk)
  <2>1. 0 \in Instants
    BY InstantsAreNat
  <2>2. \A s \in Schedules, n \in Times : Agrees(NewJob(s, n, 0))
    BY <2>1, NewJobTold
  <2>3. ASSUME NEW j \in Jobs PROVE Agrees(disk[j])
    <3>1. disk[j] \in {None} \cup {NewJob(s, n, 0) : s \in Schedules, n \in Times}
      BY DEF CInit
    <3>2. CASE disk[j] = None
      BY <3>2 DEF Agrees
    <3>3. QED
      BY <2>2, <3>1, <3>2
  <2>4. QED
    BY <2>3 DEF Agreed
<1>2. QED
  BY <1>1, NoTableAgrees DEF CInit, AgreeInv, Idle, NoSlot, Snapshots, NoCommand

-----------------------------------------------------------------------------
(* The last word of the user.  Whoever reads jobs.json finds the last word   *)
(* there, and changes nothing the user was told of unless the user says so.  *)

\* A process runs one command or makes one pass, and not both.
BusyInv == \A c \in Cmds : cmd[c].pc # "idle" => pass[c].pc = "idle"

\* As long as nobody has saved an older table over it, the last word is in
\* jobs.json and in every table that was loaded since.
WordAt(j) ==
    j \notin overrun =>
        /\ KeepsWish(j)
        /\ \A c \in Cmds :
               cmd[c].pc = "loaded" /\ c \in heard[j] => AsTold(wish[j], cmd[c].base[j])
        /\ \A t \in Ticks :
               pass[t].pc \in {"advanced", "running"} /\ t \in heard[j]
                   => AsTold(wish[j], pass[t].jobs[j])

WordInv == \A j \in Jobs : WordAt(j)

\* What a step does to a command and to a pass.
CommandsMove ==
    \A c \in Cmds :
        /\ \/ cmd'[c] = cmd[c]
           \/ cmd'[c].pc # "loaded"
           \/ cmd'[c].pc = "loaded" /\ cmd'[c].base = disk /\ pass[c].pc = "idle"
        /\ cmd[c].pc = "idle" /\ cmd'[c].pc = "loaded" => pass' = pass /\ pass[c].pc = "idle"

PassesMove ==
    \A t \in Ticks :
        \/ pass'[t].pc \notin {"advanced", "running"}
        \/ LoadAndAdvance(t) /\ TypeInv'
        \/ pass'[t].jobs = pass[t].jobs /\ pass[t].pc \in {"advanced", "running"}

LEMMA CommandMoves ==
    ASSUME CTypeInv, [CNext]_allVars
    PROVE  CommandsMove
<1>1. \A c \in Cmds : NoCommand.pc # "loaded" /\ cmd[c].pc \in {"idle", "loaded", "saved"}
  BY DEF NoCommand, CTypeInv, CTypeOK, Command
<1>2. ASSUME cmd' = cmd \/ \E c \in Cmds : Drops(c) PROVE CommandsMove
  BY <1>1, <1>2, DroppedCommand DEF CommandsMove
<1>3. ASSUME NEW c \in Cmds, NEW op \in AllOps, NEW j \in Jobs, NEW job, Loads(c, op, j, job)
      PROVE  CommandsMove
  <2>1. pass' = pass /\ pass[c].pc = "idle"
    BY <1>3, LoadedCommand DEF vars, Loads, Replaces, Free
  <2>2. QED
    BY <1>3, <2>1, LoadedCommand DEF CommandsMove
<1>4. ASSUME NEW c \in Cmds, Save(c) PROVE CommandsMove
  BY <1>4, SavedCommand DEF CommandsMove
<1>5. QED
  BY <1>2, <1>3, <1>4, CommandSteps DEF PassWorks, cmdVars

LEMMA PassMoves ==
    ASSUME CTypeInv, OnePassAtATime, [CNext]_allVars
    PROVE  PassesMove
<1>1. TypeInv /\ CTypeInv'
  BY CTypeInductive DEF CTypeInv
<1>2. \A t \in Ticks : pass[t].pc \in {"idle", "locked", "advanced", "running", "delivering"}
  BY <1>1 DEF TypeInv, TypeOK, Pass
<1>3. ASSUME pass' = pass PROVE PassesMove
  BY <1>3 DEF PassesMove
<1>4. ASSUME NEW t \in Ticks, NEW targets, TryLock(t, targets) PROVE PassesMove
  BY <1>1, <1>4, OnePassTryLock DEF PassesMove
<1>5. ASSUME NEW t \in Ticks, Work(t) \/ Fault(t) PROVE PassesMove
  <2>1. \A u \in Ticks \ {t} : pass'[u].pc = "idle"
    BY <1>1, <1>5, HolderSteps
  <2>2. \/ pass'[t].pc \notin {"advanced", "running"}
        \/ LoadAndAdvance(t)
        \/ pass'[t].jobs = pass[t].jobs /\ pass[t].pc \in {"advanced", "running"}
    BY <1>1, <1>5, PassSteps DEF Idle
  <2>3. QED
    BY <1>1, <2>1, <2>2 DEF PassesMove, CTypeInv
<1>6. QED
  BY <1>3, <1>4, <1>5, CommandSteps DEF PassWorks, Loads, Loaded, Save, vars

LEMMA BusyInductive ==
    ASSUME CTypeInv, OnePassAtATime, BusyInv, [CNext]_allVars
    PROVE  BusyInv'
<1> TypeInv
  BY DEF CTypeInv
<1>1. ASSUME NEW t \in Ticks, NEW targets, TryLock(t, targets),
             (t \notin Cmds /\ cmd' = cmd) \/ (t \in Cmds /\ Drops(t))
      PROVE  BusyInv'
  <2>1. \A u \in Ticks \ {t} : pass'[u] = pass[u]
    BY <1>1, OnePassTryLock
  <2>2. \A c \in Cmds : (c # t /\ cmd'[c] = cmd[c]) \/ cmd'[c].pc = "idle"
    BY <1>1, DroppedCommand DEF NoCommand
  <2>3. QED
    BY <2>1, <2>2, CmdsAssumption DEF BusyInv
<1>2. ASSUME NEW t \in Ticks, Work(t) \/ Fault(t), cmd' = cmd PROVE BusyInv'
  BY <1>2, HolderSteps, CmdsAssumption DEF BusyInv
<1>3. ASSUME NEW c \in Cmds, pass' = pass, pass[c].pc = "idle",
             \A d \in Cmds \ {c} : cmd'[d] = cmd[d]
      PROVE  BusyInv'
  BY <1>3 DEF BusyInv
<1>4. ASSUME NEW c \in Cmds, NEW op \in AllOps, NEW j \in Jobs, NEW job, Loads(c, op, j, job)
      PROVE  BusyInv'
  <2>1. pass' = pass /\ pass[c].pc = "idle"
    BY <1>4, LoadedCommand DEF vars, Loads, Replaces, Free
  <2>2. QED
    BY <1>3, <1>4, <2>1, LoadedCommand
<1>5. ASSUME NEW c \in Cmds, Save(c) PROVE BusyInv'
  <2>1. cmd[c].pc # "idle"
    BY <1>5 DEF Save
  <2>2. QED
    BY <1>3, <1>5, <2>1, SavedCommand DEF BusyInv
<1>6. ASSUME NEW c \in Cmds, Drops(c), pass' = pass PROVE BusyInv'
  BY <1>6, DroppedCommand DEF BusyInv, NoCommand
<1>7. CASE UNCHANGED <<pass, cmd>>
  BY <1>7 DEF BusyInv
<1>8. QED
  BY <1>1, <1>2, <1>4, <1>5, <1>6, <1>7, CommandSteps DEF PassWorks, cmdVars, vars, SetClock

\* The word is about whether the job is there and whether it is held.
LEMMA WordMoves ==
    ASSUME NEW word \in Wishes, NEW old, NEW job, AsTold(word, old),
           job = None <=> old = None,
           old # None => job.enabled = old.enabled
    PROVE  AsTold(word, job)
BY DEF AsTold, Wishes

\* A pass that loads jobs.json keeps what it says of every job.
LEMMA WordLoaded ==
    ASSUME CTypeInv, TypeInv', NEW t \in Ticks, LoadAndAdvance(t), NEW j \in Jobs,
           NEW word \in Wishes, AsTold(word, disk[j])
    PROVE  AsTold(word, pass'[t].jobs[j])
<1>1. TypeInv /\ disk \in Table
  BY DEF CTypeInv, TypeInv, TypeOK
<1>2. Recovered(disk)[j] = None <=> disk[j] = None
  BY <1>1, RecoveredType
<1>3. CASE j \in Snapshots(t)'
  <2>1. disk[j] # None /\ pass'[t].jobs[j] = Advanced(Recovered(disk)[j], pass[t].now)
    BY <1>1, <1>3, LoadedJobs DEF IsDue
  <2>2. Recovered(disk)[j] \in Job /\ Recovered(disk)[j].enabled = disk[j].enabled
    BY <1>1, <2>1, RecoveredFields
  <2>3. pass'[t].jobs[j].enabled = disk[j].enabled
    BY <2>1, <2>2, AdvancedFields
  <2>4. pass'[t].jobs[j] # None
    BY <1>3 DEF TypeInv, PassOK, Snapshots
  <2>5. QED
    BY <2>1, <2>3, <2>4, WordMoves
<1>4. CASE j \notin Snapshots(t)'
  <2>1. pass'[t].jobs[j] = Recovered(disk)[j]
    BY <1>1, <1>4, LoadedJobs
  <2>2. disk[j] # None => Recovered(disk)[j].enabled = disk[j].enabled
    BY <1>1, RecoveredFields
  <2>3. QED
    BY <1>2, <2>1, <2>2, WordMoves
<1>5. QED
  BY <1>3, <1>4

\* What the user is told by a step is what jobs.json says after it.
LEMMA WordSpoken ==
    ASSUME CTypeInv, [CNext]_allVars, NEW j \in Words
    PROVE  KeepsWish(j)'
<1> USE DEF KeepsWish
<1>1. ASSUME NEW c \in Cmds, Save(c), j = cmd[c].target,
             cmd[c].op \notin {"edit", "edit_schedule"}
      PROVE  AsTold(wish'[j], disk'[j])
  <2>1. /\ cmd[c].op \in AllOps /\ Told(cmd[c].op, cmd[c].base[j], disk'[j])
        /\ wish'[j] = WishAfter(cmd[c].op, wish[j])
    BY <1>1, SavedCommand
  <2>2. QED
    BY <1>1, <2>1 DEF Told, WishAfter, AllOps, AsTold
<1>2. CASE \E c \in Cmds : /\ Save(c) /\ j = cmd[c].target
                           /\ cmd[c].op \notin {"edit", "edit_schedule"}
  BY <1>1, <1>2
<1>3. CASE j \in Jobs /\ wish[j] # wish'[j]
  <2>1. ASSUME NEW c \in Cmds, Save(c)
        PROVE  j = cmd[c].target /\ cmd[c].op \notin {"edit", "edit_schedule"}
    BY <1>3, <2>1, SavedCommand DEF WishAfter
  <2>2. ASSUME NEW t \in Ticks, PassWorks(t) PROVE AsTold(wish'[j], disk'[j])
    <3>1. wish'[j] = "retired" /\ disk'[j] = None
      BY <1>3, <2>2 DEF PassWorks, LastRunSaved
    <3>2. QED
      BY <3>1 DEF AsTold
  <2>3. QED
    BY <1>1, <1>3, <2>1, <2>2, CommandSteps DEF Loads, cmdVars
<1>4. QED
  BY <1>2, <1>3 DEF Words

\* A save by a process that has read the last word leaves it as it is, or it
\* is a word of its own.
LEMMA WordSaved ==
    ASSUME CTypeInv, AgreeInv, [CNext]_allVars, NEW j \in Jobs \ Words, WordAt(j),
           j \notin overrun, \A w \in Ticks : Saves(w) => w \in heard[j]
    PROVE  AsTold(wish[j], disk'[j])
<1>1. /\ wish[j] \in Wishes /\ wish'[j] = wish[j] /\ AsTold(wish[j], disk[j])
  BY DEF CTypeInv, CTypeOK, Words, WordAt, KeepsWish
<1>2. ASSUME NEW c \in Cmds, Save(c) PROVE AsTold(wish[j], disk'[j])
  <2>1. AsTold(wish[j], cmd[c].base[j])
    <3>1. c \in heard[j] /\ cmd[c].pc = "loaded"
      BY <1>2, CmdsAssumption DEF Saves, Save
    <3>2. QED
      BY <3>1 DEF WordAt
  <2>2. CASE j # cmd[c].target
    BY <1>2, <2>1, <2>2, SavedCommand
  <2>3. CASE j = cmd[c].target
    <3>1. cmd[c].op \in {"edit", "edit_schedule"}
      BY <1>2, <2>3 DEF Words
    <3>2. Told(cmd[c].op, cmd[c].base[j], disk'[j])
      BY <1>2, <2>3, SavedCommand
    <3>3. cmd[c].base[j] # None /\ disk'[j] # None /\ disk'[j].enabled = cmd[c].base[j].enabled
      BY <3>1, <3>2 DEF Told
    <3>4. QED
      BY <1>1, <2>1, <3>3, WordMoves
  <2>4. QED
    BY <2>2, <2>3
<1>3. ASSUME NEW t \in Ticks, PassWorks(t), SaveAdvanced(t) PROVE AsTold(wish[j], disk'[j])
  BY <1>3 DEF Saves, SaveAdvanced, WordAt
<1>4. ASSUME NEW t \in Ticks, PassWorks(t), SaveOutcomes(t) PROVE AsTold(wish[j], disk'[j])
  <2>1. pass[t].pc = "running" /\ AsTold(wish[j], pass[t].jobs[j])
    BY <1>4 DEF Saves, SaveOutcomes, AllJoined, WordAt
  <2>2. CASE j \notin Snapshots(t)
    BY <1>4, <2>1, <2>2 DEF SaveOutcomes
  <2>3. CASE j \in Snapshots(t)
    <3>1. /\ pass[t].jobs[j] \in Job /\ pass[t].jobs[j] # None
          /\ pass[t].outcome[j] \in RunStatus \cup {None}
      BY <2>3 DEF CTypeInv, TypeInv, TypeOK, Snapshots, PassOK, Pass, Table
    <3>2. disk'[j] = Settled(pass[t].jobs[j], pass[t].outcome[j])
      BY <1>4, <2>3 DEF SaveOutcomes
    <3>3. pass[t].jobs[j].enabled
      BY <2>3, <3>1 DEF AgreeInv, Agreed, Agrees
    <3>4. disk'[j] # None
      <4>1. wish[j] = "active"
        BY <1>1, <2>1, <3>1, <3>3 DEF AsTold, Wishes
      <4>2. pass'[t].pc = "delivering"
        BY <1>4 DEF SaveOutcomes, CTypeInv, TypeInv, TypeOK, Pass
      <4>3. ~LastRunSaved(t, j)
        BY <1>1, <1>4, <4>1 DEF PassWorks
      <4>4. QED
        BY <2>1, <2>3, <4>2, <4>3 DEF LastRunSaved
    <3>5. disk'[j].enabled = pass[t].jobs[j].enabled
      BY <3>1, <3>2, <3>4, SettledFields
    <3>6. QED
      BY <1>1, <2>1, <3>1, <3>4, <3>5, WordMoves
  <2>4. QED
    BY <2>2, <2>3
<1>5. ASSUME NEW t \in Ticks, PassWorks(t) PROVE AsTold(wish[j], disk'[j])
  BY <1>1, <1>3, <1>4, <1>5, OtherStepsKeepDisk DEF PassWorks
<1>6. CASE disk' = disk
  BY <1>1, <1>6
<1>7. QED
  BY <1>2, <1>5, <1>6, CommandSteps
  DEF TryLock, Fault, StoreFails, Kill, Loads, Loaded, vars

LEMMA WordInductive ==
    ASSUME CTypeInv, OnePassAtATime, AgreeInv, BusyInv, WordInv, [WNext]_everVars
    PROVE  WordInv'
<1>1. CASE UNCHANGED everVars
  BY <1>1 DEF everVars, wordVars, allVars, cmdVars, vars, WordInv, WordAt, KeepsWish
<1>2. ASSUME WNext, NEW j \in Jobs, j \notin overrun' PROVE WordAt(j)'
  <2>1. CNext /\ Remembers /\ [CNext]_allVars
    BY <1>2 DEF WNext
  <2>2. CASE j \in Words
    <3>1. heard'[j] = {} /\ KeepsWish(j)'
      BY <2>1, <2>2, WordSpoken DEF Remembers
    <3>2. QED
      BY <3>1 DEF WordAt
  <2>3. CASE j \notin Words
    <3>1. /\ heard'[j] = heard[j] \cup {w \in Ticks : Reads(w)}
          /\ wish'[j] = wish[j] /\ wish[j] \in Wishes
      BY <2>1, <2>3 DEF Remembers, Words, CTypeInv, CTypeOK
    <3>2. j \notin overrun /\ \A w \in Ticks : Saves(w) => w \in heard[j]
      BY <1>2, <2>1, <2>3 DEF Remembers
    <3>3. /\ AsTold(wish[j], disk[j])
          /\ \A c \in Cmds : cmd[c].pc = "loaded" /\ c \in heard[j]
                                 => AsTold(wish[j], cmd[c].base[j])
          /\ \A t \in Ticks : pass[t].pc \in {"advanced", "running"} /\ t \in heard[j]
                                  => AsTold(wish[j], pass[t].jobs[j])
      BY <3>2 DEF WordInv, WordAt, KeepsWish
    <3>4. CommandsMove /\ PassesMove
      BY <2>1, CommandMoves, PassMoves
    <3>5. AsTold(wish'[j], disk'[j])
      BY <2>1, <2>3, <3>1, <3>2, WordSaved DEF WordInv
    <3>6. ASSUME NEW c \in Cmds, cmd'[c].pc = "loaded", c \in heard'[j]
          PROVE  AsTold(wish'[j], cmd'[c].base[j])
      <4>1. CASE cmd'[c] = cmd[c]
        <5>1. ~Reads(c)
          BY <3>6, <4>1, CmdsAssumption DEF Reads, BusyInv
        <5>2. QED
          BY <3>1, <3>3, <3>6, <4>1, <5>1
      <4>2. CASE cmd'[c].base = disk
        BY <3>1, <3>3, <4>2
      <4>3. QED
        BY <3>4, <3>6, <4>1, <4>2 DEF CommandsMove
    <3>7. ASSUME NEW t \in Ticks, pass'[t].pc \in {"advanced", "running"}, t \in heard'[j]
          PROVE  AsTold(wish'[j], pass'[t].jobs[j])
      <4>1. CASE LoadAndAdvance(t) /\ TypeInv'
        BY <3>1, <3>3, <4>1, WordLoaded
      <4>2. CASE pass'[t].jobs = pass[t].jobs /\ pass[t].pc \in {"advanced", "running"}
        <5>1. ~Reads(t)
          BY <3>4, <4>2 DEF Reads, CommandsMove
        <5>2. QED
          BY <3>1, <3>3, <3>7, <4>2, <5>1
      <4>3. QED
        BY <3>4, <3>7, <4>1, <4>2 DEF PassesMove
    <3>8. QED
      BY <3>5, <3>6, <3>7 DEF WordAt, KeepsWish
  <2>4. QED
    BY <2>2, <2>3
<1>3. QED
  BY <1>1, <1>2 DEF WordInv, WordAt

LEMMA WordInit == WInit => WordInv
<1> SUFFICES ASSUME WInit, NEW j \in Jobs PROVE WordAt(j)
  BY DEF WordInv
<1>1. CInit /\ heard[j] = {}
  BY DEF WInit
<1>2. CASE disk[j] = None
  BY <1>1, <1>2 DEF CInit, KeepsWish, AsTold, WordAt
<1>3. CASE disk[j] # None
  BY <1>1, <1>3 DEF CInit, KeepsWish, AsTold, NewJob, WordAt
<1>4. QED
  BY <1>2, <1>3

-----------------------------------------------------------------------------
(* No slot twice.  A slot waits in jobs.json, then in a pass that has       *)
(* loaded it, and in both places it is after the one that was taken last,   *)
(* unless a command has set it since.  A job that is added is new: nobody   *)
(* can have taken a slot of it.                                             *)

\* A job that was never added is nowhere but in the command that adds it.
UnbornOK(j) ==
    wish[j] = "unborn" =>
        /\ disk[j] = None
        /\ taken[j] = None
        /\ \A t \in Ticks : pass[t].jobs[j] = None
        /\ \A c \in Cmds : /\ cmd[c].base[j] = None
                           /\ cmd[c].jobs[j] # None =>
                                  cmd[c].op = "add" /\ cmd[c].target = j

AddOK(c) ==
    cmd[c].pc = "loaded" /\ cmd[c].op = "add" =>
        /\ wish[cmd[c].target] = "unborn"
        /\ \A d \in Cmds \ {c} :
               cmd[d].pc # "idle" => cmd[d].target # cmd[c].target

BirthInv == (\A j \in Jobs : UnbornOK(j)) /\ (\A c \in Cmds : AddOK(c))

LEMMA BirthQuiet ==
    ASSUME CTypeInv, BirthInv, UNCHANGED <<disk, wish>>,
           \A j \in Jobs : wish[j] = "unborn" =>
               taken'[j] = taken[j] /\ \A t \in Ticks : pass'[t].jobs[j] = None,
           \A c \in Cmds : cmd'[c] = cmd[c] \/ cmd'[c] = NoCommand
    PROVE  BirthInv'
<1>1. NoCommand.pc = "idle" /\ \A j \in Jobs : NoCommand.base[j] = None /\ NoCommand.jobs[j] = None
  BY DEF NoCommand, NoTable
<1>2. ASSUME NEW j \in Jobs PROVE UnbornOK(j)'
  BY <1>1 DEF BirthInv, UnbornOK
<1>3. ASSUME NEW c \in Cmds PROVE AddOK(c)'
  BY <1>1 DEF BirthInv, AddOK
<1>4. QED
  BY <1>2, <1>3 DEF BirthInv

LEMMA BirthPass ==
    ASSUME CTypeInv, OnePassAtATime, BirthInv, NEW t \in Ticks, Work(t) \/ Fault(t),
           cmd' = cmd, \A j \in Jobs : wish'[j] = "unborn" <=> wish[j] = "unborn",
           \A j \in Jobs : taken'[j] = taken[j] \/ j \in Snapshots(t)
    PROVE  BirthInv'
<1>1. TypeInv /\ disk \in Table /\ PassOK(pass[t])
  BY DEF CTypeInv, TypeInv, TypeOK
<1>2. \A u \in Ticks \ {t} : pass'[u] = pass[u]
  BY <1>1, HolderSteps
<1>3. ASSUME NEW j \in Jobs, wish[j] = "unborn"
      PROVE  /\ disk'[j] = None /\ taken'[j] = taken[j]
             /\ \A u \in Ticks : pass'[u].jobs[j] = None
  <2>1. disk[j] = None /\ pass[t].jobs[j] = None /\ \A u \in Ticks : pass[u].jobs[j] = None
    BY <1>3 DEF BirthInv, UnbornOK
  <2>2. j \notin Snapshots(t)
    BY <1>1, <2>1 DEF PassOK, Snapshots
  <2>3. CASE LoadAndAdvance(t)
    <3>1. disk' = disk /\ j \notin Snapshots(t)'
      BY <1>1, <2>1, <2>3, LoadedJobs DEF IsDue
    <3>2. pass'[t].jobs[j] = Recovered(disk)[j]
      BY <1>1, <2>3, <3>1, LoadedJobs
    <3>3. QED
      BY <1>1, <1>2, <2>1, <2>2, <3>1, <3>2, RecoveredType
  <2>4. CASE pass'[t] = Idle /\ disk' = disk
    BY <1>2, <2>1, <2>2, <2>4 DEF Idle, NoTable
  <2>5. CASE pass'[t].jobs = pass[t].jobs
             /\ (SaveAdvanced(t) \/ SaveOutcomes(t) \/ disk' = disk)
    <3>1. disk'[j] = None
      BY <2>1, <2>2, <2>5 DEF SaveAdvanced, SaveOutcomes
    <3>2. QED
      BY <1>2, <2>1, <2>2, <2>5, <3>1
  <2>6. QED
    BY <1>1, <2>3, <2>4, <2>5, PassSteps
<1>4. \A j \in Jobs : UnbornOK(j)'
  BY <1>3 DEF BirthInv, UnbornOK
<1>5. \A c \in Cmds : AddOK(c)'
  BY DEF BirthInv, AddOK, CTypeInv, CmdOK
<1>6. QED
  BY <1>4, <1>5 DEF BirthInv

LEMMA BirthLoads ==
    ASSUME CTypeInv, BirthInv, NEW c \in Cmds, NEW op \in AllOps, NEW k \in Jobs,
           NEW job, Loads(c, op, k, job)
    PROVE  BirthInv'
<1>1. /\ cmd'[c].pc = "loaded" /\ cmd'[c].op = op /\ cmd'[c].target = k
      /\ cmd'[c].base = disk
      /\ \A j \in Jobs \ {k} : cmd'[c].jobs[j] = disk[j]
      /\ \A d \in Cmds \ {c} : cmd'[d] = cmd[d]
      /\ UNCHANGED <<disk, pass, wish, taken>>
  BY LoadedCommand DEF vars
<1>2. ASSUME op = "add"
      PROVE  wish[k] = "unborn" /\ \A d \in Cmds : cmd[d].target # k
  BY <1>2 DEF Loads, Replaces
<1>3. ASSUME op # "add" PROVE disk[k] # None /\ wish[k] # "unborn"
  BY <1>3 DEF Loads, Replaces, BirthInv, UnbornOK
<1>4. ASSUME NEW j \in Jobs PROVE UnbornOK(j)'
  BY <1>1, <1>3 DEF BirthInv, UnbornOK
<1>5. ASSUME NEW d \in Cmds PROVE AddOK(d)'
  <2>1. CASE d = c
    BY <1>1, <1>2, <2>1 DEF AddOK
  <2>2. CASE d # c
    BY <1>1, <1>2, <1>3, <2>2 DEF BirthInv, AddOK
  <2>3. QED
    BY <2>1, <2>2
<1>6. QED
  BY <1>4, <1>5 DEF BirthInv

LEMMA BirthSave ==
    ASSUME CTypeInv, BirthInv, NEW c \in Cmds, Save(c)
    PROVE  BirthInv'
<1> DEFINE op == cmd[c].op
           j  == cmd[c].target
<1>1. /\ op \in AllOps /\ j \in Jobs /\ cmd[c].pc = "loaded"
      /\ disk' = cmd[c].jobs
      /\ Told(op, cmd[c].base[j], disk'[j])
      /\ cmd'[c].pc \in {"idle", "saved"} /\ cmd'[c].jobs = NoTable
      /\ cmd'[c].pc = "saved" => cmd'[c].target = j
      /\ \A d \in Cmds \ {c} : cmd'[d] = cmd[d]
      /\ wish'[j] = WishAfter(op, wish[j])
      /\ \A k \in Jobs \ {j} : wish'[k] = wish[k]
      /\ pass' = pass
  BY SavedCommand
<1>2. cmd'[c].base = NoTable
  BY DEF Save, NoCommand, CTypeInv, CTypeOK
<1>3. \A k \in Jobs \ {j} : taken'[k] = taken[k]
  BY DEF Save, CTypeInv, CTypeOK
<1>4. wish'[j] # "unborn"
  <2>1. CASE op \in {"edit", "edit_schedule"}
    <3>1. cmd[c].base[j] # None /\ wish'[j] = wish[j]
      BY <1>1, <2>1 DEF Told, WishAfter
    <3>2. QED
      BY <1>1, <3>1 DEF BirthInv, UnbornOK
  <2>2. CASE op \notin {"edit", "edit_schedule"}
    BY <1>1, <2>2 DEF WishAfter, AllOps
  <2>3. QED
    BY <2>1, <2>2
<1>5. ASSUME NEW k \in Jobs PROVE UnbornOK(k)'
  <2>1. CASE k = j
    BY <1>4, <2>1 DEF UnbornOK
  <2>2. CASE k # j
    BY <1>1, <1>2, <1>3, <2>2 DEF BirthInv, UnbornOK, NoTable
  <2>3. QED
    BY <2>1, <2>2
<1>6. ASSUME NEW d \in Cmds PROVE AddOK(d)'
  <2>1. CASE d = c
    BY <1>1, <2>1 DEF AddOK
  <2>2. CASE d # c
    <3>1. ASSUME cmd[d].pc = "loaded", cmd[d].op = "add"
          PROVE  cmd[d].target \in Jobs /\ cmd[d].target # j
                 /\ wish[cmd[d].target] = "unborn"
      BY <1>1, <2>2, <3>1 DEF BirthInv, AddOK, CTypeInv, CmdOK
    <3>2. QED
      BY <1>1, <2>2, <3>1 DEF BirthInv, AddOK
  <2>3. QED
    BY <2>1, <2>2
<1>7. QED
  BY <1>5, <1>6 DEF BirthInv

\* The next run a pass leaves for a job it takes is after the pass.
TakenAhead(t) ==
    \A j \in Snapshots(t) : \/ pass[t].jobs[j].next_run_at = None
                            \/ pass[t].jobs[j].next_run_at > pass[t].now

\* A slot that is there to be taken is after the one taken last.
Untaken(last, slot) == last # None => slot > last

DiskUntaken ==
    \A j \in Jobs : disk[j] # None /\ disk[j].next_run_at # None
                        => Untaken(taken[j], disk[j].next_run_at)

LoadedUntaken(t) ==
    pass[t].pc = "advanced" => \A j \in Snapshots(t) : Untaken(taken[j], pass[t].slot[j])

RefireInv ==
    /\ BirthInv
    /\ \A t \in Ticks : TakenAhead(t)
    /\ lost \/ (DiskUntaken /\ \A t \in Ticks : LoadedUntaken(t))

\* Steps outside the passes that leave jobs.json as it is.
LEMMA RefireQuiet ==
    ASSUME RefireInv, BirthInv', UNCHANGED <<disk, taken, lost>>,
           \A t \in Ticks : \/ pass'[t] = pass[t]
                            \/ pass'[t].pc # "advanced" /\ pass'[t].slot = NoSlot
    PROVE  RefireInv'
<1>1. ASSUME NEW t \in Ticks
      PROVE  TakenAhead(t)' /\ (LoadedUntaken(t) => LoadedUntaken(t)')
  BY DEF RefireInv, TakenAhead, LoadedUntaken, Untaken, Snapshots, NoSlot
<1>2. DiskUntaken => DiskUntaken'
  BY DEF DiskUntaken, Untaken
<1>3. QED
  BY <1>1, <1>2 DEF RefireInv

LEMMA RefireFault ==
    ASSUME CTypeInv, OnePassAtATime, RefireInv, NEW t \in Ticks, Fault(t),
           UNCHANGED cmdVars
    PROVE  RefireInv'
<1>1. pass'[t] = Idle /\ disk' = disk
  BY DEF Fault, StoreFails, Kill, Leave, CTypeInv, TypeInv, TypeOK
<1>2. \A u \in Ticks \ {t} : pass'[u] = pass[u]
  BY HolderSteps DEF CTypeInv
<1>3. BirthInv'
  BY BirthPass DEF RefireInv, cmdVars
<1>4. QED
  BY <1>1, <1>2, <1>3, RefireQuiet DEF cmdVars, Idle

LEMMA RefireWork ==
    ASSUME CTypeInv, OnePassAtATime, RefireInv, NEW t \in Ticks, PassWorks(t)
    PROVE  RefireInv'
<1>1. TypeInv /\ disk \in Table /\ pass[t] \in Pass /\ Work(t)
  BY DEF CTypeInv, TypeInv, TypeOK, PassWorks
<1>2. /\ \A j \in Jobs : taken'[j] = IF j \in Claims(t) THEN pass[t].now ELSE taken[j]
      /\ lost' = (lost \/ (disk' # disk /\ ~FreshAt(t)))
      /\ cmd' = cmd
      /\ \A j \in Jobs : wish'[j] = "unborn" <=> wish[j] = "unborn"
  BY DEF PassWorks, LosesUpdate
<1>3. Claims(t) \subseteq Snapshots(t) /\ Claims(t) \subseteq Jobs
  BY DEF Claims, Snapshots
<1>4. BirthInv'
  BY <1>1, <1>2, <1>3, BirthPass DEF RefireInv
<1>5. \A u \in Ticks \ {t} : pass'[u] = pass[u] /\ pass[u].pc = "idle"
  BY <1>1, HolderSteps
<1>6. ASSUME NEW u \in Ticks \ {t} PROVE TakenAhead(u)' /\ LoadedUntaken(u)'
  BY <1>5 DEF RefireInv, TakenAhead, LoadedUntaken, Snapshots
<1>7. SUFFICES /\ TakenAhead(t)'
               /\ ~lost' => DiskUntaken' /\ LoadedUntaken(t)'
  BY <1>4, <1>6 DEF RefireInv
<1>8. ~lost' => DiskUntaken /\ LoadedUntaken(t)
  BY <1>2 DEF RefireInv
<1>9. TakenAhead(t)
  BY DEF RefireInv
<1>10. ASSUME Claims(t) = {}, disk' = disk PROVE taken' = taken /\ (DiskUntaken => DiskUntaken')
  <2>1. taken' = taken
    BY <1>10 DEF PassWorks, LosesUpdate, CTypeInv, CTypeOK
  <2>2. QED
    BY <1>10, <2>1 DEF DiskUntaken, Untaken
<1>11. CASE LoadAndAdvance(t)
  <2>1. Claims(t) = {} /\ disk' = disk
    BY <1>1, <1>11, LoadedJobs DEF LoadAndAdvance, Claims
  <2>2. TakenAhead(t)'
    BY <1>1, <1>11, LoadedJobs DEF TakenAhead
  <2>3. DiskUntaken => LoadedUntaken(t)'
    <3> SUFFICES ASSUME DiskUntaken, NEW j \in Snapshots(t)'
                 PROVE  Untaken(taken'[j], pass'[t].slot[j])
      BY DEF LoadedUntaken
    <3>1. j \in Jobs /\ disk[j] # None /\ disk[j].next_run_at # None
          /\ pass'[t].slot[j] = disk[j].next_run_at
      BY <1>1, <1>11, LoadedJobs DEF IsDue, Snapshots
    <3>2. QED
      BY <1>10, <2>1, <3>1 DEF DiskUntaken, Untaken
  <2>4. QED
    BY <1>8, <1>10, <2>1, <2>2, <2>3
<1>12. CASE pass'[t] = Idle /\ disk' = disk
  <2>1. Snapshots(t)' = {} /\ pass'[t].pc # "advanced"
    BY <1>12 DEF Idle, NoSlot, Snapshots
  <2>2. Claims(t) = {}
    BY <1>12 DEF Idle, Claims
  <2>3. QED
    BY <1>8, <1>10, <1>12, <2>1, <2>2 DEF TakenAhead, LoadedUntaken
<1>13. ASSUME pass'[t].now = pass[t].now, pass'[t].jobs = pass[t].jobs,
              pass'[t].slot = pass[t].slot
       PROVE  TakenAhead(t)'
  BY <1>9, <1>13 DEF TakenAhead, Snapshots
<1>14. CASE /\ pass'[t].now = pass[t].now /\ pass'[t].jobs = pass[t].jobs
            /\ pass'[t].slot = pass[t].slot
            /\ SaveAdvanced(t) /\ pass[t].pc = "advanced" /\ pass'[t].pc = "running"
  <2>1. Claims(t) = Snapshots(t) /\ disk' = pass[t].jobs
    BY <1>14 DEF Claims, SaveAdvanced
  <2>2. ASSUME ~lost', NEW j \in Jobs, disk'[j] # None, disk'[j].next_run_at # None
        PROVE  Untaken(taken'[j], disk'[j].next_run_at)
    <3>1. CASE j \in Snapshots(t)
      BY <1>2, <1>9, <2>1, <2>2, <3>1 DEF TakenAhead, Untaken
    <3>2. CASE j \notin Snapshots(t)
      <4>1. taken'[j] = taken[j] /\ Untaken(taken[j], disk[j].next_run_at)
            /\ disk'[j].next_run_at = disk[j].next_run_at
        <5>1. CASE disk' = disk
          BY <1>2, <1>8, <2>1, <2>2, <3>2, <5>1 DEF DiskUntaken
        <5>2. CASE FreshAt(t)
          BY <1>1, <1>2, <1>8, <1>14, <2>1, <2>2, <3>2, <5>2, SavedByAdvance DEF DiskUntaken
        <5>3. QED
          BY <1>2, <2>2, <5>1, <5>2
      <4>2. QED
        BY <4>1 DEF Untaken
    <3>3. QED
      BY <3>1, <3>2
  <2>3. QED
    BY <1>13, <1>14, <2>2 DEF DiskUntaken, LoadedUntaken
<1>15. CASE /\ pass'[t].now = pass[t].now /\ pass'[t].jobs = pass[t].jobs
            /\ pass'[t].slot = pass[t].slot
            /\ SaveOutcomes(t) /\ pass[t].pc = "running" /\ pass'[t].pc = "delivering"
  <2>1. Claims(t) = {} /\ \A j \in Jobs : taken'[j] = taken[j]
    BY <1>2, <1>15 DEF Claims
  <2>2. ASSUME ~lost', NEW j \in Jobs, disk'[j] # None, disk'[j].next_run_at # None
        PROVE  Untaken(taken'[j], disk'[j].next_run_at)
    <3>1. CASE disk' = disk
      BY <1>8, <2>1, <2>2, <3>1 DEF DiskUntaken, Untaken
    <3>2. CASE FreshAt(t)
      <4>1. disk[j] # None /\ disk'[j].next_run_at = disk[j].next_run_at
        BY <1>1, <1>15, <2>2, <3>2, SavedByOutcomes
      <4>2. QED
        BY <1>8, <2>1, <2>2, <4>1 DEF DiskUntaken, Untaken
    <3>3. QED
      BY <1>2, <2>2, <3>1, <3>2
  <2>3. QED
    BY <1>13, <1>15, <2>2 DEF DiskUntaken, LoadedUntaken
<1>16. CASE /\ pass'[t].now = pass[t].now /\ pass'[t].jobs = pass[t].jobs
            /\ pass'[t].slot = pass[t].slot /\ disk' = disk
            /\ pass'[t].pc = pass[t].pc /\ pass[t].pc \in {"running", "delivering"}
  <2>1. Claims(t) = {}
    BY <1>16 DEF Claims
  <2>2. QED
    BY <1>8, <1>10, <1>13, <1>16, <2>1 DEF LoadedUntaken
<1>17. QED
  BY <1>1, <1>11, <1>12, <1>14, <1>15, <1>16, PassSteps

\* The save of a command over the table it has read: the one job it changes
\* keeps its slot, has none, is new, or is armed again by the user.
LEMMA RefireSave ==
    ASSUME CTypeInv, RefireInv, NEW c \in Cmds, Save(c)
    PROVE  RefireInv'
<1> DEFINE op == cmd[c].op
           j  == cmd[c].target
<1>1. /\ op \in AllOps /\ j \in Jobs /\ cmd[c].pc = "loaded"
      /\ \A k \in Jobs \ {j} : disk'[k] = cmd[c].base[k]
      /\ Told(op, cmd[c].base[j], disk'[j])
      /\ lost' = (lost \/ disk # cmd[c].base)
      /\ pass' = pass
  BY SavedCommand
<1>2. taken' = [taken EXCEPT ![j] = IF op \in {"edit_schedule", "resume", "run"}
                                    THEN None ELSE taken[j]]
  BY DEF Save
<1>3. taken \in [Jobs -> OptInstant]
  BY DEF CTypeInv, CTypeOK
<1>4. \A k \in Jobs : taken'[k] = taken[k] \/ taken'[k] = None
  BY <1>2, <1>3
<1>5. \A k \in Jobs : \A slot : Untaken(taken[k], slot) => Untaken(taken'[k], slot)
  BY <1>4 DEF Untaken
<1>6. BirthInv'
  BY BirthSave DEF RefireInv
<1>7. \A t \in Ticks : TakenAhead(t)' /\ (LoadedUntaken(t) => LoadedUntaken(t)')
  BY <1>1, <1>5 DEF RefireInv, TakenAhead, LoadedUntaken, Snapshots
<1>8. ASSUME ~lost' PROVE DiskUntaken'
  <2>1. disk = cmd[c].base /\ DiskUntaken
    BY <1>1, <1>8 DEF RefireInv
  <2>2. SUFFICES ASSUME NEW k \in Jobs, disk'[k] # None, disk'[k].next_run_at # None
                 PROVE  Untaken(taken'[k], disk'[k].next_run_at)
    BY DEF DiskUntaken
  <2>3. CASE k # j
    BY <1>1, <1>5, <2>1, <2>2, <2>3 DEF DiskUntaken
  <2>4. CASE k = j /\ op \in {"edit_schedule", "resume", "run"}
    BY <1>1, <1>2, <1>3, <2>4 DEF Untaken
  <2>5. CASE k = j /\ op = "add"
    <3>1. taken[j] = None
      BY <1>1, <2>5 DEF RefireInv, BirthInv, AddOK, UnbornOK
    <3>2. taken'[j] = None
      BY <1>1, <1>4, <3>1
    <3>3. QED
      BY <2>5, <3>2 DEF Untaken
  <2>6. CASE k = j /\ op = "edit"
    BY <1>1, <1>5, <2>1, <2>2, <2>6 DEF Told, DiskUntaken
  <2>7. CASE k = j /\ op = "pause"
    BY <1>1, <1>5, <2>1, <2>2, <2>7 DEF Told, DiskUntaken
  <2>8. CASE k = j /\ op = "remove"
    BY <1>1, <2>2, <2>8 DEF Told
  <2>9. QED
    BY <1>1, <2>3, <2>4, <2>5, <2>6, <2>7, <2>8 DEF AllOps
<1>9. QED
  BY <1>1, <1>6, <1>7, <1>8 DEF RefireInv

LEMMA RefireApart ==
    ASSUME CTypeInv, RefireInv, UNCHANGED <<disk, wish, taken, lost>>,
           \A c \in Cmds : cmd'[c] = cmd[c] \/ cmd'[c] = NoCommand,
           \A t \in Ticks : \/ pass'[t] = pass[t]
                            \/ /\ pass'[t].pc # "advanced" /\ pass'[t].slot = NoSlot
                               /\ pass'[t].jobs = NoTable
    PROVE  RefireInv'
<1>1. \A j \in Jobs : wish[j] = "unborn" => \A t \in Ticks : pass'[t].jobs[j] = None
  BY DEF RefireInv, BirthInv, UnbornOK, NoTable
<1>2. BirthInv'
  BY <1>1, BirthQuiet DEF RefireInv
<1>3. QED
  BY <1>2, RefireQuiet

LEMMA RefireInductive ==
    ASSUME CTypeInv, OnePassAtATime, RefireInv, [CNext]_allVars
    PROVE  RefireInv'
<1>1. ASSUME NEW t \in Ticks, NEW targets \in SUBSET Jobs, TryLock(t, targets),
             cmd' = cmd \/ (t \in Cmds /\ Drops(t)),
             UNCHANGED <<issued, wish, taken, asked, lost>>
      PROVE  RefireInv'
  BY <1>1, RefireApart, OnePassTryLock, DroppedCommand DEF CTypeInv
<1>2. ASSUME NEW c \in Cmds, NEW op \in AllOps, NEW j \in Jobs, NEW job,
             Loads(c, op, j, job)
      PROVE  RefireInv'
  <2>1. BirthInv' /\ UNCHANGED <<disk, taken, lost, pass>>
    BY <1>2, BirthLoads, LoadedCommand DEF RefireInv, vars
  <2>2. QED
    BY <2>1, RefireQuiet
<1>3. ASSUME NEW c \in Cmds, Drops(c), UNCHANGED <<disk, pass, wish, taken, lost>>
      PROVE  RefireInv'
  BY <1>3, RefireApart, DroppedCommand
<1>4. ASSUME UNCHANGED <<disk, pass, cmdVars>> PROVE RefireInv'
  BY <1>4, RefireApart DEF cmdVars
<1>5. QED
  BY <1>1, <1>2, <1>3, <1>4, RefireFault, RefireWork, RefireSave, CommandSteps DEF cmdVars

LEMMA RefireInit == CInit => RefireInv
<1> SUFFICES ASSUME CInit PROVE RefireInv
  OBVIOUS
<1>1. BirthInv
  BY DEF CInit, BirthInv, UnbornOK, AddOK, Idle, NoCommand, NoTable
<1>2. \A t \in Ticks : TakenAhead(t) /\ LoadedUntaken(t)
  BY DEF CInit, TakenAhead, LoadedUntaken, Snapshots, Idle, NoSlot
<1>3. DiskUntaken
  BY DEF CInit, DiskUntaken, Untaken
<1>4. QED
  BY <1>1, <1>2, <1>3 DEF RefireInv

-----------------------------------------------------------------------------
(* The theorems *)

CInv == CTypeInv /\ OnePassAtATime /\ AgreeInv /\ RefireInv

LEMMA CommandsAlways == CSpec => []CInv
<1>1. CInit => CInv
  <2> SUFFICES ASSUME CInit PROVE OnePassAtATime
    BY CTypeInit, AgreeInit, RefireInit DEF CInv
  <2>1. QED
    BY TicksAssumption DEF CInit, Idle, OnePassAtATime
<1>2. CInv /\ [CNext]_allVars => CInv'
  BY CTypeInductive, CommandsOnePass, AgreeInductive, RefireInductive DEF CInv
<1>3. QED
  BY <1>1, <1>2, PTL DEF CSpec

LEMMA AgreeOnDisk == AgreeInv => PausedIffDisabled
BY DEF AgreeInv, Agreed, Agrees, PausedIffDisabled

\* Whatever overwrites whatever, no job is left half paused.
THEOREM HeldJobsSaySo == CSpec => []PausedIffDisabled
<1>1. CInv => PausedIffDisabled
  BY AgreeOnDisk DEF CInv
<1>2. QED
  BY <1>1, CommandsAlways, PTL

\* With any number of commands and passes at work, the only way to undo what
\* the user was told of a job is a save by a process that had read jobs.json
\* before: an added job is there until it is removed or retires, a removed or
\* retired one does not come back, a paused one stays held.
THEOREM UsersHaveTheLastWord == WSpec => []LastWordStands
<1>1. WInit => CInit /\ BusyInv /\ WordInv
  BY WordInit DEF WInit, CInit, BusyInv, NoCommand
<1>2. [WNext]_everVars => [CNext]_allVars
  BY DEF WNext, everVars
<1>3. CInv /\ BusyInv /\ [WNext]_everVars => BusyInv'
  BY <1>2, BusyInductive DEF CInv
<1>4. CInv /\ BusyInv /\ WordInv /\ [WNext]_everVars => WordInv'
  BY WordInductive DEF CInv
<1>5. WordInv => LastWordStands
  BY DEF WordInv, WordAt, LastWordStands
<1>6. WSpec => CSpec
  BY <1>1, <1>2, PTL DEF WSpec, CSpec
<1>7. QED
  BY <1>1, <1>3, <1>4, <1>5, <1>6, CommandsAlways, PTL DEF WSpec

\* The types of the commands, and of the two histories of the last words.
THEOREM LastWordTypeCorrect == WSpec => []WTypeOK
<1> DEFINE HistoryOK == heard \in [Jobs -> SUBSET Ticks] /\ overrun \subseteq Jobs
<1>1. WInit => CInit /\ HistoryOK
  BY DEF WInit
<1>2. [WNext]_everVars => [CNext]_allVars
  BY DEF WNext, everVars
<1>3. HistoryOK /\ [WNext]_everVars => HistoryOK'
  <2>1. CASE WNext
    <3> SUFFICES ASSUME HistoryOK PROVE HistoryOK'
      BY <2>1
    <3>1. heard' \in [Jobs -> SUBSET Ticks]
      BY <2>1 DEF WNext, Remembers
    <3>2. overrun' \subseteq Jobs
      BY <2>1 DEF WNext, Remembers
    <3>3. QED
      BY <3>1, <3>2
  <2>2. CASE UNCHANGED everVars
    BY <2>2 DEF everVars, wordVars
  <2>3. QED
    BY <2>1, <2>2
<1>4. CTypeOK /\ HistoryOK => WTypeOK
  BY DEF WTypeOK
<1> HIDE DEF HistoryOK
<1>5. WSpec => CSpec
  BY <1>1, <1>2, PTL DEF WSpec, CSpec
<1>6. QED
  BY <1>1, <1>3, <1>4, <1>5, CommandsTypeCorrect, PTL DEF WSpec

\* At most once, between the commands and with any number of processes: a
\* slot is only taken again when a command has armed it, or when a save has
\* overwritten a change it had not read.
THEOREM RearmedOrLost == CSpec => NoRefireUnlessLost
<1>1. ASSUME CInv, NEW t \in Ticks, NEW j \in Jobs, TakesOldSlot(t, j) PROVE lost
  <2>1. /\ pass[t].pc = "advanced" /\ j \in Snapshots(t)
        /\ taken[j] # None /\ pass[t].slot[j] <= taken[j]
    BY <1>1 DEF TakesOldSlot, Claims
  <2>2. pass[t].slot[j] \in Nat /\ taken[j] \in Nat
    BY <1>1, <2>1
    DEF CInv, Snapshots, CTypeInv, CTypeOK, TypeInv, TypeOK, Pass, OptInstant
  <2>3. ~lost => pass[t].slot[j] > taken[j]
    BY <1>1, <2>1 DEF CInv, RefireInv, LoadedUntaken, Untaken
  <2>4. QED
    BY <2>1, <2>2, <2>3
<1>2. CInv => \A t \in Ticks, j \in Jobs : TakesOldSlot(t, j) => lost
  BY <1>1
<1>3. QED
  BY <1>2, CommandsAlways, PTL DEF CSpec, NoRefireUnlessLost

=============================================================================
