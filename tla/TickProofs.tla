----------------------------- MODULE TickProofs -----------------------------
(***************************************************************************)
(* The tick engine, for any jobs, schedules, repeat limits, processes,     *)
(* max_parallel, clock range and number of faults.                         *)
(***************************************************************************)
EXTENDS Tick, ScheduleProofs, FiniteSetTheorems

-----------------------------------------------------------------------------
(* The operators on jobs and tables *)

LEMMA InstantsAreNat == Instants \subseteq Nat /\ 0 \in Instants
BY MaxTimeAssumption DEF Instants

LEMMA NewJobType ==
    ASSUME NEW s \in Schedules, NEW n \in Times, NEW now \in Instants
    PROVE  NewJob(s, n, now) \in Job
<1>1. compute_next_run(s, None, now) \in OptInstant
  BY NextRunType, SchedulesAssumption, InstantsAreNat
<1>2. QED
  BY <1>1 DEF NewJob, Job, JobState, OptInstant

LEMMA RecoveredType ==
    ASSUME NEW table \in Table
    PROVE  /\ Recovered(table) \in Table
           /\ \A j \in Jobs : Recovered(table)[j] = None <=> table[j] = None
           /\ \A j \in Jobs : table[j] # None =>
                  Recovered(table)[j].next_run_at = table[j].next_run_at
<1> SUFFICES ASSUME NEW j \in Jobs
             PROVE  /\ Recovered(table)[j] \in Job \cup {None}
                    /\ Recovered(table)[j] = None <=> table[j] = None
                    /\ table[j] # None =>
                           Recovered(table)[j].next_run_at = table[j].next_run_at
  BY DEF Recovered, Table
<1>1. CASE table[j] = None
  BY <1>1 DEF Recovered
<1>2. CASE table[j] # None
  <2>1. table[j] \in Job
    BY <1>2 DEF Table
  <2>2. Recovered(table)[j] \in Job
    BY <1>2, <2>1 DEF Recovered, Job, JobState
  <2>3. Recovered(table)[j].next_run_at = table[j].next_run_at
    BY <1>2, <2>1 DEF Recovered, Job
  <2>4. QED
    BY <1>2, <2>2, <2>3, NoneIsNoJob
<1>3. QED
  BY <1>1, <1>2

\* A due job that is advanced stays a job, and cannot be due again in the
\* same pass: its next run is after the pass, or there is none.
LEMMA AdvancedType ==
    ASSUME NEW job \in Job, NEW now \in Instants,
           job.next_run_at # None, job.next_run_at <= now
    PROVE  /\ Advanced(job, now) \in Job
           /\ \/ Advanced(job, now).next_run_at = None
              \/ Advanced(job, now).next_run_at > now
<1> DEFINE next == compute_next_run(job.schedule, job.next_run_at, now)
<1>1. job.schedule \in Schedule /\ job.next_run_at \in Nat /\ now \in Nat
  BY SchedulesAssumption, InstantsAreNat DEF Job, OptInstant
<1>2. next = None \/ (next \in Nat /\ next > now)
  BY <1>1, NextRunAfterNow
<1> HIDE DEF next
<1>3. Advanced(job, now) = [job EXCEPT !.last_run_at = now, !.next_run_at = next,
                                       !.state = "running", !.completed = @ + 1]
  BY DEF Advanced, next
<1>4. Advanced(job, now).next_run_at = next
  BY <1>3 DEF Job
<1>5. next \in OptInstant /\ now \in Instants \cup {None} /\ job.completed + 1 \in Nat
  BY <1>1, <1>2 DEF OptInstant, Job
<1>6. Advanced(job, now) \in Job
  BY <1>3, <1>5 DEF Job, JobState
<1>7. QED
  BY <1>2, <1>4, <1>6

LEMMA SettledType ==
    ASSUME NEW job \in Job, NEW status \in RunStatus \cup {None}
    PROVE  /\ Settled(job, status) \in Job \cup {None}
           /\ Settled(job, status) # None =>
                  Settled(job, status).next_run_at = job.next_run_at
BY DEF Settled, Job, JobState

LEMMA IdleType == Idle \in Pass
BY InstantsAreNat DEF Idle, Pass, NoTable, NoSlot, Table, OptInstant

-----------------------------------------------------------------------------
(* Types.  TypeOK is not inductive alone: that a settled job is a job rests *)
(* on the snapshots of a pass being jobs it loaded.                         *)

PassOK(p) ==
    /\ p \in Pass
    /\ p.queue \subseteq {j \in Jobs : p.slot[j] # None}
    /\ \A j \in Jobs : p.slot[j] # None => p.jobs[j] # None

TypeInv == TypeOK /\ \A t \in Ticks : PassOK(pass[t])

LEMMA IdlePassOK == PassOK(Idle)
BY IdleType DEF PassOK, Idle, NoSlot

\* What a step must show when it changes the pass of one process only.
LEMMA OnePassChanges ==
    ASSUME TypeInv, NEW t \in Ticks, NEW p, PassOK(p), pass' = [pass EXCEPT ![t] = p]
    PROVE  pass' \in [Ticks -> Pass] /\ \A u \in Ticks : PassOK(pass'[u])
BY DEF TypeInv, TypeOK, PassOK

LEMMA LeaveType ==
    ASSUME TypeInv, NEW t \in Ticks, Leave(t),
           UNCHANGED <<clock, disk, fired, settled, recorded>>, faults' \in 0..MaxFaults
    PROVE  TypeInv'
<1>1. pass' = [pass EXCEPT ![t] = Idle] /\ lock' = None
  BY DEF Leave
<1>2. pass' \in [Ticks -> Pass] /\ \A u \in Ticks : PassOK(pass'[u])
  BY <1>1, OnePassChanges, IdlePassOK
<1>3. QED
  BY <1>1, <1>2 DEF TypeInv, TypeOK

LEMMA TryLockType ==
    ASSUME TypeInv, NEW t \in Ticks, NEW targets \in SUBSET Jobs, TryLock(t, targets)
    PROVE  TypeInv'
<1> DEFINE p == [Idle EXCEPT !.pc = "locked", !.now = clock, !.targets = targets]
<1>1. PassOK(p)
  <2>1. p \in Pass
    BY IdleType DEF Pass, TypeInv, TypeOK
  <2>2. QED
    BY <2>1, IdleType, IdlePassOK DEF PassOK, Pass
<1> HIDE DEF p
<1>2. pass' = [pass EXCEPT ![t] = p]
  BY DEF TryLock, p
<1>3. pass' \in [Ticks -> Pass] /\ \A u \in Ticks : PassOK(pass'[u])
  BY <1>1, <1>2, OnePassChanges
<1>4. QED
  BY <1>3 DEF TryLock, TypeInv, TypeOK

LEMMA LoadType ==
    ASSUME TypeInv, NEW t \in Ticks, LoadAndAdvance(t)
    PROVE  TypeInv'
<1> DEFINE due   == DueAtLoad(t)
           table == Recovered(disk)
           jobs  == [j \in Jobs |-> IF j \in due THEN Advanced(table[j], pass[t].now)
                                                 ELSE table[j]]
           slot  == [j \in Jobs |-> IF j \in due THEN table[j].next_run_at ELSE None]
           p     == [pass[t] EXCEPT !.pc = "advanced", !.jobs = jobs,
                                    !.slot = slot, !.queue = due]
<1>1. disk \in Table /\ table \in Table /\ pass[t] \in Pass
  BY RecoveredType DEF TypeInv, TypeOK
<1>2. due \subseteq Jobs
  BY <1>1 DEF DueAtLoad, Due, Pass
<1>3. ASSUME NEW j \in due
      PROVE  /\ table[j] \in Job
             /\ table[j].next_run_at # None
             /\ table[j].next_run_at <= pass[t].now
  <2>1. IsDue(disk[j], pass[t].now)
    BY DEF DueAtLoad, Due
  <2>2. QED
    BY <1>1, <1>2, <2>1, RecoveredType DEF IsDue, Table
<1>4. pass[t].now \in Instants
  BY <1>1 DEF Pass
<1> HIDE DEF due, table
<1>5. jobs \in Table
  <2> SUFFICES ASSUME NEW j \in Jobs PROVE jobs[j] \in Job \cup {None}
    BY DEF Table
  <2>1. CASE j \in due
    BY <2>1, <1>3, <1>4, AdvancedType
  <2>2. CASE j \notin due
    BY <2>2, <1>1 DEF Table
  <2>3. QED
    BY <2>1, <2>2
<1>6. slot \in [Jobs -> OptInstant]
  <2> SUFFICES ASSUME NEW j \in Jobs PROVE slot[j] \in OptInstant
    OBVIOUS
  <2>1. CASE j \in due
    BY <2>1, <1>3 DEF Job
  <2>2. CASE j \notin due
    BY <2>2 DEF OptInstant
  <2>3. QED
    BY <2>1, <2>2
<1>7. \A j \in Jobs : (slot[j] # None <=> j \in due) /\ (j \in due => jobs[j] # None)
  BY <1>3, <1>4, AdvancedType, NoneIsNoJob
<1>8. pass' = [pass EXCEPT ![t] = p]
  BY DEF LoadAndAdvance, due, table
<1> HIDE DEF jobs, slot
<1>9. PassOK(p)
  BY <1>1, <1>2, <1>5, <1>6, <1>7 DEF PassOK, Pass
<1> HIDE DEF p
<1>10. pass' \in [Ticks -> Pass] /\ \A u \in Ticks : PassOK(pass'[u])
  BY <1>8, <1>9, OnePassChanges
<1>11. QED
  BY <1>10 DEF LoadAndAdvance, TypeInv, TypeOK

LEMMA SaveAdvancedType ==
    ASSUME TypeInv, NEW t \in Ticks, SaveAdvanced(t)
    PROVE  TypeInv'
<1> DEFINE p == [pass[t] EXCEPT !.pc = "running"]
<1>1. pass[t] \in Pass /\ PassOK(pass[t])
  BY DEF TypeInv, TypeOK
<1>2. PassOK(p)
  BY <1>1 DEF PassOK, Pass
<1>3. pass' = [pass EXCEPT ![t] = p]
  BY DEF SaveAdvanced
<1> HIDE DEF p
<1>4. pass' \in [Ticks -> Pass] /\ \A u \in Ticks : PassOK(pass'[u])
  BY <1>2, <1>3, OnePassChanges
<1>5. disk' \in Table
  BY <1>1 DEF SaveAdvanced, Pass
<1>6. QED
  BY <1>4, <1>5 DEF SaveAdvanced, TypeInv, TypeOK

LEMMA StartChunkType ==
    ASSUME TypeInv, NEW t \in Ticks, StartChunk(t)
    PROVE  TypeInv'
<1>1. PICK chunk \in (SUBSET pass[t].queue) \ {{}} :
           /\ pass' = [pass EXCEPT ![t].running = chunk, ![t].queue = @ \ chunk]
           /\ fired' = [j \in Jobs |->
                  IF j \in chunk
                  THEN Append(fired[j], [slot |-> pass[t].slot[j],
                                         at   |-> pass[t].now])
                  ELSE fired[j]]
  BY DEF StartChunk
<1> DEFINE p == [pass[t] EXCEPT !.running = chunk, !.queue = @ \ chunk]
<1>2. pass[t] \in Pass /\ PassOK(pass[t])
  BY DEF TypeInv, TypeOK
<1>3. PassOK(p)
  BY <1>2 DEF PassOK, Pass
<1>4. pass' = [pass EXCEPT ![t] = p]
  BY <1>1
<1> HIDE DEF p
<1>5. pass' \in [Ticks -> Pass] /\ \A u \in Ticks : PassOK(pass'[u])
  BY <1>3, <1>4, OnePassChanges
<1>6. ASSUME NEW j \in chunk
      PROVE  [slot |-> pass[t].slot[j], at |-> pass[t].now] \in [slot : Nat, at : Instants]
  <2>1. pass[t].slot[j] \in OptInstant /\ pass[t].slot[j] # None /\ pass[t].now \in Instants
    BY <1>2 DEF PassOK, Pass
  <2>2. QED
    BY <2>1 DEF OptInstant
<1>7. fired' \in [Jobs -> Seq([slot : Nat, at : Instants])]
  <2> DEFINE Entry == [slot : Nat, at : Instants]
             e(j)  == [slot |-> pass[t].slot[j], at |-> pass[t].now]
  <2>1. \A j \in chunk : e(j) \in Entry
    BY <1>6
  <2>2. fired \in [Jobs -> Seq(Entry)]
    BY DEF TypeInv, TypeOK
  <2>3. fired' = [j \in Jobs |-> IF j \in chunk THEN Append(fired[j], e(j)) ELSE fired[j]]
    BY <1>1
  <2> HIDE DEF Entry, e
  <2>4. fired' \in [Jobs -> Seq(Entry)]
    BY <2>1, <2>2, <2>3
  <2>5. QED
    BY <2>4 DEF Entry
<1>8. QED
  BY <1>5, <1>7 DEF StartChunk, TypeInv, TypeOK

LEMMA FinishType ==
    ASSUME TypeInv, NEW t \in Ticks, NEW j \in Jobs, NEW status \in Statuses,
           Finish(t, j, status)
    PROVE  TypeInv'
<1> DEFINE p == [pass[t] EXCEPT !.running = @ \ {j}, !.outcome[j] = status]
<1>1. pass[t] \in Pass /\ PassOK(pass[t]) /\ status \in RunStatus
  BY StatusesAssumption DEF TypeInv, TypeOK
<1>2. PassOK(p)
  BY <1>1 DEF PassOK, Pass
<1>3. pass' = [pass EXCEPT ![t] = p]
  BY DEF Finish
<1> HIDE DEF p
<1>4. pass' \in [Ticks -> Pass] /\ \A u \in Ticks : PassOK(pass'[u])
  BY <1>2, <1>3, OnePassChanges
<1>5. QED
  BY <1>4 DEF Finish, TypeInv, TypeOK

LEMMA SaveOutcomesType ==
    ASSUME TypeInv, NEW t \in Ticks, SaveOutcomes(t)
    PROVE  TypeInv'
<1> DEFINE p == [pass[t] EXCEPT !.pc = "delivering", !.queue = ToDeliver(t)]
<1>1. pass[t] \in Pass /\ PassOK(pass[t])
  BY DEF TypeInv, TypeOK
<1>2. PassOK(p)
  BY <1>1 DEF PassOK, Pass, ToDeliver, Snapshots
<1>3. pass' = [pass EXCEPT ![t] = p]
  BY DEF SaveOutcomes
<1> HIDE DEF p
<1>4. pass' \in [Ticks -> Pass] /\ \A u \in Ticks : PassOK(pass'[u])
  BY <1>2, <1>3, OnePassChanges
<1>5. disk' \in Table
  <2> SUFFICES ASSUME NEW j \in Jobs PROVE disk'[j] \in Job \cup {None}
    BY DEF SaveOutcomes, Table
  <2>1. CASE j \in Snapshots(t)
    <3>1. pass[t].jobs[j] \in Job /\ pass[t].outcome[j] \in RunStatus \cup {None}
      BY <1>1, <2>1 DEF PassOK, Pass, Table, Snapshots
    <3>2. QED
      BY <2>1, <3>1, SettledType DEF SaveOutcomes
  <2>2. CASE j \notin Snapshots(t)
    BY <1>1, <2>2 DEF SaveOutcomes, Pass, Table
  <2>3. QED
    BY <2>1, <2>2
<1>6. settled' \in [Jobs -> Nat]
  BY DEF SaveOutcomes, TypeInv, TypeOK
<1>7. QED
  BY <1>4, <1>5, <1>6 DEF SaveOutcomes, TypeInv, TypeOK

LEMMA DeliverType ==
    ASSUME TypeInv, NEW t \in Ticks, NEW j \in Jobs, Deliver(t, j)
    PROVE  TypeInv'
<1> DEFINE p == [pass[t] EXCEPT !.queue = @ \ {j}]
<1>1. pass[t] \in Pass /\ PassOK(pass[t])
  BY DEF TypeInv, TypeOK
<1>2. PassOK(p)
  BY <1>1 DEF PassOK, Pass
<1>3. pass' = [pass EXCEPT ![t] = p]
  BY DEF Deliver
<1> HIDE DEF p
<1>4. pass' \in [Ticks -> Pass] /\ \A u \in Ticks : PassOK(pass'[u])
  BY <1>2, <1>3, OnePassChanges
<1>5. pass[t].slot[j] \in Nat
  BY <1>1 DEF Deliver, PassOK, Pass, OptInstant
<1>6. recorded' \in [Jobs -> SUBSET Nat]
  <2>1. recorded \in [Jobs -> SUBSET Nat]
    BY DEF TypeInv, TypeOK
  <2>2. CASE recorded' = recorded
    BY <2>1, <2>2
  <2>3. CASE recorded' = [recorded EXCEPT ![j] = @ \cup {pass[t].slot[j]}]
    <3> DEFINE slot == pass[t].slot[j]
    <3>1. slot \in Nat
      BY <1>5
    <3> HIDE DEF slot
    <3>2. recorded[j] \cup {slot} \in SUBSET Nat
      BY <2>1, <3>1
    <3>3. recorded' = [recorded EXCEPT ![j] = recorded[j] \cup {slot}]
      BY <2>3 DEF slot
    <3>4. QED
      BY <2>1, <3>2, <3>3
  <2>4. QED
    BY <2>2, <2>3 DEF Deliver
<1>7. faults' \in 0..MaxFaults
  <2>1. faults \in 0..MaxFaults
    BY DEF TypeInv, TypeOK
  <2>2. faults' = faults \/ (faults' = faults + 1 /\ faults < MaxFaults)
    BY DEF Deliver
  <2>3. QED
    BY <2>1, <2>2, MaxFaultsAssumption
<1>8. QED
  BY <1>4, <1>6, <1>7 DEF Deliver, TypeInv, TypeOK

LEMMA TypeInductive ==
    ASSUME TypeInv, [Next]_vars
    PROVE  TypeInv'
<1>1. CASE SetClock
  BY <1>1 DEF SetClock, TypeInv, TypeOK
<1>2. ASSUME NEW t \in Ticks, TryLock(t, Jobs) PROVE TypeInv'
  BY <1>2, TryLockType
<1>3. ASSUME NEW t \in Ticks, Work(t) PROVE TypeInv'
  <2>1. CASE LoadNothingDue(t)
    BY <2>1, LeaveType DEF LoadNothingDue, TypeInv, TypeOK
  <2>2. CASE LoadAndAdvance(t)
    BY <2>2, LoadType
  <2>3. CASE SaveAdvanced(t)
    BY <2>3, SaveAdvancedType
  <2>4. CASE StartChunk(t)
    BY <2>4, StartChunkType
  <2>5. CASE \E j \in Jobs, status \in Statuses : Finish(t, j, status)
    BY <2>5, FinishType
  <2>6. CASE SaveOutcomes(t)
    BY <2>6, SaveOutcomesType
  <2>7. CASE \E j \in Jobs : Deliver(t, j)
    BY <2>7, DeliverType
  <2>8. CASE Return(t)
    BY <2>8, LeaveType DEF Return, TypeInv, TypeOK
  <2>9. QED
    BY <1>3, <2>1, <2>2, <2>3, <2>4, <2>5, <2>6, <2>7, <2>8 DEF Work
<1>4. ASSUME NEW t \in Ticks, Fault(t) PROVE TypeInv'
  <2>1. faults' \in 0..MaxFaults
    BY <1>4, MaxFaultsAssumption DEF Fault, StoreFails, Kill, TypeInv, TypeOK
  <2>2. QED
    BY <1>4, <2>1, LeaveType DEF Fault, StoreFails, Kill
<1>5. CASE UNCHANGED vars
  BY <1>5 DEF vars, TypeInv, TypeOK
<1>6. QED
  BY <1>1, <1>2, <1>3, <1>4, <1>5 DEF Next

LEMMA TypeInit == Init => TypeInv
<1> SUFFICES ASSUME Init PROVE TypeInv
  OBVIOUS
<1>1. disk \in Table
  BY NewJobType, InstantsAreNat DEF Init, Table
<1>2. pass \in [Ticks -> Pass] /\ \A t \in Ticks : PassOK(pass[t])
  BY IdleType, IdlePassOK DEF Init
<1>3. clock \in Instants /\ faults \in 0..MaxFaults
  BY InstantsAreNat, MaxFaultsAssumption DEF Init
<1>4. fired \in [Jobs -> Seq([slot : Nat, at : Instants])]
  BY DEF Init
<1>5. QED
  BY <1>1, <1>2, <1>3, <1>4 DEF Init, TypeInv, TypeOK

\* Every table that is loaded or saved holds well-formed jobs only, every
\* pass works on the jobs it loaded, and the fault budget is never overdrawn.
THEOREM TypeCorrect == Spec => []TypeOK
<1>1. TypeInv /\ [Next]_vars => TypeInv'
  BY TypeInductive
<1>2. TypeInv => TypeOK
  BY DEF TypeInv
<1>3. QED
  BY <1>1, <1>2, TypeInit, PTL DEF Spec

\* What a load finds and makes of it: the snapshots are the due jobs, each
\* advanced past the pass, and every other job is as it was but recovered.
LEMMA LoadedJobs ==
    ASSUME TypeInv, NEW t \in Ticks, LoadAndAdvance(t)
    PROVE  /\ pass'[t].pc = "advanced" /\ pass'[t].now = pass[t].now
           /\ UNCHANGED <<disk, fired>>
           /\ \A j \in Snapshots(t)' :
                  /\ IsDue(disk[j], pass[t].now)
                  /\ pass'[t].slot[j] = disk[j].next_run_at
                  /\ pass'[t].slot[j] \in Nat /\ pass'[t].slot[j] <= pass[t].now
                  /\ pass'[t].jobs[j] = Advanced(Recovered(disk)[j], pass[t].now)
                  /\ \/ pass'[t].jobs[j].next_run_at = None
                     \/ pass'[t].jobs[j].next_run_at > pass[t].now
           /\ \A j \in Jobs \ Snapshots(t)' : pass'[t].jobs[j] = Recovered(disk)[j]
<1> DEFINE due   == DueAtLoad(t)
           table == Recovered(disk)
           jobs  == [j \in Jobs |-> IF j \in due THEN Advanced(table[j], pass[t].now)
                                                 ELSE table[j]]
           slot  == [j \in Jobs |-> IF j \in due THEN table[j].next_run_at ELSE None]
<1>1. disk \in Table /\ table \in Table /\ pass \in [Ticks -> Pass] /\ pass[t] \in Pass
  BY RecoveredType DEF TypeInv, TypeOK
<1>2. /\ pass'[t].pc = "advanced" /\ pass'[t].now = pass[t].now
      /\ pass'[t].jobs = jobs /\ pass'[t].slot = slot
      /\ UNCHANGED <<disk, fired>>
  BY <1>1 DEF LoadAndAdvance, Pass
<1>3. due \subseteq Jobs /\ pass[t].now \in Instants
  BY <1>1 DEF DueAtLoad, Due, Pass
<1>4. ASSUME NEW j \in due
      PROVE  /\ IsDue(disk[j], pass[t].now)
             /\ table[j] \in Job
             /\ table[j].next_run_at = disk[j].next_run_at
             /\ table[j].next_run_at # None
             /\ table[j].next_run_at <= pass[t].now
  <2>1. IsDue(disk[j], pass[t].now)
    BY DEF DueAtLoad, Due
  <2>2. QED
    BY <1>1, <1>3, <2>1, RecoveredType DEF IsDue, Table
<1> HIDE DEF due, table
<1>5. Snapshots(t)' = due
  BY <1>2, <1>3, <1>4 DEF Snapshots
<1>6. ASSUME NEW j \in due
      PROVE  /\ slot[j] = disk[j].next_run_at /\ slot[j] \in Nat /\ slot[j] <= pass[t].now
             /\ jobs[j] = Advanced(table[j], pass[t].now)
             /\ jobs[j].next_run_at = None \/ jobs[j].next_run_at > pass[t].now
  BY <1>3, <1>4, AdvancedType DEF Job, OptInstant
<1>7. \A j \in Jobs \ due : jobs[j] = table[j]
  OBVIOUS
<1> HIDE DEF jobs, slot
<1>8. QED
  BY <1>2, <1>4, <1>5, <1>6, <1>7 DEF table

\* What a step of a pass does to the table it holds and to jobs.json.
LEMMA PassSteps ==
    ASSUME TypeInv, NEW t \in Ticks, Work(t) \/ Fault(t)
    PROVE  \/ LoadAndAdvance(t)
           \/ pass'[t] = Idle /\ disk' = disk
           \/ /\ pass'[t].now = pass[t].now /\ pass'[t].jobs = pass[t].jobs
              /\ pass'[t].slot = pass[t].slot
              /\ \/ SaveAdvanced(t) /\ pass[t].pc = "advanced" /\ pass'[t].pc = "running"
                 \/ SaveOutcomes(t) /\ pass[t].pc = "running" /\ pass'[t].pc = "delivering"
                 \/ /\ disk' = disk /\ pass'[t].pc = pass[t].pc
                    /\ pass[t].pc \in {"running", "delivering"}
<1>1. pass \in [Ticks -> Pass] /\ pass[t] \in Pass
  BY DEF TypeInv, TypeOK
<1>2. CASE LoadNothingDue(t) \/ Return(t) \/ Fault(t)
  BY <1>1, <1>2 DEF LoadNothingDue, Return, Fault, StoreFails, Kill, Leave
<1>3. CASE LoadAndAdvance(t)
  BY <1>3
<1>4. CASE SaveAdvanced(t)
  BY <1>1, <1>4 DEF SaveAdvanced, Pass
<1>5. CASE StartChunk(t)
  BY <1>1, <1>5 DEF StartChunk, Pass
<1>6. ASSUME NEW j \in Jobs, NEW status \in Statuses, Finish(t, j, status)
      PROVE  /\ pass'[t].now = pass[t].now /\ pass'[t].jobs = pass[t].jobs
             /\ pass'[t].slot = pass[t].slot /\ disk' = disk
             /\ pass'[t].pc = pass[t].pc /\ pass[t].pc = "running"
  BY <1>1, <1>6 DEF Finish, Pass
<1>7. CASE SaveOutcomes(t)
  BY <1>1, <1>7 DEF SaveOutcomes, AllJoined, Pass
<1>8. ASSUME NEW j \in Jobs, Deliver(t, j)
      PROVE  /\ pass'[t].now = pass[t].now /\ pass'[t].jobs = pass[t].jobs
             /\ pass'[t].slot = pass[t].slot /\ disk' = disk
             /\ pass'[t].pc = pass[t].pc /\ pass[t].pc = "delivering"
  BY <1>1, <1>8 DEF Deliver, Pass
<1>9. QED
  BY <1>2, <1>3, <1>4, <1>5, <1>6, <1>7, <1>8 DEF Work

-----------------------------------------------------------------------------
(* What the saves of a pass write *)

LEMMA RecoveredFields ==
    ASSUME NEW table \in Table, NEW j \in Jobs, table[j] # None
    PROVE  /\ Recovered(table)[j] \in Job
           /\ Recovered(table)[j].schedule = table[j].schedule
           /\ Recovered(table)[j].times = table[j].times
           /\ Recovered(table)[j].completed = table[j].completed
           /\ Recovered(table)[j].next_run_at = table[j].next_run_at
           /\ Recovered(table)[j].enabled = table[j].enabled
           /\ Recovered(table)[j].state # "running"
           /\ Recovered(table)[j].state = "paused" <=> table[j].state = "paused"
<1>1. table[j] \in Job
  BY DEF Table
<1>2. QED
  BY <1>1 DEF Recovered, Job, JobState

LEMMA AdvancedFields ==
    ASSUME NEW job \in Job, NEW now
    PROVE  /\ Advanced(job, now).schedule = job.schedule
           /\ Advanced(job, now).times = job.times
           /\ Advanced(job, now).completed = job.completed + 1
           /\ Advanced(job, now).enabled = job.enabled
           /\ Advanced(job, now).state = "running"
           /\ Advanced(job, now).next_run_at
                  = compute_next_run(job.schedule, job.next_run_at, now)
<1> DEFINE next == compute_next_run(job.schedule, job.next_run_at, now)
<1>1. Advanced(job, now) = [job EXCEPT !.last_run_at = now, !.next_run_at = next,
                                       !.state = "running", !.completed = @ + 1]
  BY DEF Advanced
<1> HIDE DEF next
<1>2. QED
  BY <1>1 DEF Job, next

LEMMA SettledFields ==
    ASSUME NEW job \in Job, NEW status \in RunStatus \cup {None},
           Settled(job, status) # None
    PROVE  /\ Settled(job, status).schedule = job.schedule
           /\ Settled(job, status).times = job.times
           /\ Settled(job, status).completed = job.completed
           /\ Settled(job, status).next_run_at = job.next_run_at
           /\ Settled(job, status).enabled = job.enabled
           /\ Settled(job, status).state = "scheduled"
           /\ ~Retires(job)
BY DEF Settled, Job

\* What the two saves of a pass write of a job that was there before.
LEMMA SavedByAdvance ==
    ASSUME TypeInv, NEW t \in Ticks, FreshAt(t), SaveAdvanced(t), NEW j \in Jobs, disk'[j] # None
    PROVE  /\ disk[j] \in Job /\ disk[j] # None /\ disk'[j] \in Job
           /\ disk'[j].schedule = disk[j].schedule
           /\ disk'[j].times = disk[j].times
           /\ disk'[j].enabled = disk[j].enabled
           /\ j \in Snapshots(t) =>
                  /\ disk'[j].completed = disk[j].completed + 1
                  /\ disk'[j].next_run_at = compute_next_run(
                         disk[j].schedule, disk[j].next_run_at, pass[t].now)
           /\ j \notin Snapshots(t) =>
                  /\ disk'[j].completed = disk[j].completed
                  /\ disk'[j].next_run_at = disk[j].next_run_at
                  /\ disk'[j].state # "running"
<1>1. pass[t].pc = "advanced" /\ disk' = pass[t].jobs /\ FreshAt(t)
  BY DEF SaveAdvanced
<1>2. disk \in Table /\ pass[t] \in Pass
  BY DEF TypeInv, TypeOK
<1>3. disk[j] # None
  BY <1>1, <1>2, RecoveredType DEF FreshAt
<1>4. disk[j] \in Job /\ disk'[j] \in Job
  BY <1>1, <1>2, <1>3 DEF Table, Pass
<1>5. CASE j \in Snapshots(t)
  <2>1. disk'[j] = Advanced(Recovered(disk)[j], pass[t].now)
    BY <1>1, <1>5 DEF FreshAt
  <2>2. QED
    BY <1>2, <1>3, <1>4, <1>5, <2>1, RecoveredFields, AdvancedFields
<1>6. CASE j \notin Snapshots(t)
  <2>1. disk'[j] = Recovered(disk)[j]
    BY <1>1, <1>6 DEF FreshAt
  <2>2. QED
    BY <1>2, <1>3, <1>4, <1>6, <2>1, RecoveredFields
<1>7. QED
  BY <1>5, <1>6

LEMMA SavedByOutcomes ==
    ASSUME TypeInv, NEW t \in Ticks, FreshAt(t), SaveOutcomes(t), NEW j \in Jobs, disk'[j] # None
    PROVE  /\ disk[j] # None /\ disk[j] \in Job /\ disk[j] = pass[t].jobs[j]
           /\ disk'[j].schedule = disk[j].schedule
           /\ disk'[j].times = disk[j].times
           /\ disk'[j].enabled = disk[j].enabled
           /\ disk'[j].completed = disk[j].completed
           /\ disk'[j].next_run_at = disk[j].next_run_at
           /\ j \in Snapshots(t) => ~Retires(disk[j]) /\ disk'[j].state = "scheduled"
           /\ j \notin Snapshots(t) => disk'[j] = disk[j]
<1>1. pass[t].pc = "running" /\ disk = pass[t].jobs
  BY DEF SaveOutcomes, AllJoined, FreshAt
<1>2. disk \in Table /\ pass[t] \in Pass /\ PassOK(pass[t])
  BY DEF TypeInv, TypeOK
<1>3. CASE j \in Snapshots(t)
  <2>1. disk[j] # None /\ disk[j] \in Job
    BY <1>1, <1>2, <1>3 DEF Snapshots, PassOK, Table
  <2>2. pass[t].outcome[j] \in RunStatus \cup {None}
    BY <1>2 DEF Pass
  <2>3. disk'[j] = Settled(disk[j], pass[t].outcome[j])
    BY <1>1, <1>3 DEF SaveOutcomes
  <2>4. QED
    BY <1>1, <1>3, <2>1, <2>2, <2>3, SettledFields
<1>4. CASE j \notin Snapshots(t)
  <2>1. disk'[j] = disk[j]
    BY <1>1, <1>4 DEF SaveOutcomes
  <2>2. QED
    BY <1>1, <1>2, <1>4, <2>1 DEF Table
<1>5. QED
  BY <1>3, <1>4

\* Only the two saves of a pass change jobs.json.
LEMMA OtherStepsKeepDisk ==
    ASSUME NEW t \in Ticks, Work(t) \/ Fault(t)
    PROVE  SaveAdvanced(t) \/ SaveOutcomes(t) \/ disk' = disk
BY DEF Work, Fault, LoadNothingDue, LoadAndAdvance, StartChunk, Finish, Deliver, Return,
       StoreFails, Kill

-----------------------------------------------------------------------------
(* Mutual exclusion *)

\* A step of process t, other than taking the lock, is a step of the holder:
\* every other process is idle before it and stays as it is.
LEMMA HolderSteps ==
    ASSUME TypeInv, OnePassAtATime, NEW t \in Ticks, Work(t) \/ Fault(t)
    PROVE  /\ lock = t
           /\ pass[t].pc # "idle"
           /\ \A u \in Ticks \ {t} : pass[u].pc = "idle" /\ pass'[u] = pass[u]
<1>1. pass[t].pc # "idle"
  BY DEF Work, Fault, LoadNothingDue, LoadAndAdvance, SaveAdvanced, StartChunk, Finish,
         AllJoined, SaveOutcomes, Deliver, Return, StoreFails, Kill
<1>2. lock = t
  BY <1>1 DEF OnePassAtATime
<1>3. ASSUME NEW u \in Ticks \ {t} PROVE pass[u].pc = "idle" /\ pass'[u] = pass[u]
  <2>1. pass[u].pc = "idle"
    BY <1>2 DEF OnePassAtATime
  <2>2. pass \in [Ticks -> Pass]
    BY DEF TypeInv, TypeOK
  <2>3. CASE LoadNothingDue(t) \/ Return(t) \/ Fault(t)
    BY <2>1, <2>2, <2>3 DEF LoadNothingDue, Return, Fault, StoreFails, Kill, Leave
  <2>4. CASE LoadAndAdvance(t) \/ SaveAdvanced(t) \/ StartChunk(t) \/ SaveOutcomes(t)
    BY <2>1, <2>2, <2>4 DEF LoadAndAdvance, SaveAdvanced, StartChunk, SaveOutcomes
  <2>5. CASE (\E j \in Jobs : Deliver(t, j))
             \/ \E j \in Jobs, status \in Statuses : Finish(t, j, status)
    BY <2>1, <2>2, <2>5 DEF Deliver, Finish
  <2>6. QED
    BY <2>1, <2>3, <2>4, <2>5 DEF Work
<1>4. QED
  BY <1>1, <1>2, <1>3

\* The holder keeps the lock, inside the pass, or lets it go and is idle.
LEMMA HolderPc ==
    ASSUME TypeInv, OnePassAtATime, NEW t \in Ticks, Work(t) \/ Fault(t)
    PROVE  \/ lock' = t /\ pass'[t].pc # "idle"
           \/ lock' = None /\ pass'[t] = Idle
<1> pass \in [Ticks -> Pass] /\ pass[t] \in Pass /\ lock = t /\ pass[t].pc # "idle"
  BY HolderSteps DEF TypeInv, TypeOK
<1>1. CASE LoadNothingDue(t) \/ Return(t) \/ Fault(t)
  BY <1>1 DEF LoadNothingDue, Return, Fault, StoreFails, Kill, Leave
<1>2. CASE LoadAndAdvance(t)
  <2>1. pass'[t].pc = "advanced" /\ lock' = lock
    BY <1>2 DEF LoadAndAdvance, Pass
  <2>2. QED
    BY <2>1
<1>3. CASE SaveAdvanced(t) \/ SaveOutcomes(t)
  BY <1>3 DEF SaveAdvanced, SaveOutcomes, Pass
<1>4. CASE StartChunk(t)
  BY <1>4 DEF StartChunk, Pass
<1>5. ASSUME NEW j \in Jobs, Deliver(t, j)
      PROVE  lock' = t /\ pass'[t].pc # "idle"
  BY <1>5 DEF Deliver, Pass
<1>6. ASSUME NEW j \in Jobs, NEW status \in Statuses, Finish(t, j, status)
      PROVE  lock' = t /\ pass'[t].pc # "idle"
  <2>1. lock' = lock /\ pass'[t].pc = pass[t].pc
    BY <1>6 DEF Finish, Pass
  <2>2. QED
    BY <2>1
<1>7. QED
  BY <1>1, <1>2, <1>3, <1>4, <1>5, <1>6 DEF Work

\* Whichever jobs it is for, the lock is only taken when every process is idle.
LEMMA OnePassTryLock ==
    ASSUME TypeInv, OnePassAtATime, NEW t \in Ticks, NEW targets, TryLock(t, targets)
    PROVE  /\ OnePassAtATime'
           /\ \A u \in Ticks : pass[u].pc = "idle"
           /\ pass'[t].pc = "locked" /\ pass'[t].jobs = NoTable /\ pass'[t].slot = NoSlot
           /\ \A u \in Ticks \ {t} : pass'[u] = pass[u]
           /\ UNCHANGED <<disk, fired>>
<1>1. \A u \in Ticks : pass[u].pc = "idle"
  BY TicksAssumption DEF TryLock, OnePassAtATime
<1>2. /\ lock' = t /\ pass'[t].pc = "locked"
      /\ pass'[t].jobs = NoTable /\ pass'[t].slot = NoSlot
      /\ \A u \in Ticks \ {t} : pass'[u] = pass[u]
      /\ UNCHANGED <<disk, fired>>
  BY DEF TryLock, TypeInv, TypeOK, Idle
<1>3. QED
  BY <1>1, <1>2 DEF OnePassAtATime

LEMMA OnePassInductive ==
    ASSUME TypeInv, OnePassAtATime, [Next]_vars
    PROVE  OnePassAtATime'
<1>1. CASE SetClock
  BY <1>1 DEF SetClock, OnePassAtATime
<1>2. ASSUME NEW t \in Ticks, TryLock(t, Jobs) PROVE OnePassAtATime'
  BY <1>2, OnePassTryLock
<1>3. ASSUME NEW t \in Ticks, Work(t) \/ Fault(t) PROVE OnePassAtATime'
  <2>1. \A u \in Ticks \ {t} : pass'[u].pc = "idle"
    BY <1>3, HolderSteps
  <2>2. \/ lock' = t /\ pass'[t].pc # "idle"
        \/ lock' = None /\ pass'[t].pc = "idle"
    BY <1>3, HolderPc DEF Idle
  <2>3. QED
    BY <2>1, <2>2, TicksAssumption DEF OnePassAtATime
<1>4. CASE UNCHANGED vars
  BY <1>4 DEF vars, OnePassAtATime
<1>5. QED
  BY <1>1, <1>2, <1>3, <1>4 DEF Next

\* However many processes make passes, and wherever they are killed, only the
\* holder of the lock is ever inside one.
THEOREM PassesExclude == Spec => []OnePassAtATime
<1>1. Init => TypeInv /\ OnePassAtATime
  <2> SUFFICES ASSUME Init PROVE OnePassAtATime
    BY TypeInit
  <2>1. QED
    BY TicksAssumption DEF Init, Idle, OnePassAtATime
<1>2. TypeInv /\ OnePassAtATime /\ [Next]_vars => TypeInv' /\ OnePassAtATime'
  BY TypeInductive, OnePassInductive
<1>3. QED
  BY <1>1, <1>2, PTL DEF Spec

-----------------------------------------------------------------------------
(* At most once.  SingleCatchUp is not inductive: that the next firing lies *)
(* after the earlier ones rests on where its slot comes from.  A slot waits *)
(* in jobs.json, then in the queue of a pass, and in both places it is      *)
(* after every firing of its job so far; when a pass claims it, the slot it *)
(* leaves in jobs.json is already after that pass.                          *)

AllBefore(j, slot) == \A i \in 1..Len(fired[j]) : fired[j][i].at < slot

DiskAhead ==
    \A j \in Jobs : disk[j] # None /\ disk[j].next_run_at # None
                        => AllBefore(j, disk[j].next_run_at)

ClaimOK(t) ==
    /\ pass[t].pc = "advanced" =>
           \A j \in Snapshots(t) :
               disk[j] # None /\ pass[t].slot[j] = disk[j].next_run_at
    /\ pass[t].pc \in {"advanced", "running"} =>
           \A j \in Snapshots(t) :
               /\ pass[t].slot[j] <= pass[t].now
               /\ \/ pass[t].jobs[j].next_run_at = None
                  \/ pass[t].jobs[j].next_run_at > pass[t].now
    /\ pass[t].pc = "running" =>
           \A j \in pass[t].queue : AllBefore(j, pass[t].slot[j])

FiredWhenDue ==
    \A j \in Jobs : \A k \in 1..Len(fired[j]) : fired[j][k].slot <= fired[j][k].at

SafetyInv ==
    /\ TypeInv
    /\ OnePassAtATime
    /\ \A t \in Ticks : FreshAt(t) /\ ClaimOK(t)
    /\ DiskAhead
    /\ FiredWhenDue
    /\ SingleCatchUp

LEMMA FiredType ==
    ASSUME TypeOK, NEW j \in Jobs
    PROVE  /\ Len(fired[j]) \in Nat
           /\ \A i \in 1..Len(fired[j]) :
                  /\ fired[j][i].slot \in Nat
                  /\ fired[j][i].at \in Instants
                  /\ fired[j][i].at \in Nat
<1> DEFINE Entry == [slot : Nat, at : Instants]
<1>1. fired[j] \in Seq(Entry)
  BY DEF TypeOK
<1>2. \A e \in Entry : e.slot \in Nat /\ e.at \in Instants /\ e.at \in Nat
  BY InstantsAreNat
<1> HIDE DEF Entry
<1>3. Len(fired[j]) \in Nat /\ \A i \in 1..Len(fired[j]) : fired[j][i] \in Entry
  BY <1>1
<1>4. QED
  BY <1>2, <1>3

\* A step that leaves jobs.json and the firings alone has to be checked for
\* the pass that takes it only, and not at all when that pass ends.
LEMMA PassStep ==
    ASSUME SafetyInv, NEW t \in Ticks, TypeInv', OnePassAtATime',
           \A u \in Ticks \ {t} : pass'[u].pc = "idle",
           pass'[t].pc \notin {"advanced", "running"} \/ (FreshAt(t) /\ ClaimOK(t))',
           UNCHANGED <<disk, fired>>
    PROVE  SafetyInv'
<1>1. \A u \in Ticks : (FreshAt(u) /\ ClaimOK(u))'
  <2> SUFFICES ASSUME NEW u \in Ticks PROVE (FreshAt(u) /\ ClaimOK(u))'
    OBVIOUS
  <2>1. CASE pass'[u].pc \notin {"advanced", "running"}
    BY <2>1 DEF FreshAt, ClaimOK
  <2>2. CASE pass'[u].pc \in {"advanced", "running"}
    BY <2>2
  <2>3. QED
    BY <2>1, <2>2
<1>2. (DiskAhead /\ FiredWhenDue /\ SingleCatchUp)'
  BY DEF SafetyInv, DiskAhead, AllBefore, FiredWhenDue, SingleCatchUp
<1>3. QED
  BY <1>1, <1>2 DEF SafetyInv

LEMMA SafetyLoad ==
    ASSUME SafetyInv, NEW t \in Ticks, LoadAndAdvance(t), TypeInv', OnePassAtATime'
    PROVE  SafetyInv'
<1>1. TypeInv
  BY DEF SafetyInv
<1>2. \A u \in Ticks \ {t} : pass'[u].pc = "idle"
  BY HolderSteps DEF Work, SafetyInv
<1>3. pass'[t].pc = "advanced" /\ pass'[t].now = pass[t].now /\ UNCHANGED <<disk, fired>>
  BY <1>1, LoadedJobs
<1>4. Recovered(disk)' = Recovered(disk)
  BY <1>3 DEF Recovered
<1>5. \A j \in Snapshots(t)' : disk[j] # None
  BY <1>1, LoadedJobs DEF IsDue
<1>6. FreshAt(t)'
  BY <1>1, <1>3, <1>4, <1>5, LoadedJobs DEF FreshAt
<1>7. ClaimOK(t)'
  BY <1>1, <1>3, <1>5, LoadedJobs DEF ClaimOK
<1>8. QED
  BY <1>2, <1>3, <1>6, <1>7, PassStep

\* The save that makes a pass's claims durable: the slots it leaves in
\* jobs.json are after the pass, those it takes into its queue were ahead.
LEMMA SafetySaveAdvanced ==
    ASSUME SafetyInv, NEW t \in Ticks, SaveAdvanced(t), TypeInv', OnePassAtATime'
    PROVE  SafetyInv'
<1>1. disk \in Table /\ pass \in [Ticks -> Pass] /\ pass[t] \in Pass /\ PassOK(pass[t])
  BY DEF SafetyInv, TypeInv, TypeOK
<1>2. /\ pass[t].pc = "advanced" /\ pass'[t].pc = "running"
      /\ pass'[t].now = pass[t].now /\ pass'[t].jobs = pass[t].jobs
      /\ pass'[t].slot = pass[t].slot /\ pass'[t].queue = pass[t].queue
      /\ disk' = pass[t].jobs /\ fired' = fired
  BY <1>1 DEF SaveAdvanced, Pass
<1>3. \A u \in Ticks \ {t} : pass'[u].pc = "idle"
  BY HolderSteps DEF Work, SafetyInv
<1>4. FreshAt(t) /\ ClaimOK(t) /\ DiskAhead
  BY DEF SafetyInv
<1>5. Snapshots(t)' = Snapshots(t) /\ pass[t].queue \subseteq Snapshots(t)
  BY <1>1, <1>2 DEF Snapshots, PassOK
<1>6. ASSUME NEW j \in Snapshots(t) PROVE AllBefore(j, pass[t].slot[j])
  BY <1>2, <1>4 DEF ClaimOK, DiskAhead, Snapshots
<1>7. DiskAhead'
  <2> SUFFICES ASSUME NEW j \in Jobs, disk'[j] # None, disk'[j].next_run_at # None
               PROVE  AllBefore(j, disk'[j].next_run_at)
    BY <1>2 DEF DiskAhead, AllBefore
  <2>1. CASE j \in Snapshots(t)
    <3>1. AllBefore(j, pass[t].slot[j])
      BY <2>1, <1>6
    <3>2. pass[t].slot[j] <= pass[t].now /\ disk'[j].next_run_at > pass[t].now
      BY <1>2, <1>4, <2>1 DEF ClaimOK
    <3>3. pass[t].slot[j] \in Nat /\ pass[t].now \in Nat /\ disk'[j].next_run_at \in Nat
      BY <1>1, <1>2, <2>1, InstantsAreNat
      DEF Snapshots, Pass, OptInstant, Table, Job
    <3>4. \A i \in 1..Len(fired[j]) : fired[j][i].at \in Nat
      BY FiredType DEF SafetyInv, TypeInv
    <3>5. QED
      BY <3>1, <3>2, <3>3, <3>4 DEF AllBefore
  <2>2. CASE j \notin Snapshots(t)
    <3>1. disk'[j] = Recovered(disk)[j]
      BY <1>2, <1>4, <2>2 DEF FreshAt
    <3>2. disk[j] # None /\ disk[j].next_run_at = disk'[j].next_run_at
      BY <1>1, <3>1, RecoveredType
    <3>3. QED
      BY <1>4, <3>2 DEF DiskAhead
  <2>3. QED
    BY <2>1, <2>2
<1>8. FreshAt(t)' /\ ClaimOK(t)'
  <2>1. FreshAt(t)'
    BY <1>2 DEF FreshAt
  <2>2. ClaimOK(t)'
    BY <1>2, <1>4, <1>5, <1>6 DEF ClaimOK, AllBefore
  <2>3. QED
    BY <2>1, <2>2
<1>9. \A u \in Ticks : (FreshAt(u) /\ ClaimOK(u))'
  BY <1>3, <1>8 DEF FreshAt, ClaimOK
<1>10. (FiredWhenDue /\ SingleCatchUp)'
  BY <1>2 DEF SafetyInv, FiredWhenDue, SingleCatchUp
<1>11. QED
  BY <1>7, <1>9, <1>10 DEF SafetyInv

\* Handing the next chunk to its executors: each slot is after every earlier
\* firing of its job, and at the instant of the pass it is due.
LEMMA SafetyStartChunk ==
    ASSUME SafetyInv, NEW t \in Ticks, StartChunk(t), TypeInv', OnePassAtATime'
    PROVE  SafetyInv'
<1>1. disk \in Table /\ pass \in [Ticks -> Pass] /\ pass[t] \in Pass /\ PassOK(pass[t])
  BY DEF SafetyInv, TypeInv, TypeOK
<1>2. PICK chunk \in SUBSET pass[t].queue :
           /\ pass' = [pass EXCEPT ![t].running = chunk, ![t].queue = @ \ chunk]
           /\ fired' = [j \in Jobs |->
                  IF j \in chunk
                  THEN Append(fired[j], [slot |-> pass[t].slot[j],
                                         at   |-> pass[t].now])
                  ELSE fired[j]]
  BY DEF StartChunk
<1>3. /\ pass[t].pc = "running" /\ pass'[t].pc = "running"
      /\ pass'[t].now = pass[t].now /\ pass'[t].jobs = pass[t].jobs
      /\ pass'[t].slot = pass[t].slot /\ pass'[t].queue = pass[t].queue \ chunk
      /\ disk' = disk
  BY <1>1, <1>2 DEF StartChunk, Pass
<1>4. \A u \in Ticks \ {t} : pass'[u].pc = "idle"
  BY HolderSteps DEF Work, SafetyInv
<1>5. FreshAt(t) /\ ClaimOK(t) /\ DiskAhead /\ FiredWhenDue /\ SingleCatchUp
  BY DEF SafetyInv
<1>6. Snapshots(t)' = Snapshots(t) /\ chunk \subseteq Snapshots(t)
  BY <1>1, <1>3 DEF Snapshots, PassOK
<1>7. ASSUME NEW j \in chunk
      PROVE  /\ Len(fired[j]) \in Nat
             /\ \A i \in 1..Len(fired'[j]) :
                    \/ i \in 1..Len(fired[j]) /\ fired'[j][i] = fired[j][i]
                    \/ /\ i = Len(fired[j]) + 1
                       /\ fired'[j][i].slot = pass[t].slot[j]
                       /\ fired'[j][i].at = pass[t].now
  <2> DEFINE e == [slot |-> pass[t].slot[j], at |-> pass[t].now]
             Entry == [slot : Nat, at : Instants]
  <2>1. j \in Jobs /\ fired[j] \in Seq(Entry)
    BY <1>6 DEF Snapshots, SafetyInv, TypeInv, TypeOK
  <2>2. fired'[j] = Append(fired[j], e) /\ e.slot = pass[t].slot[j] /\ e.at = pass[t].now
    BY <1>2, <2>1
  <2> HIDE DEF e, Entry
  <2>3. /\ Len(fired'[j]) = Len(fired[j]) + 1
        /\ \A i \in 1..Len(fired[j]) : fired'[j][i] = fired[j][i]
        /\ fired'[j][Len(fired[j]) + 1] = e
        /\ Len(fired[j]) \in Nat
    BY <2>1, <2>2
  <2>4. e.slot = pass[t].slot[j] /\ e.at = pass[t].now
    BY DEF e
  <2>5. \A i \in 1..Len(fired'[j]) : i \in 1..Len(fired[j]) \/ i = Len(fired[j]) + 1
    BY <2>3
  <2>6. QED
    BY <2>3, <2>4, <2>5
<1>8. \A j \in Jobs \ chunk : fired'[j] = fired[j]
  BY <1>2
<1>9. ASSUME NEW j \in chunk
      PROVE  /\ AllBefore(j, pass[t].slot[j])
             /\ pass[t].slot[j] \in Nat /\ pass[t].now \in Nat
             /\ pass[t].slot[j] <= pass[t].now
             /\ disk[j].next_run_at = None \/ disk[j].next_run_at > pass[t].now
  <2>1. pass[t].slot[j] \in Nat /\ pass[t].now \in Nat
    BY <1>1, <1>6, InstantsAreNat DEF Snapshots, Pass, OptInstant
  <2>2. AllBefore(j, pass[t].slot[j])
    BY <1>3, <1>5 DEF ClaimOK
  <2>3. QED
    BY <1>3, <1>5, <1>6, <2>1, <2>2 DEF ClaimOK, FreshAt
<1>10. DiskAhead'
  <2> SUFFICES ASSUME NEW j \in Jobs, disk[j] # None, disk[j].next_run_at # None
               PROVE  \A i \in 1..Len(fired'[j]) : fired'[j][i].at < disk[j].next_run_at
    BY <1>3 DEF DiskAhead, AllBefore
  <2>1. \A i \in 1..Len(fired[j]) : fired[j][i].at < disk[j].next_run_at
    BY <1>5 DEF DiskAhead, AllBefore
  <2>2. CASE j \in chunk
    <3>1. pass[t].now < disk[j].next_run_at
      <4>1. disk[j].next_run_at \in Nat
        BY <1>1 DEF Table, Job, OptInstant
      <4>2. QED
        BY <1>9, <2>2, <4>1
    <3>2. QED
      BY <1>7, <2>1, <2>2, <3>1
  <2>3. CASE j \notin chunk
    BY <1>8, <2>1, <2>3
  <2>4. QED
    BY <2>2, <2>3
<1>11. FiredWhenDue'
  <2> SUFFICES ASSUME NEW j \in Jobs, NEW k \in 1..Len(fired'[j])
               PROVE  fired'[j][k].slot <= fired'[j][k].at
    BY DEF FiredWhenDue
  <2>1. CASE j \in chunk
    BY <1>5, <1>7, <1>9, <2>1 DEF FiredWhenDue
  <2>2. CASE j \notin chunk
    BY <1>5, <1>8, <2>2 DEF FiredWhenDue
  <2>3. QED
    BY <2>1, <2>2
<1>12. SingleCatchUp'
  <2> SUFFICES ASSUME NEW j \in Jobs, NEW k \in 1..Len(fired'[j]), NEW i \in 1..(k - 1)
               PROVE  fired'[j][i].at < fired'[j][k].slot
    BY DEF SingleCatchUp
  <2>1. CASE j \in chunk
    <3>1. Len(fired[j]) \in Nat /\ k \in Int /\ i \in 1..Len(fired'[j]) /\ i < k
      <4>1. Len(fired'[j]) \in Nat
        BY FiredType DEF TypeInv
      <4>2. QED
        BY <1>7, <2>1, <4>1
    <3>2. i \in 1..Len(fired[j]) /\ fired'[j][i] = fired[j][i]
      BY <1>7, <2>1, <3>1
    <3>3. CASE k \in 1..Len(fired[j]) /\ fired'[j][k] = fired[j][k]
      BY <1>5, <3>1, <3>2, <3>3 DEF SingleCatchUp
    <3>4. CASE fired'[j][k].slot = pass[t].slot[j]
      BY <1>9, <2>1, <3>2, <3>4 DEF AllBefore
    <3>5. QED
      BY <1>7, <2>1, <3>3, <3>4
  <2>2. CASE j \notin chunk
    BY <1>5, <1>8, <2>2 DEF SingleCatchUp
  <2>3. QED
    BY <2>1, <2>2
<1>13. FreshAt(t)' /\ ClaimOK(t)'
  <2>1. FreshAt(t)'
    BY <1>3, <1>5 DEF FreshAt
  <2>2. \A j \in pass[t].queue \ chunk : j \in Jobs \ chunk
    BY <1>1 DEF Pass
  <2>3. ClaimOK(t)'
    BY <1>3, <1>5, <1>6, <1>8, <2>2 DEF ClaimOK, AllBefore
  <2>4. QED
    BY <2>1, <2>3
<1>14. \A u \in Ticks : (FreshAt(u) /\ ClaimOK(u))'
  BY <1>4, <1>13 DEF FreshAt, ClaimOK
<1>15. QED
  BY <1>10, <1>11, <1>12, <1>14 DEF SafetyInv

LEMMA SafetyFinish ==
    ASSUME SafetyInv, NEW t \in Ticks, NEW j \in Jobs, NEW status \in Statuses,
           Finish(t, j, status), TypeInv', OnePassAtATime'
    PROVE  SafetyInv'
<1>1. pass \in [Ticks -> Pass] /\ pass[t] \in Pass
  BY DEF SafetyInv, TypeInv, TypeOK
<1>2. /\ pass'[t].pc = "running" /\ pass[t].pc = "running"
      /\ pass'[t].now = pass[t].now /\ pass'[t].jobs = pass[t].jobs
      /\ pass'[t].slot = pass[t].slot /\ pass'[t].queue = pass[t].queue
      /\ UNCHANGED <<disk, fired>>
  BY <1>1 DEF Finish, Pass
<1>3. \A u \in Ticks \ {t} : pass'[u].pc = "idle"
  BY HolderSteps DEF Work, SafetyInv
<1>4. FreshAt(t)' /\ ClaimOK(t)'
  BY <1>2 DEF SafetyInv, FreshAt, ClaimOK, Snapshots, AllBefore
<1>5. QED
  BY <1>2, <1>3, <1>4, PassStep

\* The last save keeps the next run of every job that stays.
LEMMA SafetySaveOutcomes ==
    ASSUME SafetyInv, NEW t \in Ticks, SaveOutcomes(t), TypeInv', OnePassAtATime'
    PROVE  SafetyInv'
<1>1. pass \in [Ticks -> Pass] /\ pass[t] \in Pass /\ PassOK(pass[t])
  BY DEF SafetyInv, TypeInv, TypeOK
<1>2. pass'[t].pc = "delivering" /\ pass[t].pc = "running" /\ fired' = fired
  BY <1>1 DEF SaveOutcomes, AllJoined, Pass
<1>3. \A u \in Ticks : pass'[u].pc \notin {"advanced", "running"}
  <2>1. \A u \in Ticks \ {t} : pass'[u].pc = "idle"
    BY HolderSteps DEF Work, SafetyInv
  <2>2. QED
    BY <1>2, <2>1
<1>4. disk = pass[t].jobs
  BY <1>2 DEF SafetyInv, FreshAt
<1>5. DiskAhead'
  <2> SUFFICES ASSUME NEW j \in Jobs, disk'[j] # None, disk'[j].next_run_at # None
               PROVE  AllBefore(j, disk'[j].next_run_at)
    BY <1>2 DEF DiskAhead, AllBefore
  <2>1. disk[j] # None /\ disk'[j].next_run_at = disk[j].next_run_at
    <3>1. CASE j \in Snapshots(t)
      <4>1. pass[t].jobs[j] \in Job /\ pass[t].outcome[j] \in RunStatus \cup {None}
        BY <1>1, <3>1 DEF PassOK, Pass, Table, Snapshots
      <4>2. disk'[j] = Settled(pass[t].jobs[j], pass[t].outcome[j])
        BY <3>1 DEF SaveOutcomes
      <4>3. QED
        BY <1>4, <4>1, <4>2, SettledType, NoneIsNoJob
    <3>2. CASE j \notin Snapshots(t)
      BY <1>4, <3>2 DEF SaveOutcomes
    <3>3. QED
      BY <3>1, <3>2
  <2>2. QED
    BY <2>1 DEF SafetyInv, DiskAhead
<1>6. \A u \in Ticks : (FreshAt(u) /\ ClaimOK(u))'
  BY <1>3 DEF FreshAt, ClaimOK
<1>7. (FiredWhenDue /\ SingleCatchUp)'
  BY <1>2 DEF SafetyInv, FiredWhenDue, SingleCatchUp
<1>8. QED
  BY <1>5, <1>6, <1>7 DEF SafetyInv

LEMMA SafetyDeliver ==
    ASSUME SafetyInv, NEW t \in Ticks, NEW j \in Jobs, Deliver(t, j),
           TypeInv', OnePassAtATime'
    PROVE  SafetyInv'
<1>1. pass'[t].pc = "delivering" /\ UNCHANGED <<disk, fired>>
  BY DEF Deliver, SafetyInv, TypeInv, TypeOK, Pass
<1>2. \A u \in Ticks \ {t} : pass'[u].pc = "idle"
  BY HolderSteps DEF Work, SafetyInv
<1>3. QED
  BY <1>1, <1>2, PassStep

LEMMA SafetyLeave ==
    ASSUME SafetyInv, NEW t \in Ticks, Work(t) \/ Fault(t), Leave(t),
           UNCHANGED <<disk, fired>>, TypeInv', OnePassAtATime'
    PROVE  SafetyInv'
<1>1. pass'[t].pc = "idle"
  BY DEF Leave, SafetyInv, TypeInv, TypeOK, Idle
<1>2. \A u \in Ticks \ {t} : pass'[u].pc = "idle"
  BY HolderSteps DEF SafetyInv
<1>3. QED
  BY <1>1, <1>2, PassStep

LEMMA SafetyTryLock ==
    ASSUME SafetyInv, NEW t \in Ticks, TryLock(t, Jobs), TypeInv', OnePassAtATime'
    PROVE  SafetyInv'
<1>1. pass'[t].pc = "locked" /\ UNCHANGED <<disk, fired>>
  BY DEF TryLock, SafetyInv, TypeInv, TypeOK, Idle
<1>2. \A u \in Ticks \ {t} : pass'[u].pc = "idle"
  BY TicksAssumption DEF TryLock, SafetyInv, OnePassAtATime, TypeInv, TypeOK
<1>3. QED
  BY <1>1, <1>2, PassStep

LEMMA SafetyInductive ==
    ASSUME SafetyInv, [Next]_vars
    PROVE  SafetyInv'
<1> TypeInv' /\ OnePassAtATime'
  BY TypeInductive, OnePassInductive DEF SafetyInv
<1>1. CASE SetClock \/ UNCHANGED vars
  <2>1. UNCHANGED <<disk, lock, pass, fired>>
    BY <1>1 DEF SetClock, vars
  <2>2. QED
    BY <2>1 DEF SafetyInv, FreshAt, ClaimOK, Snapshots, DiskAhead, AllBefore,
                FiredWhenDue, SingleCatchUp
<1>2. ASSUME NEW t \in Ticks, TryLock(t, Jobs) PROVE SafetyInv'
  BY <1>2, SafetyTryLock
<1>3. ASSUME NEW t \in Ticks, Work(t) PROVE SafetyInv'
  <2>1. CASE LoadNothingDue(t)
    BY <1>3, <2>1, SafetyLeave DEF LoadNothingDue
  <2>2. CASE LoadAndAdvance(t)
    BY <2>2, SafetyLoad
  <2>3. CASE SaveAdvanced(t)
    BY <2>3, SafetySaveAdvanced
  <2>4. CASE StartChunk(t)
    BY <2>4, SafetyStartChunk
  <2>5. CASE \E j \in Jobs, status \in Statuses : Finish(t, j, status)
    BY <2>5, SafetyFinish
  <2>6. CASE SaveOutcomes(t)
    BY <2>6, SafetySaveOutcomes
  <2>7. CASE \E j \in Jobs : Deliver(t, j)
    BY <2>7, SafetyDeliver
  <2>8. CASE Return(t)
    BY <1>3, <2>8, SafetyLeave DEF Return
  <2>9. QED
    BY <1>3, <2>1, <2>2, <2>3, <2>4, <2>5, <2>6, <2>7, <2>8 DEF Work
<1>4. ASSUME NEW t \in Ticks, Fault(t) PROVE SafetyInv'
  BY <1>4, SafetyLeave DEF Fault, StoreFails, Kill
<1>5. QED
  BY <1>1, <1>2, <1>3, <1>4 DEF Next

LEMMA SafetyInit == Init => SafetyInv
<1> SUFFICES ASSUME Init PROVE SafetyInv
  OBVIOUS
<1>1. TypeInv
  BY TypeInit
<1>2. OnePassAtATime
  BY TicksAssumption DEF Init, Idle, OnePassAtATime
<1>3. \A t \in Ticks : FreshAt(t) /\ ClaimOK(t)
  BY DEF Init, Idle, FreshAt, ClaimOK
<1>4. \A j \in Jobs : 1..Len(fired[j]) = {}
  BY DEF Init
<1>5. DiskAhead /\ FiredWhenDue /\ SingleCatchUp
  BY <1>4 DEF DiskAhead, AllBefore, FiredWhenDue, SingleCatchUp
<1>6. QED
  BY <1>1, <1>2, <1>3, <1>5 DEF SafetyInv

LEMMA SafetyAlways == Spec => []SafetyInv
<1>1. SafetyInv /\ [Next]_vars => SafetyInv'
  BY SafetyInductive
<1>2. QED
  BY <1>1, SafetyInit, PTL DEF Spec

\* No save of a pass overwrites what it has not read.
THEOREM PassesReadWhatTheyOverwrite == Spec => []FreshCopy
<1>1. SafetyInv => FreshCopy
  BY DEF SafetyInv, FreshAt, FreshCopy
<1>2. QED
  BY <1>1, SafetyAlways, PTL

\* No burst after downtime, with any number of processes, jobs and faults.
THEOREM CatchesUpOnce == Spec => []SingleCatchUp
<1>1. SafetyInv => SingleCatchUp
  BY DEF SafetyInv
<1>2. QED
  BY <1>1, SafetyAlways, PTL

\* No slot of a job is ever handed to an executor twice.
THEOREM FiresAtMostOnce == Spec => []AtMostOnce
<1>1. SafetyInv => AtMostOnce
  <2> SUFFICES ASSUME SafetyInv, NEW j \in Jobs, NEW k \in 1..Len(fired[j]),
                      NEW i \in 1..(k - 1)
               PROVE  fired[j][i].slot < fired[j][k].slot
    BY DEF AtMostOnce
  <2>1. Len(fired[j]) \in Nat /\ i \in 1..Len(fired[j])
    BY FiredType DEF SafetyInv, TypeInv
  <2>2. fired[j][i].slot <= fired[j][i].at /\ fired[j][i].at < fired[j][k].slot
    BY <2>1 DEF SafetyInv, FiredWhenDue, SingleCatchUp
  <2>3. fired[j][i].slot \in Nat /\ fired[j][i].at \in Nat /\ fired[j][k].slot \in Nat
    BY <2>1, FiredType DEF SafetyInv, TypeInv
  <2>4. QED
    BY <2>2, <2>3
<1>2. QED
  BY <1>1, SafetyAlways, PTL

-----------------------------------------------------------------------------
(* Durable before delivery.  The table a running pass will save has no job  *)
(* that is running but those whose outcome it will mark first.              *)

CleanAt(t) ==
    /\ pass[t].pc = "running" =>
           \A j \in Jobs \ Snapshots(t) :
               pass[t].jobs[j] # None => pass[t].jobs[j].state # "running"
    /\ pass[t].pc = "delivering" =>
           \A j \in Jobs : disk[j] # None => disk[j].state # "running"

CleanInv == \A t \in Ticks : CleanAt(t)

LEMMA CleanStep ==
    ASSUME SafetyInv, CleanInv, NEW t \in Ticks, Work(t) \/ Fault(t)
    PROVE  CleanInv'
<1>1. \A u \in Ticks \ {t} : CleanAt(u)'
  BY HolderSteps DEF SafetyInv, CleanAt
<1>2. pass \in [Ticks -> Pass] /\ pass[t] \in Pass /\ CleanAt(t)
  BY DEF SafetyInv, TypeInv, TypeOK, CleanInv
<1> SUFFICES CleanAt(t)'
  BY <1>1 DEF CleanInv
<1>3. CASE Leave(t)
  BY <1>2, <1>3 DEF Leave, Idle, CleanAt
<1>4. CASE LoadAndAdvance(t)
  <2>1. pass'[t].pc = "advanced"
    BY <1>2, <1>4 DEF LoadAndAdvance, Pass
  <2>2. QED
    BY <2>1 DEF CleanAt
<1>5. CASE SaveAdvanced(t)
  <2>1. /\ pass'[t].pc = "running" /\ pass'[t].jobs = disk'
        /\ Snapshots(t)' = Snapshots(t)
    BY <1>2, <1>5 DEF SaveAdvanced, Pass, Snapshots
  <2>2. QED
    BY <1>5, <2>1, SavedByAdvance DEF CleanAt, SafetyInv
<1>6. CASE StartChunk(t)
  <2>1. /\ pass[t].pc = "running" /\ pass'[t].pc = "running"
        /\ pass'[t].jobs = pass[t].jobs /\ Snapshots(t)' = Snapshots(t)
    BY <1>2, <1>6 DEF StartChunk, Pass, Snapshots
  <2>2. QED
    BY <1>2, <2>1 DEF CleanAt
<1>7. ASSUME NEW j \in Jobs, NEW status \in Statuses, Finish(t, j, status)
      PROVE  CleanAt(t)'
  <2>1. /\ pass[t].pc = "running" /\ pass'[t].pc = "running"
        /\ pass'[t].jobs = pass[t].jobs /\ Snapshots(t)' = Snapshots(t)
    BY <1>2, <1>7 DEF Finish, Pass, Snapshots
  <2>2. QED
    BY <1>2, <2>1 DEF CleanAt
<1>8. CASE SaveOutcomes(t)
  <2>1. pass[t].pc = "running" /\ pass'[t].pc = "delivering"
    BY <1>2, <1>8 DEF SaveOutcomes, AllJoined, Pass
  <2>2. ASSUME NEW j \in Jobs, disk'[j] # None PROVE disk'[j].state # "running"
    BY <1>2, <1>8, <2>1, <2>2, SavedByOutcomes DEF CleanAt, SafetyInv
  <2>3. QED
    BY <2>1, <2>2 DEF CleanAt
<1>9. ASSUME NEW j \in Jobs, Deliver(t, j) PROVE CleanAt(t)'
  <2>1. pass[t].pc = "delivering" /\ pass'[t].pc = "delivering" /\ disk' = disk
    BY <1>2, <1>9 DEF Deliver, Pass
  <2>2. QED
    BY <1>2, <2>1 DEF CleanAt
<1>10. QED
  BY <1>3, <1>4, <1>5, <1>6, <1>7, <1>8, <1>9
  DEF Work, Fault, LoadNothingDue, Return, StoreFails, Kill

LEMMA CleanInductive ==
    ASSUME SafetyInv, CleanInv, [Next]_vars
    PROVE  CleanInv'
<1>1. CASE SetClock \/ UNCHANGED vars
  <2>1. UNCHANGED <<disk, pass>>
    BY <1>1 DEF SetClock, vars
  <2>2. QED
    BY <2>1 DEF CleanInv, CleanAt, Snapshots
<1>2. ASSUME NEW t \in Ticks, TryLock(t, Jobs) PROVE CleanInv'
  <2>1. \A u \in Ticks : pass'[u].pc = "locked" \/ (pass'[u] = pass[u] /\ disk' = disk)
    BY <1>2 DEF TryLock, Idle, SafetyInv, TypeInv, TypeOK
  <2>2. QED
    BY <2>1 DEF CleanInv, CleanAt, Snapshots
<1>3. QED
  BY <1>1, <1>2, CleanStep DEF Next

\* The outcomes of a pass are in jobs.json when it delivers: no job is said to
\* be running there, whichever jobs the pass ran and which of them retired.
THEOREM OutcomesAreDurable == Spec => []DurableBeforeDelivery
<1>1. Init => CleanInv
  BY DEF Init, Idle, CleanInv, CleanAt
<1>2. SafetyInv /\ CleanInv /\ [Next]_vars => CleanInv'
  BY CleanInductive
<1>3. CleanInv => DurableBeforeDelivery
  BY DEF CleanInv, CleanAt, DurableBeforeDelivery
<1>4. QED
  BY <1>1, <1>2, <1>3, SafetyAlways, PTL DEF Spec

-----------------------------------------------------------------------------
(* Deliveries.  A pass goes past an output with a record of it or with a    *)
(* fault, and a record is never taken back.                                 *)

CostAt(t) == IsFiniteSet(Unrecorded(t)) /\ Cardinality(Unrecorded(t)) <= faults

CostInv == \A t \in Ticks : CostAt(t)

\* A pass that has gone past no more outputs than before.
LEMMA CostQuiet ==
    ASSUME CostInv, NEW t \in Ticks, Unrecorded(t)' \subseteq Unrecorded(t),
           faults \in Nat, faults' \in Nat, faults <= faults'
    PROVE  CostAt(t)'
<1> DEFINE Before == Unrecorded(t)
           After  == Unrecorded(t)'
<1>1. IsFiniteSet(Before) /\ Cardinality(Before) <= faults /\ After \in SUBSET Before
  BY DEF CostInv, CostAt
<1> HIDE DEF Before, After
<1>2. /\ IsFiniteSet(After) /\ Cardinality(After) <= Cardinality(Before)
      /\ Cardinality(After) \in Nat /\ Cardinality(Before) \in Nat
  BY <1>1, FS_Subset, FS_CardinalityType
<1>3. IsFiniteSet(After) /\ Cardinality(After) <= faults'
  BY <1>1, <1>2
<1>4. QED
  BY <1>3 DEF CostAt, After

LEMMA CostDeliver ==
    ASSUME TypeInv, CostInv, NEW t \in Ticks, NEW j \in Jobs, Deliver(t, j)
    PROVE  CostAt(t)'
<1>1. /\ pass[t].pc = "delivering" /\ pass'[t].queue = pass[t].queue \ {j}
      /\ pass'[t].slot = pass[t].slot /\ pass'[t].outcome = pass[t].outcome
      /\ Snapshots(t)' = Snapshots(t)
  BY DEF Deliver, TypeInv, TypeOK, Pass, Snapshots
<1>2. recorded \in [Jobs -> SUBSET Nat] /\ faults \in Nat
  BY MaxFaultsAssumption DEF TypeInv, TypeOK
<1>3. ASSUME recorded' = [recorded EXCEPT ![j] = @ \cup {pass[t].slot[j]}], faults' = faults
      PROVE  CostAt(t)'
  <2>1. \A i \in Jobs : recorded[i] \subseteq recorded'[i]
    BY <1>2, <1>3
  <2>2. pass[t].slot[j] \in recorded'[j]
    BY <1>2, <1>3
  <2>3. Unrecorded(t)' \subseteq Unrecorded(t)
    BY <1>1, <2>1, <2>2 DEF Unrecorded, Snapshots
  <2>4. QED
    BY <1>2, <1>3, <2>3, CostQuiet
<1>4. ASSUME faults' = faults + 1, recorded' = recorded
      PROVE  CostAt(t)'
  <2> DEFINE Before == Unrecorded(t)
             After  == Unrecorded(t)'
  <2>1. IsFiniteSet(Before) /\ Cardinality(Before) <= faults
    BY DEF CostInv, CostAt
  <2>2. After \subseteq Before \cup {j}
    BY <1>1, <1>4 DEF Unrecorded
  <2> HIDE DEF Before, After
  <2> DEFINE More == Before \cup {j}
  <2>3. IsFiniteSet(More) /\ Cardinality(More) <= Cardinality(Before) + 1
    <3>1. Cardinality(Before) \in Nat
      BY <2>1, FS_CardinalityType
    <3>2. /\ IsFiniteSet(More)
          /\ Cardinality(More) \in {Cardinality(Before), Cardinality(Before) + 1}
      BY <2>1, FS_AddElement
    <3> HIDE DEF More
    <3>3. QED
      BY <3>1, <3>2
  <2> HIDE DEF More
  <2>4. After \in SUBSET More
    BY <2>2 DEF More
  <2>5. /\ IsFiniteSet(After) /\ Cardinality(After) <= Cardinality(More)
        /\ Cardinality(After) \in Nat /\ Cardinality(More) \in Nat
        /\ Cardinality(Before) \in Nat
    BY <2>1, <2>3, <2>4, FS_Subset, FS_CardinalityType
  <2>6. IsFiniteSet(After) /\ Cardinality(After) <= faults'
    BY <1>2, <1>4, <2>1, <2>3, <2>5
  <2>7. QED
    BY <2>6 DEF CostAt, After
<1>5. QED
  BY <1>3, <1>4 DEF Deliver

LEMMA CostInductive ==
    ASSUME SafetyInv, CostInv, [Next]_vars
    PROVE  CostInv'
<1>1. /\ TypeInv /\ OnePassAtATime /\ pass \in [Ticks -> Pass] /\ faults \in Nat
      /\ \A t \in Ticks : pass[t] \in Pass
  <2>1. TypeInv /\ OnePassAtATime
    BY DEF SafetyInv
  <2>2. faults \in 0..MaxFaults /\ pass \in [Ticks -> Pass]
    BY <2>1 DEF TypeInv, TypeOK
  <2>3. faults \in Nat
    BY <2>2, MaxFaultsAssumption
  <2>4. QED
    BY <2>1, <2>2, <2>3
<1>2. faults' \in Nat /\ faults <= faults'
  <2>1. faults' \in {faults, faults + 1}
    BY DEF Next, vars, SetClock, TryLock, Work, Fault, LoadNothingDue, LoadAndAdvance,
           SaveAdvanced, StartChunk, Finish, SaveOutcomes, Deliver, Return, StoreFails, Kill
  <2>2. QED
    BY <1>1, <2>1
<1>3. ASSUME NEW t \in Ticks, Unrecorded(t)' \subseteq Unrecorded(t) PROVE CostAt(t)'
  BY <1>1, <1>2, <1>3, CostQuiet
<1>4. ASSUME NEW t \in Ticks, pass'[t].pc # "delivering" PROVE CostAt(t)'
  BY <1>3, <1>4 DEF Unrecorded
<1>5. ASSUME NEW t \in Ticks, NEW u \in Ticks \ {t}, Work(t) \/ Fault(t) PROVE CostAt(u)'
  BY <1>1, <1>4, <1>5, HolderSteps
<1>6. ASSUME NEW t \in Ticks, Work(t) \/ Fault(t) PROVE CostAt(t)'
  <2>1. CASE LoadNothingDue(t) \/ Return(t) \/ Fault(t)
    BY <1>1, <1>4, <2>1 DEF LoadNothingDue, Return, Fault, StoreFails, Kill, Leave, Idle
  <2>2. CASE LoadAndAdvance(t) \/ SaveAdvanced(t)
    <3>1. pass'[t].pc \in {"advanced", "running"}
      BY <1>1, <2>2, LoadedJobs DEF SaveAdvanced, Pass
    <3>2. QED
      BY <1>4, <3>1
  <2>3. CASE StartChunk(t) \/ \E j \in Jobs, status \in Statuses : Finish(t, j, status)
    <3>1. CASE StartChunk(t)
      BY <1>1, <1>4, <3>1 DEF StartChunk, Pass
    <3>2. ASSUME NEW j \in Jobs, NEW status \in Statuses, Finish(t, j, status)
          PROVE  CostAt(t)'
      BY <1>1, <1>4, <3>2 DEF Finish, Pass
    <3>3. QED
      BY <2>3, <3>1, <3>2
  <2>4. CASE SaveOutcomes(t)
    <3>1. /\ pass'[t].queue = {j \in Snapshots(t) : pass[t].outcome[j] # "silent"}
          /\ pass'[t].outcome = pass[t].outcome /\ Snapshots(t)' = Snapshots(t)
      BY <1>1, <2>4 DEF SaveOutcomes, ToDeliver, Pass, Snapshots
    <3>2. Unrecorded(t)' = {}
      BY <3>1 DEF Unrecorded
    <3>3. QED
      BY <1>3, <3>2
  <2>5. CASE \E j \in Jobs : Deliver(t, j)
    BY <1>1, <2>5, CostDeliver
  <2>6. QED
    BY <1>6, <2>1, <2>2, <2>3, <2>4, <2>5 DEF Work
<1>7. ASSUME NEW t \in Ticks, TryLock(t, Jobs) PROVE CostInv'
  BY <1>1, <1>4, <1>7, OnePassTryLock DEF CostInv
<1>8. CASE SetClock \/ UNCHANGED vars
  BY <1>3, <1>8 DEF SetClock, vars, CostInv, Unrecorded, Snapshots
<1>9. QED
  BY <1>5, <1>6, <1>7, <1>8 DEF Next, CostInv

\* Failed deliveries are never fatal to the others: however many jobs a pass
\* has run and whichever deliveries fail, it leaves no more outputs without a
\* record than there were faults.
THEOREM FailuresCostThemselves == Spec => []FailureCostsOneOutput
<1>1. Init => CostInv
  <2> SUFFICES ASSUME Init, NEW t \in Ticks PROVE CostAt(t)
    BY DEF CostInv
  <2>1. Unrecorded(t) = {} /\ faults = 0
    BY DEF Init, Idle, Unrecorded
  <2>2. QED
    BY <2>1, FS_EmptySet DEF CostAt
<1>2. SafetyInv /\ CostInv /\ [Next]_vars => CostInv'
  BY CostInductive
<1>3. CostInv => FailureCostsOneOutput
  BY DEF CostInv, CostAt, FailureCostsOneOutput
<1>4. QED
  BY <1>1, <1>2, <1>3, SafetyAlways, PTL DEF Spec

-----------------------------------------------------------------------------
(* Repeat limits.  A run is counted in jobs.json before its thread is       *)
(* spawned, so that the count is never behind the runs whose outcome was    *)
(* saved, and the save of an outcome looks at the count.                    *)

\* Job j is a snapshot of the pass that runs.
Held(j) == \E t \in Ticks : pass[t].pc = "running" /\ j \in Snapshots(t)

CountsAt(j) ==
    disk[j] # None /\ disk[j].times # None =>
        /\ settled[j] <= disk[j].completed
        /\ Held(j) => settled[j] < disk[j].completed
        /\ settled[j] < Limit(disk[j].times)

CountsInv == \A j \in Jobs : CountsAt(j)

LEMMA CountTypes ==
    ASSUME TypeOK, NEW j \in Jobs
    PROVE  /\ settled[j] \in Nat
           /\ disk[j] # None => disk[j] \in Job /\ disk[j].completed \in Nat
           /\ disk[j] # None /\ disk[j].times # None =>
                  /\ disk[j].times \in Nat /\ Limit(disk[j].times) \in Nat
                  /\ disk[j].times <= Limit(disk[j].times)
<1>1. settled[j] \in Nat
  BY DEF TypeOK
<1>2. ASSUME disk[j] # None PROVE disk[j] \in Job /\ disk[j].completed \in Nat
  BY <1>2 DEF TypeOK, Table, Job
<1>3. ASSUME disk[j] # None, disk[j].times # None PROVE disk[j].times \in Nat
  BY <1>2, <1>3, TimesAssumption DEF Job
<1>4. QED
  BY <1>1, <1>2, <1>3 DEF Limit

\* What a pass is about to save has the limits and counts of jobs.json, with
\* the firings of the pass added until the advance is saved.
ViewAt(t) ==
    pass[t].pc \in {"advanced", "running"} =>
        \A j \in Jobs : pass[t].jobs[j] # None =>
            /\ disk[j] # None
            /\ pass[t].jobs[j].schedule = disk[j].schedule
            /\ pass[t].jobs[j].times = disk[j].times
            /\ pass[t].jobs[j].completed =
                   IF pass[t].pc = "advanced" /\ j \in Snapshots(t)
                   THEN disk[j].completed + 1
                   ELSE disk[j].completed

ViewInv ==
    /\ TypeInv
    /\ OnePassAtATime
    /\ \A t \in Ticks : ViewAt(t)

LEMMA ViewLoad ==
    ASSUME TypeInv, NEW t \in Ticks, LoadAndAdvance(t)
    PROVE  ViewAt(t)'
<1>1. disk \in Table /\ pass'[t].pc = "advanced" /\ disk' = disk
  BY LoadedJobs DEF TypeInv, TypeOK
<1> SUFFICES ASSUME NEW j \in Jobs, pass'[t].jobs[j] # None
             PROVE  /\ disk[j] # None
                    /\ pass'[t].jobs[j].schedule = disk[j].schedule
                    /\ pass'[t].jobs[j].times = disk[j].times
                    /\ pass'[t].jobs[j].completed =
                           IF j \in Snapshots(t)' THEN disk[j].completed + 1
                                                   ELSE disk[j].completed
  BY <1>1 DEF ViewAt
<1>2. CASE j \in Snapshots(t)'
  <2>1. disk[j] # None /\ pass'[t].jobs[j] = Advanced(Recovered(disk)[j], pass[t].now)
    BY <1>2, LoadedJobs DEF IsDue
  <2>2. QED
    BY <1>1, <1>2, <2>1, RecoveredFields, AdvancedFields
<1>3. CASE j \notin Snapshots(t)'
  <2>1. pass'[t].jobs[j] = Recovered(disk)[j]
    BY <1>3, LoadedJobs
  <2>2. disk[j] # None
    BY <2>1 DEF Recovered
  <2>3. QED
    BY <1>1, <1>3, <2>1, <2>2, RecoveredFields
<1>4. QED
  BY <1>2, <1>3

LEMMA ViewStep ==
    ASSUME ViewInv, NEW t \in Ticks, Work(t) \/ Fault(t)
    PROVE  ViewInv'
<1>1. TypeInv /\ TypeInv' /\ OnePassAtATime'
  BY TypeInductive, OnePassInductive DEF ViewInv, Next
<1>2. \A u \in Ticks \ {t} : ViewAt(u)'
  BY HolderSteps DEF ViewInv, ViewAt
<1>3. ViewAt(t)'
  <2>1. CASE LoadAndAdvance(t)
    BY <1>1, <2>1, ViewLoad
  <2>2. CASE pass'[t] = Idle
    BY <2>2 DEF Idle, ViewAt
  <2>3. CASE SaveAdvanced(t) /\ pass'[t].jobs = pass[t].jobs /\ pass'[t].pc = "running"
    BY <2>3 DEF SaveAdvanced, ViewAt
  <2>4. CASE pass'[t].pc = "delivering"
    BY <2>4 DEF ViewAt
  <2>5. CASE /\ pass'[t].jobs = pass[t].jobs /\ disk' = disk
             /\ pass'[t].pc = "running" /\ pass[t].pc = "running"
    BY <2>5 DEF ViewInv, ViewAt
  <2>6. QED
    BY <1>1, <2>1, <2>2, <2>3, <2>4, <2>5, PassSteps
<1>4. QED
  BY <1>1, <1>2, <1>3 DEF ViewInv

LEMMA ViewTryLock ==
    ASSUME ViewInv, NEW t \in Ticks, NEW targets \in SUBSET Jobs, TryLock(t, targets)
    PROVE  ViewInv'
BY TryLockType, OnePassTryLock DEF ViewInv, ViewAt

\* While t makes its pass, Held is about t alone.
LEMMA HolderHolds ==
    ASSUME ViewInv, NEW t \in Ticks, Work(t) \/ Fault(t), NEW j \in Jobs
    PROVE  /\ Held(j) <=> pass[t].pc = "running" /\ j \in Snapshots(t)
           /\ Held(j)' <=> (pass[t].pc = "running" /\ j \in Snapshots(t))'
<1>1. \A u \in Ticks \ {t} : pass[u].pc = "idle" /\ pass'[u].pc = "idle"
  BY HolderSteps DEF ViewInv
<1>2. QED
  BY <1>1 DEF Held

\* A step that saves nothing and claims nothing.
LEMMA CountsQuiet ==
    ASSUME NEW j \in Jobs, CountsAt(j), UNCHANGED <<disk, settled>>, Held(j)' => Held(j)
    PROVE  CountsAt(j)'
BY DEF CountsAt

LEMMA CountsSaveAdvanced ==
    ASSUME ViewInv, CountsInv, NEW t \in Ticks, SaveAdvanced(t), NEW j \in Jobs
    PROVE  CountsAt(j)'
<1> SUFFICES ASSUME disk'[j] # None, disk'[j].times # None
             PROVE  /\ settled[j] <= disk'[j].completed
                    /\ Held(j)' => settled[j] < disk'[j].completed
                    /\ settled[j] < Limit(disk'[j].times)
  BY DEF CountsAt, SaveAdvanced
<1>1. /\ pass[t].pc = "advanced" /\ pass'[t].pc = "running"
      /\ Snapshots(t)' = Snapshots(t)
  BY DEF SaveAdvanced, ViewInv, TypeInv, TypeOK, Pass, Snapshots
<1>2. Held(j)' <=> j \in Snapshots(t)
  BY <1>1, HolderHolds DEF Work
<1>3. /\ disk[j] # None /\ disk'[j].times = disk[j].times
      /\ disk'[j].completed = IF j \in Snapshots(t) THEN disk[j].completed + 1
                                                    ELSE disk[j].completed
  BY DEF SaveAdvanced, ViewInv, ViewAt
<1>4. settled[j] <= disk[j].completed /\ settled[j] < Limit(disk[j].times)
  BY <1>3 DEF CountsInv, CountsAt
<1>5. disk[j].completed \in Nat /\ settled[j] \in Nat
  BY <1>3, CountTypes DEF ViewInv, TypeInv
<1>6. /\ settled[j] <= disk'[j].completed
      /\ j \in Snapshots(t) => settled[j] < disk'[j].completed
  BY <1>3, <1>4, <1>5
<1>7. QED
  BY <1>2, <1>3, <1>4, <1>6

\* What a chunk adds to the firings.
LEMMA ChunkFires ==
    ASSUME TypeInv, NEW t \in Ticks, StartChunk(t), NEW j \in Jobs
    PROVE  \/ /\ fired'[j] = fired[j]
              /\ j \in pass'[t].queue => j \in pass[t].queue
           \/ /\ j \in pass[t].queue /\ j \notin pass'[t].queue
              /\ Len(fired'[j]) = Len(fired[j]) + 1
              /\ \A i \in 1..Len(fired'[j]) :
                     \/ i \in 1..Len(fired[j]) /\ fired'[j][i] = fired[j][i]
                     \/ fired'[j][i].slot = pass[t].slot[j]
<1>1. PICK chunk \in SUBSET pass[t].queue :
           /\ pass' = [pass EXCEPT ![t].running = chunk, ![t].queue = @ \ chunk]
           /\ fired' = [k \in Jobs |->
                  IF k \in chunk
                  THEN Append(fired[k], [slot |-> pass[t].slot[k], at |-> pass[t].now])
                  ELSE fired[k]]
  BY DEF StartChunk
<1>2. pass'[t].queue = pass[t].queue \ chunk
  BY <1>1 DEF TypeInv, TypeOK, Pass
<1>3. CASE j \notin chunk
  BY <1>1, <1>2, <1>3
<1>4. CASE j \in chunk
  <2> DEFINE e == [slot |-> pass[t].slot[j], at |-> pass[t].now]
             Entry == [slot : Nat, at : Instants]
  <2>1. fired[j] \in Seq(Entry)
    BY DEF TypeInv, TypeOK
  <2>2. fired'[j] = Append(fired[j], e) /\ e.slot = pass[t].slot[j]
    BY <1>1, <1>4
  <2> HIDE DEF e, Entry
  <2>3. /\ Len(fired'[j]) = Len(fired[j]) + 1
        /\ \A i \in 1..Len(fired[j]) : fired'[j][i] = fired[j][i]
        /\ fired'[j][Len(fired[j]) + 1] = e
        /\ Len(fired[j]) \in Nat
    BY <2>1, <2>2
  <2>4. \A i \in 1..Len(fired'[j]) : i \in 1..Len(fired[j]) \/ i = Len(fired[j]) + 1
    BY <2>3
  <2>5. j \in pass[t].queue /\ j \notin pass'[t].queue
    BY <1>2, <1>4
  <2>6. QED
    BY <2>2, <2>3, <2>4, <2>5
<1>5. QED
  BY <1>3, <1>4

\* A job that is still there after its outcome has not reached its limit.
LEMMA CountsSaveOutcomes ==
    ASSUME ViewInv, CountsInv, NEW t \in Ticks, SaveOutcomes(t), NEW j \in Jobs
    PROVE  CountsAt(j)'
<1>1. pass[t].pc = "running" /\ pass'[t].pc = "delivering"
  BY DEF SaveOutcomes, AllJoined, ViewInv, TypeInv, TypeOK, Pass
<1>2. ~Held(j)' /\ (Held(j) <=> j \in Snapshots(t))
  BY <1>1, HolderHolds DEF Work
<1> SUFFICES ASSUME disk'[j] # None, disk'[j].times # None
             PROVE  /\ settled'[j] <= disk'[j].completed
                    /\ settled'[j] < Limit(disk'[j].times)
  BY <1>2 DEF CountsAt
<1>3. /\ disk[j] # None /\ disk[j].times # None
      /\ disk'[j].completed = disk[j].completed
      /\ disk'[j].times = disk[j].times
      /\ j \in Snapshots(t) => ~Retires(disk[j])
  <2>1. disk'[j] = IF j \in Snapshots(t)
                   THEN Settled(pass[t].jobs[j], pass[t].outcome[j])
                   ELSE pass[t].jobs[j]
    BY DEF SaveOutcomes
  <2>2. /\ pass[t].outcome[j] \in RunStatus \cup {None}
        /\ pass[t].jobs \in Table
        /\ j \in Snapshots(t) => pass[t].jobs[j] # None
    BY DEF ViewInv, TypeInv, TypeOK, Pass, PassOK, Snapshots
  <2>3. pass[t].jobs[j] # None /\ pass[t].jobs[j] \in Job
    BY <2>1, <2>2 DEF Table
  <2>4. /\ disk'[j].times = pass[t].jobs[j].times
        /\ disk'[j].completed = pass[t].jobs[j].completed
        /\ j \in Snapshots(t) => ~Retires(pass[t].jobs[j])
    BY <2>1, <2>2, <2>3, SettledFields
  <2>5. /\ disk[j] # None
        /\ pass[t].jobs[j].schedule = disk[j].schedule
        /\ pass[t].jobs[j].times = disk[j].times
        /\ pass[t].jobs[j].completed = disk[j].completed
    BY <1>1, <2>3 DEF ViewInv, ViewAt
  <2>6. QED
    BY <2>4, <2>5 DEF Retires
<1>4. /\ settled[j] <= disk[j].completed
      /\ Held(j) => settled[j] < disk[j].completed
      /\ settled[j] < Limit(disk[j].times)
  BY <1>3 DEF CountsInv, CountsAt
<1>5. /\ disk[j].completed \in Nat /\ settled[j] \in Nat
      /\ disk[j].times \in Nat /\ Limit(disk[j].times) \in Nat
      /\ disk[j].times <= Limit(disk[j].times)
  BY <1>3, CountTypes DEF ViewInv, TypeInv
<1>6. settled'[j] = IF j \in Snapshots(t) THEN settled[j] + 1 ELSE settled[j]
  BY DEF SaveOutcomes
<1>7. CASE j \in Snapshots(t)
  <2>1. settled[j] < disk[j].completed /\ disk[j].completed < disk[j].times
    BY <1>2, <1>3, <1>4, <1>5, <1>7 DEF Retires
  <2>2. QED
    BY <1>3, <1>5, <1>6, <1>7, <2>1
<1>8. CASE j \notin Snapshots(t)
  BY <1>3, <1>4, <1>6, <1>8
<1>9. QED
  BY <1>7, <1>8

LEMMA CountsStep ==
    ASSUME ViewInv, CountsInv, NEW t \in Ticks, Work(t) \/ Fault(t), NEW j \in Jobs
    PROVE  CountsAt(j)'
<1>1. pass \in [Ticks -> Pass] /\ pass[t] \in Pass /\ CountsAt(j)
  BY DEF ViewInv, TypeInv, TypeOK, CountsInv
<1>2. CASE pass'[t].pc # "running" /\ UNCHANGED <<disk, settled>>
  BY <1>1, <1>2, HolderHolds, CountsQuiet
<1>3. CASE /\ pass[t].pc = "running" /\ Snapshots(t)' = Snapshots(t)
           /\ UNCHANGED <<disk, settled>>
  BY <1>1, <1>3, HolderHolds, CountsQuiet
<1>4. CASE LoadNothingDue(t) \/ Return(t) \/ Fault(t)
  BY <1>1, <1>2, <1>4 DEF LoadNothingDue, Return, Fault, StoreFails, Kill, Leave, Idle
<1>5. CASE LoadAndAdvance(t)
  BY <1>1, <1>2, <1>5 DEF LoadAndAdvance, Pass
<1>6. CASE SaveAdvanced(t)
  BY <1>6, CountsSaveAdvanced
<1>7. CASE StartChunk(t)
  BY <1>1, <1>3, <1>7 DEF StartChunk, Pass, Snapshots
<1>8. ASSUME NEW i \in Jobs, NEW status \in Statuses, Finish(t, i, status)
      PROVE  CountsAt(j)'
  BY <1>1, <1>3, <1>8 DEF Finish, Pass, Snapshots
<1>9. CASE SaveOutcomes(t)
  BY <1>9, CountsSaveOutcomes
<1>10. ASSUME NEW i \in Jobs, Deliver(t, i) PROVE CountsAt(j)'
  BY <1>1, <1>2, <1>10 DEF Deliver, Pass
<1>11. QED
  BY <1>4, <1>5, <1>6, <1>7, <1>8, <1>9, <1>10 DEF Work

LEMMA CountsTryLock ==
    ASSUME ViewInv, CountsInv, NEW t \in Ticks, NEW targets, TryLock(t, targets),
           NEW j \in Jobs
    PROVE  CountsAt(j)'
<1>1. /\ UNCHANGED <<disk, settled>>
      /\ \A u \in Ticks : pass'[u].pc # "running"
  BY OnePassTryLock DEF TryLock, ViewInv
<1>2. ~Held(j)' /\ CountsAt(j)
  BY <1>1 DEF Held, CountsInv
<1>3. QED
  BY <1>1, <1>2, CountsQuiet

LEMMA CountsInductive ==
    ASSUME ViewInv, CountsInv, [Next]_vars
    PROVE  ViewInv' /\ CountsInv'
<1>1. CASE SetClock \/ UNCHANGED vars
  <2>1. UNCHANGED <<disk, pass, settled>>
    BY <1>1 DEF SetClock, vars
  <2>2. TypeInv' /\ OnePassAtATime'
    BY TypeInductive, OnePassInductive DEF ViewInv
  <2>3. QED
    BY <2>1, <2>2 DEF ViewInv, ViewAt, CountsInv, CountsAt, Held, Snapshots
<1>2. QED
  BY <1>1, CountsStep, CountsTryLock, ViewStep, ViewTryLock DEF Next, CountsInv

LEMMA CountsInit == Init => CountsInv
<1> SUFFICES ASSUME Init, NEW j \in Jobs PROVE CountsAt(j)
  BY DEF CountsInv
<1>1. PICK s \in Schedules, n \in Times : disk[j] = NewJob(s, n, 0)
  BY DEF Init
<1>2. disk[j].completed = 0 /\ settled[j] = 0
  BY <1>1 DEF NewJob, Init
<1>3. ~Held(j)
  BY DEF Init, Idle, Held
<1>4. disk[j].times # None => 0 < Limit(disk[j].times)
  BY <1>1, TimesAssumption DEF NewJob, Limit
<1>5. QED
  BY <1>2, <1>3, <1>4 DEF CountsAt

\* However many passes are killed or fail to save, a job leaves the table with
\* the outcome of its last run: the job that is still there has had fewer runs
\* with an outcome than its limit.
THEOREM RepeatsAreBounded == Spec => []RepeatBound
<1>1. Init => ViewInv /\ CountsInv
  BY CountsInit, SafetyInit DEF Init, Idle, SafetyInv, ViewInv, ViewAt
<1>2. ViewInv /\ CountsInv /\ [Next]_vars => ViewInv' /\ CountsInv'
  BY CountsInductive
<1>3. CountsInv => RepeatBound
  BY DEF CountsInv, CountsAt, RepeatBound
<1>4. QED
  BY <1>1, <1>2, <1>3, PTL DEF Spec

-----------------------------------------------------------------------------
(* No drift.  A slot is on the track of its schedule in jobs.json, in the   *)
(* hands of the pass that has claimed it, and among the firings.            *)

OnTrack(schedule, slot) ==
    CASE schedule.kind = "interval" -> slot % schedule.minutes = 0
      [] schedule.kind = "once"     -> slot = schedule.run_at
      [] schedule.kind = "cron"     ->
            \E after \in Instants : slot = Occurrence(schedule.expr, after)

TrackAt(j) ==
    disk[j] # None =>
        /\ \A k \in 1..Len(fired[j]) : OnTrack(disk[j].schedule, fired[j][k].slot)
        /\ disk[j].next_run_at # None =>
               OnTrack(disk[j].schedule, disk[j].next_run_at)
        /\ \A t \in Ticks : pass[t].pc = "running" /\ j \in Snapshots(t) =>
               OnTrack(disk[j].schedule, pass[t].slot[j])

TrackInv == \A j \in Jobs : TrackAt(j)

\* From a point of the grid that starts at 0, NextOnGrid stays on it.
LEMMA NextOnGridStays ==
    ASSUME NEW first \in Nat, NEW period \in Nat, period > 0, NEW now \in Nat,
           first % period = 0
    PROVE  NextOnGrid(first, period, now) % period = 0
<1>1. CASE first > now
  BY <1>1 DEF NextOnGrid
<1>2. CASE ~(first > now)
  <2> DEFINE gap == now - first
             q == gap \div period
             f == first \div period
  <2>1. gap \in Int /\ q \in Int /\ gap = period * q + (gap % period)
    OBVIOUS
  <2>2. f \in Int /\ first = period * f
    OBVIOUS
  <2>3. NextOnGrid(first, period, now) = now + period - (gap % period)
    BY <1>2 DEF NextOnGrid
  <2>4. now = first + gap
    OBVIOUS
  <2>5. gap % period \in Int
    BY <2>1
  <2> HIDE DEF gap, q, f
  <2>6. NextOnGrid(first, period, now) = first + period * q + period
    BY <2>1, <2>3, <2>4, <2>5
  <2>7. period * f + period * q + period = period * (f + q + 1) + 0
    BY <2>1, <2>2
  <2>8. (period * (f + q + 1) + 0) % period = 0
    BY <2>1, <2>2, ModUnique
  <2>9. QED
    BY <2>2, <2>6, <2>7, <2>8
<1>3. QED
  BY <1>1, <1>2

\* Anchored to a slot on the track, or to the instant 0 a job was added at,
\* the next run is on the track.
LEMMA NextRunOnTrack ==
    ASSUME NEW schedule \in Schedule, NEW last \in OptInstant, NEW now \in Instants,
           \/ last = None /\ now = 0
           \/ last # None /\ last <= now /\ OnTrack(schedule, last),
           compute_next_run(schedule, last, now) # None
    PROVE  OnTrack(schedule, compute_next_run(schedule, last, now))
<1> DEFINE anchor == IF last = None THEN now ELSE last
<1>1. now \in Nat /\ anchor \in Nat /\ None \notin Nat
  BY InstantsAreNat, NoneAssumption DEF OptInstant
<1>2. CASE schedule.kind = "interval"
  <2> DEFINE p == schedule.minutes
  <2>1. p \in Int
    BY <1>2 DEF Schedule, IntervalSchedule, CronSchedule, OnceSchedule
  <2>2. compute_next_run(schedule, last, now) = NextInterval(p, last, now)
    BY <1>2 DEF compute_next_run
  <2>3. p > 0 /\ p \in Nat
    BY <2>1, <2>2 DEF NextInterval
  <2>4. NextInterval(p, last, now) = NextOnGrid(anchor + p, p, now)
    BY <2>1, <2>3 DEF NextInterval
  <2>5. anchor % p = 0
    <3>1. CASE last = None
      <4>1. (p * 0 + 0) % p = 0 /\ p * 0 + 0 = 0
        BY <2>3, ModUnique
      <4>2. QED
        BY <3>1, <4>1
    <3>2. CASE last # None
      BY <1>2, <3>2 DEF OnTrack
    <3>3. QED
      BY <3>1, <3>2
  <2> HIDE DEF anchor, p
  <2>6. (anchor + p) % p = 0
    BY <1>1, <2>3, <2>5, ModPlusPeriod
  <2>7. anchor + p \in Nat
    BY <1>1, <2>3
  <2>8. NextOnGrid(anchor + p, p, now) % p = 0
    BY <1>1, <2>3, <2>6, <2>7, NextOnGridStays
  <2>9. QED
    BY <1>2, <2>2, <2>4, <2>8 DEF OnTrack, p
<1>3. CASE schedule.kind = "cron"
  <2>1. compute_next_run(schedule, last, now) = Occurrence(schedule.expr, now)
    BY <1>1, <1>3 DEF compute_next_run, NextCron, OptInstant
  <2>2. QED
    BY <1>3, <2>1 DEF OnTrack
<1>4. CASE schedule.kind = "once"
  BY <1>4 DEF compute_next_run, NextOnce, OnTrack
<1>5. QED
  BY <1>2, <1>3, <1>4 DEF Schedule, IntervalSchedule, CronSchedule, OnceSchedule

\* A step that leaves jobs.json and the firings alone, and takes up no slots.
LEMMA TrackQuiet ==
    ASSUME NEW j \in Jobs, TrackAt(j), UNCHANGED <<disk, fired>>,
           \A t \in Ticks : (pass[t].pc = "running" /\ j \in Snapshots(t))' =>
               /\ pass[t].pc = "running" /\ j \in Snapshots(t)
               /\ pass'[t].slot[j] = pass[t].slot[j]
    PROVE  TrackAt(j)'
BY DEF TrackAt

LEMMA TrackSaveAdvanced ==
    ASSUME SafetyInv, TrackInv, NEW t \in Ticks, SaveAdvanced(t), NEW j \in Jobs
    PROVE  TrackAt(j)'
<1>1. /\ pass[t].pc = "advanced" /\ fired' = fired
      /\ Snapshots(t)' = Snapshots(t) /\ pass'[t].slot = pass[t].slot
      /\ pass[t].now \in Instants /\ pass[t].slot \in [Jobs -> OptInstant]
  BY DEF SaveAdvanced, SafetyInv, TypeInv, TypeOK, Pass, Snapshots
<1>2. \A u \in Ticks \ {t} : pass'[u].pc = "idle"
  BY HolderSteps DEF Work, SafetyInv
<1> SUFFICES ASSUME disk'[j] # None PROVE TrackAt(j)'
  BY DEF TrackAt
<1>3. disk[j] \in Job /\ disk[j] # None /\ disk'[j].schedule = disk[j].schedule
  BY SavedByAdvance DEF SafetyInv
<1>4. TrackAt(j)
  BY DEF TrackInv
<1>5. CASE j \notin Snapshots(t)
  <2>1. disk'[j].next_run_at = disk[j].next_run_at
    BY <1>5, SavedByAdvance DEF SafetyInv
  <2>2. QED
    BY <1>1, <1>2, <1>3, <1>4, <1>5, <2>1 DEF TrackAt
<1>6. CASE j \in Snapshots(t)
  <2>1. /\ pass[t].slot[j] = disk[j].next_run_at
        /\ pass[t].slot[j] # None /\ pass[t].slot[j] <= pass[t].now
    BY <1>1, <1>6 DEF SafetyInv, ClaimOK, Snapshots
  <2>2. OnTrack(disk[j].schedule, pass[t].slot[j])
    BY <1>3, <1>4, <2>1 DEF TrackAt
  <2>3. disk'[j].next_run_at = compute_next_run(disk[j].schedule, pass[t].slot[j], pass[t].now)
    BY <1>6, <2>1, SavedByAdvance DEF SafetyInv
  <2>4. disk[j].schedule \in Schedule
    BY <1>3, SchedulesAssumption DEF Job
  <2>5. disk'[j].next_run_at # None => OnTrack(disk[j].schedule, disk'[j].next_run_at)
    BY <1>1, <2>1, <2>2, <2>3, <2>4, NextRunOnTrack
  <2>6. QED
    BY <1>1, <1>2, <1>3, <1>4, <2>2, <2>5 DEF TrackAt
<1>7. QED
  BY <1>5, <1>6

LEMMA TrackStartChunk ==
    ASSUME SafetyInv, TrackInv, NEW t \in Ticks, StartChunk(t), NEW j \in Jobs
    PROVE  TrackAt(j)'
<1>1. /\ pass[t].pc = "running" /\ pass'[t].pc = "running" /\ disk' = disk
      /\ Snapshots(t)' = Snapshots(t) /\ pass'[t].slot = pass[t].slot
      /\ pass[t].queue \subseteq Snapshots(t)
  BY DEF StartChunk, SafetyInv, TypeInv, TypeOK, Pass, PassOK, Snapshots
<1>2. \A u \in Ticks \ {t} : pass'[u].pc = "idle"
  BY HolderSteps DEF Work, SafetyInv
<1> SUFFICES ASSUME disk[j] # None PROVE TrackAt(j)'
  BY <1>1 DEF TrackAt
<1>3. /\ \A k \in 1..Len(fired[j]) : OnTrack(disk[j].schedule, fired[j][k].slot)
      /\ disk[j].next_run_at # None => OnTrack(disk[j].schedule, disk[j].next_run_at)
      /\ j \in Snapshots(t) => OnTrack(disk[j].schedule, pass[t].slot[j])
  BY <1>1 DEF TrackInv, TrackAt
<1>4. ASSUME NEW k \in 1..Len(fired'[j])
      PROVE  OnTrack(disk[j].schedule, fired'[j][k].slot)
  BY <1>1, <1>3, ChunkFires DEF SafetyInv
<1>5. QED
  BY <1>1, <1>2, <1>3, <1>4 DEF TrackAt

LEMMA TrackSaveOutcomes ==
    ASSUME SafetyInv, TrackInv, NEW t \in Ticks, SaveOutcomes(t), NEW j \in Jobs
    PROVE  TrackAt(j)'
<1>1. pass'[t].pc = "delivering" /\ fired' = fired
  BY DEF SaveOutcomes, SafetyInv, TypeInv, TypeOK, Pass
<1>2. \A u \in Ticks : pass'[u].pc # "running"
  BY <1>1, HolderSteps DEF Work, SafetyInv
<1>3. disk'[j] # None => /\ disk[j] # None
                         /\ disk'[j].schedule = disk[j].schedule
                         /\ disk'[j].next_run_at = disk[j].next_run_at
  BY SavedByOutcomes DEF SafetyInv
<1>4. QED
  BY <1>1, <1>2, <1>3 DEF TrackInv, TrackAt

LEMMA TrackStep ==
    ASSUME SafetyInv, TrackInv, NEW t \in Ticks, Work(t) \/ Fault(t), NEW j \in Jobs
    PROVE  TrackAt(j)'
<1>1. pass \in [Ticks -> Pass] /\ pass[t] \in Pass /\ TrackAt(j)
  BY DEF SafetyInv, TypeInv, TypeOK, TrackInv
<1>2. \A u \in Ticks \ {t} : pass'[u].pc = "idle"
  BY HolderSteps DEF SafetyInv
<1>3. CASE LoadNothingDue(t) \/ Return(t) \/ Fault(t) \/ LoadAndAdvance(t)
  <2>1. pass'[t].pc # "running" /\ UNCHANGED <<disk, fired>>
    <3>1. CASE LoadAndAdvance(t)
      <4>1. pass'[t].pc = "advanced" /\ UNCHANGED <<disk, fired>>
        BY <1>1, <3>1 DEF LoadAndAdvance, Pass
      <4>2. QED
        BY <4>1
    <3>2. CASE LoadNothingDue(t) \/ Return(t) \/ Fault(t)
      BY <1>1, <3>2 DEF LoadNothingDue, Return, Fault, StoreFails, Kill, Leave, Idle
    <3>3. QED
      BY <1>3, <3>1, <3>2
  <2>2. QED
    BY <1>1, <1>2, <2>1, TrackQuiet
<1>4. CASE SaveAdvanced(t)
  BY <1>4, TrackSaveAdvanced
<1>5. CASE StartChunk(t)
  BY <1>5, TrackStartChunk
<1>6. ASSUME NEW i \in Jobs, NEW status \in Statuses, Finish(t, i, status)
      PROVE  TrackAt(j)'
  <2>1. /\ pass[t].pc = "running" /\ pass'[t].slot = pass[t].slot
        /\ Snapshots(t)' = Snapshots(t) /\ UNCHANGED <<disk, fired>>
    BY <1>1, <1>6 DEF Finish, Pass, Snapshots
  <2>2. QED
    BY <1>1, <1>2, <2>1, TrackQuiet
<1>7. CASE SaveOutcomes(t)
  BY <1>7, TrackSaveOutcomes
<1>8. ASSUME NEW i \in Jobs, Deliver(t, i) PROVE TrackAt(j)'
  <2>1. pass'[t].pc = "delivering" /\ UNCHANGED <<disk, fired>>
    BY <1>1, <1>8 DEF Deliver, Pass
  <2>2. QED
    BY <1>1, <1>2, <2>1, TrackQuiet
<1>9. QED
  BY <1>3, <1>4, <1>5, <1>6, <1>7, <1>8 DEF Work

LEMMA TrackInductive ==
    ASSUME SafetyInv, TrackInv, [Next]_vars
    PROVE  TrackInv'
<1>1. CASE SetClock \/ UNCHANGED vars
  <2>1. UNCHANGED <<disk, pass, fired>>
    BY <1>1 DEF SetClock, vars
  <2>2. QED
    BY <2>1 DEF TrackInv, TrackAt, Snapshots
<1>2. ASSUME NEW t \in Ticks, TryLock(t, Jobs), NEW j \in Jobs PROVE TrackAt(j)'
  <2>1. /\ UNCHANGED <<disk, fired>>
        /\ \A u \in Ticks : pass'[u].pc # "running"
    BY <1>2, TicksAssumption
    DEF TryLock, Idle, SafetyInv, TypeInv, TypeOK, OnePassAtATime
  <2>2. QED
    BY <2>1, TrackQuiet DEF TrackInv
<1>3. QED
  BY <1>1, <1>2, TrackStep DEF Next, TrackInv

LEMMA TrackInit == Init => TrackInv
<1> SUFFICES ASSUME Init, NEW j \in Jobs PROVE TrackAt(j)
  BY DEF TrackInv
<1>1. PICK s \in Schedules, n \in Times : disk[j] = NewJob(s, n, 0)
  BY DEF Init
<1>2. disk[j].schedule = s /\ disk[j].next_run_at = compute_next_run(s, None, 0)
  BY <1>1 DEF NewJob
<1>3. s \in Schedule /\ None \in OptInstant /\ 0 \in Instants
  BY SchedulesAssumption, InstantsAreNat DEF OptInstant
<1>4. disk[j].next_run_at # None => OnTrack(s, disk[j].next_run_at)
  BY <1>2, <1>3, NextRunOnTrack
<1>5. 1..Len(fired[j]) = {} /\ \A t \in Ticks : pass[t].pc = "idle"
  BY DEF Init, Idle
<1>6. QED
  BY <1>2, <1>4, <1>5 DEF TrackAt

\* However late the passes are and wherever they are killed, every slot a job
\* has fired or will fire next is one of its schedule: an interval job stays
\* on the grid it was added on.
THEOREM SlotsStayOnTrack == Spec => []NoDrift
<1>1. SafetyInv /\ TrackInv /\ [Next]_vars => TrackInv'
  BY TrackInductive
<1>2. TypeOK /\ TrackInv => NoDrift
  <2> SUFFICES ASSUME TypeOK, TrackInv, NEW j \in Jobs, disk[j] # None,
                      NEW slot \in Slots(j)
               PROVE  OnTrack(disk[j].schedule, slot)
    BY DEF NoDrift, OnTrack
  <2>1. DOMAIN fired[j] = 1..Len(fired[j])
    BY DEF TypeOK
  <2>2. QED
    BY <2>1 DEF TrackInv, TrackAt, Slots
<1>3. SafetyInv => TypeOK
  BY DEF SafetyInv, TypeInv
<1>4. QED
  BY <1>1, <1>2, <1>3, TrackInit, SafetyAlways, PTL DEF Spec

-----------------------------------------------------------------------------
(* The engine implements the promise of module Firing: each of its steps is *)
(* a Claim, a Start, a Forget, a Retire, or nothing at all.  First, the     *)
(* refinement mapping as functions of the variables it reads.               *)

NextIn(table) == [j \in Jobs |-> IF table[j] = None THEN None ELSE table[j].next_run_at]

ClaimedIn(passes, holder) ==
    [j \in Jobs |->
        IF \E t \in Ticks : passes[t].pc = "running" /\ j \in passes[t].queue
        THEN [slot |-> passes[holder].slot[j], at |-> passes[holder].now]
        ELSE None]

LEMMA Mapping ==
    /\ NextSlot = NextIn(disk) /\ NextSlot' = NextIn(disk')
    /\ Claimed = ClaimedIn(pass, lock) /\ Claimed' = ClaimedIn(pass', lock')
BY DEF NextSlot, NextIn, Claimed, ClaimedIn

LEMMA NextInType ==
    ASSUME NEW table \in Table
    PROVE  NextIn(table) \in [Jobs -> Nat \cup {None}]
<1> SUFFICES ASSUME NEW j \in Jobs
             PROVE  NextIn(table)[j] \in Nat \cup {None}
  BY DEF NextIn
<1>1. CASE table[j] = None
  BY <1>1 DEF NextIn
<1>2. CASE table[j] # None
  BY <1>2 DEF NextIn, Table, Job, OptInstant
<1>3. QED
  BY <1>1, <1>2

\* No pass has anything to start.
LEMMA NothingClaimed ==
    ASSUME NEW passes, NEW holder,
           \A t \in Ticks : passes[t].pc # "running" \/ passes[t].queue = {}
    PROVE  ClaimedIn(passes, holder) = [j \in Jobs |-> None]
BY DEF ClaimedIn

\* The pass that holds the lock is the only one that may be running.
LEMMA HolderClaims ==
    ASSUME NEW passes, NEW t \in Ticks, passes[t].pc = "running",
           \A u \in Ticks \ {t} : passes[u].pc = "idle"
    PROVE  ClaimedIn(passes, t) =
               [j \in Jobs |-> IF j \in passes[t].queue
                               THEN [slot |-> passes[t].slot[j], at |-> passes[t].now]
                               ELSE None]
BY DEF ClaimedIn

-----------------------------------------------------------------------------
(* Between its load and its first save a pass claims everything it will    *)
(* save as advanced.                                                       *)

ClaimsAll(t) == pass[t].pc = "advanced" => pass[t].queue = Snapshots(t)

RefInv == SafetyInv /\ \A t \in Ticks : ClaimsAll(t)

LEMMA ClaimsAllInductive ==
    ASSUME RefInv, [Next]_vars
    PROVE  RefInv'
<1> SafetyInv'
  BY SafetyInductive DEF RefInv
<1> SafetyInv /\ TypeInv /\ OnePassAtATime /\ pass \in [Ticks -> Pass] /\ disk \in Table
  BY DEF RefInv, SafetyInv, TypeInv, TypeOK
<1>1. CASE SetClock \/ UNCHANGED vars
  BY <1>1 DEF SetClock, vars, RefInv, ClaimsAll, Snapshots
<1>2. ASSUME NEW t \in Ticks, TryLock(t, Jobs) PROVE RefInv'
  <2>1. \A u \in Ticks : pass'[u].pc # "advanced"
    BY <1>2, TicksAssumption DEF TryLock, OnePassAtATime, Idle
  <2>2. QED
    BY <2>1 DEF RefInv, ClaimsAll
<1>3. ASSUME NEW t \in Ticks, Work(t) \/ Fault(t) PROVE RefInv'
  <2>1. \A u \in Ticks \ {t} : pass'[u].pc = "idle"
    BY <1>3, HolderSteps
  <2>2. ClaimsAll(t)'
    <3>1. CASE LoadAndAdvance(t)
      <4> DEFINE due == DueAtLoad(t)
      <4>1. \A j \in due : j \in Jobs /\ Recovered(disk)[j].next_run_at # None
        <5> SUFFICES ASSUME NEW j \in due
                     PROVE  j \in Jobs /\ Recovered(disk)[j].next_run_at # None
          OBVIOUS
        <5>1. j \in Jobs /\ IsDue(disk[j], pass[t].now)
          BY DEF DueAtLoad, Due, Pass
        <5>2. QED
          BY <5>1, RecoveredType DEF IsDue
      <4>2. /\ pass'[t].queue = due
            /\ pass'[t].slot = [j \in Jobs |-> IF j \in due
                                    THEN Recovered(disk)[j].next_run_at ELSE None]
        BY <3>1 DEF LoadAndAdvance, Pass
      <4> HIDE DEF due
      <4>3. QED
        BY <4>1, <4>2 DEF ClaimsAll, Snapshots
    <3>2. CASE ~LoadAndAdvance(t)
      <4>1. CASE LoadNothingDue(t) \/ Return(t) \/ Fault(t)
        BY <4>1 DEF LoadNothingDue, Return, Fault, StoreFails, Kill, Leave, Idle, ClaimsAll
      <4>2. CASE SaveAdvanced(t) \/ SaveOutcomes(t)
        BY <4>2 DEF SaveAdvanced, SaveOutcomes, Pass, ClaimsAll
      <4>3. CASE StartChunk(t)
        BY <4>3 DEF StartChunk, Pass, ClaimsAll
      <4>4. ASSUME NEW j \in Jobs, Deliver(t, j) PROVE ClaimsAll(t)'
        BY <4>4 DEF Deliver, Pass, ClaimsAll
      <4>5. ASSUME NEW j \in Jobs, NEW status \in Statuses, Finish(t, j, status)
            PROVE  ClaimsAll(t)'
        <5>1. pass'[t].pc = pass[t].pc /\ pass[t].pc = "running"
          BY <4>5 DEF Finish, Pass
        <5>2. QED
          BY <5>1 DEF ClaimsAll
      <4>6. QED
        BY <1>3, <3>2, <4>1, <4>2, <4>3, <4>4, <4>5 DEF Work
    <3>3. QED
      BY <3>1, <3>2
  <2>3. QED
    BY <2>1, <2>2 DEF RefInv, ClaimsAll
<1>4. QED
  BY <1>1, <1>2, <1>3 DEF Next

LEMMA RefInit == Init => RefInv /\ Promise!Init
<1> SUFFICES ASSUME Init PROVE RefInv /\ Promise!Init
  OBVIOUS
<1>1. SafetyInv
  BY SafetyInit
<1>2. RefInv
  BY <1>1 DEF RefInv, ClaimsAll, Init, Idle
<1>3. NextSlot \in [Jobs -> Nat \cup {None}]
  BY <1>1, Mapping, NextInType DEF SafetyInv, TypeInv, TypeOK
<1>4. Claimed = Promise!Nothing
  BY Mapping, NothingClaimed DEF Init, Idle, Promise!Nothing
<1>5. QED
  BY <1>2, <1>3, <1>4 DEF Promise!Init, Init

-----------------------------------------------------------------------------
(* One lemma per action: the step of the promise it makes *)

PromiseStep == [Promise!Next]_(Promise!vars)

\* A step that leaves the table and the firings alone, and after which nothing
\* is claimed, forgets what was claimed.
LEMMA ForgetStep ==
    ASSUME UNCHANGED <<disk, fired>>, \A t \in Ticks : pass'[t].pc # "running"
    PROVE  PromiseStep
<1>1. NextSlot' = NextSlot
  BY Mapping
<1>2. Claimed' = Promise!Nothing
  BY Mapping, NothingClaimed DEF Promise!Nothing
<1>3. Promise!Forget
  BY <1>1, <1>2 DEF Promise!Forget
<1>4. QED
  BY <1>3 DEF PromiseStep, Promise!Next

\* The clock, and a thread that returns, are nothing to the promise.
LEMMA IdleStep ==
    ASSUME UNCHANGED <<disk, fired>>, Claimed' = Claimed
    PROVE  PromiseStep
BY Mapping DEF PromiseStep, Promise!vars

LEMMA TryLockStep ==
    ASSUME RefInv, NEW t \in Ticks, TryLock(t, Jobs)
    PROVE  PromiseStep
<1>1. \A u \in Ticks : pass'[u].pc # "running"
  BY TicksAssumption DEF TryLock, OnePassAtATime, Idle, RefInv, SafetyInv, TypeInv, TypeOK
<1>2. QED
  BY <1>1, ForgetStep DEF TryLock

LEMMA NotRunningStep ==
    ASSUME RefInv, NEW t \in Ticks, Work(t) \/ Fault(t), pass'[t].pc # "running",
           UNCHANGED <<disk, fired>>
    PROVE  PromiseStep
<1>1. \A u \in Ticks \ {t} : pass'[u].pc = "idle"
  BY HolderSteps DEF RefInv, SafetyInv
<1>2. QED
  BY <1>1, ForgetStep

\* The first save claims every snapshot of the pass, and no other slot moves.
LEMMA ClaimStep ==
    ASSUME RefInv, NEW t \in Ticks, SaveAdvanced(t)
    PROVE  PromiseStep
<1> DEFINE due == Snapshots(t)
           now == pass[t].now
<1>1. /\ TypeInv /\ OnePassAtATime /\ disk \in Table /\ pass \in [Ticks -> Pass]
      /\ pass[t] \in Pass /\ PassOK(pass[t]) /\ FreshAt(t) /\ ClaimOK(t)
      /\ pass[t].pc = "advanced" /\ pass[t].queue = due
  BY DEF RefInv, SafetyInv, TypeInv, TypeOK, ClaimsAll, SaveAdvanced
<1>2. /\ lock = t /\ lock' = t /\ fired' = fired /\ disk' = pass[t].jobs
      /\ pass' = [pass EXCEPT ![t].pc = "running"]
  BY <1>1, HolderSteps DEF SaveAdvanced, Work
<1>3. /\ pass'[t].pc = "running" /\ pass'[t].queue = due
      /\ pass'[t].slot = pass[t].slot /\ pass'[t].now = now
  BY <1>1, <1>2 DEF Pass
<1>4. \A u \in Ticks \ {t} : pass[u].pc = "idle" /\ pass'[u].pc = "idle"
  BY <1>1, HolderSteps DEF Work
<1>5. disk' \in Table
  BY <1>1, <1>2 DEF Pass
<1>6. Claimed = Promise!Nothing
  BY <1>1, <1>4, Mapping, NothingClaimed DEF Promise!Nothing
<1>7. Claimed' = [j \in Jobs |-> IF j \in due
                                 THEN [slot |-> pass[t].slot[j], at |-> now] ELSE None]
  <2>1. Claimed' = ClaimedIn(pass', t)
    BY <1>2, Mapping
  <2>2. @ = [j \in Jobs |-> IF j \in pass'[t].queue
                            THEN [slot |-> pass'[t].slot[j], at |-> pass'[t].now]
                            ELSE None]
    BY <1>3, <1>4, HolderClaims
  <2>3. QED
    BY <1>3, <2>1, <2>2
<1>8. \A j \in due : /\ NextSlot[j] = pass[t].slot[j]
                     /\ NextSlot[j] # None /\ NextSlot[j] <= now
                     /\ NextSlot'[j] = None \/ NextSlot'[j] > now
  <2> SUFFICES ASSUME NEW j \in due
               PROVE  /\ NextSlot[j] = pass[t].slot[j]
                      /\ NextSlot[j] # None /\ NextSlot[j] <= now
                      /\ NextSlot'[j] = None \/ NextSlot'[j] > now
    OBVIOUS
  <2>1. j \in Jobs /\ pass[t].slot[j] # None
    BY DEF Snapshots
  <2>2. /\ disk[j] # None /\ pass[t].slot[j] = disk[j].next_run_at
        /\ pass[t].slot[j] <= now
        /\ pass[t].jobs[j].next_run_at = None \/ pass[t].jobs[j].next_run_at > now
    BY <1>1 DEF ClaimOK
  <2>3. NextSlot[j] = disk[j].next_run_at
    BY <2>1, <2>2, Mapping DEF NextIn
  <2>4. NextSlot'[j] = pass[t].jobs[j].next_run_at \/ NextSlot'[j] = None
    BY <1>2, <2>1, Mapping DEF NextIn
  <2>5. QED
    BY <2>1, <2>2, <2>3, <2>4
<1>9. \A j \in Jobs \ due : NextSlot'[j] = NextSlot[j]
  <2> SUFFICES ASSUME NEW j \in Jobs \ due PROVE NextSlot'[j] = NextSlot[j]
    OBVIOUS
  <2>1. disk'[j] = Recovered(disk)[j]
    BY <1>1, <1>2 DEF FreshAt
  <2>2. NextIn(disk')[j] = NextIn(disk)[j]
    BY <1>1, <2>1, RecoveredType DEF NextIn
  <2>3. QED
    BY <2>2, Mapping
<1>10. NextSlot' \in [Jobs -> Nat \cup {None}]
  BY <1>5, Mapping, NextInType
<1>11. due \subseteq Jobs /\ now \in Instants
  BY <1>1 DEF Snapshots, Pass
<1> HIDE DEF due, now
<1>12. Claimed' = [j \in Jobs |-> IF j \in due THEN [slot |-> NextSlot[j], at |-> now]
                                               ELSE None]
  BY <1>7, <1>8
<1>13. Promise!Claim(due, now)
  BY <1>2, <1>6, <1>8, <1>9, <1>10, <1>11, <1>12 DEF Promise!Claim
<1>14. QED
  BY <1>11, <1>13 DEF PromiseStep, Promise!Next

\* The threads of a chunk start what the pass has claimed.
LEMMA StartStep ==
    ASSUME RefInv, NEW t \in Ticks, StartChunk(t)
    PROVE  PromiseStep
<1>1. /\ TypeInv /\ OnePassAtATime /\ pass \in [Ticks -> Pass]
      /\ pass[t] \in Pass /\ PassOK(pass[t]) /\ pass[t].pc = "running"
  BY DEF RefInv, SafetyInv, TypeInv, TypeOK, StartChunk
<1>2. PICK chunk \in SUBSET pass[t].queue :
          /\ pass' = [pass EXCEPT ![t].running = chunk, ![t].queue = @ \ chunk]
          /\ fired' = [j \in Jobs |->
                 IF j \in chunk
                 THEN Append(fired[j], [slot |-> pass[t].slot[j], at |-> pass[t].now])
                 ELSE fired[j]]
  BY DEF StartChunk
<1> DEFINE claim(j) == [slot |-> pass[t].slot[j], at |-> pass[t].now]
<1>3. lock = t /\ lock' = t /\ disk' = disk
  BY <1>1, HolderSteps DEF StartChunk, Work
<1>4. /\ pass'[t].pc = "running" /\ pass'[t].queue = pass[t].queue \ chunk
      /\ pass'[t].slot = pass[t].slot /\ pass'[t].now = pass[t].now
  BY <1>1, <1>2 DEF Pass
<1>5. \A u \in Ticks \ {t} : pass[u].pc = "idle" /\ pass'[u].pc = "idle"
  BY <1>1, HolderSteps DEF Work
<1>6. Claimed = [j \in Jobs |-> IF j \in pass[t].queue THEN claim(j) ELSE None]
  BY <1>1, <1>3, <1>5, Mapping, HolderClaims
<1>7. Claimed' = [j \in Jobs |-> IF j \in pass[t].queue \ chunk THEN claim(j) ELSE None]
  BY <1>3, <1>4, <1>5, Mapping, HolderClaims
<1>8. \A j \in chunk : j \in Jobs /\ claim(j) # None
  <2> SUFFICES ASSUME NEW j \in chunk PROVE j \in Jobs /\ claim(j) # None
    OBVIOUS
  <2>1. j \in Jobs /\ pass[t].slot[j] \in Nat /\ pass[t].now \in Nat
    BY <1>1, InstantsAreNat DEF PassOK, Pass, OptInstant
  <2>2. claim(j) \in [slot : Nat, at : Nat]
    BY <2>1
  <2>3. QED
    BY <2>1, <2>2, NoneIsNoFiring
<1>9. pass[t].queue \subseteq Jobs /\ chunk \subseteq pass[t].queue
  BY <1>1, <1>2 DEF Pass
<1>10. fired' = [j \in Jobs |-> IF j \in chunk THEN Append(fired[j], claim(j))
                                              ELSE fired[j]]
  BY <1>2
<1> HIDE DEF claim
<1>11. \A j \in chunk : Claimed[j] = claim(j)
  BY <1>6, <1>8, <1>9
<1>12. fired' = [j \in Jobs |-> IF j \in chunk THEN Append(fired[j], Claimed[j])
                                              ELSE fired[j]]
  BY <1>10, <1>11
<1>13. Claimed' = [j \in Jobs |-> IF j \in chunk THEN None ELSE Claimed[j]]
  BY <1>6, <1>7
<1>14. NextSlot' = NextSlot
  BY <1>3, Mapping
<1>15. Promise!Start(chunk)
  BY <1>8, <1>11, <1>12, <1>13, <1>14 DEF Promise!Start
<1>16. chunk \in SUBSET Jobs
  BY <1>9
<1>17. QED
  BY <1>15, <1>16 DEF PromiseStep, Promise!Next

LEMMA FinishStep ==
    ASSUME RefInv, NEW t \in Ticks, NEW j \in Jobs, NEW status \in Statuses,
           Finish(t, j, status)
    PROVE  PromiseStep
<1>1. TypeInv /\ OnePassAtATime /\ pass \in [Ticks -> Pass] /\ pass[t] \in Pass
  BY DEF RefInv, SafetyInv, TypeInv, TypeOK
<1>2. /\ pass[t].pc = "running" /\ pass'[t].pc = "running"
      /\ pass'[t].queue = pass[t].queue
      /\ pass'[t].slot = pass[t].slot /\ pass'[t].now = pass[t].now
  BY <1>1 DEF Finish, Pass
<1>3. /\ lock = t /\ lock' = t
      /\ \A u \in Ticks \ {t} : pass[u].pc = "idle" /\ pass'[u].pc = "idle"
  BY <1>1, HolderSteps DEF Finish, Work
<1>4. Claimed' = Claimed
  BY <1>2, <1>3, Mapping, HolderClaims
<1>5. QED
  BY <1>4, IdleStep DEF Finish

\* The second save takes the jobs that are done for good out of the table.
LEMMA RetireStep ==
    ASSUME RefInv, NEW t \in Ticks, SaveOutcomes(t)
    PROVE  PromiseStep
<1>1. /\ TypeInv /\ OnePassAtATime /\ disk \in Table /\ pass \in [Ticks -> Pass]
      /\ pass[t] \in Pass /\ PassOK(pass[t]) /\ FreshAt(t)
      /\ pass[t].pc = "running" /\ pass[t].queue = {}
  BY DEF RefInv, SafetyInv, TypeInv, TypeOK, SaveOutcomes, AllJoined
<1>2. \A u \in Ticks \ {t} : pass[u].pc = "idle" /\ pass'[u].pc = "idle"
  BY <1>1, HolderSteps DEF Work
<1>3. pass'[t].pc = "delivering"
  BY <1>1 DEF SaveOutcomes, Pass
<1>4. Claimed = Promise!Nothing /\ Claimed' = Promise!Nothing
  BY <1>1, <1>2, <1>3, Mapping, NothingClaimed DEF Promise!Nothing
<1> DEFINE gone == {j \in Jobs : disk'[j] = None}
<1>5. \A j \in Jobs : NextIn(disk')[j] = IF j \in gone THEN None ELSE NextIn(disk)[j]
  <2> SUFFICES ASSUME NEW j \in Jobs
               PROVE  NextIn(disk')[j] = IF j \in gone THEN None ELSE NextIn(disk)[j]
    OBVIOUS
  <2>1. disk = pass[t].jobs
    BY <1>1 DEF FreshAt
  <2>2. CASE j \in Snapshots(t)
    <3>1. disk[j] \in Job /\ disk[j] # None
      BY <1>1, <2>1, <2>2, NoneIsNoJob DEF PassOK, Snapshots, Table
    <3>2. disk'[j] = Settled(disk[j], pass[t].outcome[j])
      BY <2>1, <2>2 DEF SaveOutcomes
    <3>3. pass[t].outcome[j] \in RunStatus \cup {None}
      BY <1>1 DEF Pass
    <3>4. disk'[j] # None => disk'[j].next_run_at = disk[j].next_run_at
      BY <3>1, <3>2, <3>3, SettledType
    <3>5. QED
      BY <3>1, <3>4 DEF NextIn
  <2>3. CASE j \notin Snapshots(t)
    <3>1. disk'[j] = disk[j]
      BY <2>1, <2>3 DEF SaveOutcomes
    <3>2. QED
      BY <3>1 DEF NextIn
  <2>4. QED
    BY <2>2, <2>3
<1> HIDE DEF gone
<1>6. NextSlot' = [j \in Jobs |-> IF j \in gone THEN None ELSE NextSlot[j]]
  BY <1>5, Mapping DEF NextIn
<1>7. Promise!Retire(gone) /\ gone \in SUBSET Jobs
  BY <1>4, <1>6 DEF Promise!Retire, SaveOutcomes, gone
<1>8. QED
  BY <1>7 DEF PromiseStep, Promise!Next

LEMMA EveryStepKeepsPromise ==
    ASSUME RefInv, [Next]_vars
    PROVE  PromiseStep
<1>1. CASE SetClock \/ UNCHANGED vars
  <2>1. UNCHANGED <<disk, lock, pass, fired>>
    BY <1>1 DEF SetClock, vars
  <2>2. QED
    BY <2>1, Mapping, IdleStep
<1>2. ASSUME NEW t \in Ticks, TryLock(t, Jobs) PROVE PromiseStep
  BY <1>2, TryLockStep
<1>3. ASSUME NEW t \in Ticks, Work(t) \/ Fault(t) PROVE PromiseStep
  <2> pass \in [Ticks -> Pass] /\ pass[t] \in Pass
    BY DEF RefInv, SafetyInv, TypeInv, TypeOK
  <2>1. CASE LoadNothingDue(t) \/ Return(t) \/ Fault(t)
    <3>1. pass'[t].pc # "running" /\ UNCHANGED <<disk, fired>>
      BY <2>1 DEF LoadNothingDue, Return, Fault, StoreFails, Kill, Leave, Idle
    <3>2. QED
      BY <1>3, <3>1, NotRunningStep
  <2>2. CASE LoadAndAdvance(t)
    <3>1. pass'[t].pc = "advanced" /\ UNCHANGED <<disk, fired>>
      BY <2>2 DEF LoadAndAdvance, Pass
    <3>2. QED
      BY <1>3, <3>1, NotRunningStep
  <2>3. ASSUME NEW j \in Jobs, Deliver(t, j) PROVE PromiseStep
    <3>1. pass'[t].pc = "delivering" /\ UNCHANGED <<disk, fired>>
      BY <2>3 DEF Deliver, Pass
    <3>2. QED
      BY <1>3, <3>1, NotRunningStep
  <2>4. QED
    BY <1>3, <2>1, <2>2, <2>3, ClaimStep, StartStep, FinishStep, RetireStep DEF Work
<1>4. QED
  BY <1>1, <1>2, <1>3 DEF Next

\* The engine implements the promise, for any number of jobs and processes,
\* wherever they are killed and however the clock is set.
THEOREM ImplementsFiring == Spec => KeepsPromise
<1>1. Init => RefInv /\ Promise!Init
  BY RefInit
<1>2. RefInv /\ [Next]_vars => RefInv' /\ [Promise!Next]_(Promise!vars)
  BY ClaimsAllInductive, EveryStepKeepsPromise DEF PromiseStep
<1>3. QED
  BY <1>1, <1>2, PTL DEF Spec, KeepsPromise, Promise!Spec


-----------------------------------------------------------------------------
(* What the promise is worth: whatever keeps it fires no slot twice.        *)

\* Of one job: its next slot n and its claim c lie after every firing in l.
IsAhead(n, c, l) ==
    /\ n \in Nat \cup {None} /\ c \in Promise!Firings \cup {None}
    /\ l \in Seq(Promise!Firings)
    /\ \A k \in 1..Len(l) : \A i \in 1..(k - 1) : l[i].at < l[k].slot
    /\ c # None => \A i \in 1..Len(l) : l[i].at < c.slot
    /\ n # None => \A i \in 1..Len(l) : l[i].at < n
    /\ c # None /\ n # None => c.at < n

LEMMA ClaimIsAhead ==
    ASSUME NEW n \in Nat, NEW l, IsAhead(n, None, l), NEW now \in Nat, n <= now,
           NEW m \in Nat \cup {None}, m = None \/ m > now
    PROVE  IsAhead(m, [slot |-> n, at |-> now], l)
<1> n # None
  BY NoneAssumption
<1>1. \A i \in 1..Len(l) : l[i] \in Promise!Firings /\ l[i].at \in Nat /\ l[i].at < n
  BY DEF IsAhead, Promise!Firings
<1>2. [slot |-> n, at |-> now] \in Promise!Firings
  BY DEF Promise!Firings
<1>3. m # None => \A i \in 1..Len(l) : l[i].at < m
  <2> SUFFICES ASSUME m # None, NEW i \in 1..Len(l) PROVE l[i].at < m
    OBVIOUS
  <2>1. m \in Nat /\ m > now
    OBVIOUS
  <2>2. QED
    BY <1>1, <2>1
<1>4. QED
  BY <1>1, <1>2, <1>3 DEF IsAhead

LEMMA StartIsAhead ==
    ASSUME NEW n, NEW c, NEW l, IsAhead(n, c, l), c # None
    PROVE  IsAhead(n, None, Append(l, c))
<1> DEFINE long == Append(l, c)
<1>1. /\ c \in Promise!Firings /\ l \in Seq(Promise!Firings)
      /\ n \in Nat \cup {None}
  BY DEF IsAhead
<1>2. /\ long \in Seq(Promise!Firings) /\ Len(long) = Len(l) + 1 /\ Len(l) \in Nat
      /\ long[Len(l) + 1] = c
      /\ \A i \in 1..Len(l) : long[i] = l[i]
  BY <1>1
<1>3. /\ \A k \in 1..Len(l) : \A i \in 1..(k - 1) : l[i].at < l[k].slot
      /\ \A i \in 1..Len(l) : l[i].at < c.slot
      /\ n # None => c.at < n /\ \A i \in 1..Len(l) : l[i].at < n
  BY DEF IsAhead
<1> HIDE DEF long
<1>4. \A k \in 1..Len(long) : \A i \in 1..(k - 1) : long[i].at < long[k].slot
  <2> SUFFICES ASSUME NEW k \in 1..Len(long), NEW i \in 1..(k - 1)
               PROVE  long[i].at < long[k].slot
    OBVIOUS
  <2>1. i \in 1..Len(l) /\ long[i] = l[i]
    BY <1>2
  <2>2. CASE k \in 1..Len(l)
    BY <1>2, <1>3, <2>1, <2>2
  <2>3. CASE k = Len(l) + 1
    BY <1>2, <1>3, <2>1, <2>3
  <2>4. QED
    BY <1>2, <2>2, <2>3
<1>5. n # None => \A i \in 1..Len(long) : long[i].at < n
  <2> SUFFICES ASSUME n # None, NEW i \in 1..Len(long) PROVE long[i].at < n
    OBVIOUS
  <2>1. CASE i \in 1..Len(l)
    BY <1>2, <1>3, <2>1
  <2>2. CASE i = Len(l) + 1
    BY <1>2, <1>3, <2>2
  <2>3. QED
    BY <1>2, <2>1, <2>2
<1>6. QED
  BY <1>1, <1>2, <1>4, <1>5 DEF IsAhead, long

AheadInv ==
    /\ fired \in [Jobs -> Seq(Promise!Firings)]
    /\ \A j \in Jobs : IsAhead(NextSlot[j], Claimed[j], fired[j])

\* Every behaviour of the abstract specification, not only the engine's: a slot
\* that can still be claimed or started lies after all that has been started.
LEMMA PromisesStayAhead == Promise!Spec => []AheadInv
<1>1. Promise!Init => AheadInv
  <2> SUFFICES ASSUME Promise!Init PROVE AheadInv
    OBVIOUS
  <2>1. /\ fired = [j \in Jobs |-> <<>>]
        /\ \A j \in Jobs : NextSlot[j] \in Nat \cup {None} /\ Claimed[j] = None
    BY DEF Promise!Init, Promise!Nothing
  <2>2. QED
    BY <2>1 DEF AheadInv, IsAhead
<1>2. AheadInv /\ [Promise!Next]_(Promise!vars) => AheadInv'
  <2> SUFFICES ASSUME AheadInv, [Promise!Next]_(Promise!vars)
               PROVE  AheadInv'
    OBVIOUS
  <2>1. ASSUME NEW due \in SUBSET Jobs, NEW now \in Instants, Promise!Claim(due, now)
        PROVE  AheadInv'
    <3>1. /\ fired' = fired /\ now \in Nat
          /\ \A j \in Jobs :
                 /\ NextSlot'[j] \in Nat \cup {None} /\ Claimed[j] = None
                 /\ j \in due =>
                        /\ NextSlot[j] # None /\ NextSlot[j] <= now
                        /\ Claimed'[j] = [slot |-> NextSlot[j], at |-> now]
                        /\ NextSlot'[j] = None \/ NextSlot'[j] > now
                 /\ j \notin due => Claimed'[j] = None /\ NextSlot'[j] = NextSlot[j]
      BY <2>1, MaxTimeAssumption DEF Promise!Claim, Promise!Nothing, Instants
    <3>2. ASSUME NEW j \in Jobs PROVE IsAhead(NextSlot'[j], Claimed'[j], fired[j])
      <4>1. IsAhead(NextSlot[j], None, fired[j])
        BY <3>1 DEF AheadInv
      <4>2. CASE j \in due
        <5>1. NextSlot[j] \in Nat
          BY <3>1, <4>1, <4>2 DEF IsAhead
        <5>2. QED
          BY <3>1, <4>1, <4>2, <5>1, ClaimIsAhead
      <4>3. CASE j \notin due
        BY <3>1, <4>1, <4>3
      <4>4. QED
        BY <4>2, <4>3
    <3>3. QED
      BY <3>1, <3>2 DEF AheadInv
  <2>2. ASSUME NEW chunk \in SUBSET Jobs, Promise!Start(chunk) PROVE AheadInv'
    <3>1. /\ NextSlot' = NextSlot
          /\ fired' = [j \in Jobs |-> IF j \in chunk THEN Append(fired[j], Claimed[j])
                                                     ELSE fired[j]]
          /\ \A j \in Jobs :
                 /\ j \in chunk => Claimed[j] # None /\ Claimed'[j] = None
                 /\ j \notin chunk => Claimed'[j] = Claimed[j]
      BY <2>2 DEF Promise!Start
    <3>2. ASSUME NEW j \in Jobs
          PROVE  IsAhead(NextSlot[j], Claimed'[j], fired'[j])
      <4>1. IsAhead(NextSlot[j], Claimed[j], fired[j])
        BY DEF AheadInv
      <4>2. CASE j \in chunk
        BY <3>1, <4>1, <4>2, StartIsAhead
      <4>3. CASE j \notin chunk
        BY <3>1, <4>1, <4>3
      <4>4. QED
        BY <4>2, <4>3
    <3>3. fired' \in [Jobs -> Seq(Promise!Firings)]
      BY <3>1, <3>2 DEF IsAhead
    <3>4. QED
      BY <3>1, <3>2, <3>3 DEF AheadInv
  <2>3. CASE Promise!Forget
    <3>1. \A j \in Jobs : Claimed'[j] = None
      BY <2>3 DEF Promise!Forget, Promise!Nothing
    <3>2. NextSlot' = NextSlot /\ fired' = fired
      BY <2>3 DEF Promise!Forget
    <3>3. QED
      BY <3>1, <3>2 DEF AheadInv, IsAhead
  <2>4. ASSUME NEW gone \in SUBSET Jobs, Promise!Retire(gone) PROVE AheadInv'
    <3>1. /\ Claimed' = Claimed /\ fired' = fired
          /\ \A j \in Jobs : NextSlot'[j] = None \/ NextSlot'[j] = NextSlot[j]
      BY <2>4 DEF Promise!Retire
    <3>2. QED
      BY <3>1 DEF AheadInv, IsAhead
  <2>5. CASE UNCHANGED Promise!vars
    BY <2>5 DEF Promise!vars, AheadInv
  <2>6. QED
    BY <2>1, <2>2, <2>3, <2>4, <2>5 DEF Promise!Next
<1>3. QED
  BY <1>1, <1>2, PTL DEF Promise!Spec

\* No slot fires twice, and none fires that an earlier firing was late for: it
\* follows from the promise alone, so from whatever else implements it too.
THEOREM PromisesFireOnce == KeepsPromise => []Promise!NeverAgain
<1>1. AheadInv => Promise!NeverAgain
  BY DEF AheadInv, IsAhead, Promise!NeverAgain
<1>2. QED
  BY <1>1, PromisesStayAhead, PTL DEF KeepsPromise

=============================================================================
