--------------------------- MODULE EventLoopProofs ---------------------------
(***************************************************************************)
(* Event loops next to the passes, for any number of processes, jobs,      *)
(* policies, chains and faults.  A chain makes its own passes and arms its *)
(* job without the lock, so that what is proved of a chain relates three   *)
(* things its process keeps: the loop, the pass it is inside of and the    *)
(* runs it has started.                                                    *)
(***************************************************************************)
EXTENDS EventLoop, TickProofs, FiniteSetTheorems

-----------------------------------------------------------------------------
(* What a chain knows of itself *)

\* The pass p of a chain over job j: it takes that job or none, and it has
\* started the run of the iteration once its queue is empty.
PassOfChain(p, j, before, after, n) ==
    /\ p.pc # "idle"
    /\ p.targets = {j}
    /\ p.pc = "locked"     => n = before
    /\ p.pc = "advanced"   => p.queue = {j} /\ n = before
    /\ p.pc = "running"    => (p.queue = {j} /\ n = before) \/ (p.queue = {} /\ n = after)
    /\ p.pc = "delivering" => n = after

\* The word a chain that reads the output goes on: see ContinuesOnItsWord.
OnItsWord(l) ==
    /\ l.report = "success"
    /\ l.said # None
    /\ l.said.action = "continue"
    /\ l.policy.goal => l.said.onGoal

\* A loop l, the pass p its process makes and the runs n it has started.
ChainOK(l, p, n) ==
    /\ l.pc \in {"idle", "next"} => l.job = None /\ l.iterations = 0
    /\ l.pc \notin {"idle", "next"} => l.job \in Jobs /\ l.policy \in Policies
    /\ l.pc \notin {"idle", "pass"} => p.pc = "idle"
    /\ l.pc \in {"loaded", "armed"} => l.iterations < MaxChainRuns
    /\ l.pc = "loaded" => l.base[l.job] # None
    /\ l.pc \in {"check", "loaded", "armed", "decide", "ended"} => n = l.iterations
    /\ l.pc = "pass" => PassOfChain(p, l.job, l.iterations - 1, l.iterations, n)
    /\ l.pc \in {"check", "loaded", "armed"} /\ l.iterations > 0 /\ ~l.policy.file
           => OnItsWord(l)

LInv ==
    /\ TypeInv
    /\ OnePassAtATime
    /\ LTypeOK
    /\ \A c \in Loopers : ChainOK(loop[c], pass[c], ran[c])

LEMMA NotLoopingOK ==
    /\ NotLooping \in Loop
    /\ NotLooping.pc = "idle"
    /\ \A p, n : ChainOK(NotLooping, p, n)
<1>1. NotLooping \in Loop
  BY InstantsAreNat, BoundsAssumption DEF NotLooping, Loop, NoTable, Table, LoopStatus
<1>2. QED
  BY <1>1 DEF NotLooping, ChainOK

\* The job of a chain, armed for now.
LEMMA ArmedFields ==
    ASSUME NEW job \in Job, NEW now \in Instants
    PROVE  /\ Armed(job, now) \in Job
           /\ Armed(job, now).schedule = job.schedule
           /\ Armed(job, now).times = job.times
           /\ Armed(job, now).completed = job.completed
           /\ Armed(job, now).enabled
           /\ Armed(job, now).state = "scheduled"
           /\ Armed(job, now).next_run_at = now
BY InstantsAreNat DEF Armed, Job, JobState, OptInstant

\* A step of process t: what is to be shown is about its own loop, pass and
\* runs, since every other process stays as it is.
LEMMA ProcessStep ==
    ASSUME LInv, NEW t \in Ticks, TypeInv', OnePassAtATime',
           \A u \in Ticks \ {t} : pass'[u] = pass[u],
           NEW l, loop' = [loop EXCEPT ![t] = l],
           NEW n, ran' = [ran EXCEPT ![t] = n],
           t \in Loopers => l \in Loop /\ n \in Nat /\ ChainOK(l, pass'[t], n),
           file' \in [Jobs -> Decisions \cup {None}],
           evidence' \in [Jobs -> Evidence \cup {None}],
           chains' \in 0..MaxChains, lost' \in BOOLEAN
    PROVE  LInv'
<1>1. loop \in [Loopers -> Loop] /\ ran \in [Loopers -> Nat] /\ Loopers \subseteq Ticks
  BY LoopersAssumption DEF LInv, LTypeOK
<1>2. loop' \in [Loopers -> Loop] /\ ran' \in [Loopers -> Nat]
  BY <1>1
<1>3. ASSUME NEW c \in Loopers PROVE ChainOK(loop'[c], pass'[c], ran'[c])
  <2>1. CASE c = t
    BY <1>1, <2>1
  <2>2. CASE c # t
    <3>1. loop'[c] = loop[c] /\ ran'[c] = ran[c] /\ pass'[c] = pass[c]
      BY <1>1, <2>2
    <3>2. QED
      BY <3>1 DEF LInv
  <2>3. QED
    BY <2>1, <2>2
<1>4. QED
  BY <1>2, <1>3 DEF LInv, LTypeOK, TypeInv

\* A process that leaves loops and runs alone changes neither.
LEMMA SameLoop ==
    ASSUME LInv, NEW t \in Ticks
    PROVE  /\ loop = [loop EXCEPT ![t] = loop[t]]
           /\ ran = [ran EXCEPT ![t] = ran[t]]
           /\ t \in Loopers => /\ loop[t] \in Loop /\ ran[t] \in Nat
                               /\ ChainOK(loop[t], pass[t], ran[t])
BY DEF LInv, LTypeOK

-----------------------------------------------------------------------------
(* The steps of a pass, of a chain or not *)

\* A process inside a pass has no loop, or one that waits for this pass.
LEMMA PassBeing ==
    ASSUME LInv, NEW t \in Ticks, Work(t) \/ Fault(t)
    PROVE  /\ IsLooper(t) <=> t \in Loopers /\ loop[t].pc = "pass"
           /\ t \in Loopers /\ ~IsLooper(t) =>
                  /\ loop[t] \in Loop /\ loop[t].pc = "idle"
                  /\ \A p, n : ChainOK(loop[t], p, n)
           /\ IsLooper(t) =>
                  /\ loop[t] \in Loop /\ loop[t].job \in Jobs /\ loop[t].policy \in Policies
                  /\ loop[t].iterations \in Nat /\ ran[t] \in Nat
                  /\ PassOfChain(pass[t], loop[t].job, loop[t].iterations - 1,
                                 loop[t].iterations, ran[t])
<1>1. pass[t].pc # "idle"
  BY HolderSteps DEF LInv
<1>2. ASSUME t \in Loopers
      PROVE  loop[t] \in Loop /\ ChainOK(loop[t], pass[t], ran[t]) /\ ran[t] \in Nat
  BY <1>2 DEF LInv, LTypeOK
<1>3. t \in Loopers => loop[t].pc \in {"idle", "pass"}
  BY <1>1, <1>2 DEF ChainOK
<1>4. ASSUME t \in Loopers, loop[t].pc = "idle" PROVE \A p, n : ChainOK(loop[t], p, n)
  BY <1>2, <1>4 DEF ChainOK
<1>5. ASSUME t \in Loopers PROVE loop[t].iterations \in Nat
  BY <1>2, <1>5, BoundsAssumption DEF Loop
<1>6. QED
  BY <1>2, <1>3, <1>4, <1>5 DEF IsLooper, ChainOK

\* A loop in the middle of a pass goes on with it: only the pass, the runs and
\* what the last run decided may change.
LEMMA LoopInPass ==
    ASSUME LInv, NEW t \in Ticks, Work(t), IsLooper(t), NEW said \in Decisions \cup {None},
           NEW n \in Nat,
           PassOfChain(pass'[t], loop[t].job, loop[t].iterations - 1,
                       loop[t].iterations, n)
    PROVE  /\ [loop[t] EXCEPT !.said = said] \in Loop
           /\ ChainOK([loop[t] EXCEPT !.said = said], pass'[t], n)
<1>1. loop[t] \in Loop /\ loop[t].job \in Jobs /\ loop[t].policy \in Policies
      /\ loop[t].pc = "pass"
  BY PassBeing
<1> DEFINE l == [loop[t] EXCEPT !.said = said]
<1>2. /\ l \in Loop /\ l.pc = "pass" /\ l.job = loop[t].job /\ l.policy = loop[t].policy
      /\ l.iterations = loop[t].iterations
  BY <1>1 DEF Loop
<1> HIDE DEF l
<1>3. ChainOK(l, pass'[t], n)
  BY <1>1, <1>2 DEF ChainOK
<1>4. QED
  BY <1>2, <1>3 DEF l

LEMMA WorkFrame ==
    ASSUME LInv, NEW t \in Ticks, Work(t) \/ Fault(t)
    PROVE  /\ TypeInv' /\ OnePassAtATime'
           /\ \A u \in Ticks \ {t} : pass'[u] = pass[u]
BY HolderSteps, TypeInductive, OnePassInductive DEF LInv, Next

LEMMA LoopPassStarts ==
    ASSUME LInv, NEW t \in Ticks, PassStarts(t)
    PROVE  LInv'
<1>1. Work(t) /\ StartChunk(t)
  BY DEF PassStarts, Work
<1> DEFINE n == IF IsLooper(t) THEN ran[t] + Cardinality(pass'[t].running) ELSE ran[t]
<1>2. ran' = [ran EXCEPT ![t] = n] /\ UNCHANGED <<loop, file, evidence, chains, lost>>
  BY SameLoop DEF PassStarts
<1>3. ASSUME IsLooper(t)
      PROVE  /\ n \in Nat
             /\ PassOfChain(pass'[t], loop[t].job, loop[t].iterations - 1,
                            loop[t].iterations, n)
  <2> DEFINE j == loop[t].job
  <2>1. PICK chunk \in (SUBSET pass[t].queue) \ {{}} :
             pass' = [pass EXCEPT ![t].running = chunk, ![t].queue = @ \ chunk]
    BY <1>1 DEF StartChunk
  <2>2. pass \in [Ticks -> Pass] /\ pass[t] \in Pass /\ pass[t].pc = "running"
    BY <1>1 DEF LInv, TypeInv, TypeOK, StartChunk
  <2>3. /\ PassOfChain(pass[t], j, loop[t].iterations - 1, loop[t].iterations, ran[t])
        /\ ran[t] \in Nat /\ loop[t].iterations \in Nat
    BY <1>1, <1>3, PassBeing
  <2>4. pass[t].queue = {j} /\ chunk = {j} /\ ran[t] = loop[t].iterations - 1
    <3>1. chunk \subseteq pass[t].queue /\ chunk # {}
      BY <2>1
    <3>2. pass[t].queue # {}
      BY <3>1
    <3>3. pass[t].queue = {j} /\ ran[t] = loop[t].iterations - 1
      BY <2>2, <2>3, <3>2 DEF PassOfChain
    <3>4. QED
      BY <3>1, <3>3
  <2>5. /\ pass'[t].pc = "running" /\ pass'[t].targets = {j}
        /\ pass'[t].running = {j} /\ pass'[t].queue = {}
    BY <2>1, <2>2, <2>3, <2>4 DEF Pass, PassOfChain
  <2>6. n = loop[t].iterations
    <3>1. n = ran[t] + Cardinality({j})
      BY <1>3, <2>5
    <3>2. Cardinality({j}) = 1
      BY FS_Singleton
    <3>3. QED
      BY <2>3, <2>4, <3>1, <3>2
  <2>7. QED
    BY <2>3, <2>5, <2>6 DEF PassOfChain
<1> HIDE DEF n
<1>4. t \in Loopers => loop[t] \in Loop /\ n \in Nat /\ ChainOK(loop[t], pass'[t], n)
  <2>1. CASE IsLooper(t)
    BY <1>1, <1>3, <2>1, PassBeing DEF ChainOK
  <2>2. CASE ~IsLooper(t)
    BY <1>1, <2>2, PassBeing, SameLoop DEF n
  <2>3. QED
    BY <2>1, <2>2
<1>5. loop' = [loop EXCEPT ![t] = loop[t]]
  BY <1>2, SameLoop
<1>6. QED
  BY <1>1, <1>2, <1>4, <1>5, WorkFrame, ProcessStep DEF LInv, LTypeOK

LEMMA LoopPassFinishes ==
    ASSUME LInv, NEW t \in Ticks, PassFinishes(t)
    PROVE  LInv'
<1>1. PICK j \in Jobs, status \in Statuses, said \in Decisions \cup {None} :
           /\ Finish(t, j, status)
           /\ file' = IF said = None THEN file ELSE [file EXCEPT ![j] = said]
           /\ loop' = IF IsLooper(t) THEN [loop EXCEPT ![t].said = said] ELSE loop
           /\ UNCHANGED <<evidence, chains, ran, lost>>
  BY DEF PassFinishes
<1>2. Work(t)
  BY <1>1 DEF Work
<1> DEFINE l == IF IsLooper(t) THEN [loop[t] EXCEPT !.said = said] ELSE loop[t]
<1>3. loop' = [loop EXCEPT ![t] = l]
  BY <1>1, SameLoop
<1>4. file' \in [Jobs -> Decisions \cup {None}]
  BY <1>1 DEF LInv, LTypeOK
<1>5. /\ pass'[t].pc = pass[t].pc /\ pass'[t].targets = pass[t].targets
      /\ pass'[t].queue = pass[t].queue
  BY <1>1 DEF Finish, LInv, TypeInv, TypeOK, Pass
<1>6. t \in Loopers => l \in Loop /\ ran[t] \in Nat /\ ChainOK(l, pass'[t], ran[t])
  <2>1. CASE IsLooper(t)
    <3>1. PassOfChain(pass'[t], loop[t].job, loop[t].iterations - 1,
                      loop[t].iterations, ran[t]) /\ ran[t] \in Nat
      BY <1>2, <1>5, <2>1, PassBeing DEF PassOfChain
    <3>2. QED
      BY <1>2, <2>1, <3>1, LoopInPass
  <2>2. CASE ~IsLooper(t)
    BY <1>2, <2>2, PassBeing, SameLoop
  <2>3. QED
    BY <2>1, <2>2
<1> HIDE DEF l
<1>7. ran' = [ran EXCEPT ![t] = ran[t]]
  BY <1>1, SameLoop
<1>8. TypeInv' /\ OnePassAtATime' /\ \A u \in Ticks \ {t} : pass'[u] = pass[u]
  BY <1>2, WorkFrame
<1>9. evidence' \in [Jobs -> Evidence \cup {None}] /\ chains' \in 0..MaxChains
      /\ lost' \in BOOLEAN
  BY <1>1 DEF LInv, LTypeOK
<1>10. QED
  BY <1>3, <1>4, <1>6, <1>7, <1>8, <1>9, ProcessStep

LEMMA LoopPassAborts ==
    ASSUME LInv, NEW t \in Ticks, PassFindsNothing(t) \/ LFault(t)
    PROVE  LInv'
<1>1. Work(t) \/ Fault(t)
  BY DEF PassFindsNothing, LFault, Work
<1> DEFINE l == IF loop' = loop THEN loop[t] ELSE NotLooping
<1>2. /\ loop' = [loop EXCEPT ![t] = l] /\ (IsLooper(t) => l = NotLooping)
      /\ UNCHANGED <<file, evidence, chains, ran, lost>>
  <2>1. CASE IsLooper(t) \/ (LFault(t) /\ t \in Loopers)
    <3>1. loop' = [loop EXCEPT ![t] = NotLooping]
      BY <2>1 DEF PassFindsNothing, LFault, Abort, IsLooper
    <3>2. loop' = loop => loop[t] = NotLooping
      BY <2>1, <3>1, SameLoop DEF IsLooper, LInv, LTypeOK
    <3>3. QED
      BY <3>1, <3>2 DEF PassFindsNothing, LFault
  <2>2. CASE ~IsLooper(t) /\ ~(LFault(t) /\ t \in Loopers)
    BY <2>2, SameLoop DEF PassFindsNothing, LFault
  <2>3. QED
    BY <2>1, <2>2
<1>3. t \in Loopers => l \in Loop /\ ran[t] \in Nat /\ ChainOK(l, pass'[t], ran[t])
  BY <1>1, <1>2, PassBeing, NotLoopingOK, SameLoop
<1> HIDE DEF l
<1>4. ran' = [ran EXCEPT ![t] = ran[t]]
  BY <1>2, SameLoop
<1>5. QED
  BY <1>1, <1>2, <1>3, <1>4, WorkFrame, ProcessStep DEF LInv, LTypeOK

LEMMA LoopPassReturns ==
    ASSUME LInv, NEW t \in Ticks, PassReturns(t)
    PROVE  LInv'
<1>1. Work(t) /\ Return(t) /\ UNCHANGED <<file, evidence, chains, ran, lost>>
  BY DEF PassReturns, Work
<1> DEFINE over == [loop[t] EXCEPT !.pc = "decide", !.report = pass[t].outcome[loop[t].job]]
           l    == IF IsLooper(t) THEN over ELSE loop[t]
<1>2. loop' = [loop EXCEPT ![t] = l]
  BY SameLoop DEF PassReturns
<1>3. ASSUME IsLooper(t) PROVE over \in Loop /\ ChainOK(over, pass'[t], ran[t])
  <2>1. /\ loop[t] \in Loop /\ loop[t].job \in Jobs /\ loop[t].policy \in Policies
        /\ ran[t] = loop[t].iterations
    BY <1>1, <1>3, PassBeing DEF PassOfChain, Return
  <2>2. pass[t].outcome[loop[t].job] \in RunStatus \cup {None} /\ pass'[t].pc = "idle"
    BY <1>1, <2>1 DEF LInv, TypeInv, TypeOK, Pass, Return, Leave, Idle
  <2>3. /\ over \in Loop /\ over.pc = "decide" /\ over.job = loop[t].job
        /\ over.policy = loop[t].policy /\ over.iterations = loop[t].iterations
    BY <2>1, <2>2 DEF Loop
  <2> HIDE DEF over
  <2>4. QED
    BY <2>1, <2>2, <2>3 DEF ChainOK
<1>4. t \in Loopers => l \in Loop /\ ran[t] \in Nat /\ ChainOK(l, pass'[t], ran[t])
  BY <1>1, <1>3, PassBeing, SameLoop
<1> HIDE DEF l
<1>5. ran' = [ran EXCEPT ![t] = ran[t]]
  BY <1>1, SameLoop
<1>6. QED
  BY <1>1, <1>2, <1>4, <1>5, WorkFrame, ProcessStep DEF LInv, LTypeOK

LEMMA LoopPassGoesOn ==
    ASSUME LInv, NEW t \in Ticks, PassGoesOn(t)
    PROVE  LInv'
<1>1. Work(t) /\ UNCHANGED <<loop, file, evidence, chains, ran>> /\ lost' \in BOOLEAN
  BY DEF PassGoesOn, Work, LosesUpdate, LInv, LTypeOK
<1>2. ASSUME IsLooper(t)
      PROVE  PassOfChain(pass'[t], loop[t].job, loop[t].iterations - 1,
                         loop[t].iterations, ran[t])
  <2> DEFINE j == loop[t].job
  <2>1. pass \in [Ticks -> Pass] /\ pass[t] \in Pass
    BY DEF LInv, TypeInv, TypeOK
  <2>2. PassOfChain(pass[t], j, loop[t].iterations - 1, loop[t].iterations, ran[t])
    BY <1>1, <1>2, PassBeing
  <2>3. CASE LoadAndAdvance(t)
    <3>1. DueAtLoad(t) \subseteq {j}
      BY <2>2 DEF DueAtLoad, Due, PassOfChain
    <3>2. /\ pass'[t].pc = "advanced" /\ pass'[t].targets = pass[t].targets
          /\ pass'[t].queue = DueAtLoad(t) /\ DueAtLoad(t) # {} /\ pass[t].pc = "locked"
      BY <2>1, <2>3 DEF LoadAndAdvance, Pass
    <3>3. pass'[t].queue = {j}
      BY <3>1, <3>2
    <3>4. QED
      BY <2>2, <3>2, <3>3 DEF PassOfChain
  <2>4. CASE SaveAdvanced(t)
    <3>1. /\ pass[t].pc = "advanced" /\ pass'[t].pc = "running"
          /\ pass'[t].targets = pass[t].targets /\ pass'[t].queue = pass[t].queue
      BY <2>1, <2>4 DEF SaveAdvanced, Pass
    <3>2. QED
      BY <2>2, <3>1 DEF PassOfChain
  <2>5. CASE SaveOutcomes(t)
    <3>1. /\ pass[t].pc = "running" /\ pass[t].queue = {} /\ pass'[t].pc = "delivering"
          /\ pass'[t].targets = pass[t].targets
      BY <2>1, <2>5 DEF SaveOutcomes, AllJoined, Pass
    <3>2. QED
      BY <2>2, <3>1 DEF PassOfChain
  <2>6. ASSUME NEW k \in Jobs, Deliver(t, k)
        PROVE  PassOfChain(pass'[t], j, loop[t].iterations - 1, loop[t].iterations, ran[t])
    <3>1. /\ pass[t].pc = "delivering" /\ pass'[t].pc = "delivering"
          /\ pass'[t].targets = pass[t].targets
      BY <2>1, <2>6 DEF Deliver, Pass
    <3>2. QED
      BY <2>2, <3>1 DEF PassOfChain
  <2>7. QED
    BY <2>3, <2>4, <2>5, <2>6 DEF PassGoesOn
<1>3. t \in Loopers =>
          loop[t] \in Loop /\ ran[t] \in Nat /\ ChainOK(loop[t], pass'[t], ran[t])
  <2>1. CASE IsLooper(t)
    BY <1>1, <1>2, <2>1, PassBeing DEF ChainOK
  <2>2. CASE ~IsLooper(t)
    BY <1>1, <2>2, PassBeing, SameLoop
  <2>3. QED
    BY <2>1, <2>2
<1>4. loop' = [loop EXCEPT ![t] = loop[t]] /\ ran' = [ran EXCEPT ![t] = ran[t]]
  BY <1>1, SameLoop
<1>5. QED
  BY <1>1, <1>3, <1>4, WorkFrame, ProcessStep DEF LInv, LTypeOK

-----------------------------------------------------------------------------
(* The steps of a chain outside of its passes *)

\* What a process that makes event loops is, and that its pass is idle
\* whenever its loop is neither idle nor waiting for a pass.
LEMMA Looping ==
    ASSUME LInv, NEW c \in Loopers
    PROVE  /\ c \in Ticks
           /\ loop[c] \in Loop /\ ran[c] \in Nat
           /\ ChainOK(loop[c], pass[c], ran[c])
           /\ loop[c].iterations \in 0..MaxChainRuns
           /\ loop[c].todo \in SUBSET Jobs /\ loop[c].tick \in BOOLEAN
           /\ loop[c].base \in Table /\ loop[c].now \in Instants
BY LoopersAssumption DEF LInv, LTypeOK, Loop

\* A step of a chain that leaves jobs.json and the passes alone.
LEMMA ChainAlone ==
    ASSUME LInv, NEW c \in Loopers, UNCHANGED <<vars, file, lost>>,
           NEW l \in Loop, loop' = [loop EXCEPT ![c] = l],
           NEW n \in Nat, ran' = [ran EXCEPT ![c] = n],
           ChainOK(l, pass[c], n),
           evidence' \in [Jobs -> Evidence \cup {None}],
           chains' \in 0..MaxChains
    PROVE  LInv'
<1>1. c \in Ticks
  BY LoopersAssumption
<1>2. TypeInv' /\ OnePassAtATime'
  BY DEF LInv, vars, TypeInv, TypeOK, OnePassAtATime
<1>3. pass' = pass /\ file' \in [Jobs -> Decisions \cup {None}] /\ lost' \in BOOLEAN
  BY DEF vars, LInv, LTypeOK
<1>4. QED
  BY <1>1, <1>2, <1>3, ProcessStep

LEMMA ChainAborts ==
    ASSUME LInv, NEW c \in Loopers, Abort(c),
           UNCHANGED <<vars, file, evidence, chains, ran, lost>>
    PROVE  LInv'
<1>1. ran' = [ran EXCEPT ![c] = ran[c]] /\ ran[c] \in Nat
  BY Looping, LoopersAssumption, SameLoop
<1>2. evidence' \in [Jobs -> Evidence \cup {None}] /\ chains' \in 0..MaxChains
  BY DEF LInv, LTypeOK
<1>3. QED
  BY <1>1, <1>2, NotLoopingOK, ChainAlone DEF Abort

LEMMA ChainStarts ==
    ASSUME LInv, NEW c \in Loopers, NEW todo \in SUBSET Jobs, IsFiniteSet(todo),
           NEW tick \in BOOLEAN, Starts(c, todo, tick)
    PROVE  LInv'
<1> DEFINE l == [NotLooping EXCEPT !.pc = "next", !.todo = todo, !.tick = tick]
<1>1. l \in Loop /\ l.pc = "next" /\ l.job = None /\ l.iterations = 0
  BY NotLoopingOK DEF Loop, NotLooping
<1>2. ChainOK(l, pass[c], ran[c])
  BY <1>1 DEF ChainOK, Starts
<1>3. loop' = [loop EXCEPT ![c] = l]
  BY DEF Starts
<1> HIDE DEF l
<1>4. chains' \in 0..MaxChains
  <2>1. chains \in Nat /\ Cardinality(todo) \in Nat
    BY FS_CardinalityType, BoundsAssumption DEF LInv, LTypeOK
  <2>2. QED
    BY <2>1, BoundsAssumption DEF Starts
<1>5. ran' = [ran EXCEPT ![c] = ran[c]] /\ ran[c] \in Nat
  BY Looping, LoopersAssumption, SameLoop DEF Starts
<1>6. UNCHANGED <<vars, file, lost>> /\ evidence' \in [Jobs -> Evidence \cup {None}]
  BY DEF Starts, LInv, LTypeOK
<1>7. QED
  BY <1>1, <1>2, <1>3, <1>4, <1>5, <1>6, ChainAlone

\* The due event-loop jobs are event-loop jobs, and finitely many.
LEMMA DueToLoop ==
    Due(disk, EventJobs, clock) \in SUBSET Jobs /\ IsFiniteSet(Due(disk, EventJobs, clock))
<1>1. Due(disk, EventJobs, clock) \subseteq EventJobs
  BY DEF Due
<1>2. QED
  BY <1>1, EventJobsAssumption, FS_Subset

LEMMA ChainBegins ==
    ASSUME LInv, NEW c \in Loopers, NEW j \in EventJobs, BeginChain(c, j)
    PROVE  LInv'
<1>1. ran' = [ran EXCEPT ![c] = 0]
      /\ UNCHANGED <<vars, file, evidence, chains, lost>>
      /\ evidence' \in [Jobs -> Evidence \cup {None}] /\ chains' \in 0..MaxChains
  BY DEF BeginChain, LInv, LTypeOK
<1>2. CASE disk[j] = None
  <2>1. loop' = [loop EXCEPT ![c] = NotLooping]
    BY <1>2 DEF BeginChain
  <2>2. QED
    BY <1>1, <2>1, NotLoopingOK, ChainAlone
<1>3. CASE disk[j] # None
  <2>1. PICK policy \in Policies :
             loop' = [loop EXCEPT ![c].pc     = "check",
                                  ![c].todo   = @ \ {j},
                                  ![c].job    = j,
                                  ![c].policy = policy]
    BY <1>3 DEF BeginChain
  <2> DEFINE l == [loop[c] EXCEPT !.pc     = "check",
                                  !.todo   = loop[c].todo \ {j},
                                  !.job    = j,
                                  !.policy = policy]
  <2>2. j \in Jobs /\ loop[c].pc = "next" /\ loop[c] \in Loop
        /\ ChainOK(loop[c], pass[c], ran[c]) /\ loop[c].todo \in SUBSET Jobs
    BY EventJobsAssumption, Looping DEF BeginChain
  <2>3. pass[c].pc = "idle" /\ loop[c].iterations = 0
    BY <2>2 DEF ChainOK
  <2>4. l \in Loop /\ l.pc = "check" /\ l.job = j /\ l.policy = policy /\ l.iterations = 0
    BY <2>2, <2>3 DEF Loop
  <2>5. loop' = [loop EXCEPT ![c] = l]
    BY <2>1 DEF LInv, LTypeOK
  <2> HIDE DEF l
  <2>6. 0 \in Nat /\ ChainOK(l, pass[c], 0)
    BY <2>2, <2>3, <2>4 DEF ChainOK
  <2>7. QED
    BY <1>1, <2>4, <2>5, <2>6, ChainAlone
<1>4. QED
  BY <1>2, <1>3

\* What a chain makes of a run is a status to end with, or to go on; and when
\* it reads the output it goes on only after a run that succeeded and said so.
LEMMA VerdictIs ==
    ASSUME LInv, NEW c \in Loopers, loop[c].job \in Jobs
    PROVE  /\ Verdict(c) \in LoopStatus \cup {"continue"}
           /\ Verdict(c) = "continue" /\ ~loop[c].policy.file => OnItsWord(loop[c])
<1> DEFINE d == DecisionRead(c)
<1>1. d \in Decision
  <2>1. loop[c].said \in Decisions \cup {None} /\ file[loop[c].job] \in Decisions \cup {None}
    BY Looping DEF Loop, LInv, LTypeOK
  <2>2. QED
    BY <2>1, DecisionsAssumption DEF DecisionRead, Decision
<1> HIDE DEF d
<1>2. StatusAfter[d.action] \in LoopStatus \cup {"continue"}
      /\ (StatusAfter[d.action] = "continue" => d.action = "continue")
  BY <1>1 DEF Decision, StatusAfter, LoopStatus
<1>3. Verdict(c) = IF loop[c].report # "success" THEN "failed"
                   ELSE IF d.action = "continue" /\ loop[c].policy.goal /\ ~d.onGoal
                   THEN "goal_drift"
                   ELSE StatusAfter[d.action]
  BY DEF Verdict, Drifts, d
<1>4. Verdict(c) \in LoopStatus \cup {"continue"}
  BY <1>2, <1>3 DEF LoopStatus
<1>5. ASSUME Verdict(c) = "continue", ~loop[c].policy.file PROVE OnItsWord(loop[c])
  <2>1. loop[c].report = "success" /\ d.action = "continue"
        /\ (loop[c].policy.goal => d.onGoal)
    BY <1>2, <1>3, <1>5
  <2>2. loop[c].said # None /\ d = loop[c].said
    BY <1>5, <2>1 DEF d, DecisionRead
  <2>3. QED
    BY <2>1, <2>2 DEF OnItsWord
<1>6. QED
  BY <1>4, <1>5

\* What a chain does between its passes, and keeps its job, its policy and
\* the runs it has counted.
LEMMA ChainGoesOn ==
    ASSUME LInv, NEW c \in Loopers,
           \/ LoadToArm(c)
           \/ Decide(c)
           \/ LimitReached(c)
           \/ Expire(c)
    PROVE  LInv'
<1> DEFINE l == loop'[c]
<1>1. /\ UNCHANGED <<vars, file, evidence, chains, ran, lost>>
      /\ loop' = [loop EXCEPT ![c] = l]
  BY Looping DEF LoadToArm, Decide, LimitReached, Expire, LInv, LTypeOK
<1>2. /\ loop[c] \in Loop /\ ran[c] \in Nat /\ ChainOK(loop[c], pass[c], ran[c])
      /\ loop \in [Loopers -> Loop]
  BY Looping DEF LInv, LTypeOK
<1>3. loop[c].pc \in {"check", "decide", "ended"}
  BY DEF LoadToArm, Decide, LimitReached, Expire
<1>4. /\ loop[c].job \in Jobs /\ loop[c].policy \in Policies
      /\ pass[c].pc = "idle" /\ ran[c] = loop[c].iterations
  BY <1>2, <1>3 DEF ChainOK
<1>5. ASSUME LoadToArm(c) PROVE l \in Loop /\ ChainOK(l, pass[c], ran[c])
  <2>1. disk \in Table /\ clock \in Instants
    BY DEF LInv, TypeInv, TypeOK
  <2>2. /\ l \in Loop /\ l.pc = "loaded" /\ l.job = loop[c].job
        /\ l.policy = loop[c].policy /\ l.iterations = loop[c].iterations
        /\ l.base = disk /\ l.report = loop[c].report /\ l.said = loop[c].said
    BY <1>2, <1>5, <2>1 DEF LoadToArm, Loop
  <2>3. loop[c].pc = "check" /\ l.iterations < MaxChainRuns /\ disk[loop[c].job] # None
    BY <1>5, <2>2 DEF LoadToArm, WithinLimits
  <2>4. ChainOK(l, pass[c], ran[c])
    BY <1>2, <1>4, <2>2, <2>3 DEF ChainOK, OnItsWord
  <2>5. QED
    BY <2>2, <2>4
<1>6. ASSUME LimitReached(c) PROVE l \in Loop /\ ChainOK(l, pass[c], ran[c])
  <2>1. /\ l \in Loop /\ l.pc = "ended" /\ l.job = loop[c].job
        /\ l.policy = loop[c].policy /\ l.iterations = loop[c].iterations
    BY <1>2, <1>6 DEF LimitReached, Loop
  <2>2. QED
    BY <1>4, <2>1 DEF ChainOK
<1>7. ASSUME Expire(c) PROVE l \in Loop /\ ChainOK(l, pass[c], ran[c])
  <2>1. /\ l \in Loop /\ l.pc = loop[c].pc /\ l.job = loop[c].job
        /\ l.policy = loop[c].policy /\ l.iterations = loop[c].iterations
        /\ l.base = loop[c].base /\ l.report = loop[c].report /\ l.said = loop[c].said
    BY <1>2, <1>7 DEF Expire, Loop
  <2>2. QED
    BY <1>2, <1>3, <1>4, <2>1 DEF ChainOK, OnItsWord
<1>8. ASSUME Decide(c) PROVE l \in Loop /\ ChainOK(l, pass[c], ran[c])
  <2>1. CASE Verdict(c) # "continue"
    <3>1. Verdict(c) \in LoopStatus
      BY <1>4, <1>8, <2>1, VerdictIs
    <3>2. /\ l \in Loop /\ l.pc = "ended" /\ l.job = loop[c].job
          /\ l.policy = loop[c].policy /\ l.iterations = loop[c].iterations
      BY <1>2, <1>8, <2>1, <3>1 DEF Decide, Loop
    <3>3. QED
      BY <1>4, <3>2 DEF ChainOK
  <2>2. CASE Verdict(c) = "continue"
    <3>1. /\ l \in Loop /\ l.pc = "check" /\ l.job = loop[c].job
          /\ l.policy = loop[c].policy /\ l.iterations = loop[c].iterations
          /\ l.report = loop[c].report /\ l.said = loop[c].said
      BY <1>2, <1>8, <2>2 DEF Decide, Loop
    <3>2. ~loop[c].policy.file => OnItsWord(loop[c])
      BY <1>4, <1>8, <2>2, VerdictIs
    <3>3. QED
      BY <1>4, <3>1, <3>2 DEF ChainOK, OnItsWord
  <2>3. QED
    BY <2>1, <2>2
<1>9. l \in Loop /\ ChainOK(l, pass[c], ran[c])
  BY <1>5, <1>6, <1>7, <1>8
<1> HIDE DEF l
<1>10. ran' = [ran EXCEPT ![c] = ran[c]]
  BY <1>1, Looping, SameLoop
<1>11. QED
  BY <1>1, <1>2, <1>9, <1>10, ChainAlone DEF LInv, LTypeOK

\* The evidence ends the chain, and its process goes on with the next job.
LEMMA ChainWritesEvidence ==
    ASSUME LInv, NEW c \in Loopers, WriteEvidence(c)
    PROVE  LInv'
<1> DEFINE e == [ status     |-> IF loop[c].expired THEN "max_runtime_reached"
                                                    ELSE loop[c].status,
                  iterations |-> loop[c].iterations ]
           l == [NotLooping EXCEPT !.pc   = "next",
                                   !.todo = loop[c].todo,
                                   !.tick = loop[c].tick]
<1>1. loop[c].status \in LoopStatus /\ loop[c].iterations \in 0..MaxChainRuns
  BY Looping DEF Loop
<1>2. e \in Evidence
  BY <1>1 DEF Evidence, LoopStatus
<1>3. evidence' \in [Jobs -> Evidence \cup {None}]
  <2>1. evidence' = [evidence EXCEPT ![loop[c].job] = e]
    BY DEF WriteEvidence
  <2> HIDE DEF e
  <2>2. QED
    BY <1>2, <2>1 DEF LInv, LTypeOK
<1>4. l \in Loop /\ l.pc = "next" /\ l.job = None /\ l.iterations = 0
  BY NotLoopingOK, Looping DEF Loop, NotLooping
<1>5. ChainOK(l, pass[c], ran[c])
  <2>1. pass[c].pc = "idle"
    BY Looping DEF WriteEvidence, ChainOK
  <2>2. QED
    BY <1>4, <2>1 DEF ChainOK
<1>6. loop' = [loop EXCEPT ![c] = l] /\ UNCHANGED <<vars, file, chains, ran, lost>>
  BY DEF WriteEvidence
<1> HIDE DEF l
<1>7. ran' = [ran EXCEPT ![c] = ran[c]]
  BY <1>6, Looping, SameLoop
<1>8. QED
  BY <1>3, <1>4, <1>5, <1>6, <1>7, Looping, ChainAlone DEF LInv, LTypeOK

\* The armed table is a table of jobs, and is all the step changes of Tick's
\* variables.
LEMMA ChainSavesArmed ==
    ASSUME LInv, NEW c \in Loopers, SaveArmed(c)
    PROVE  LInv'
<1> DEFINE j == loop[c].job
           l == [loop[c] EXCEPT !.pc = "armed", !.base = NoTable]
<1>1. /\ loop[c] \in Loop /\ j \in Jobs /\ loop[c].policy \in Policies
      /\ pass[c].pc = "idle" /\ ran[c] = loop[c].iterations
      /\ loop[c].iterations < MaxChainRuns /\ loop[c].pc = "loaded"
      /\ loop[c].base[j] # None
      /\ ChainOK(loop[c], pass[c], ran[c])
  BY Looping DEF SaveArmed, ChainOK
<1>2. disk' \in Table
  <2>1. loop[c].base \in Table /\ loop[c].now \in Instants
    BY Looping
  <2>2. loop[c].base[j] \in Job
    BY <1>1, <2>1 DEF Table
  <2>3. Armed(loop[c].base[j], loop[c].now) \in Job
    BY <2>1, <2>2, ArmedFields
  <2>4. disk' = [loop[c].base EXCEPT ![j] = Armed(loop[c].base[j], loop[c].now)]
    BY DEF SaveArmed
  <2>5. QED
    BY <2>1, <2>3, <2>4 DEF Table
<1>3. /\ UNCHANGED <<clock, lock, pass, fired, settled, recorded, faults, file, evidence, chains, ran>>
      /\ lost' = (lost \/ disk # loop[c].base)
      /\ loop' = [loop EXCEPT ![c] = l]
  BY DEF SaveArmed, Overwrites
<1>4. TypeInv' /\ OnePassAtATime'
  BY <1>2, <1>3 DEF LInv, TypeInv, TypeOK, OnePassAtATime
<1>5. /\ l \in Loop /\ l.pc = "armed" /\ l.job = j /\ l.policy = loop[c].policy
      /\ l.iterations = loop[c].iterations /\ l.report = loop[c].report
      /\ l.said = loop[c].said
  BY <1>1 DEF Loop, NoTable, Table
<1> HIDE DEF l
<1>6. ChainOK(l, pass[c], ran[c])
  BY <1>1, <1>5 DEF ChainOK, OnItsWord
<1>7. c \in Ticks /\ ran' = [ran EXCEPT ![c] = ran[c]] /\ ran[c] \in Nat
  BY <1>3, Looping, SameLoop
<1>8. lost' \in BOOLEAN
  BY <1>3 DEF LInv, LTypeOK
<1>9. QED
  BY <1>3, <1>4, <1>5, <1>6, <1>7, <1>8, ProcessStep DEF LInv, LTypeOK

\* The next iteration, inside a pass over the job of the chain.
LEMMA ChainTakesLock ==
    ASSUME LInv, NEW c \in Loopers, ChainTryLock(c)
    PROVE  LInv'
<1> DEFINE j == loop[c].job
           l == [loop[c] EXCEPT !.pc         = "pass",
                                !.iterations = @ + 1,
                                !.report     = None,
                                !.said       = None]
<1>1. /\ loop[c] \in Loop /\ j \in Jobs /\ loop[c].policy \in Policies
      /\ ran[c] = loop[c].iterations /\ loop[c].iterations \in 0..MaxChainRuns
      /\ loop[c].iterations < MaxChainRuns /\ c \in Ticks
  BY Looping DEF ChainTryLock, ChainOK
<1>2. /\ TryLock(c, {j}) /\ UNCHANGED <<file, evidence, chains, ran, lost>>
      /\ loop' = [loop EXCEPT ![c] = l]
  BY DEF ChainTryLock, LInv, LTypeOK
<1>3. /\ TypeInv' /\ OnePassAtATime'
      /\ \A u \in Ticks \ {c} : pass'[u] = pass[u]
      /\ pass'[c].pc = "locked"
  BY <1>1, <1>2, TryLockType, OnePassTryLock DEF LInv
<1>4. pass'[c].targets = {j}
  <2>1. pass' = [pass EXCEPT ![c] = [Idle EXCEPT !.pc      = "locked",
                                                 !.now     = clock,
                                                 !.targets = {j}]]
    BY <1>2 DEF TryLock
  <2>2. QED
    BY <1>1, <2>1 DEF LInv, TypeInv, TypeOK, Idle
<1>5. /\ l \in Loop /\ l.pc = "pass" /\ l.job = j /\ l.policy = loop[c].policy
      /\ l.iterations = loop[c].iterations + 1
  <2>1. loop[c].iterations + 1 \in 0..MaxChainRuns
    BY <1>1, BoundsAssumption
  <2>2. QED
    BY <1>1, <2>1 DEF Loop
<1> HIDE DEF l
<1>6. ran[c] = l.iterations - 1
  BY <1>1, <1>5
<1>7. ChainOK(l, pass'[c], ran[c])
  BY <1>1, <1>3, <1>4, <1>5, <1>6 DEF ChainOK, PassOfChain
<1>8. ran' = [ran EXCEPT ![c] = ran[c]] /\ ran[c] \in Nat
  BY <1>1, <1>2, Looping, SameLoop
<1>9. /\ file' \in [Jobs -> Decisions \cup {None}]
      /\ evidence' \in [Jobs -> Evidence \cup {None}]
      /\ chains' \in 0..MaxChains /\ lost' \in BOOLEAN
  BY <1>2 DEF LInv, LTypeOK
<1>10. QED
  BY <1>1, <1>2, <1>3, <1>5, <1>7, <1>8, <1>9, ProcessStep

\* The lock taken for a full pass, by a process that has no loop now.
LEMMA FullPass ==
    ASSUME LInv, NEW t \in Ticks, TryLock(t, Jobs),
           UNCHANGED <<file, evidence, chains, ran, lost>>,
           NEW l, loop' = [loop EXCEPT ![t] = l],
           t \in Loopers => l = NotLooping
    PROVE  LInv'
<1>1. /\ TypeInv' /\ OnePassAtATime'
      /\ \A u \in Ticks \ {t} : pass'[u] = pass[u]
  BY TryLockType, OnePassTryLock DEF LInv
<1>2. t \in Loopers => l \in Loop /\ ran[t] \in Nat /\ ChainOK(l, pass'[t], ran[t])
  BY NotLoopingOK, SameLoop
<1>3. ran' = [ran EXCEPT ![t] = ran[t]]
  BY SameLoop
<1>4. QED
  BY <1>1, <1>2, <1>3, ProcessStep DEF LInv, LTypeOK

LEMMA ChainsEnd ==
    ASSUME LInv, NEW c \in Loopers, EndLoop(c)
    PROVE  LInv'
<1>1. CASE TryLock(c, Jobs)
  BY <1>1, FullPass, LoopersAssumption DEF EndLoop, Abort
<1>2. CASE UNCHANGED vars
  BY <1>2, ChainAborts DEF EndLoop
<1>3. QED
  BY <1>1, <1>2 DEF EndLoop

\* A chain that dies outside of a pass takes nothing with it but its state.
LEMMA ChainDies ==
    ASSUME LInv, NEW c \in Loopers, LoopDies(c)
    PROVE  LInv'
<1>1. faults' \in 0..MaxFaults
  BY MaxFaultsAssumption DEF LoopDies, LInv, TypeInv, TypeOK
<1>2. UNCHANGED <<clock, disk, lock, pass, fired, settled, recorded, file, evidence, chains, ran, lost>>
  BY DEF LoopDies
<1>3. TypeInv' /\ OnePassAtATime'
  BY <1>1, <1>2 DEF LInv, TypeInv, TypeOK, OnePassAtATime
<1>4. c \in Ticks /\ ran' = [ran EXCEPT ![c] = ran[c]] /\ ran[c] \in Nat
  BY <1>2, Looping, SameLoop
<1>5. loop' = [loop EXCEPT ![c] = NotLooping]
  BY DEF LoopDies, Abort
<1>6. QED
  BY <1>2, <1>3, <1>4, <1>5, NotLoopingOK, ProcessStep DEF LInv, LTypeOK

-----------------------------------------------------------------------------
(* The invariant *)

LEMMA LoopInductive ==
    ASSUME LInv, [LNext]_everyVar
    PROVE  LInv'
<1>1. CASE SetClock /\ UNCHANGED loopVars
  <2>1. TypeInv' /\ OnePassAtATime'
    BY <1>1, TypeInductive, OnePassInductive DEF LInv, Next
  <2>2. QED
    BY <1>1, <2>1 DEF SetClock, loopVars, LInv, LTypeOK, TypeInv
<1>2. ASSUME NEW t \in Tickers, TryLock(t, Jobs), UNCHANGED loopVars PROVE LInv'
  <2>1. t \in Ticks /\ t \notin Loopers
    BY <1>2 DEF Tickers
  <2>2. loop' = [loop EXCEPT ![t] = loop[t]]
    BY <1>2, <2>1, SameLoop DEF loopVars
  <2>3. QED
    BY <1>2, <2>1, <2>2, FullPass DEF loopVars
<1>3. ASSUME NEW t \in Ticks, LWork(t) \/ LFault(t) PROVE LInv'
  BY <1>3, LoopPassStarts, LoopPassFinishes, LoopPassAborts, LoopPassReturns, LoopPassGoesOn
     DEF LWork
<1>4. ASSUME NEW c \in Loopers, StartTickLoop(c) PROVE LInv'
  BY <1>4, ChainStarts, DueToLoop DEF StartTickLoop
<1>5. ASSUME NEW c \in Loopers, NEW j \in EventJobs, StartRunLoop(c, j) PROVE LInv'
  <2>1. {j} \in SUBSET Jobs /\ IsFiniteSet({j})
    BY EventJobsAssumption, FS_Singleton
  <2>2. QED
    BY <1>5, <2>1, ChainStarts DEF StartRunLoop
<1>6. ASSUME NEW c \in Loopers, JobGone(c) \/ ChainSkips(c) PROVE LInv'
  BY <1>6, ChainAborts DEF JobGone, ChainSkips
<1>7. ASSUME NEW c \in Loopers, LoopStep(c) \/ Expire(c) \/ LoopDies(c) PROVE LInv'
  BY <1>6, <1>7, ChainBegins, ChainsEnd, ChainGoesOn, ChainSavesArmed, ChainTakesLock,
     ChainWritesEvidence, ChainDies DEF LoopStep
<1>8. CASE UNCHANGED everyVar
  BY <1>8 DEF everyVar, vars, loopVars, LInv, LTypeOK, TypeInv, TypeOK, OnePassAtATime
<1>9. QED
  BY <1>1, <1>2, <1>3, <1>4, <1>5, <1>7, <1>8 DEF LNext

LEMMA LoopInit == LInit => LInv
<1> SUFFICES ASSUME LInit PROVE LInv
  OBVIOUS
<1>1. Init
  BY DEF LInit
<1>2. OnePassAtATime
  BY <1>1, TicksAssumption DEF Init, Idle, OnePassAtATime
<1>3. loop \in [Loopers -> Loop] /\ ran \in [Loopers -> Nat]
  BY NotLoopingOK DEF LInit
<1>4. \A c \in Loopers : ChainOK(loop[c], pass[c], ran[c])
  BY NotLoopingOK DEF LInit
<1>5. LTypeOK
  <2>1. /\ file = [j \in Jobs |-> None] /\ evidence = [j \in Jobs |-> None]
        /\ lost \in BOOLEAN
    BY DEF LInit
  <2>2. chains \in 0..MaxChains
    BY BoundsAssumption DEF LInit
  <2>3. TypeOK
    BY <1>1, TypeInit DEF TypeInv
  <2>4. QED
    BY <1>3, <2>1, <2>2, <2>3 DEF LTypeOK
<1>6. QED
  BY <1>1, <1>2, <1>4, <1>5, TypeInit DEF LInv

LEMMA LoopAlways == LSpec => []LInv
<1>1. LInv /\ [LNext]_everyVar => LInv'
  BY LoopInductive
<1>2. QED
  BY <1>1, LoopInit, PTL DEF LSpec

\* Whatever the runs decide and wherever chains and passes are killed, event
\* loops keep to their states, and what they arm is a table of jobs.
THEOREM LoopsTypeCorrect == LSpec => []LTypeOK
<1>1. LInv => LTypeOK
  BY DEF LInv
<1>2. QED
  BY <1>1, LoopAlways, PTL

LEMMA LoopBounds == LInv => ChainIsBounded
<1> SUFFICES ASSUME LInv, NEW c \in Loopers, InChain(c) PROVE ran[c] <= MaxChainRuns
  BY DEF ChainIsBounded
<1>1. /\ loop[c].iterations \in 0..MaxChainRuns
      /\ ChainOK(loop[c], pass[c], ran[c]) /\ loop[c] \in Loop /\ ran[c] \in Nat
  BY Looping
<1>2. loop[c].pc \in {"check", "loaded", "armed", "pass", "decide", "ended"}
  BY <1>1 DEF InChain, ChainOK, Loop
<1>3. CASE loop[c].pc # "pass"
  BY <1>1, <1>2, <1>3, BoundsAssumption DEF ChainOK
<1>4. CASE loop[c].pc = "pass"
  <2>1. PassOfChain(pass[c], loop[c].job, loop[c].iterations - 1, loop[c].iterations, ran[c])
    BY <1>1, <1>4 DEF ChainOK
  <2>2. pass[c].pc \in {"idle", "locked", "advanced", "running", "delivering"}
    BY LoopersAssumption DEF LInv, TypeInv, TypeOK, Pass
  <2>3. ran[c] = loop[c].iterations - 1 \/ ran[c] = loop[c].iterations
    BY <2>1, <2>2 DEF PassOfChain
  <2>4. QED
    BY <1>1, <2>3, BoundsAssumption
<1>5. QED
  BY <1>3, <1>4

LEMMA LoopCounts == LInv => EvidenceCountsRuns
BY Looping DEF EvidenceCountsRuns, ChainOK

LEMMA LoopListens == LInv => ContinuesOnItsWord
BY Looping DEF ContinuesOnItsWord, ChainOK, OnItsWord

\* No chain ever starts its job more often than max_chain_runs.
THEOREM ChainsAreBounded == LSpec => []ChainIsBounded
BY LoopBounds, LoopAlways, PTL

\* The iterations in the evidence are the runs the chain has started.
THEOREM EvidenceIsTheCount == LSpec => []EvidenceCountsRuns
BY LoopCounts, LoopAlways, PTL

\* A chain that reads the output goes on only on the word of a successful run.
THEOREM GoesOnOnlyOnItsWord == LSpec => []ContinuesOnItsWord
BY LoopListens, LoopAlways, PTL

-----------------------------------------------------------------------------
(* Repeat limits under event loops.  A chain arms its job from a table it   *)
(* has loaded without the lock.  As long as no save has overwritten a       *)
(* change it had not read, arming keeps the counts of jobs.json, and every  *)
(* pass still saves the counts it has loaded: see ViewAt.                   *)

LimitInv == lost \/ (ViewInv /\ CountsInv)

\* What the steps of event loops are to the passes.
LEMMA LoopNextIs ==
    ASSUME LInv, [LNext]_everyVar
    PROVE  /\ lost' \in BOOLEAN /\ (lost => lost')
           /\ \/ UNCHANGED <<disk, pass, settled>>
              \/ \E t \in Ticks, targets \in SUBSET Jobs : TryLock(t, targets)
              \/ \E t \in Ticks : Work(t) \/ Fault(t)
              \/ \E c \in Loopers : SaveArmed(c)
<1>0. lost \in BOOLEAN /\ Loopers \subseteq Ticks /\ Jobs \in SUBSET Jobs
  BY LoopersAssumption DEF LInv, LTypeOK
<1>1. CASE SetClock /\ UNCHANGED loopVars
  BY <1>0, <1>1 DEF SetClock, loopVars
<1>2. ASSUME NEW t \in Tickers, TryLock(t, Jobs), UNCHANGED loopVars
      PROVE  t \in Ticks /\ lost' = lost
  BY <1>2 DEF Tickers, loopVars
<1>3. ASSUME NEW t \in Ticks, LWork(t) \/ LFault(t)
      PROVE  (Work(t) \/ Fault(t)) /\ lost' \in BOOLEAN /\ (lost => lost')
  <2>1. CASE PassGoesOn(t)
    BY <1>0, <2>1 DEF PassGoesOn, LosesUpdate, Work
  <2>2. CASE PassStarts(t) \/ PassFindsNothing(t) \/ PassReturns(t) \/ LFault(t)
    BY <1>0, <2>2 DEF PassStarts, PassFindsNothing, PassReturns, LFault, Work
  <2>3. CASE PassFinishes(t)
    BY <1>0, <2>3 DEF PassFinishes, Work
  <2>4. QED
    BY <1>3, <2>1, <2>2, <2>3 DEF LWork
<1>4. ASSUME NEW c \in Loopers, SaveArmed(c) PROVE lost' \in BOOLEAN /\ (lost => lost')
  BY <1>0, <1>4 DEF SaveArmed, Overwrites
<1>5. ASSUME NEW c \in Loopers, EndLoop(c)
      PROVE  lost' = lost /\ (TryLock(c, Jobs) \/ UNCHANGED vars)
  BY <1>5 DEF EndLoop
<1>6. ASSUME NEW c \in Loopers, ChainTryLock(c)
      PROVE  lost' = lost /\ TryLock(c, {loop[c].job}) /\ {loop[c].job} \in SUBSET Jobs
  BY <1>6, Looping DEF ChainTryLock, ChainOK
<1>7. ASSUME NEW c \in Loopers, StartTickLoop(c) \/ (\E j \in EventJobs : StartRunLoop(c, j))
      PROVE  lost' = lost /\ UNCHANGED vars
  BY <1>7 DEF StartTickLoop, StartRunLoop, Starts
<1>8. ASSUME NEW c \in Loopers,
             \/ \E j \in EventJobs : BeginChain(c, j)
             \/ LoadToArm(c) \/ JobGone(c) \/ ChainSkips(c) \/ Decide(c)
             \/ LimitReached(c) \/ WriteEvidence(c) \/ Expire(c)
      PROVE  lost' = lost /\ UNCHANGED vars
  BY <1>8 DEF BeginChain, LoadToArm, JobGone, ChainSkips, Decide, LimitReached,
              WriteEvidence, Expire
<1>9. ASSUME NEW c \in Loopers, LoopDies(c)
      PROVE  lost' = lost /\ UNCHANGED <<disk, pass, settled>>
  BY <1>9 DEF LoopDies
<1>10. CASE UNCHANGED everyVar
  BY <1>0, <1>10 DEF everyVar, vars, loopVars
<1>11. ASSUME NEW c \in Loopers, LoopStep(c)
       PROVE  /\ lost' \in BOOLEAN /\ (lost => lost')
              /\ \/ UNCHANGED vars
                 \/ SaveArmed(c)
                 \/ \E targets \in SUBSET Jobs : TryLock(c, targets)
  BY <1>0, <1>4, <1>5, <1>6, <1>8, <1>11 DEF LoopStep
<1>12. QED
  BY <1>0, <1>1, <1>2, <1>3, <1>7, <1>8, <1>9, <1>10, <1>11 DEF LNext, vars

\* Arming, from the table that is in jobs.json: every count stays, and so does
\* what the passes make of them.
LEMMA ArmedKeepsCounts ==
    ASSUME LInv, NEW c \in Loopers, SaveArmed(c), disk = loop[c].base, NEW k \in Jobs
    PROVE  /\ disk'[k] # None <=> disk[k] # None
           /\ disk[k] # None => /\ disk'[k].schedule = disk[k].schedule
                                /\ disk'[k].times = disk[k].times
                                /\ disk'[k].completed = disk[k].completed
<1> DEFINE j == loop[c].job
<1>1. /\ loop[c].base \in Table /\ loop[c].now \in Instants /\ j \in Jobs
      /\ loop[c].base[j] # None
  BY Looping DEF SaveArmed, ChainOK
<1>2. disk' = [disk EXCEPT ![j] = Armed(disk[j], loop[c].now)]
  BY DEF SaveArmed
<1>3. CASE k # j
  BY <1>1, <1>2, <1>3 DEF Table
<1>4. CASE k = j
  <2>1. disk[j] \in Job /\ disk'[k] = Armed(disk[j], loop[c].now)
    BY <1>1, <1>2, <1>4 DEF Table
  <2>2. Armed(disk[j], loop[c].now) \in Job
    BY <1>1, <2>1, ArmedFields
  <2>3. QED
    BY <1>1, <1>4, <2>1, <2>2, ArmedFields, NoneIsNoJob
<1>5. QED
  BY <1>3, <1>4

LEMMA LimitArmed ==
    ASSUME LInv, ViewInv, CountsInv, NEW c \in Loopers, SaveArmed(c), ~lost', LInv'
    PROVE  ViewInv' /\ CountsInv'
<1>1. disk = loop[c].base /\ UNCHANGED <<pass, settled>>
  BY DEF SaveArmed, Overwrites
<1>2. ASSUME NEW t \in Ticks PROVE ViewAt(t)'
  BY <1>1, ArmedKeepsCounts DEF ViewInv, ViewAt, Snapshots
<1>3. ASSUME NEW j \in Jobs PROVE CountsAt(j)'
  <2>1. CountsAt(j) /\ (Held(j)' <=> Held(j))
    BY <1>1 DEF CountsInv, Held, Snapshots
  <2>2. QED
    BY <1>1, <2>1, ArmedKeepsCounts DEF CountsAt
<1>4. QED
  BY <1>2, <1>3 DEF ViewInv, CountsInv, LInv

LEMMA LimitInductive ==
    ASSUME LInv, LimitInv, [LNext]_everyVar
    PROVE  LimitInv'
<1>1. LInv' /\ lost' \in BOOLEAN /\ (lost => lost')
  BY LoopInductive, LoopNextIs
<1> SUFFICES ASSUME ViewInv, CountsInv, ~lost' PROVE ViewInv' /\ CountsInv'
  BY <1>1 DEF LimitInv
<1>2. CASE UNCHANGED <<disk, pass, settled>>
  BY <1>1, <1>2 DEF ViewInv, ViewAt, CountsInv, CountsAt, Held, Snapshots, LInv
<1>3. ASSUME NEW t \in Ticks, NEW targets \in SUBSET Jobs, TryLock(t, targets)
      PROVE  ViewInv' /\ CountsInv'
  BY <1>3, ViewTryLock, CountsTryLock DEF CountsInv
<1>4. ASSUME NEW t \in Ticks, Work(t) \/ Fault(t) PROVE ViewInv' /\ CountsInv'
  BY <1>4, ViewStep, CountsStep DEF CountsInv
<1>5. ASSUME NEW c \in Loopers, SaveArmed(c) PROVE ViewInv' /\ CountsInv'
  BY <1>1, <1>5, LimitArmed
<1>6. QED
  BY <1>2, <1>3, <1>4, <1>5, LoopNextIs

\* However often it is armed again, a job leaves the table with the outcome of
\* its last run, unless a save was lost.
THEOREM ArmingKeepsTheLimit == LSpec => []LimitUnlessLost
<1>1. LInit => LInv /\ LimitInv
  BY LoopInit, CountsInit, SafetyInit DEF LInit, Init, Idle, SafetyInv, ViewInv, ViewAt, LimitInv
<1>2. LInv /\ LimitInv /\ [LNext]_everyVar => LInv' /\ LimitInv'
  BY LoopInductive, LimitInductive
<1>3. LInv /\ LimitInv => LimitUnlessLost
  BY DEF CountsInv, CountsAt, RepeatBound, LimitInv, LimitUnlessLost
<1>4. QED
  BY <1>1, <1>2, <1>3, PTL DEF LSpec

=============================================================================
