------------------------------ MODULE EventLoop ------------------------------
(***************************************************************************)
(* Event loops (run_loop in cli event_loop.rs, run_tick_loop in cli.rs),   *)
(* next to the passes of module Tick.  A chain arms its one job in         *)
(* jobs.json, without the lock, and makes a pass over it, again and again  *)
(* while the runs decide to continue, and ends by writing its evidence.    *)
(* `tick-loop` makes a chain for every event-loop job that is due and a    *)
(* full pass after them; any error (`?`) ends the whole of it.             *)
(*                                                                         *)
(* Of a decision the model keeps its action and whether it names the goal  *)
(* the chain is pinned to.  A run prints its decision, or writes it to the *)
(* decision file of the job, or leaves none.  The time limit is a flag     *)
(* that any step may find raised.                                          *)
(***************************************************************************)
EXTENDS SharedFile

CONSTANTS
    Loopers,        \* the processes that make event loops, among Ticks
    EventJobs,      \* the jobs with an event_loop policy
    Policies,       \* what those policies, or the overrides, may say
    MaxChainRuns,   \* the max_chain_runs of the policies
    Decisions,      \* what a run may decide
    MaxChains       \* bound: chains called for

Policy == [ file : BOOLEAN,     \* decision_file is given
            goal : BOOLEAN ]    \* goal_id is given

Decision == [ action : {"continue", "stop", "backoff", "fail"},
              onGoal : BOOLEAN ]

ASSUME LoopersAssumption == Loopers \subseteq Ticks

\* jobs.json is a finite file.
ASSUME EventJobsAssumption == EventJobs \subseteq Jobs /\ IsFiniteSet(EventJobs)

ASSUME PoliciesAssumption == Policies \subseteq Policy

ASSUME DecisionsAssumption == Decisions \subseteq Decision /\ None \notin Decision

ASSUME BoundsAssumption == MaxChainRuns \in Nat /\ MaxChains \in Nat

VARIABLES
    loop,       \* the event loop each process is making
    file,       \* per job, what its decision file says, None if it has none
    evidence,   \* per job, event-loop/<id>/latest.json, None if it has none
    \* History: nothing below is read by the program.
    chains,     \* how many chains were called for
    ran         \* per process, the runs its current chain has started

loopVars == <<loop, file, evidence, chains, ran, lost>>
everyVar == <<vars, loopVars>>

LoopStatus == {"max_chain_reached", "failed", "goal_drift", "stopped", "backoff",
               "max_runtime_reached"}

Evidence == [status : LoopStatus, iterations : 0..MaxChainRuns]

Loop == [ pc         : {"idle", "next", "check", "loaded", "armed", "pass",
                        "decide", "ended"},
          todo       : SUBSET Jobs,         \* due_event_loop_ids, still to do
          tick       : BOOLEAN,             \* a full pass follows
          job        : Jobs \cup {None},    \* id
          policy     : Policies \cup {None},
          iterations : 0..MaxChainRuns,
          expired    : BOOLEAN,             \* elapsed() >= max_runtime_seconds
          base       : Table,               \* jobs loaded to arm the job in
          now        : Instants,            \* the instant it is armed for
          report     : RunStatus \cup {None},   \* fired.status
          said       : Decisions \cup {None},   \* what the last run decided
          status     : LoopStatus ]

NotLooping == [ pc |-> "idle", todo |-> {}, tick |-> FALSE, job |-> None,
                policy |-> None, iterations |-> 0, expired |-> FALSE,
                base |-> NoTable, now |-> 0, report |-> None, said |-> None,
                status |-> "max_chain_reached" ]

\* The processes that only make full passes.
Tickers == Ticks \ Loopers

InChain(c) == loop[c].job # None

-----------------------------------------------------------------------------
(* Beginning and ending *)

LInit ==
    /\ Init
    /\ loop = [c \in Loopers |-> NotLooping]
    /\ file = [j \in Jobs |-> None]
    /\ evidence = [j \in Jobs |-> None]
    /\ chains = 0
    /\ ran = [c \in Loopers |-> 0]
    /\ lost = FALSE

\* A new event loop of process c, over the jobs in todo.
Starts(c, todo, tick) ==
    /\ loop[c].pc = "idle"
    /\ pass[c].pc = "idle"
    /\ chains + Cardinality(todo) <= MaxChains
    /\ chains' = chains + Cardinality(todo)
    /\ loop' = [loop EXCEPT ![c] = [NotLooping EXCEPT !.pc   = "next",
                                                      !.todo = todo,
                                                      !.tick = tick]]
    /\ UNCHANGED <<vars, file, evidence, ran, lost>>

\* `run-loop <id>`
StartRunLoop(c, j) == Starts(c, {j}, FALSE)

\* `tick-loop`, and one round of `daemon --event-loop`: due_event_loop_job_ids
StartTickLoop(c) == Starts(c, Due(disk, EventJobs, clock), TRUE)

\* run_loop: load, find the job and its policy, or fail.
BeginChain(c, j) ==
    /\ loop[c].pc = "next"
    /\ j \in loop[c].todo
    /\ IF disk[j] = None
       THEN loop' = [loop EXCEPT ![c] = NotLooping]
       ELSE \E policy \in Policies :
                loop' = [loop EXCEPT ![c].pc     = "check",
                                     ![c].todo   = @ \ {j},
                                     ![c].job    = j,
                                     ![c].policy = policy]
    /\ ran' = [ran EXCEPT ![c] = 0]
    /\ UNCHANGED <<vars, file, evidence, chains, lost>>

\* An error leaves run_loop, and run_tick_loop with it.
Abort(c) == loop' = [loop EXCEPT ![c] = NotLooping]

\* No job is left to chain: the full pass of run_tick_loop, unless the lock is
\* taken.
EndLoop(c) ==
    /\ loop[c].pc = "next"
    /\ loop[c].todo = {}
    /\ Abort(c)
    /\ IF loop[c].tick /\ lock = None THEN TryLock(c, Jobs) ELSE UNCHANGED vars
    /\ UNCHANGED <<file, evidence, chains, ran, lost>>

-----------------------------------------------------------------------------
(* One iteration *)

\* Defect: one iteration too many.
WithinLimitsOffByOne(c) == loop[c].iterations <= MaxChainRuns /\ ~loop[c].expired

WithinLimits(c) == loop[c].iterations < MaxChainRuns /\ ~loop[c].expired

\* Defect: the job is marked with a state that is no JobState.
ArmedAsLooping(job, now) ==
    [job EXCEPT !.enabled = TRUE, !.state = "looping", !.next_run_at = now]

Armed(job, now) ==
    [job EXCEPT !.enabled = TRUE, !.state = "scheduled", !.next_run_at = now]

\* The block at the top of the loop: load, find the job ...
LoadToArm(c) ==
    /\ loop[c].pc = "check"
    /\ WithinLimits(c)
    /\ disk[loop[c].job] # None
    /\ loop' = [loop EXCEPT ![c].pc = "loaded", ![c].base = disk, ![c].now = clock]
    /\ UNCHANGED <<vars, file, evidence, chains, ran, lost>>

\* Defect: the chain looks for its job again and again.
JobGoneLooksAgain(c) ==
    /\ loop[c].pc = "check"
    /\ WithinLimits(c)
    /\ disk[loop[c].job] = None
    /\ UNCHANGED everyVar

\* ... or fail, when it has retired or was removed ...
JobGone(c) ==
    /\ loop[c].pc = "check"
    /\ WithinLimits(c)
    /\ disk[loop[c].job] = None
    /\ Abort(c)
    /\ UNCHANGED <<vars, file, evidence, chains, ran, lost>>

\* ... arm it, and save the whole table.
SaveArmed(c) ==
    LET j == loop[c].job
    IN  /\ loop[c].pc = "loaded"
        /\ disk' = [loop[c].base EXCEPT ![j] = Armed(@, loop[c].now)]
        /\ loop' = [loop EXCEPT ![c].pc = "armed", ![c].base = NoTable]
        /\ Overwrites(loop[c].base)
        /\ UNCHANGED <<clock, lock, pass, fired, settled, recorded, faults,
                       file, evidence, chains, ran>>

\* iterations += 1, and run_target_tick_with_env finds the lock free ...
ChainTryLock(c) ==
    /\ loop[c].pc = "armed"
    /\ TryLock(c, {loop[c].job})
    /\ loop' = [loop EXCEPT ![c].pc         = "pass",
                            ![c].iterations = @ + 1,
                            ![c].report     = None,
                            ![c].said       = None]
    /\ UNCHANGED <<file, evidence, chains, ran, lost>>

\* Defect: a skipped pass counts as a run that decided to continue.
ChainSkipsOn(c) ==
    /\ loop[c].pc = "armed"
    /\ lock # None
    /\ loop' = [loop EXCEPT ![c].pc = "check", ![c].iterations = @ + 1]
    /\ UNCHANGED <<vars, file, evidence, chains, ran, lost>>

\* ... or taken: "event-loop target job did not fire" is an error.
ChainSkips(c) ==
    /\ loop[c].pc = "armed"
    /\ lock # None
    /\ Abort(c)
    /\ UNCHANGED <<vars, file, evidence, chains, ran, lost>>

-----------------------------------------------------------------------------
(* The passes, of chains and others *)

IsLooper(t) == t \in Loopers /\ loop[t].pc = "pass"

\* run_one spawns; a chain counts its runs.
PassStarts(t) ==
    /\ StartChunk(t)
    /\ ran' = IF IsLooper(t) THEN [ran EXCEPT ![t] = @ + Cardinality(pass'[t].running)]
                             ELSE ran
    /\ UNCHANGED <<loop, file, evidence, chains, lost>>

\* A run returns with a decision, printed or in the file, or with none.
PassFinishes(t) ==
    \E j \in Jobs, status \in Statuses, said \in Decisions \cup {None} :
        /\ Finish(t, j, status)
        /\ j \notin EventJobs => said = None
        /\ file' = IF said = None THEN file ELSE [file EXCEPT ![j] = said]
        /\ loop' = IF IsLooper(t) THEN [loop EXCEPT ![t].said = said] ELSE loop
        /\ UNCHANGED <<evidence, chains, ran, lost>>

\* The pass of a chain found nothing due: its job "did not fire".
PassFindsNothing(t) ==
    /\ LoadNothingDue(t)
    /\ IF IsLooper(t) THEN Abort(t) ELSE UNCHANGED loop
    /\ UNCHANGED <<file, evidence, chains, ran, lost>>

\* The pass of a chain returns its report.
PassReturns(t) ==
    /\ Return(t)
    /\ loop' = IF IsLooper(t)
               THEN [loop EXCEPT ![t].pc     = "decide",
                                 ![t].report = pass[t].outcome[loop[t].job]]
               ELSE loop
    /\ UNCHANGED <<file, evidence, chains, ran, lost>>

PassGoesOn(t) ==
    /\ \/ LoadAndAdvance(t)
       \/ SaveAdvanced(t)
       \/ SaveOutcomes(t)
       \/ \E j \in Jobs : Deliver(t, j)
    /\ LosesUpdate(t)
    /\ UNCHANGED <<loop, file, evidence, chains, ran>>

LWork(t) ==
    \/ PassStarts(t)
    \/ PassFinishes(t)
    \/ PassFindsNothing(t)
    \/ PassReturns(t)
    \/ PassGoesOn(t)

\* A failed load or save of a pass is an error of its chain too.
LFault(t) ==
    /\ Fault(t)
    /\ IF t \in Loopers THEN Abort(t) ELSE UNCHANGED loop
    /\ UNCHANGED <<file, evidence, chains, ran, lost>>

-----------------------------------------------------------------------------
(* What the chain makes of a run *)

\* parse_event_loop_decision_file, parse_event_loop_decision: no file is a
\* failure, no decision in the output is a stop.
DecisionRead(c) ==
    IF loop[c].policy.file
    THEN IF file[loop[c].job] = None THEN [action |-> "fail", onGoal |-> FALSE]
                                     ELSE file[loop[c].job]
    ELSE IF loop[c].said = None      THEN [action |-> "stop", onGoal |-> FALSE]
                                     ELSE loop[c].said

StatusAfter == [continue |-> "continue", stop |-> "stopped",
                backoff |-> "backoff", fail |-> "failed"]

\* Defect: the goal is not compared.
VerdictOnAnyGoal(c) ==
    IF loop[c].report # "success" THEN "failed" ELSE StatusAfter[DecisionRead(c).action]

Drifts(c) ==
    /\ DecisionRead(c).action = "continue"
    /\ loop[c].policy.goal
    /\ ~DecisionRead(c).onGoal

\* The status the loop ends with, or "continue".
Verdict(c) ==
    CASE loop[c].report # "success"              -> "failed"
      [] loop[c].report = "success" /\ Drifts(c) -> "goal_drift"
      [] OTHER                                   -> StatusAfter[DecisionRead(c).action]

Decide(c) ==
    /\ loop[c].pc = "decide"
    /\ loop' = IF Verdict(c) = "continue"
               THEN [loop EXCEPT ![c].pc = "check"]
               ELSE [loop EXCEPT ![c].pc = "ended", ![c].status = Verdict(c)]
    /\ UNCHANGED <<vars, file, evidence, chains, ran, lost>>

\* while iterations < max_chain_runs && started.elapsed() < max_runtime
LimitReached(c) ==
    /\ loop[c].pc = "check"
    /\ ~WithinLimits(c)
    /\ loop' = [loop EXCEPT ![c].pc = "ended"]
    /\ UNCHANGED <<vars, file, evidence, chains, ran, lost>>

\* Time runs out for the chain.  It looks only before an iteration and at the
\* end, so that it makes no difference when exactly in between.
Expire(c) ==
    /\ loop[c].pc \in {"check", "ended"}
    /\ ~loop[c].expired
    /\ loop' = [loop EXCEPT ![c].expired = TRUE]
    /\ UNCHANGED <<vars, file, evidence, chains, ran, lost>>

\* latest.json; a chain past its time says so, however it ended.
WriteEvidence(c) ==
    /\ loop[c].pc = "ended"
    /\ evidence' = [evidence EXCEPT ![loop[c].job] =
           [ status     |-> IF loop[c].expired THEN "max_runtime_reached"
                                               ELSE loop[c].status,
             iterations |-> loop[c].iterations ]]
    /\ loop' = [loop EXCEPT ![c] = [NotLooping EXCEPT !.pc   = "next",
                                                      !.todo = loop[c].todo,
                                                      !.tick = loop[c].tick]]
    /\ UNCHANGED <<vars, file, chains, ran, lost>>

\* A load or a save of the loop fails, or its process is killed, outside a pass.
LoopDies(c) ==
    /\ loop[c].pc \notin {"idle", "pass"}
    /\ faults < MaxFaults
    /\ faults' = faults + 1
    /\ Abort(c)
    /\ UNCHANGED <<clock, disk, lock, pass, fired, settled, recorded,
                   file, evidence, chains, ran, lost>>

LoopStep(c) ==
    \/ \E j \in EventJobs : BeginChain(c, j)
    \/ EndLoop(c)
    \/ LoadToArm(c)
    \/ JobGone(c)
    \/ SaveArmed(c)
    \/ ChainTryLock(c)
    \/ ChainSkips(c)
    \/ Decide(c)
    \/ LimitReached(c)
    \/ WriteEvidence(c)

LNext ==
    \/ SetClock /\ UNCHANGED loopVars
    \/ \E t \in Tickers : TryLock(t, Jobs) /\ UNCHANGED loopVars
    \/ \E t \in Ticks : LWork(t) \/ LFault(t)
    \/ \E c \in Loopers : \/ StartTickLoop(c)
                          \/ \E j \in EventJobs : StartRunLoop(c, j)
                          \/ LoopStep(c)
                          \/ Expire(c)
                          \/ LoopDies(c)

\* A process that makes event loops goes on, in its loop or in a pass:
\* executors return.  Nothing is asked of the other processes.
LFairness == \A c \in Loopers : WF_everyVar(LWork(c) \/ LoopStep(c))

LSpec == LInit /\ [][LNext]_everyVar /\ LFairness

-----------------------------------------------------------------------------
(* Properties *)

LTypeOK ==
    /\ TypeOK
    /\ loop \in [Loopers -> Loop]
    /\ file \in [Jobs -> Decisions \cup {None}]
    /\ evidence \in [Jobs -> Evidence \cup {None}]
    /\ chains \in 0..MaxChains
    /\ ran \in [Loopers -> Nat]
    /\ lost \in BOOLEAN

\* However the decisions, the lock and the other passes fall, a chain starts
\* its job at most max_chain_runs times.
ChainIsBounded == \A c \in Loopers : InChain(c) => ran[c] <= MaxChainRuns

\* The evidence of a chain counts the runs the chain has started: each of its
\* iterations was a run of its own, and none was made by another pass.
EvidenceCountsRuns ==
    \A c \in Loopers : loop[c].pc = "ended" => loop[c].iterations = ran[c]

\* A chain that reads its decisions from the output goes on only after a run
\* that succeeded, decided so and kept to the goal.
ContinuesOnItsWord ==
    \A c \in Loopers :
        /\ loop[c].pc \in {"check", "loaded", "armed"}
        /\ loop[c].iterations > 0
        /\ ~loop[c].policy.file
        => /\ loop[c].report = "success"
           /\ loop[c].said # None
           /\ loop[c].said.action = "continue"
           /\ loop[c].policy.goal => loop[c].said.onGoal

\* Arming the job again and again does not lift its repeat limit: a chain finds
\* its job in the table only as long as fewer of its runs have an outcome than
\* its limit, unless a save went over a change it had not read.
LimitUnlessLost == lost \/ RepeatBound

\* Every event loop ends, with its evidence or with an error.
LoopsEnd == \A c \in Loopers : loop[c].pc # "idle" ~> loop[c].pc = "idle"

\* "writes durable event-loop status evidence after each chain": a chain that
\* has started a run is left only by writing its evidence.
EvidenceAfterEachChain ==
    [][\A c \in Loopers :
           InChain(c) /\ ran[c] > 0 /\ ~InChain(c)' => loop[c].pc = "ended"]_everyVar

=============================================================================
