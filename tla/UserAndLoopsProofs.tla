------------------------- MODULE UserAndLoopsProofs -------------------------
(***************************************************************************)
(* A user's commands while event loops are under way, for any number of    *)
(* processes, jobs, commands, chains and faults.  The invariants are those *)
(* of the two parts; what is new is what a chain does to them, which is    *)
(* all in one step: the save of the table it has loaded, with its job      *)
(* armed.  Every other step of a loop is, for the commands, one of theirs. *)
(***************************************************************************)
EXTENDS UserAndLoops, CommandsProofs, EventLoopProofs

-----------------------------------------------------------------------------
(* What a loop has loaded is like jobs.json: its jobs say whether they are  *)
(* held, and a job that was never added is not there.                       *)

LoadedOK(c) ==
    /\ Agreed(loop[c].base)
    /\ \A j \in Jobs : wish[j] = "unborn" => loop[c].base[j] = None

UInv ==
    /\ LInv
    /\ CTypeInv
    /\ AgreeInv
    /\ RefireInv
    /\ \A c \in Loopers : LoadedOK(c)

-----------------------------------------------------------------------------
(* What a step of a loop is to a command *)

\* A step changes the table of a loop only to load jobs.json or to drop what
\* was loaded, and arms a job only by saving it.
LEMMA LoopTables ==
    ASSUME LInv, [LNext]_everyVar, NEW c \in Loopers
    PROVE  /\ loop'[c].base \in {loop[c].base, disk, NoTable}
           /\ SaveArmed(c) \/ ~(loop[c].pc = "loaded" /\ loop'[c].pc = "armed")
<1> DEFINE Goal(d) ==
               /\ loop'[d].base \in {loop[d].base, disk, NoTable}
               /\ SaveArmed(d) \/ ~(loop[d].pc = "loaded" /\ loop'[d].pc = "armed")
<1>1. loop \in [Loopers -> Loop] /\ Loopers \subseteq Ticks
  BY LoopersAssumption DEF LInv, LTypeOK
<1>2. ASSUME loop' = loop PROVE Goal(c)
  BY <1>2
<1>3. ASSUME NEW d \in Loopers, NEW l, loop' = [loop EXCEPT ![d] = l],
             l.base \in {loop[d].base, disk, NoTable},
             SaveArmed(d) \/ ~(loop[d].pc = "loaded" /\ l.pc = "armed")
      PROVE  Goal(c)
  BY <1>1, <1>3
<1>4. NotLooping.base = NoTable /\ NotLooping.pc = "idle"
  BY DEF NotLooping
<1> HIDE DEF Goal
<1>5. ASSUME NEW d \in Loopers, Abort(d) PROVE Goal(c)
  BY <1>3, <1>4, <1>5 DEF Abort
<1>6. ASSUME NEW t \in Ticks, LWork(t) \/ LFault(t) PROVE Goal(c)
  <2>1. CASE loop' = loop
    BY <1>2, <2>1
  <2>2. CASE t \in Loopers /\ Abort(t)
    BY <1>5, <2>2
  <2>3. ASSUME IsLooper(t), NEW said, loop' = [loop EXCEPT ![t].said = said] PROVE Goal(c)
    <3> DEFINE l == [loop[t] EXCEPT !.said = said]
    <3>1. /\ t \in Loopers /\ loop' = [loop EXCEPT ![t] = l]
          /\ l.base = loop[t].base /\ l.pc = loop[t].pc
      BY <1>1, <2>3 DEF IsLooper, Loop
    <3> HIDE DEF l
    <3>2. QED
      BY <1>3, <3>1
  <2>4. ASSUME IsLooper(t), PassReturns(t) PROVE Goal(c)
    <3> DEFINE l == [loop[t] EXCEPT !.pc = "decide", !.report = pass[t].outcome[loop[t].job]]
    <3>1. /\ t \in Loopers /\ loop' = [loop EXCEPT ![t] = l]
          /\ l.base = loop[t].base /\ l.pc = "decide"
      BY <1>1, <2>4 DEF IsLooper, PassReturns, Loop
    <3> HIDE DEF l
    <3>2. QED
      BY <1>3, <3>1
  <2>5. CASE PassFinishes(t)
    BY <2>1, <2>3, <2>5 DEF PassFinishes
  <2>6. CASE PassReturns(t)
    BY <2>1, <2>4, <2>6 DEF PassReturns
  <2>7. CASE PassFindsNothing(t)
    BY <2>1, <2>2, <2>7 DEF PassFindsNothing, IsLooper
  <2>8. CASE PassStarts(t) \/ PassGoesOn(t)
    BY <2>1, <2>8 DEF PassStarts, PassGoesOn
  <2>9. CASE LFault(t)
    BY <2>1, <2>2, <2>9 DEF LFault
  <2>10. QED
    BY <1>6, <2>5, <2>6, <2>7, <2>8, <2>9 DEF LWork
<1>7. ASSUME NEW d \in Loopers, NEW todo, NEW tick, Starts(d, todo, tick) PROVE Goal(c)
  <2> DEFINE l == [NotLooping EXCEPT !.pc = "next", !.todo = todo, !.tick = tick]
  <2>1. loop' = [loop EXCEPT ![d] = l] /\ l.base = NoTable /\ l.pc = "next"
    BY <1>4, <1>7 DEF Starts, NotLooping
  <2> HIDE DEF l
  <2>2. QED
    BY <1>3, <2>1
<1>8. ASSUME NEW d \in Loopers, WriteEvidence(d) PROVE Goal(c)
  <2> DEFINE l == [NotLooping EXCEPT !.pc   = "next",
                                     !.todo = loop[d].todo,
                                     !.tick = loop[d].tick]
  <2>1. loop' = [loop EXCEPT ![d] = l] /\ l.base = NoTable /\ l.pc = "next"
    BY <1>4, <1>8 DEF WriteEvidence, NotLooping
  <2> HIDE DEF l
  <2>2. QED
    BY <1>3, <2>1
<1>9. ASSUME NEW d \in Loopers, NEW j \in EventJobs, BeginChain(d, j) PROVE Goal(c)
  BY <1>1, <1>3, <1>5, <1>9 DEF BeginChain, Abort, Loop
<1>10. ASSUME NEW d \in Loopers, LoadToArm(d) PROVE Goal(c)
  <2> DEFINE l == [loop[d] EXCEPT !.pc = "loaded", !.base = disk, !.now = clock]
  <2>1. loop' = [loop EXCEPT ![d] = l] /\ l.base = disk /\ l.pc = "loaded"
    BY <1>1, <1>10 DEF LoadToArm, Loop
  <2> HIDE DEF l
  <2>2. QED
    BY <1>3, <2>1
<1>11. ASSUME NEW d \in Loopers, SaveArmed(d) PROVE Goal(c)
  <2> DEFINE l == [loop[d] EXCEPT !.pc = "armed", !.base = NoTable]
  <2>1. loop' = [loop EXCEPT ![d] = l] /\ l.base = NoTable
    BY <1>1, <1>11 DEF SaveArmed, Loop
  <2> HIDE DEF l
  <2>2. QED
    BY <1>3, <1>11, <2>1
<1>12. ASSUME NEW d \in Loopers, ChainTryLock(d) PROVE Goal(c)
  BY <1>1, <1>3, <1>12 DEF ChainTryLock, Loop
<1>13. ASSUME NEW d \in Loopers, Decide(d) \/ LimitReached(d) \/ Expire(d) PROVE Goal(c)
  BY <1>1, <1>3, <1>13 DEF Decide, LimitReached, Expire, Loop
<1>14. ASSUME NEW d \in Loopers, LoopStep(d) \/ LoopDies(d) PROVE Goal(c)
  BY <1>5, <1>8, <1>9, <1>10, <1>11, <1>12, <1>13, <1>14
  DEF LoopStep, EndLoop, JobGone, ChainSkips, LoopDies
<1>15. QED
  BY <1>2, <1>6, <1>7, <1>13, <1>14
  DEF LNext, loopVars, everyVar, StartTickLoop, StartRunLoop, Goal

\* The steps of loops and passes, by what they do to jobs.json, the passes
\* and what the user was told.
LEMMA LoopOrPassSteps ==
    ASSUME UInv, LoopOrPass
    PROVE  /\ cmd' = cmd /\ issued' = issued
           /\ \/ UNCHANGED <<disk, pass, cmdVars>> /\ \A j \in Jobs : ~Arming(j)
              \/ \E t \in Ticks, targets \in SUBSET Jobs :
                     TryLock(t, targets) /\ UNCHANGED cmdVars
              \/ \E t \in Ticks : PassWorks(t)
              \/ \E t \in Ticks : Fault(t) /\ UNCHANGED cmdVars
              \/ \E c \in Loopers : SaveArmed(c)
<1>1. /\ LInv /\ lost \in BOOLEAN /\ taken \in [Jobs -> OptInstant] /\ asked \subseteq Jobs
      /\ wish \in [Jobs -> Wishes] /\ OnePassAtATime /\ TypeInv
      /\ pass \in [Ticks -> Pass]
  BY DEF UInv, LInv, CTypeInv, CTypeOK, TypeInv, TypeOK
<1>2. [LNext]_everyVar /\ UNCHANGED <<cmd, issued>>
  BY DEF LoopOrPass
<1>3. SUFFICES ASSUME \A c \in Loopers : ~SaveArmed(c)
               PROVE  \/ UNCHANGED <<disk, pass, cmdVars>> /\ \A j \in Jobs : ~Arming(j)
                      \/ \E t \in Ticks, targets \in SUBSET Jobs :
                             TryLock(t, targets) /\ UNCHANGED cmdVars
                      \/ \E t \in Ticks : PassWorks(t)
                      \/ \E t \in Ticks : Fault(t) /\ UNCHANGED cmdVars
  BY <1>2
<1>4. \A j \in Jobs : ~Arming(j) /\ ~Requested(j)
  BY <1>1, <1>2, <1>3, LoopTables DEF Arming, Arms, Requested
<1>5. wish' = [j \in Jobs |->
                  IF wish[j] = "active" /\ \E t \in Ticks : LastRunSaved(t, j)
                  THEN "retired" ELSE wish[j]]
  BY <1>4 DEF LoopOrPass
<1>6. taken' = [j \in Jobs |->
                   IF \E t \in Ticks : j \in Claims(t)
                   THEN pass[CHOOSE t \in Ticks : j \in Claims(t)].now
                   ELSE taken[j]]
  BY <1>4 DEF LoopOrPass
<1>7. asked' = asked \ UNION {Claims(t) : t \in Ticks}
  BY DEF LoopOrPass
<1>8. ASSUME \A t \in Ticks : Claims(t) = {},
             \A t \in Ticks, j \in Jobs : ~LastRunSaved(t, j)
      PROVE  UNCHANGED <<cmd, issued, wish, taken, asked>>
  <2>1. taken' = taken
    BY <1>1, <1>6, <1>8
  <2>2. asked' = asked
    BY <1>7, <1>8
  <2>3. wish' = wish
    BY <1>1, <1>5, <1>8
  <2>4. QED
    BY <1>2, <2>1, <2>2, <2>3
<1>9. CASE UNCHANGED <<disk, pass>> /\ lost' = lost
  <2>1. \A t \in Ticks : Claims(t) = {} /\ \A j \in Jobs : ~LastRunSaved(t, j)
    BY <1>9 DEF Claims, LastRunSaved
  <2>2. QED
    BY <1>4, <1>8, <1>9, <2>1 DEF cmdVars
<1>10. ASSUME NEW t \in Ticks, NEW targets \in SUBSET Jobs, TryLock(t, targets), lost' = lost
       PROVE  TryLock(t, targets) /\ UNCHANGED cmdVars
  <2>1. \A u \in Ticks : Claims(u) = {} /\ \A j \in Jobs : ~LastRunSaved(u, j)
    BY <1>1, <1>10, OnePassTryLock DEF Claims, LastRunSaved
  <2>2. QED
    BY <1>8, <1>10, <2>1 DEF cmdVars
<1>11. ASSUME NEW t \in Ticks, Work(t) \/ Fault(t)
       PROVE  \A u \in Ticks \ {t} : Claims(u) = {} /\ \A j \in Jobs : ~LastRunSaved(u, j)
  BY <1>1, <1>11, HolderSteps DEF Claims, LastRunSaved
<1>12. ASSUME NEW t \in Ticks, LFault(t)
       PROVE  Fault(t) /\ UNCHANGED cmdVars
  <2>1. /\ Fault(t) /\ lost' = lost /\ Claims(t) = {}
        /\ \A j \in Jobs : ~LastRunSaved(t, j)
    BY <1>1, <1>12 DEF LFault, Fault, StoreFails, Kill, Leave, Idle, Claims, LastRunSaved
  <2>2. QED
    BY <1>8, <1>11, <2>1 DEF cmdVars
<1>13. ASSUME NEW t \in Ticks, LWork(t)
       PROVE  PassWorks(t)
  <2>1. Work(t)
    BY <1>13 DEF LWork, PassStarts, PassFinishes, PassFindsNothing, PassReturns, PassGoesOn, Work
  <2>2. LosesUpdate(t)
    <3>1. CASE PassGoesOn(t)
      BY <3>1 DEF PassGoesOn
    <3>2. CASE ~PassGoesOn(t)
      <4>1. lost' = lost /\ disk' = disk
        BY <1>13, <3>2 DEF LWork, PassStarts, PassFinishes, PassFindsNothing, PassReturns,
                           StartChunk, Finish, LoadNothingDue, Return
      <4>2. QED
        BY <1>1, <4>1 DEF LosesUpdate
    <3>3. QED
      BY <3>1, <3>2
  <2>3. ASSUME NEW j PROVE \A u \in Ticks : j \in Claims(u) <=> u = t /\ j \in Claims(t)
    BY <1>11, <2>1
  <2>4. ASSUME NEW j \in Claims(t) PROVE (CHOOSE u \in Ticks : j \in Claims(u)) = t
    BY <2>3
  <2>5. taken' = [j \in Jobs |-> IF j \in Claims(t) THEN pass[t].now ELSE taken[j]]
    BY <1>6, <2>3, <2>4
  <2>6. UNION {Claims(u) : u \in Ticks} = Claims(t)
    BY <2>3
  <2>7. wish' = [j \in Jobs |-> IF wish[j] = "active" /\ LastRunSaved(t, j)
                                THEN "retired" ELSE wish[j]]
    BY <1>5, <1>11, <2>1
  <2>8. QED
    BY <1>2, <1>7, <2>1, <2>2, <2>5, <2>6, <2>7 DEF PassWorks
<1>14. ASSUME NEW c \in Loopers, LoopStep(c)
       PROVE  /\ lost' = lost
              /\ UNCHANGED <<disk, pass>>
                 \/ \E targets \in SUBSET Jobs : TryLock(c, targets)
  <2>1. CASE EndLoop(c)
    BY <2>1 DEF EndLoop, vars
  <2>2. CASE ChainTryLock(c)
    BY <1>1, <2>2, Looping DEF ChainTryLock, ChainOK
  <2>3. CASE \/ \E j \in EventJobs : BeginChain(c, j)
             \/ LoadToArm(c) \/ JobGone(c) \/ ChainSkips(c) \/ Decide(c)
             \/ LimitReached(c) \/ WriteEvidence(c)
    BY <2>3 DEF BeginChain, LoadToArm, JobGone, ChainSkips, Decide, LimitReached,
                WriteEvidence, vars
  <2>4. QED
    BY <1>3, <1>14, <2>1, <2>2, <2>3 DEF LoopStep
<1>15. CASE SetClock /\ UNCHANGED loopVars
  BY <1>9, <1>15 DEF SetClock, loopVars
<1>16. ASSUME NEW c \in Loopers, 
              \/ StartTickLoop(c) \/ Expire(c) \/ LoopDies(c)
              \/ \E j \in EventJobs : StartRunLoop(c, j)
       PROVE  UNCHANGED <<disk, pass>> /\ lost' = lost
  BY <1>16 DEF StartTickLoop, StartRunLoop, Starts, Expire, LoopDies, vars
<1>17. ASSUME NEW t \in Tickers, TryLock(t, Jobs), UNCHANGED loopVars
       PROVE  t \in Ticks /\ lost' = lost
  BY <1>17 DEF Tickers, loopVars
<1>18. Loopers \subseteq Ticks /\ Jobs \in SUBSET Jobs /\ LNext
  BY LoopersAssumption DEF LoopOrPass
<1>19. QED
  BY <1>9, <1>10, <1>12, <1>13, <1>14, <1>15, <1>16, <1>17, <1>18 DEF LNext


-----------------------------------------------------------------------------
(* The save of a chain *)

LEMMA ArmedJob ==
    ASSUME UInv, LoopOrPass, NEW c \in Loopers, SaveArmed(c)
    PROVE  LET j == loop[c].job
           IN  /\ j \in Jobs /\ loop[c].base[j] # None /\ wish[j] # "unborn"
               /\ disk'[j] \in Job /\ disk'[j] # None
               /\ disk'[j].enabled /\ disk'[j].state = "scheduled"
               /\ \A k \in Jobs \ {j} : disk'[k] = loop[c].base[k]
               /\ lost' = (lost \/ disk # loop[c].base)
               /\ UNCHANGED <<pass, cmd, issued>>
               /\ wish'[j] \in {wish[j], "active"} /\ wish'[j] # "unborn"
               /\ taken'[j] = None
               /\ \A k \in Jobs \ {j} : wish'[k] = wish[k] /\ taken'[k] = taken[k]
               /\ wish' \in [Jobs -> Wishes] /\ taken' \in [Jobs -> OptInstant]
               /\ asked' \subseteq asked
               /\ Arming(j)
<1> DEFINE j == loop[c].job
<1>1. /\ LInv /\ loop \in [Loopers -> Loop] /\ wish \in [Jobs -> Wishes]
      /\ taken \in [Jobs -> OptInstant]
  BY DEF UInv, LInv, LTypeOK, CTypeInv, CTypeOK
<1>2. /\ loop[c].pc = "loaded" /\ loop[c].base \in Table /\ loop[c].now \in Instants
      /\ j \in Jobs /\ loop[c].base[j] # None
  BY <1>1, Looping DEF SaveArmed, ChainOK
<1>3. wish[j] # "unborn"
  BY <1>2 DEF UInv, LoadedOK
<1>4. loop[c].base[j] \in Job
  BY <1>2 DEF Table
<1>5. /\ disk'[j] = Armed(loop[c].base[j], loop[c].now)
      /\ \A k \in Jobs \ {j} : disk'[k] = loop[c].base[k]
  BY <1>2 DEF SaveArmed, Table
<1>6. /\ disk'[j] \in Job /\ disk'[j] # None
      /\ disk'[j].enabled /\ disk'[j].state = "scheduled"
  BY <1>2, <1>4, <1>5, ArmedFields, NoneIsNoJob
<1>7. /\ lost' = (lost \/ disk # loop[c].base)
      /\ UNCHANGED <<pass, cmd, issued>>
  BY DEF SaveArmed, Overwrites, LoopOrPass
<1>8. \A d \in Loopers : d # c => loop'[d] = loop[d]
  BY <1>1 DEF SaveArmed
<1>9. loop'[c].pc = "armed"
  BY <1>1 DEF SaveArmed, Loop
<1>10. Arms(c, j)
  BY <1>2, <1>9 DEF Arms
<1>11. \A d \in Loopers : \A k : Arms(d, k) => d = c /\ k = j
  BY <1>8 DEF Arms
<1>12. \A k \in Jobs : (Arming(k) <=> k = j) /\ (Requested(k) => k = j)
  BY <1>10, <1>11 DEF Arming, Requested
<1>13. \A t \in Ticks : Claims(t) = {}
  BY <1>7 DEF Claims
<1>14. wish' = [k \in Jobs |-> IF Requested(k) THEN "active" ELSE wish[k]]
  <2>1. \A t \in Ticks, k \in Jobs : ~LastRunSaved(t, k)
    BY <1>7 DEF LastRunSaved
  <2>2. QED
    BY <2>1 DEF LoopOrPass
<1>15. taken' = [k \in Jobs |-> IF k = j THEN None ELSE taken[k]]
  <2>1. taken' = [k \in Jobs |->
           IF Arming(k) THEN None
           ELSE IF \E t \in Ticks : k \in Claims(t)
                THEN pass[CHOOSE t \in Ticks : k \in Claims(t)].now
                ELSE taken[k]]
    BY DEF LoopOrPass
  <2>2. QED
    BY <1>12, <1>13, <2>1
<1>16. asked' \subseteq asked
  BY DEF LoopOrPass
<1>17. /\ wish'[j] \in {wish[j], "active"}
       /\ \A k \in Jobs \ {j} : wish'[k] = wish[k]
       /\ wish' \in [Jobs -> Wishes]
  BY <1>1, <1>2, <1>12, <1>14 DEF Wishes
<1>18. /\ taken'[j] = None
       /\ \A k \in Jobs \ {j} : taken'[k] = taken[k]
       /\ taken' \in [Jobs -> OptInstant]
  BY <1>1, <1>2, <1>15 DEF OptInstant
<1>19. QED
  BY <1>2, <1>3, <1>5, <1>6, <1>7, <1>12, <1>16, <1>17, <1>18

\* The chain makes its job run whatever the table says of it: the job is not
\* held, and says so.
LEMMA ArmedAgrees ==
    ASSUME UInv, LoopOrPass, NEW c \in Loopers, SaveArmed(c)
    PROVE  AgreeInv'
<1>1. PICK j \in Jobs :
           /\ disk'[j].enabled /\ disk'[j].state = "scheduled"
           /\ \A k \in Jobs \ {j} : disk'[k] = loop[c].base[k]
           /\ UNCHANGED <<pass, cmd>>
  BY ArmedJob
<1>2. AgreeInv /\ Agreed(loop[c].base)
  BY DEF UInv, LoadedOK
<1>3. Agreed(disk')
  BY <1>1, <1>2 DEF Agreed, Agrees
<1>4. QED
  BY <1>1, <1>2, <1>3 DEF AgreeInv, Snapshots

\* The slot of the job is armed again, and those of the others stay.
LEMMA ArmedRefires ==
    ASSUME UInv, LoopOrPass, NEW c \in Loopers, SaveArmed(c)
    PROVE  RefireInv'
<1>1. PICK j \in Jobs :
           /\ wish[j] # "unborn" /\ wish'[j] # "unborn" /\ taken'[j] = None
           /\ \A k \in Jobs \ {j} : /\ disk'[k] = loop[c].base[k]
                                    /\ wish'[k] = wish[k] /\ taken'[k] = taken[k]
           /\ lost' = (lost \/ disk # loop[c].base)
           /\ UNCHANGED <<pass, cmd>>
  BY ArmedJob
<1>2. RefireInv /\ BirthInv /\ LoadedOK(c) /\ CTypeInv
  BY DEF UInv, RefireInv
<1>3. ASSUME NEW k \in Jobs PROVE UnbornOK(k)'
  BY <1>1, <1>2 DEF BirthInv, UnbornOK, LoadedOK
<1>4. ASSUME NEW d \in Cmds PROVE AddOK(d)'
  BY <1>1, <1>2 DEF BirthInv, AddOK, CTypeInv, CmdOK
<1>5. \A k \in Jobs : taken'[k] = taken[k] \/ taken'[k] = None
  BY <1>1
<1>6. \A t \in Ticks : TakenAhead(t)' /\ (LoadedUntaken(t) => LoadedUntaken(t)')
  BY <1>1, <1>2, <1>5 DEF RefireInv, TakenAhead, LoadedUntaken, Untaken, Snapshots
<1>7. ASSUME ~lost' PROVE DiskUntaken'
  <2>1. disk = loop[c].base /\ DiskUntaken
    BY <1>1, <1>2, <1>7 DEF RefireInv
  <2>2. ASSUME NEW k \in Jobs, disk'[k] # None, disk'[k].next_run_at # None
        PROVE  Untaken(taken'[k], disk'[k].next_run_at)
    BY <1>1, <2>1, <2>2 DEF DiskUntaken, Untaken
  <2>3. QED
    BY <2>2 DEF DiskUntaken
<1>8. QED
  BY <1>1, <1>2, <1>3, <1>4, <1>6, <1>7 DEF RefireInv, BirthInv

-----------------------------------------------------------------------------
(* The invariant *)

LEMMA LoopKeepsTypes ==
    ASSUME UInv, LoopOrPass, LInv'
    PROVE  CTypeInv'
<1>1. TypeInv' /\ cmd' = cmd /\ issued' = issued /\ lost' \in BOOLEAN
  BY LoopOrPassSteps DEF LInv, LTypeOK
<1>2. /\ wish' \in [Jobs -> Wishes] /\ taken' \in [Jobs -> OptInstant]
      /\ asked' \subseteq Jobs
  <2>1. ASSUME NEW c \in Loopers, SaveArmed(c)
        PROVE  /\ wish' \in [Jobs -> Wishes] /\ taken' \in [Jobs -> OptInstant]
               /\ asked' \subseteq asked
    BY <2>1, ArmedJob
  <2>2. CASE UNCHANGED cmdVars
    BY <2>2 DEF cmdVars, UInv, CTypeInv, CTypeOK
  <2>3. ASSUME NEW t \in Ticks, PassWorks(t)
        PROVE  /\ wish' \in [Jobs -> Wishes] /\ taken' \in [Jobs -> OptInstant]
               /\ asked' \subseteq Jobs
    BY <2>3, PassWorksTypes DEF UInv, CTypeInv, CTypeOK
  <2>4. asked \subseteq Jobs
    BY DEF UInv, CTypeInv, CTypeOK
  <2>5. QED
    BY <2>1, <2>2, <2>3, <2>4, LoopOrPassSteps
<1>3. \A c \in Cmds : CmdOK(c)'
  BY <1>1 DEF UInv, CTypeInv, CmdOK
<1>4. QED
  BY <1>1, <1>2, <1>3 DEF UInv, CTypeInv, CTypeOK, TypeInv

LEMMA LoopOrPassInductive ==
    ASSUME UInv, LoopOrPass
    PROVE  UInv'
<1>1. LInv' /\ CTypeInv'
  BY LoopInductive, LoopKeepsTypes DEF UInv, LoopOrPass
<1>2. CTypeInv /\ OnePassAtATime /\ AgreeInv /\ RefireInv
  BY DEF UInv, LInv
<1>3. AgreeInv'
  <2>1. CASE UNCHANGED <<disk, pass, cmdVars>>
    BY <1>2, <2>1 DEF AgreeInv, Snapshots, cmdVars
  <2>2. QED
    BY <1>2, <2>1, AgreeTryLock, AgreePass, ArmedAgrees, LoopOrPassSteps DEF PassWorks
<1>4. RefireInv'
  <2>1. CASE UNCHANGED <<disk, pass, cmdVars>>
    BY <1>2, <2>1, RefireApart DEF cmdVars
  <2>2. ASSUME NEW t \in Ticks, NEW targets \in SUBSET Jobs, TryLock(t, targets),
               UNCHANGED cmdVars
        PROVE  RefireInv'
    BY <1>2, <2>2, RefireApart, OnePassTryLock DEF CTypeInv, cmdVars
  <2>3. QED
    BY <1>2, <2>1, <2>2, RefireFault, RefireWork, ArmedRefires, LoopOrPassSteps
<1>5. ASSUME NEW c \in Loopers PROVE LoadedOK(c)'
  <2>1. loop'[c].base \in {loop[c].base, disk, NoTable}
    BY LoopTables DEF UInv, LoopOrPass
  <2>2. ASSUME NEW j \in Jobs, wish'[j] = "unborn" PROVE wish[j] = "unborn"
    <3>1. ASSUME NEW d \in Loopers, SaveArmed(d) PROVE wish[j] = "unborn"
      BY <2>2, <3>1, ArmedJob
    <3>2. QED
      BY <2>2, <3>1, LoopOrPassSteps DEF cmdVars, PassWorks
  <2>3. /\ \A j \in Jobs : wish[j] = "unborn" => disk[j] = None /\ loop[c].base[j] = None
        /\ Agreed(disk) /\ Agreed(loop[c].base)
    BY DEF UInv, LoadedOK, AgreeInv, RefireInv, BirthInv, UnbornOK
  <2>4. QED
    BY <2>1, <2>2, <2>3, NoTableAgrees DEF LoadedOK, NoTable
<1>6. QED
  BY <1>1, <1>3, <1>4, <1>5 DEF UInv

\* A command is none of the loops' business, but for what it saves.
LEMMA CommandStepInductive ==
    ASSUME UInv, CommandStep
    PROVE  UInv'
<1>1. CTypeInv /\ OnePassAtATime /\ AgreeInv /\ RefireInv /\ LInv
  BY DEF UInv, LInv
<1>2. CNext /\ UNCHANGED <<loop, file, evidence, chains, ran>>
  BY DEF CommandStep, CNext
<1>3. CTypeInv' /\ OnePassAtATime' /\ AgreeInv' /\ RefireInv'
  BY <1>1, <1>2, CTypeInductive, CommandsOnePass, AgreeInductive, RefireInductive
<1>4. ASSUME NEW c \in Loopers PROVE pass'[c] = pass[c]
  <2>1. c \in Ticks /\ c \notin Cmds
    BY LoopersAssumption, ProcessesAssumption
  <2>2. ASSUME NEW d \in Cmds, RunTryLock(d) PROVE pass'[c] = pass[c]
    BY <1>1, <2>1, <2>2 DEF RunTryLock, TryLock, CTypeInv, TypeInv, TypeOK
  <2>3. QED
    BY <2>2 DEF CommandStep, LoadAdd, LoadChange, Loaded, Save, RunSkips, CommandDies, vars
<1>5. LInv'
  BY <1>1, <1>2, <1>3, <1>4 DEF LInv, LTypeOK, CTypeInv, CTypeOK, TypeInv
<1>6. ASSUME NEW c \in Loopers PROVE LoadedOK(c)'
  <2>1. ASSUME NEW j \in Jobs, wish'[j] = "unborn" PROVE wish[j] = "unborn"
    <3>1. ASSUME NEW d \in Cmds, Save(d) PROVE wish[j] = "unborn"
      BY <1>1, <2>1, <3>1, SavedCommand DEF WishAfter, AllOps
    <3>2. QED
      BY <2>1, <3>1 DEF CommandStep, LoadAdd, LoadChange, RunTryLock, RunSkips, CommandDies
  <2>2. QED
    BY <1>2, <2>1 DEF UInv, LoadedOK
<1>7. QED
  BY <1>3, <1>5, <1>6 DEF UInv

LEMMA UInvInit == UInit => UInv
<1> SUFFICES ASSUME UInit PROVE UInv
  OBVIOUS
<1>1. /\ CInit
      /\ loop = [c \in Loopers |-> NotLooping] /\ ran = [c \in Loopers |-> 0]
  BY DEF UInit
<1>2. CTypeInv /\ AgreeInv /\ RefireInv
  BY <1>1, CTypeInit, AgreeInit, RefireInit
<1>3. OnePassAtATime
  BY <1>1, TicksAssumption DEF CInit, Idle, OnePassAtATime
<1>4. LTypeOK
  <2>1. loop \in [Loopers -> Loop] /\ ran \in [Loopers -> Nat] /\ chains \in 0..MaxChains
    BY <1>1, NotLoopingOK, BoundsAssumption DEF UInit
  <2>2. QED
    BY <1>2, <2>1 DEF UInit, LTypeOK, CTypeInv, CTypeOK
<1>5. \A c \in Loopers : ChainOK(loop[c], pass[c], ran[c])
  BY <1>1, NotLoopingOK
<1>6. \A c \in Loopers : LoadedOK(c)
  BY <1>1, NoTableAgrees DEF LoadedOK, NotLooping, NoTable
<1>7. QED
  BY <1>2, <1>3, <1>4, <1>5, <1>6 DEF UInv, LInv, CTypeInv

LEMMA UserAndLoopsAlways == USpec => []UInv
<1>1. ASSUME UInv, [UNext]_systemVars PROVE UInv'
  <2>1. CASE UNCHANGED systemVars
    <3>1. UNCHANGED everyVar /\ UNCHANGED allVars /\ UNCHANGED <<loop, wish>>
      BY <2>1 DEF systemVars, everyVar, userVars, loopVars, allVars, cmdVars
    <3>2. CTypeInv /\ OnePassAtATime /\ AgreeInv /\ RefireInv /\ LInv
      BY <1>1 DEF UInv, LInv
    <3>3. LInv' /\ CTypeInv' /\ AgreeInv' /\ RefireInv'
      BY <3>1, <3>2, LoopInductive, CTypeInductive, AgreeInductive, RefireInductive
    <3>4. QED
      BY <1>1, <3>1, <3>3 DEF UInv, LoadedOK
  <2>2. QED
    BY <1>1, <2>1, LoopOrPassInductive, CommandStepInductive DEF UNext
<1>2. QED
  BY <1>1, UInvInit, PTL DEF USpec


-----------------------------------------------------------------------------
(* The theorems *)

\* The saves of a pass over the table it has read: no job appears or changes
\* sides, and the jobs that go are those whose last run it has made.
LEMMA FreshSaves ==
    ASSUME CTypeInv, AgreeInv, NEW t \in Ticks, FreshAt(t),
           SaveAdvanced(t) \/ SaveOutcomes(t), NEW j \in Jobs
    PROVE  /\ disk'[j] # None => disk[j] # None /\ disk'[j].enabled = disk[j].enabled
           /\ disk[j] # None /\ ~disk[j].enabled => disk'[j] # None
           /\ disk[j] # None /\ disk'[j] = None => LastRunSaved(t, j)
<1>1. TypeInv /\ disk \in Table /\ pass \in [Ticks -> Pass] /\ PassOK(pass[t])
  BY DEF CTypeInv, TypeInv, TypeOK
<1>2. CASE SaveAdvanced(t)
  <2>1. pass[t].pc = "advanced" /\ disk' = pass[t].jobs
    BY <1>2 DEF SaveAdvanced
  <2>2. ASSUME disk[j] # None PROVE disk'[j] # None
    <3>1. CASE j \in Snapshots(t)
      BY <1>1, <2>1, <3>1 DEF PassOK, Snapshots
    <3>2. CASE j \notin Snapshots(t)
      BY <1>1, <2>1, <2>2, <3>2, RecoveredType DEF FreshAt
    <3>3. QED
      BY <3>1, <3>2
  <2>3. QED
    BY <1>1, <1>2, <2>2, SavedByAdvance
<1>3. CASE SaveOutcomes(t)
  <2>1. /\ disk = pass[t].jobs
        /\ pass[t].pc = "running" /\ pass'[t].pc = "delivering"
    BY <1>1, <1>3 DEF SaveOutcomes, AllJoined, FreshAt, Pass
  <2>2. ASSUME j \notin Snapshots(t) PROVE disk'[j] = disk[j]
    BY <1>3, <2>1, <2>2 DEF SaveOutcomes
  <2>3. ASSUME disk[j] # None, ~disk[j].enabled PROVE j \notin Snapshots(t)
    BY <2>1, <2>3 DEF AgreeInv, Agreed, Agrees
  <2>4. ASSUME disk[j] # None, disk'[j] = None PROVE LastRunSaved(t, j)
    BY <2>1, <2>2, <2>4 DEF LastRunSaved
  <2>5. QED
    BY <1>1, <1>3, <2>2, <2>3, <2>4, SavedByOutcomes
<1>4. QED
  BY <1>2, <1>3

LEMMA WordPass ==
    ASSUME CTypeInv, AgreeInv, NEW t \in Ticks, PassWorks(t), ~lost',
           NEW j \in Jobs, KeepsWish(j)
    PROVE  KeepsWish(j)'
<1>1. /\ wish[j] \in Wishes /\ AsTold(wish[j], disk[j])
      /\ wish'[j] = IF wish[j] = "active" /\ LastRunSaved(t, j) THEN "retired" ELSE wish[j]
      /\ disk' = disk \/ FreshAt(t)
  BY DEF PassWorks, LosesUpdate, CTypeInv, CTypeOK, KeepsWish
<1>2. SaveAdvanced(t) \/ SaveOutcomes(t) \/ disk' = disk
  BY OtherStepsKeepDisk DEF PassWorks
<1>3. CASE wish[j] = "active" /\ LastRunSaved(t, j)
  BY <1>1, <1>3 DEF LastRunSaved, KeepsWish, AsTold
<1>4. CASE ~(wish[j] = "active" /\ LastRunSaved(t, j))
  <2>1. wish'[j] = wish[j]
    BY <1>1, <1>4
  <2>2. CASE disk' = disk
    BY <1>1, <2>1, <2>2 DEF KeepsWish
  <2>3. CASE disk' # disk
    <3>1. /\ disk'[j] # None => disk[j] # None /\ disk'[j].enabled = disk[j].enabled
          /\ disk[j] # None /\ ~disk[j].enabled => disk'[j] # None
          /\ disk[j] # None /\ disk'[j] = None => LastRunSaved(t, j)
      BY <1>1, <1>2, <2>3, FreshSaves
    <3>2. disk'[j] = None <=> disk[j] = None
      BY <1>1, <1>4, <3>1 DEF AsTold, Wishes
    <3>3. QED
      BY <1>1, <2>1, <3>1, <3>2, WordMoves DEF KeepsWish
  <2>4. QED
    BY <2>2, <2>3
<1>5. QED
  BY <1>3, <1>4

LEMMA WordSave ==
    ASSUME CTypeInv, NEW c \in Cmds, Save(c), ~lost', NEW k \in Jobs, KeepsWish(k)
    PROVE  KeepsWish(k)'
<1> DEFINE op == cmd[c].op
           j  == cmd[c].target
<1>1. /\ op \in AllOps /\ j \in Jobs /\ disk = cmd[c].base
      /\ \A i \in Jobs \ {j} : disk'[i] = cmd[c].base[i] /\ wish'[i] = wish[i]
      /\ Told(op, cmd[c].base[j], disk'[j])
      /\ wish'[j] = WishAfter(op, wish[j])
      /\ wish \in [Jobs -> Wishes]
  BY SavedCommand DEF CTypeInv, CTypeOK
<1>2. CASE k # j
  BY <1>1, <1>2 DEF KeepsWish
<1>3. CASE k = j /\ op \in {"edit", "edit_schedule"}
  <2>1. wish'[j] = wish[j] /\ disk[j] # None /\ disk'[j] # None
        /\ disk'[j].enabled = disk[j].enabled
    BY <1>1, <1>3 DEF Told, WishAfter
  <2>2. QED
    BY <1>1, <1>3, <2>1, WordMoves DEF KeepsWish
<1>4. CASE k = j /\ op \notin {"edit", "edit_schedule"}
  BY <1>1, <1>4 DEF KeepsWish, AsTold, Told, WishAfter, AllOps
<1>5. QED
  BY <1>1, <1>2, <1>3, <1>4

\* What a step does to what the user was last told of job j.
LEMMA WordStep ==
    ASSUME UInv, [UNext]_systemVars, NEW j \in Jobs, KeepsWish(j), ~lost'
    PROVE  KeepsWish(j)' \/ (wish[j] = "paused" /\ Arming(j))
<1>1. CTypeInv /\ AgreeInv /\ wish[j] \in Wishes
  BY DEF UInv, CTypeInv, CTypeOK
<1>2. ASSUME UNCHANGED <<disk, wish>> PROVE KeepsWish(j)'
  BY <1>2 DEF KeepsWish
<1>3. ASSUME NEW c \in Loopers, LoopOrPass, SaveArmed(c)
      PROVE  KeepsWish(j)' \/ (wish[j] = "paused" /\ Arming(j))
  <2> DEFINE job == loop[c].job
  <2>0. disk = loop[c].base
    BY <1>3, ArmedJob
  <2>1. /\ job \in Jobs /\ disk[job] # None
        /\ \A k \in Jobs \ {job} : disk'[k] = disk[k] /\ wish'[k] = wish[k]
        /\ disk'[job] # None /\ disk'[job].enabled
        /\ wish'[job] \in {wish[job], "active"} /\ Arming(job)
    BY <1>3, <2>0, ArmedJob
  <2>2. CASE j # job
    BY <2>0, <2>1, <2>2 DEF KeepsWish
  <2>3. CASE j = job
    <3>1. wish[j] \in {"active", "paused"}
      BY <1>1, <2>1, <2>3 DEF KeepsWish, AsTold, Wishes
    <3>2. CASE wish[j] = "active"
      BY <2>1, <2>3, <3>2 DEF KeepsWish, AsTold
    <3>3. QED
      BY <2>1, <2>3, <3>1, <3>2
  <2>4. QED
    BY <2>2, <2>3
<1>4. CASE LoopOrPass
  <2>1. ASSUME NEW t \in Ticks, NEW targets, TryLock(t, targets), UNCHANGED cmdVars
        PROVE  UNCHANGED <<disk, wish>>
    BY <2>1 DEF TryLock, cmdVars
  <2>2. ASSUME NEW t \in Ticks, Fault(t), UNCHANGED cmdVars
        PROVE  UNCHANGED <<disk, wish>>
    BY <2>2 DEF Fault, StoreFails, Kill, cmdVars
  <2>3. QED
    BY <1>1, <1>2, <1>3, <1>4, <2>1, <2>2, WordPass, LoopOrPassSteps DEF cmdVars
<1>5. CASE CommandStep
  BY <1>1, <1>2, <1>5, WordSave
  DEF CommandStep, LoadAdd, LoadChange, Loaded, RunTryLock, TryLock, RunSkips, CommandDies,
      vars
<1>6. CASE UNCHANGED systemVars
  BY <1>2, <1>6 DEF systemVars, everyVar, userVars, vars
<1>7. QED
  BY <1>4, <1>5, <1>6 DEF UNext

\* What the user was last told of a job stands against any number of chains,
\* passes and other commands, but for a save over a change it had not read,
\* and for a job that was paused when a chain of it was under way.
THEOREM OnlyItsChainUndoesAWord == USpec => UndoneByItsChainOnly
<1>1. ASSUME UInv, [UNext]_systemVars
      PROVE  \A j \in Jobs : KeepsWish(j) /\ ~KeepsWish(j)' =>
                 lost' \/ (wish[j] = "paused" /\ Arming(j))
  BY <1>1, WordStep
<1>2. UInv /\ [UNext]_systemVars =>
          [\A j \in Jobs : KeepsWish(j) /\ ~KeepsWish(j)' =>
               lost' \/ (wish[j] = "paused" /\ Arming(j))]_systemVars
  BY <1>1
<1>3. QED
  BY <1>2, UserAndLoopsAlways, PTL DEF USpec, UndoneByItsChainOnly

\* At most once, between any number of commands and chains: a slot is only
\* taken again when a command or a chain has armed it, or when a save has
\* overwritten a change it had not read.
THEOREM ArmedAgainOrLost == USpec => NoSlotTwiceUnlessLost
<1>1. ASSUME UInv, NEW t \in Ticks, NEW j \in Jobs, TakesOldSlot(t, j) PROVE lost
  <2>1. /\ pass[t].pc = "advanced" /\ j \in Snapshots(t)
        /\ taken[j] # None /\ pass[t].slot[j] <= taken[j]
    BY <1>1 DEF TakesOldSlot, Claims
  <2>2. pass[t].slot[j] \in Nat /\ taken[j] \in Nat
    BY <1>1, <2>1
    DEF UInv, Snapshots, CTypeInv, CTypeOK, TypeInv, TypeOK, Pass, OptInstant
  <2>3. ~lost => pass[t].slot[j] > taken[j]
    BY <1>1, <2>1 DEF UInv, RefireInv, LoadedUntaken, Untaken
  <2>4. QED
    BY <2>1, <2>2, <2>3
<1>2. UInv => \A t \in Ticks, j \in Jobs : TakesOldSlot(t, j) => lost
  BY <1>1
<1>3. QED
  BY <1>2, UserAndLoopsAlways, PTL DEF USpec, NoSlotTwiceUnlessLost


-----------------------------------------------------------------------------
(* What each part promises by itself, it keeps next to the other.          *)

\* Chains arm their jobs, commands hold and release them, passes recover
\* them: whoever saves last, a job is paused exactly when it is disabled.
THEOREM HeldJobsSaySoInChains == USpec => []PausedIffDisabled
BY AgreeOnDisk, UserAndLoopsAlways, PTL DEF UInv

\* Edits, removals and runs of the user in the middle of a chain do not make
\* it longer, ...
THEOREM ChainsStayBounded == USpec => []ChainIsBounded
BY LoopBounds, UserAndLoopsAlways, PTL DEF UInv

\* ... nor change what it reports, ...
THEOREM EvidenceStaysTheCount == USpec => []EvidenceCountsRuns
BY LoopCounts, UserAndLoopsAlways, PTL DEF UInv

\* ... nor what it goes on for.
THEOREM ChainsStillListen == USpec => []ContinuesOnItsWord
BY LoopListens, UserAndLoopsAlways, PTL DEF UInv

=============================================================================
