---------------------------- MODULE UserAndLoops ----------------------------
(***************************************************************************)
(* The commands of a user (module Commands) while event loops are under    *)
(* way (module EventLoop): both change jobs.json without the tick lock,    *)
(* next to the passes of both.  A chain enables and arms its job before    *)
(* each of its iterations, whatever the user has said of it meanwhile.     *)
(***************************************************************************)
EXTENDS Commands, EventLoop

ASSUME ProcessesAssumption == Cmds \cap Loopers = {}

userVars == <<cmd, issued, wish, taken, asked>>
systemVars == <<everyVar, userVars>>

\* Jobs may be there or may yet be added; nobody makes an event loop.
UInit ==
    /\ CInit
    /\ loop = [c \in Loopers |-> NotLooping]
    /\ file = [j \in Jobs |-> None]
    /\ evidence = [j \in Jobs |-> None]
    /\ chains = 0
    /\ ran = [c \in Loopers |-> 0]

-----------------------------------------------------------------------------
(* What a step of a loop or a pass is to the user *)

\* Chain c saves job j armed.
Arms(c, j) ==
    loop[c].job = j /\ loop[c].pc = "loaded" /\ loop'[c].pc = "armed"

Arming(j) == \E c \in Loopers : Arms(c, j)

\* `run-loop <id>` is a word about the job, as `run <id>` is, when it arms it.
Requested(j) ==
    \E c \in Loopers : Arms(c, j) /\ ~loop[c].tick /\ loop[c].iterations = 0

\* A process in the middle of a command makes no pass.
MakesNoPass(c) == cmd[c].pc # "idle" => pass'[c] = pass[c]

LoopOrPass ==
    /\ LNext
    /\ \A c \in Cmds : MakesNoPass(c)
    /\ wish' = [j \in Jobs |->
           IF Requested(j) THEN "active"
           ELSE IF wish[j] = "active" /\ \E t \in Ticks : LastRunSaved(t, j) THEN "retired"
           ELSE wish[j]]
    /\ taken' = [j \in Jobs |->
           IF Arming(j) THEN None
           ELSE IF \E t \in Ticks : j \in Claims(t)
                THEN pass[CHOOSE t \in Ticks : j \in Claims(t)].now
                ELSE taken[j]]
    /\ asked' = asked \ UNION {Claims(t) : t \in Ticks}
    /\ UNCHANGED <<cmd, issued>>

CommandStep ==
    /\ \/ \E c \in Cmds, j \in Jobs : LoadAdd(c, j)
       \/ \E c \in Cmds, op \in AllOps, j \in Jobs : LoadChange(c, op, j)
       \/ \E c \in Cmds : \/ Save(c)
                          \/ RunTryLock(c)
                          \/ RunSkips(c)
                          \/ CommandDies(c)
    /\ UNCHANGED <<loop, file, evidence, chains, ran>>

UNext == LoopOrPass \/ CommandStep

USpec == UInit /\ [][UNext]_systemVars

-----------------------------------------------------------------------------
(* Properties *)

\* A pass that loads the table now takes a slot of job j.
Selects(t, j) ==
    pass[t].pc = "locked" /\ pass'[t].pc = "advanced" /\ pass'[t].slot[j] # None

\* "Pause a job (kept, never fires until resumed)": no pass that begins after
\* the pause selects the job, but for a save over a change it had not read.
PausedIsNotSelected ==
    [][\A t \in Ticks, j \in Jobs :
           Selects(t, j) /\ wish[j] = "paused" => lost]_systemVars

\* What the user was last told stands, in the middle of a chain too, with two
\* exceptions: a save over a change it had not read, and the chain of a paused
\* job that was under way.  A job that was removed, or has retired, stays gone,
\* and one that was added stays until then.
UndoneByItsChainOnly ==
    [][\A j \in Jobs : KeepsWish(j) /\ ~KeepsWish(j)' =>
           lost' \/ (wish[j] = "paused" /\ Arming(j))]_systemVars

\* At most once, between commands and chains: no pass takes a slot for the
\* second time that neither a command nor a chain has armed again, unless a
\* save has overwritten a change it had not read.
NoSlotTwiceUnlessLost ==
    [][\A t \in Ticks, j \in Jobs : TakesOldSlot(t, j) => lost]_systemVars

=============================================================================
