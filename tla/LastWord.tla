------------------------------ MODULE LastWord ------------------------------
(***************************************************************************)
(* What becomes of what the user was told.  The commands take no lock, so  *)
(* a save may undo a word the user was given before it: a pause, a resume, *)
(* a run, an added or a removed job.  Two histories on top of module       *)
(* Commands tell the saves that may from the saves that may not: who has   *)
(* read jobs.json since the last word about each job, and which jobs were  *)
(* saved since by a writer that had not.                                   *)
(***************************************************************************)
EXTENDS Commands

VARIABLES
    heard,      \* per job, the processes that have read jobs.json since the
                \* last word about it
    overrun     \* the jobs saved, since the last word about them, by a process
                \* that had read jobs.json before it

wordVars == <<heard, overrun>>
everVars == <<allVars, wordVars>>

-----------------------------------------------------------------------------
(* What a step is to the last words *)

\* Process w loads jobs.json to change it.
Reads(w) ==
    \/ w \in Cmds /\ cmd[w].pc = "idle" /\ cmd'[w].pc = "loaded"
    \/ pass[w].pc = "locked" /\ pass'[w].pc = "advanced"

\* Process w replaces jobs.json.
Saves(w) ==
    \/ w \in Cmds /\ Save(w)
    \/ SaveAdvanced(w)
    \/ SaveOutcomes(w)

\* The jobs a step says something about: a command other than an edit, or the
\* save that retires a job.
Words ==
    {cmd[c].target : c \in {d \in Cmds : Save(d) /\ cmd[d].op \notin {"edit", "edit_schedule"}}}
    \cup {j \in Jobs : wish[j] # wish'[j]}

Remembers ==
    /\ heard' = [j \in Jobs |->
           IF j \in Words THEN {} ELSE heard[j] \cup {w \in Ticks : Reads(w)}]
    /\ overrun' = {j \in Jobs \ Words :
           j \in overrun \/ \E w \in Ticks : Saves(w) /\ w \notin heard[j]}

WInit ==
    /\ CInit
    /\ heard = [j \in Jobs |-> {}]
    /\ overrun = {}

WNext == CNext /\ Remembers

WSpec == WInit /\ [][WNext]_everVars /\ CFairness

-----------------------------------------------------------------------------
(* Properties *)

WTypeOK ==
    /\ CTypeOK
    /\ heard \in [Jobs -> SUBSET Ticks]
    /\ overrun \subseteq Jobs

\* A pause, a resume, a run, an added or a removed job stands, whatever other
\* commands and passes do, but for one way to undo it: a save by a process that
\* had read jobs.json before the word was given.  A job that was added is there
\* until it is removed or retires, and does not come back after that.
LastWordStands == \A j \in Jobs : KeepsWish(j) \/ j \in overrun

=============================================================================
