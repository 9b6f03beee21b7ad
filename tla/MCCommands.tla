----------------------------- MODULE MCCommands -----------------------------
(* Values of the constants of Commands and LastWord for TLC. *)
EXTENDS LastWord

\* Every instant; once at instant 1.  No cron: the runs of Tick have it.
MCEveryInstant == { [kind |-> "interval", minutes |-> 1] }
MCOnce         == { [kind |-> "once", run_at |-> 1] }
MCEveryOrOnce  == MCEveryInstant \cup MCOnce

MCOccurrence(expr, after) == None

\* The processes between a load and a save.
UnderWay == {w \in Ticks : pass[w].pc # "idle" \/ (w \in Cmds /\ cmd[w].pc # "idle")}

\* All but the histories that no property of Commands reads, and of heard what
\* a step can read: a process that is not under way reads jobs.json again first.
Seen == <<clock, disk, lock, pass, faults, cmdVars, overrun,
          [j \in Jobs |-> heard[j] \cap UnderWay]>>

=============================================================================
