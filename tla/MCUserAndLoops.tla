--------------------------- MODULE MCUserAndLoops ---------------------------
(* Values of the constants of UserAndLoops for TLC. *)
EXTENDS UserAndLoops

\* Every instant.
MCEveryInstant == { [kind |-> "interval", minutes |-> 1] }

MCOccurrence(expr, after) == None

\* No goal, no decision file.
MCPrinted == { [file |-> FALSE, goal |-> FALSE] }

MCOnGoal == { [action |-> "continue", onGoal |-> TRUE] }

\* All that a step can read and the histories of the properties.
Seen == <<clock, disk, lock, pass, faults, loop, chains, lost,
          cmd, issued, wish, taken>>

=============================================================================
