---------------------------- MODULE MCEventLoop ----------------------------
(* Values of the constants of EventLoop for TLC. *)
EXTENDS EventLoop

\* Every instant.
MCEveryInstant == { [kind |-> "interval", minutes |-> 1] }

MCOccurrence(expr, after) == None

\* A pinned goal, read from the output; a decision file, no goal.
MCPolicies == { [file |-> FALSE, goal |-> TRUE], [file |-> TRUE, goal |-> FALSE] }

MCDecisions == { [action |-> "continue", onGoal |-> TRUE],
                 [action |-> "continue", onGoal |-> FALSE] }

\* What a step can read, and the histories: of the firings only how many had
\* their outcome saved, which is all that is asked of them; latest.json is never
\* read back.
Seen == <<clock, disk, lock, pass, faults, settled,
          loop, file, chains, ran, lost>>

=============================================================================
