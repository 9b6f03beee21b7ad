------------------------------- MODULE MCTick -------------------------------
(* Values of the constants of Tick for TLC. *)
EXTENDS Tick

CONSTANTS odd       \* a cron expression that matches the odd instants

\* A schedule of each kind: every second instant, the odd instants, instant 1.
MCSchedules ==
    { [kind |-> "interval", minutes |-> 2],
      [kind |-> "cron", expr |-> odd],
      [kind |-> "once", run_at |-> 1] }

MCOccurrence(expr, after) == IF after % 2 = 0 THEN after + 1 ELSE after + 2

=============================================================================
