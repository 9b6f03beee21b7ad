----------------------------- MODULE FastForward -----------------------------
(***************************************************************************)
(* The Interval arm of compute_next_run, one iteration of its loop per     *)
(* step:                                                                   *)
(*                                                                         *)
(*     let mut next = anchor + period;                                     *)
(*     while next <= now { next += period; }                               *)
(*                                                                         *)
(* The initial states are the calls: any period, any last_run_at, any now. *)
(***************************************************************************)
EXTENDS Schedule

CONSTANT MaxPeriod      \* bound: the longest period called with

ASSUME MaxPeriodAssumption == MaxPeriod \in Nat

VARIABLES
    period, last, now,  \* the arguments, never changed
    next,               \* the local of the same name
    pc,                 \* "start", "loop" or "done"
    result              \* what the call returns, meaningful when done

args == <<period, last, now>>
vars == <<period, last, now, next, pc, result>>

anchor == IF last = None THEN now ELSE last

Init ==
    /\ period \in 0..MaxPeriod
    /\ last \in Instants \cup {None}
    /\ now \in Instants
    /\ next = 0
    /\ pc = "start"
    /\ result = None

\* Defects the mutation runs put in the place of the step they are named for.
LeaveLoopWithAnchor ==      \* returns the anchor's slot, not the cursor
    /\ pc = "loop"
    /\ next > now
    /\ pc' = "done"
    /\ result' = anchor + period
    /\ UNCHANGED <<args, next>>

IterateFromNow ==           \* fast-forwards from the wall clock: drift
    /\ pc = "loop"
    /\ next <= now
    /\ next' = now + period
    /\ UNCHANGED <<args, pc, result>>

IterateNoProgress ==        \* forgets to move the cursor
    /\ pc = "loop"
    /\ next <= now
    /\ next' = next
    /\ UNCHANGED <<args, pc, result>>

-----------------------------------------------------------------------------

\* if period <= Duration::zero() { return None; }
RejectPeriod ==
    /\ pc = "start"
    /\ period <= 0
    /\ pc' = "done"
    /\ result' = None
    /\ UNCHANGED <<args, next>>

\* let mut next = anchor + period;
EnterLoop ==
    /\ pc = "start"
    /\ period > 0
    /\ next' = anchor + period
    /\ pc' = "loop"
    /\ UNCHANGED <<args, result>>

\* while next <= now { next += period; }
Iterate ==
    /\ pc = "loop"
    /\ next <= now
    /\ next' = next + period
    /\ UNCHANGED <<args, pc, result>>

\* Some(next)
LeaveLoop ==
    /\ pc = "loop"
    /\ next > now
    /\ pc' = "done"
    /\ result' = next
    /\ UNCHANGED <<args, next>>

Next == RejectPeriod \/ EnterLoop \/ Iterate \/ LeaveLoop

Spec == Init /\ [][Next]_vars /\ WF_vars(Next)

-----------------------------------------------------------------------------
(* Properties *)

\* The step "start" sees any i64, "done" only what the code returned.
TypeOK ==
    /\ period \in Int /\ last \in Instants \cup {None} /\ now \in Instants
    /\ next \in Nat
    /\ pc = "done" => result \in OptInstant

\* The loop invariant: the cursor is on the anchor's grid, and it is the
\* first grid point or the one it came from was not yet in the future. What
\* the call returns is such a cursor, in the future.
IsCursor(c) ==
    /\ period > 0
    /\ c >= anchor + period
    /\ (c - anchor) % period = 0
    /\ c = anchor + period \/ c - period <= now

OnGridSoFar ==
    /\ pc = "loop" => IsCursor(next)
    /\ pc = "done" /\ result # None => IsCursor(result) /\ result > now

\* A late call lands on the single next slot of the grid, never on one that
\* is already past and never one slot too far: no burst and no skipped slot
\* (schedule.rs, the two properties the module comment names).
LandsOnNextSlot ==
    pc = "done" /\ result # None =>
        /\ result > now
        /\ (result - anchor) % period = 0
        /\ \A slot \in (anchor + 1)..(result - 1) :
               (slot - anchor) % period = 0 => slot <= now

\* The loop computes the closed form the other modules use.
ComputesNextInterval ==
    pc = "done" => result = compute_next_run(
                       [kind |-> "interval", minutes |-> period], last, now)

=============================================================================
