------------------------------- MODULE Firing -------------------------------
(***************************************************************************)
(* What the scheduler promises about firings, with no process, lock, file  *)
(* or thread in it.  Each job has the next slot that may fire.  A pass     *)
(* claims the slots that are due: from then on nobody can claim them       *)
(* again, because the next slot of the job lies after the pass.  A claimed *)
(* slot is handed to an executor at most once; it may also be forgotten (a *)
(* killed process), and then it never fires.                               *)
(***************************************************************************)
EXTENDS Naturals, Sequences

CONSTANTS
    Jobs,       \* the jobs
    Instants,   \* the instants of the wall clock, a set of natural numbers
    None        \* no slot, no claim

VARIABLES
    next,       \* per job, the only slot that can be claimed, None if none can
    claimed,    \* per job, the firing claimed and not yet started, or None
    log         \* per job, the firings started

vars == <<next, claimed, log>>

Firings == {f \in [slot : Nat, at : Nat] : f.slot <= f.at}

Nothing == [j \in Jobs |-> None]

Init ==
    /\ next \in [Jobs -> Nat \cup {None}]
    /\ claimed = Nothing
    /\ log = [j \in Jobs |-> <<>>]

\* A pass at instant now claims the due slots of the jobs in due.
Claim(due, now) ==
    /\ claimed = Nothing
    /\ \A j \in due : next[j] # None /\ next[j] <= now
    /\ claimed' = [j \in Jobs |-> IF j \in due THEN [slot |-> next[j], at |-> now]
                                               ELSE None]
    /\ next' \in [Jobs -> Nat \cup {None}]
    /\ \A j \in Jobs : IF j \in due THEN next'[j] = None \/ next'[j] > now
                                    ELSE next'[j] = next[j]
    /\ UNCHANGED log

\* The claimed firings of some jobs are handed to their executors.
Start(chunk) ==
    /\ \A j \in chunk : claimed[j] # None
    /\ log' = [j \in Jobs |-> IF j \in chunk THEN Append(log[j], claimed[j])
                                             ELSE log[j]]
    /\ claimed' = [j \in Jobs |-> IF j \in chunk THEN None ELSE claimed[j]]
    /\ UNCHANGED next

\* The claims that have not been started are lost.
Forget == claimed' = Nothing /\ UNCHANGED <<next, log>>

\* Some jobs are done for good.
Retire(gone) ==
    /\ next' = [j \in Jobs |-> IF j \in gone THEN None ELSE next[j]]
    /\ UNCHANGED <<claimed, log>>

Next ==
    \/ \E due \in SUBSET Jobs, now \in Instants : Claim(due, now)
    \/ \E chunk \in SUBSET Jobs : Start(chunk)
    \/ Forget
    \/ \E gone \in SUBSET Jobs : Retire(gone)

Spec == Init /\ [][Next]_vars

-----------------------------------------------------------------------------

TypeOK ==
    /\ next \in [Jobs -> Nat \cup {None}]
    /\ claimed \in [Jobs -> Firings \cup {None}]
    /\ log \in [Jobs -> Seq(Firings)]

\* No slot fires twice, and none fires that an earlier firing was late for.
NeverAgain ==
    \A j \in Jobs : \A k \in 1..Len(log[j]) : \A i \in 1..(k - 1) :
        log[j][i].at < log[j][k].slot

\* Why: a slot that can still be claimed or started lies after every firing.
Ahead ==
    \A j \in Jobs :
        /\ claimed[j] # None =>
               /\ \A i \in 1..Len(log[j]) : log[j][i].at < claimed[j].slot
               /\ next[j] # None => claimed[j].at < next[j]
        /\ next[j] # None => \A i \in 1..Len(log[j]) : log[j][i].at < next[j]

=============================================================================
