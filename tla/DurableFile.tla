----------------------------- MODULE DurableFile -----------------------------
(***************************************************************************)
(* What a file that is always replaced whole promises its readers, without *)
(* temporary files, inodes or caches.  A call replaces the content at most *)
(* once, in one step, or gives up; after a power loss readers find what    *)
(* the disk last had.  Module AtomicWrite implements it; the saves of      *)
(* Tick, Commands and EventLoop are its Replace steps.                     *)
(***************************************************************************)
CONSTANTS Procs, Values, None

VARIABLES
    content,    \* what a reader gets
    stable,     \* what a reader gets after a power loss
    writing     \* per process, the value it has yet to put in place, or None

vars == <<content, stable, writing>>

Init ==
    /\ content \in Values
    /\ stable = content
    /\ writing = [p \in Procs |-> None]

Begin(p, v) ==
    /\ writing[p] = None
    /\ writing' = [writing EXCEPT ![p] = v]
    /\ UNCHANGED <<content, stable>>

Replace(p) ==
    /\ writing[p] # None
    /\ content' = writing[p]
    /\ writing' = [writing EXCEPT ![p] = None]
    /\ UNCHANGED stable

GiveUp(p) ==
    /\ writing' = [writing EXCEPT ![p] = None]
    /\ UNCHANGED <<content, stable>>

Settle ==
    /\ stable' = content
    /\ UNCHANGED <<content, writing>>

PowerLoss ==
    /\ content' = stable
    /\ writing' = [p \in Procs |-> None]
    /\ UNCHANGED stable

Next ==
    \/ \E p \in Procs : (\E v \in Values : Begin(p, v)) \/ Replace(p) \/ GiveUp(p)
    \/ Settle
    \/ PowerLoss

Spec == Init /\ [][Next]_vars

=============================================================================
