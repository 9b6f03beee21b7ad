----------------------------- MODULE SharedFile -----------------------------
(***************************************************************************)
(* The passes of module Tick next to writers of jobs.json that do not take *)
(* the tick lock: the commands (module Commands) and the event loops       *)
(* (module EventLoop).  Each save replaces the whole table, so that a      *)
(* writer undoes whatever was saved between its load and its save.         *)
(***************************************************************************)
EXTENDS Tick

\* History: a save, of any writer, has overwritten a change it had not read.
VARIABLE lost

\* A save of a pass that overwrites what the pass has not read.
LosesUpdate(t) == lost' = (lost \/ (disk' # disk /\ ~FreshAt(t)))

\* A save by a writer that has loaded base.
Overwrites(base) == lost' = (lost \/ disk # base)

=============================================================================
