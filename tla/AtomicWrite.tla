----------------------------- MODULE AtomicWrite -----------------------------
(***************************************************************************)
(* atomic_write (store.rs), which every file of the program goes through   *)
(* but the run log: jobs.json, config.toml, the outputs, the evidence of   *)
(* event loops.  One target, any number of processes that write it at the  *)
(* same time, and the file system below: a directory of names, inodes, and *)
(* a disk that lags behind both until it is told to sync.                  *)
(*                                                                         *)
(* A process is its pid: the name of its temporary file.  A new process    *)
(* may get the pid of one that was killed, and finds its temporary file.   *)
(***************************************************************************)
EXTENDS Naturals, FiniteSets

CONSTANTS
    Procs,      \* pids
    Values,     \* what callers write
    Inodes,     \* bound: inodes of the file system
    None,
    Torn,       \* the content of a file that is not all there
    MaxWrites,  \* bound: calls
    MaxFaults   \* bound: errors, kills and power losses

ASSUME NoneAssumption == None \notin Values \cup Inodes
ASSUME TornAssumption == Torn \notin Values
ASSUME BoundsAssumption == MaxWrites \in Nat /\ MaxFaults \in Nat

VARIABLES
    target,     \* the inode the target's name leads to
    ondisk,     \* the one it leads to after a power loss
    tmp,        \* per temporary name, its inode, None if there is no such file
    data,       \* per inode, its content and whether the disk has it
    call,       \* per process, its call of atomic_write
    faults,
    \* History: numbers of renames.
    writes,     \* calls so far
    version,    \* the rename that made the target
    settled,    \* the rename that made what is on disk
    acked       \* the last one whose caller was told so, directory synced

fsVars == <<target, ondisk, tmp, data>>
history == <<writes, version, settled, acked>>
vars == <<fsVars, call, faults, history>>

Content == [text : Values \cup {Torn}, synced : BOOLEAN]

Call == [ pc    : {"idle", "open", "write", "sync", "rename", "dirsync"},
          value : Values \cup {None},
          fd    : Inodes \cup {None},
          mine  : Nat ]     \* history: the number of its rename

Idle == [pc |-> "idle", value |-> None, fd |-> None, mine |-> 0]

\* Defect: the temporary file has the same name for all.
TmpSharedByAll(p) == CHOOSE q \in Procs : TRUE

\* .{stem}.tmp.{pid}
TmpOf(p) == p

Free ==
    Inodes \ ({target, ondisk} \cup {tmp[q] : q \in Procs}
                               \cup {call[q].fd : q \in Procs})

\* The first writer's target is there, or its absence is one of Values.
Init ==
    /\ target \in Inodes
    /\ ondisk = target
    /\ tmp = [p \in Procs |-> None]
    /\ \E v \in Values : data = [i \in Inodes |-> [text |-> v, synced |-> TRUE]]
    /\ call = [p \in Procs |-> Idle]
    /\ faults = 0
    /\ writes = 0 /\ version = 0 /\ settled = 0 /\ acked = 0

-----------------------------------------------------------------------------
(* The call *)

At(p, pc) == call[p].pc = pc

Goes(p, pc) == call' = [call EXCEPT ![p].pc = pc]

\* FileJobStore::save, Config::save, FileDelivery::deliver, run_loop
Begin(p, v) ==
    /\ At(p, "idle")
    /\ writes < MaxWrites
    /\ writes' = writes + 1
    /\ call' = [call EXCEPT ![p] = [Idle EXCEPT !.pc = "open", !.value = v]]
    /\ UNCHANGED <<fsVars, faults, version, settled, acked>>

\* opts.write(true).create(true).truncate(true).open(&tmp): a new inode, or
\* the one a killed process left behind.
Open(p) ==
    /\ At(p, "open")
    /\ \E i \in IF tmp[TmpOf(p)] = None THEN Free ELSE {tmp[TmpOf(p)]} :
           /\ tmp' = [tmp EXCEPT ![TmpOf(p)] = i]
           /\ data' = [data EXCEPT ![i] = [text |-> Torn, synced |-> FALSE]]
           /\ call' = [call EXCEPT ![p].pc = "write", ![p].fd = i]
    /\ UNCHANGED <<target, ondisk, faults, history>>

\* f.write_all(bytes): until it is done the content is Torn.
Write(p) ==
    /\ At(p, "write")
    /\ data' = [data EXCEPT ![call[p].fd] = [text |-> call[p].value, synced |-> FALSE]]
    /\ Goes(p, "sync")
    /\ UNCHANGED <<target, ondisk, tmp, faults, history>>

\* Defect: no fsync before the rename.
SyncSkipped(p) ==
    /\ At(p, "sync")
    /\ Goes(p, "rename")
    /\ UNCHANGED <<fsVars, faults, history>>

\* f.sync_all()
Sync(p) ==
    /\ At(p, "sync")
    /\ data' = [data EXCEPT ![call[p].fd].synced = TRUE]
    /\ Goes(p, "rename")
    /\ UNCHANGED <<target, ondisk, tmp, faults, history>>

\* fs::rename(&tmp, target)
Rename(p) ==
    /\ At(p, "rename")
    /\ tmp[TmpOf(p)] # None
    /\ target' = tmp[TmpOf(p)]
    /\ tmp' = [tmp EXCEPT ![TmpOf(p)] = None]
    /\ version' = version + 1
    /\ call' = [call EXCEPT ![p].pc = "dirsync", ![p].fd = None, ![p].mine = version + 1]
    /\ UNCHANGED <<ondisk, data, faults, writes, settled, acked>>

\* Defect: the directory is not synced.
DirSyncSkipped(p) ==
    /\ At(p, "dirsync")
    /\ acked' = IF call[p].mine > acked THEN call[p].mine ELSE acked
    /\ call' = [call EXCEPT ![p] = Idle]
    /\ UNCHANGED <<fsVars, faults, writes, version, settled>>

\* d.sync_all(), Ok(())
DirSync(p) ==
    /\ At(p, "dirsync")
    /\ ondisk' = target
    /\ settled' = version
    /\ acked' = IF call[p].mine > acked THEN call[p].mine ELSE acked
    /\ call' = [call EXCEPT ![p] = Idle]
    /\ UNCHANGED <<target, tmp, data, faults, writes, version>>

\* Best effort: the directory cannot be opened or synced, and still Ok(()).
DirSyncFails(p) ==
    /\ At(p, "dirsync")
    /\ call' = [call EXCEPT ![p] = Idle]
    /\ UNCHANGED <<fsVars, faults, history>>

\* An error of open, write, sync or rename: fs::remove_file(&tmp), which may
\* fail as well.
Fails(p) ==
    /\ call[p].pc \in {"open", "write", "sync", "rename"}
    /\ faults < MaxFaults
    /\ faults' = faults + 1
    /\ \/ tmp' = [tmp EXCEPT ![TmpOf(p)] = None]
       \/ UNCHANGED tmp
    /\ call' = [call EXCEPT ![p] = Idle]
    /\ UNCHANGED <<target, ondisk, data, history>>

-----------------------------------------------------------------------------
(* What happens to it *)

\* The process is killed; its temporary file stays.
Kill(p) ==
    /\ ~At(p, "idle")
    /\ faults < MaxFaults
    /\ faults' = faults + 1
    /\ call' = [call EXCEPT ![p] = Idle]
    /\ UNCHANGED <<fsVars, history>>

\* The system writes the directory back in its own time.
WriteBack ==
    /\ ondisk # target
    /\ ondisk' = target
    /\ settled' = version
    /\ UNCHANGED <<target, tmp, data, call, faults, writes, version, acked>>

\* Every process is gone, the directory is the one on disk, and what was not
\* synced is lost.  Temporary names may or may not have reached the disk.
PowerLoss ==
    /\ faults < MaxFaults
    /\ faults' = faults + 1
    /\ target' = ondisk
    /\ version' = settled
    /\ \E kept \in SUBSET Procs :
           tmp' = [p \in Procs |-> IF p \in kept THEN tmp[p] ELSE None]
    /\ data' = [i \in Inodes |->
                   IF data[i].synced THEN data[i] ELSE [data[i] EXCEPT !.text = Torn]]
    /\ call' = [p \in Procs |-> Idle]
    /\ UNCHANGED <<ondisk, writes, settled, acked>>

Step(p) ==
    \/ \E v \in Values : Begin(p, v)
    \/ Open(p) \/ Write(p) \/ Sync(p) \/ Rename(p)
    \/ DirSync(p) \/ DirSyncFails(p)
    \/ Fails(p) \/ Kill(p)

Next == WriteBack \/ PowerLoss \/ \E p \in Procs : Step(p)

Spec == Init /\ [][Next]_vars

-----------------------------------------------------------------------------
(* Properties *)

\* "a crash mid-write never leaves a half-written jobs.json": readers find a
\* whole file, and would after a power loss now.
WholeFile == \A i \in {target, ondisk} : data[i].text # Torn /\ data[i].synced

\* A save whose directory sync succeeded is not undone by a power loss, nor is
\* one renamed before it.
AckedIsDurable == acked <= settled

Replaced == INSTANCE DurableFile WITH
    content <- data[target].text,
    stable  <- data[ondisk].text,
    writing <- [p \in Procs |->
                   IF call[p].pc \in {"open", "write", "sync", "rename"}
                   THEN call[p].value ELSE None]

\* A call replaces the file whole, at most once and in one step, whatever the
\* other writers, errors, kills and power losses do: what Tick takes a save for.
ReplacesWhole == Replaced!Spec

=============================================================================
