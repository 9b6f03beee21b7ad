-------------------------- MODULE AtomicWriteProofs --------------------------
(***************************************************************************)
(* For any number of processes, calls, errors, kills and power losses: the *)
(* file is whole, a save that was synced is durable, and atomic_write      *)
(* implements DurableFile, the one-step save that Tick builds on.          *)
(***************************************************************************)
EXTENDS AtomicWrite, TLAPS

\* Where a call has its temporary file open.
Writing == {"write", "sync", "rename"}

TypeOK ==
    /\ target \in Inodes
    /\ ondisk \in Inodes
    /\ tmp \in [Procs -> Inodes \cup {None}]
    /\ data \in [Inodes -> Content]
    /\ call \in [Procs -> Call]
    /\ {version, settled} \subseteq Nat

\* A temporary file is nobody else's, and no reader's.
Apart ==
    /\ \A p \in Procs : tmp[p] \notin {target, ondisk}
    /\ \A p, q \in Procs : p # q /\ tmp[p] # None => tmp[p] # tmp[q]

\* What a call has done to its temporary file so far.
Progress ==
    \A p \in Procs :
        /\ call[p].pc \in Writing => tmp[p] = call[p].fd /\ tmp[p] # None
        /\ call[p].pc \notin {"idle", "dirsync"} => call[p].value \in Values
        /\ call[p].pc \in {"sync", "rename"} => data[tmp[p]].text = call[p].value
        /\ call[p].pc = "rename" => data[tmp[p]].synced

\* WholeFile is not inductive: that the next rename brings a whole file is in
\* Progress, and that no other process spoils it in Apart.
FileInv == TypeOK /\ Apart /\ Progress /\ WholeFile

LEMMA InitFile == Init => FileInv
<1> SUFFICES ASSUME Init PROVE FileInv
  OBVIOUS
<1> USE NoneAssumption, TornAssumption DEF Init
<1>1. TypeOK
  BY DEF TypeOK, Content, Call, Idle
<1>2. Apart
  BY DEF Apart
<1>3. Progress
  BY DEF Progress, Idle, Writing
<1>4. WholeFile
  BY DEF WholeFile
<1>5. QED
  BY <1>1, <1>2, <1>3, <1>4 DEF FileInv

-----------------------------------------------------------------------------
(* One lemma per kind of step *)

\* A call begins.
LEMMA BeginFile ==
    ASSUME FileInv, NEW p \in Procs, NEW v \in Values, Begin(p, v)
    PROVE  FileInv'
<1> USE DEF FileInv, Begin, fsVars, history
<1>1. TypeOK'
  BY DEF TypeOK, Call, Idle
<1>2. Progress'
  BY DEF Progress, Writing, TypeOK, Idle
<1>3. QED
  BY <1>1, <1>2 DEF Apart, WholeFile

\* A call opens and truncates its temporary file.
LEMMA OpenFile ==
    ASSUME FileInv, NEW p \in Procs, Open(p)
    PROVE  FileInv'
<1> USE NoneAssumption DEF FileInv, TmpOf
<1>1. PICK i \in IF tmp[p] = None THEN Free ELSE {tmp[p]} :
          /\ tmp' = [tmp EXCEPT ![p] = i]
          /\ data' = [data EXCEPT ![i] = [text |-> Torn, synced |-> FALSE]]
          /\ call' = [call EXCEPT ![p].pc = "write", ![p].fd = i]
  BY DEF Open
<1>2. call[p].pc = "open" /\ target' = target /\ ondisk' = ondisk
  BY DEF Open, At
<1>3. i \in Inodes /\ i \notin {target, ondisk}
  BY <1>1 DEF Free, TypeOK, Apart
<1>4. \A q \in Procs : q # p => tmp[q] # i
  BY <1>1, <1>3 DEF Free, TypeOK, Apart
<1>5. TypeOK'
  <2>1. tmp' \in [Procs -> Inodes \cup {None}]
    BY <1>1, <1>3 DEF TypeOK
  <2>2. data' \in [Inodes -> Content]
    <3>1. [text |-> Torn, synced |-> FALSE] \in Content
      BY DEF Content
    <3>2. QED
      BY <1>1, <3>1 DEF TypeOK
  <2>3. call' \in [Procs -> Call]
    <3>1. [call[p] EXCEPT !.pc = "write", !.fd = i] \in Call
      BY <1>3 DEF TypeOK, Call
    <3>2. call' = [call EXCEPT ![p] = [call[p] EXCEPT !.pc = "write", !.fd = i]]
      BY <1>1 DEF TypeOK
    <3>3. QED
      BY <3>1, <3>2 DEF TypeOK
  <2>4. version' = version /\ settled' = settled
    BY DEF Open, history
  <2>5. QED
    BY <1>2, <2>1, <2>2, <2>3, <2>4 DEF TypeOK
<1>6. Apart'
  BY <1>1, <1>2, <1>3, <1>4 DEF Apart, TypeOK
<1>7. Progress'
  BY <1>1, <1>2, <1>3, <1>4 DEF Progress, Writing, TypeOK
<1>8. WholeFile'
  BY <1>1, <1>2, <1>3 DEF WholeFile, TypeOK
<1>9. QED
  BY <1>5, <1>6, <1>7, <1>8

\* A call writes or syncs its temporary file.
LEMMA FillFile ==
    ASSUME FileInv, NEW p \in Procs, Write(p) \/ Sync(p)
    PROVE  FileInv'
<1> USE NoneAssumption DEF FileInv
<1> DEFINE i == call[p].fd
<1>1. i \in Inodes /\ i = tmp[p] /\ i \notin {target, ondisk}
  BY DEF Write, Sync, At, Progress, Writing, TypeOK, Apart
<1>2. \A q \in Procs : q # p => tmp[q] # i
  BY <1>1 DEF Apart, TypeOK
<1>3. UNCHANGED <<target, ondisk, tmp>>
  BY DEF Write, Sync
<1>4. TypeOK'
  <2>1. CASE Write(p)
    <3>1. [text |-> call[p].value, synced |-> FALSE] \in Content
      BY <2>1 DEF Write, At, Progress, Content
    <3>2. data' \in [Inodes -> Content]
      BY <2>1, <3>1 DEF Write, TypeOK
    <3>3. call' \in [Procs -> Call]
      BY <2>1 DEF Write, Goes, TypeOK, Call
    <3>4. QED
      BY <2>1, <1>3, <3>2, <3>3 DEF Write, history, TypeOK
  <2>2. CASE Sync(p)
    <3>1. [data[i] EXCEPT !.synced = TRUE] \in Content
      BY <1>1 DEF TypeOK, Content
    <3>2. data' = [data EXCEPT ![i] = [data[i] EXCEPT !.synced = TRUE]]
      BY <2>2, <1>1 DEF Sync, TypeOK
    <3>3. data' \in [Inodes -> Content]
      BY <3>1, <3>2 DEF TypeOK
    <3>4. call' \in [Procs -> Call]
      BY <2>2 DEF Sync, Goes, TypeOK, Call
    <3>5. QED
      BY <2>2, <1>3, <3>3, <3>4 DEF Sync, history, TypeOK
  <2>3. QED
    BY <2>1, <2>2
<1>5. Apart'
  BY <1>3 DEF Apart
<1>6. Progress'
  <2>1. CASE Write(p)
    BY <2>1, <1>1, <1>2, <1>3 DEF Write, At, Goes, TypeOK, Progress, Writing
  <2>2. CASE Sync(p)
    BY <2>2, <1>1, <1>2, <1>3 DEF Sync, At, Goes, TypeOK, Progress, Writing, Content
  <2>3. QED
    BY <2>1, <2>2
<1>7. WholeFile'
  BY <1>1, <1>3 DEF WholeFile, Write, Sync, TypeOK
<1>8. QED
  BY <1>4, <1>5, <1>6, <1>7

LEMMA RenamedCall ==
    ASSUME NEW c \in Call, NEW n \in Nat
    PROVE  [c EXCEPT !.pc = "dirsync", !.fd = None, !.mine = n] \in Call
BY DEF Call

\* A call puts its temporary file in the place of the target.
LEMMA RenameFile ==
    ASSUME FileInv, NEW p \in Procs, Rename(p)
    PROVE  FileInv'
<1> USE NoneAssumption, TornAssumption DEF FileInv, Rename, TmpOf, At
<1>1. tmp[p] \in Inodes /\ data[tmp[p]].synced /\ data[tmp[p]].text \in Values
  BY DEF TypeOK, Progress
<1>2. TypeOK'
  <2>1. call[p] \in Call /\ version + 1 \in Nat
    BY DEF TypeOK
  <2>2. call' \in [Procs -> Call]
    <3>1. [call[p] EXCEPT !.pc = "dirsync", !.fd = None, !.mine = version + 1] \in Call
      BY <2>1, RenamedCall
    <3>2. call' = [call EXCEPT ![p] = [call[p] EXCEPT !.pc   = "dirsync",
                                                      !.fd   = None,
                                                      !.mine = version + 1]]
      BY DEF TypeOK
    <3>3. QED
      BY <3>1, <3>2 DEF TypeOK
  <2>3. QED
    BY <1>1, <2>2 DEF TypeOK
<1>3. Apart'
  BY <1>1 DEF Apart, TypeOK
<1>4. Progress'
  BY DEF Progress, Writing, TypeOK
<1>5. WholeFile'
  BY <1>1 DEF WholeFile
<1>6. QED
  BY <1>2, <1>3, <1>4, <1>5

\* A call ends, whatever it has left behind.
LEMMA EndFile ==
    ASSUME FileInv, NEW p \in Procs,
           DirSync(p) \/ DirSyncFails(p) \/ Fails(p) \/ Kill(p)
    PROVE  FileInv'
<1> USE NoneAssumption DEF FileInv
<1>1. /\ call' = [call EXCEPT ![p] = Idle]
      /\ UNCHANGED <<target, data>>
      /\ ondisk' \in {ondisk, target}
      /\ tmp' \in {tmp, [tmp EXCEPT ![p] = None]}
      /\ version' = version /\ settled' \in {settled, version}
  BY DEF DirSync, DirSyncFails, Fails, Kill, fsVars, history, TmpOf
<1>2. TypeOK'
  BY <1>1 DEF TypeOK, Call, Idle
<1>3. Apart'
  BY <1>1 DEF Apart, TypeOK
<1>4. Progress'
  BY <1>1 DEF Progress, Writing, TypeOK, Idle
<1>5. WholeFile'
  BY <1>1 DEF WholeFile
<1>6. QED
  BY <1>2, <1>3, <1>4, <1>5

\* The system writes the directory back, or loses power.
LEMMA SystemFile ==
    ASSUME FileInv, WriteBack \/ PowerLoss
    PROVE  FileInv'
<1> USE NoneAssumption, TornAssumption DEF FileInv
<1>1. CASE WriteBack
  BY <1>1 DEF WriteBack, TypeOK, Apart, Progress, WholeFile
<1>2. CASE PowerLoss
  <2>1. PICK kept \in SUBSET Procs :
            tmp' = [p \in Procs |-> IF p \in kept THEN tmp[p] ELSE None]
    BY <1>2 DEF PowerLoss
  <2>2. /\ target' = ondisk /\ ondisk' = ondisk
        /\ call' = [p \in Procs |-> Idle]
        /\ data' = [i \in Inodes |-> IF data[i].synced THEN data[i]
                                     ELSE [data[i] EXCEPT !.text = Torn]]
        /\ version' = settled /\ settled' = settled
    BY <1>2 DEF PowerLoss
  <2>3. TypeOK'
    <3>1. data' \in [Inodes -> Content]
      BY <2>2 DEF TypeOK, Content
    <3>2. tmp' \in [Procs -> Inodes \cup {None}]
      BY <2>1 DEF TypeOK
    <3>3. call' \in [Procs -> Call]
      BY <2>2 DEF Call, Idle
    <3>4. QED
      BY <2>2, <3>1, <3>2, <3>3 DEF TypeOK
  <2>4. Apart'
    BY <2>1, <2>2 DEF Apart, TypeOK
  <2>5. Progress'
    BY <2>2 DEF Progress, Writing, Idle
  <2>6. WholeFile'
    BY <2>2 DEF WholeFile, TypeOK
  <2>7. QED
    BY <2>3, <2>4, <2>5, <2>6
<1>3. QED
  BY <1>1, <1>2

LEMMA StepFile == FileInv /\ [Next]_vars => FileInv'
<1> SUFFICES ASSUME FileInv, [Next]_vars PROVE FileInv'
  OBVIOUS
<1>1. CASE WriteBack \/ PowerLoss
  BY <1>1, SystemFile
<1>2. CASE \E p \in Procs : Step(p)
  <2>1. PICK p \in Procs : Step(p)
    BY <1>2
  <2>2. CASE \E v \in Values : Begin(p, v)
    BY <2>2, BeginFile
  <2>3. CASE Open(p)
    BY <2>3, OpenFile
  <2>4. CASE Write(p) \/ Sync(p)
    BY <2>4, FillFile
  <2>5. CASE Rename(p)
    BY <2>5, RenameFile
  <2>6. CASE DirSync(p) \/ DirSyncFails(p) \/ Fails(p) \/ Kill(p)
    BY <2>6, EndFile
  <2>7. QED
    BY <2>1, <2>2, <2>3, <2>4, <2>5, <2>6 DEF Step
<1>3. CASE UNCHANGED vars
  BY <1>3 DEF vars, fsVars, history, FileInv, TypeOK, Apart, Progress, WholeFile
<1>4. QED
  BY <1>1, <1>2, <1>3 DEF Next

LEMMA FileInvariant == Spec => []FileInv
BY InitFile, StepFile, PTL DEF Spec

\* Whoever writes, fails, dies or loses power in the middle of atomic_write,
\* readers find a whole file, and would after a power loss.
THEOREM FileIsWhole == Spec => []WholeFile
<1>1. FileInv => WholeFile
  BY DEF FileInv
<1>2. QED
  BY <1>1, FileInvariant, PTL

-----------------------------------------------------------------------------
(* Durability *)

\* A call knows no rename later than the last one.
DiskInv ==
    /\ acked \in Nat
    /\ acked <= settled
    /\ settled <= version
    /\ \A p \in Procs : call[p].mine <= version

LEMMA StepDisk == TypeOK /\ DiskInv /\ [Next]_vars => DiskInv'
<1> SUFFICES ASSUME TypeOK, DiskInv, [Next]_vars PROVE DiskInv'
  OBVIOUS
<1>a. /\ {version, settled, acked} \subseteq Nat
      /\ \A p \in Procs : call[p].mine \in Nat
      /\ \A p \in Procs : DOMAIN call[p] = {"pc", "value", "fd", "mine"}
      /\ DOMAIN call = Procs
  BY DEF TypeOK, DiskInv, Call
<1> USE <1>a DEF DiskInv
<1>1. CASE WriteBack
  BY <1>1 DEF WriteBack
<1>2. CASE PowerLoss
  BY <1>2 DEF PowerLoss, Idle
<1>3. ASSUME NEW p \in Procs, NEW v \in Values, Begin(p, v) PROVE DiskInv'
  <2>1. /\ call'[p].mine = 0
        /\ \A q \in Procs : q # p => call'[q] = call[q]
        /\ UNCHANGED <<settled, version, acked>>
    BY <1>3 DEF Begin, Idle, TypeOK
  <2>2. QED
    BY <2>1
<1>4. ASSUME NEW p \in Procs, Open(p) \/ Write(p) \/ Sync(p) PROVE DiskInv'
  <2>1. /\ \A q \in Procs : call'[q].mine = call[q].mine
        /\ UNCHANGED <<settled, version, acked>>
    BY <1>4 DEF Open, Write, Sync, Goes, history, TypeOK, Call
  <2>2. QED
    BY <2>1
<1>5. ASSUME NEW p \in Procs, Rename(p) PROVE DiskInv'
  <2>1. /\ call'[p].mine = version + 1
        /\ \A q \in Procs : q # p => call'[q] = call[q]
        /\ version' = version + 1
        /\ UNCHANGED <<settled, acked>>
    BY <1>5 DEF Rename, TypeOK, Call
  <2>2. QED
    BY <2>1
<1>6. ASSUME NEW p \in Procs, DirSync(p) \/ DirSyncFails(p) \/ Fails(p) \/ Kill(p)
      PROVE  DiskInv'
  <2>1. /\ call'[p].mine = 0
        /\ \A q \in Procs : q # p => call'[q] = call[q]
        /\ version' = version
    BY <1>6 DEF DirSync, DirSyncFails, Fails, Kill, history, Idle, TypeOK
  <2>2. \/ settled' = version /\ acked' \in {acked, call[p].mine}
        \/ UNCHANGED <<settled, acked>>
    BY <1>6 DEF DirSync, DirSyncFails, Fails, Kill, history
  <2>3. QED
    BY <2>1, <2>2
<1>7. CASE UNCHANGED vars
  BY <1>7 DEF vars, history
<1>8. QED
  BY <1>1, <1>2, <1>3, <1>4, <1>5, <1>6, <1>7 DEF Next, Step

\* A save whose directory sync succeeded survives every power loss.
THEOREM AckedSaveIsDurable == Spec => []AckedIsDurable
<1>1. Init => DiskInv
  BY DEF Init, DiskInv, Idle
<1>2. DiskInv => AckedIsDurable
  BY DEF DiskInv, AckedIsDurable
<1>3. FileInv => TypeOK
  BY DEF FileInv
<1>4. QED
  BY <1>1, <1>2, <1>3, FileInvariant, StepDisk, PTL DEF Spec

-----------------------------------------------------------------------------
(* The refinement: Rename replaces, DirSync and WriteBack settle, a call that *)
(* fails or dies gives up, and the rest of a call is invisible.               *)

\* The state of DurableFile.
Whole   == data[target].text
Stable  == data[ondisk].text
Pending ==
    [p \in Procs |-> IF call[p].pc \in {"open", "write", "sync", "rename"}
                     THEN call[p].value ELSE None]

AbstractStep == [Replaced!Next]_(Replaced!vars)

LEMMA StutterStep ==
    ASSUME UNCHANGED <<Whole, Stable, Pending>>
    PROVE  AbstractStep
BY DEF AbstractStep, Replaced!vars, Whole, Stable, Pending

LEMMA BeginStep ==
    ASSUME FileInv, NEW p \in Procs, NEW v \in Values, Begin(p, v)
    PROVE  AbstractStep
<1>1. UNCHANGED <<Whole, Stable>>
  BY DEF Begin, fsVars, Whole, Stable
<1>2. Pending[p] = None /\ Pending' = [Pending EXCEPT ![p] = v]
  BY DEF Begin, At, Idle, Pending, FileInv, TypeOK
<1>3. Replaced!Begin(p, v)
  BY <1>1, <1>2 DEF Replaced!Begin, Whole, Stable, Pending
<1>4. QED
  BY <1>3 DEF AbstractStep, Replaced!Next

\* A call at work on its temporary file: no reader sees it.
LEMMA HiddenStep ==
    ASSUME FileInv, NEW p \in Procs, Open(p) \/ Write(p) \/ Sync(p)
    PROVE  AbstractStep
<1> USE NoneAssumption DEF FileInv, TmpOf
<1>1. PICK i \in Inodes \ {target, ondisk} :
          \A k \in Inodes : k # i => data'[k] = data[k]
  <2>1. CASE Open(p)
    <3>1. PICK i \in IF tmp[p] = None THEN Free ELSE {tmp[p]} :
              data' = [data EXCEPT ![i] = [text |-> Torn, synced |-> FALSE]]
      BY <2>1 DEF Open
    <3>2. QED
      BY <3>1 DEF Free, TypeOK, Apart
  <2>2. CASE Write(p) \/ Sync(p)
    <3>1. call[p].fd \in Inodes \ {target, ondisk}
      BY <2>2 DEF Write, Sync, At, Progress, Writing, TypeOK, Apart
    <3>2. QED
      BY <2>2, <3>1 DEF Write, Sync, TypeOK
  <2>3. QED
    BY <2>1, <2>2
<1>2. UNCHANGED <<target, ondisk>>
  BY DEF Open, Write, Sync
<1>3. UNCHANGED <<Whole, Stable>>
  BY <1>1, <1>2 DEF Whole, Stable, TypeOK
<1>4. Pending' = Pending
  BY DEF Open, Write, Sync, At, Goes, Pending, TypeOK, Call
<1>5. QED
  BY <1>3, <1>4, StutterStep

LEMMA ReplaceStep ==
    ASSUME FileInv, NEW p \in Procs, Rename(p)
    PROVE  AbstractStep
<1> USE NoneAssumption DEF FileInv, Rename, TmpOf, At
<1>1. Whole' = Pending[p] /\ Pending[p] # None
  BY DEF Whole, Pending, Progress
<1>2. Stable' = Stable
  BY DEF Stable
<1>3. Pending' = [Pending EXCEPT ![p] = None]
  BY DEF Pending, TypeOK, Call
<1>4. Replaced!Replace(p)
  BY <1>1, <1>2, <1>3 DEF Replaced!Replace, Whole, Stable, Pending
<1>5. QED
  BY <1>4 DEF AbstractStep, Replaced!Next

LEMMA EndStep ==
    ASSUME FileInv, NEW p \in Procs,
           DirSync(p) \/ DirSyncFails(p) \/ Fails(p) \/ Kill(p)
    PROVE  AbstractStep
<1> USE DEF FileInv
<1>1. UNCHANGED <<target, data>> /\ call' = [call EXCEPT ![p] = Idle]
  BY DEF DirSync, DirSyncFails, Fails, Kill, fsVars
<1>2. Whole' = Whole
  BY <1>1 DEF Whole
<1>3. Pending' = [Pending EXCEPT ![p] = None]
  BY <1>1 DEF Pending, TypeOK, Idle
<1>4. CASE DirSync(p)
  <2>1. Stable' = Whole
    BY <1>1, <1>4 DEF DirSync, Stable, Whole
  <2>2. Pending' = Pending
    BY <1>3, <1>4 DEF DirSync, At, Pending
  <2>3. Replaced!Settle
    BY <1>2, <2>1, <2>2 DEF Replaced!Settle, Whole, Stable, Pending
  <2>4. QED
    BY <2>3 DEF AbstractStep, Replaced!Next
<1>5. CASE ~DirSync(p)
  <2>1. Stable' = Stable
    BY <1>1, <1>5 DEF DirSyncFails, Fails, Kill, fsVars, Stable
  <2>2. Replaced!GiveUp(p)
    BY <1>2, <1>3, <2>1 DEF Replaced!GiveUp, Whole, Stable, Pending
  <2>3. QED
    BY <2>2 DEF AbstractStep, Replaced!Next
<1>6. QED
  BY <1>4, <1>5

LEMMA SystemStep ==
    ASSUME FileInv, WriteBack \/ PowerLoss
    PROVE  AbstractStep
<1> USE DEF FileInv
<1>1. CASE WriteBack
  <2>1. Stable' = Whole /\ UNCHANGED <<Whole, Pending>>
    BY <1>1 DEF WriteBack, Stable, Whole, Pending
  <2>2. Replaced!Settle
    BY <2>1 DEF Replaced!Settle, Whole, Stable, Pending
  <2>3. QED
    BY <2>2 DEF AbstractStep, Replaced!Next
<1>2. CASE PowerLoss
  <2>1. data'[ondisk] = data[ondisk] /\ target' = ondisk /\ ondisk' = ondisk
    BY <1>2 DEF PowerLoss, WholeFile, TypeOK
  <2>2. Whole' = Stable /\ Stable' = Stable
    BY <2>1 DEF Whole, Stable
  <2>3. Pending' = [p \in Procs |-> None]
    BY <1>2 DEF PowerLoss, Pending, Idle
  <2>4. Replaced!PowerLoss
    BY <2>2, <2>3 DEF Replaced!PowerLoss, Whole, Stable, Pending
  <2>5. QED
    BY <2>4 DEF AbstractStep, Replaced!Next
<1>3. QED
  BY <1>1, <1>2

LEMMA EveryStepIsAbstract ==
    ASSUME FileInv, [Next]_vars
    PROVE  AbstractStep
<1>1. CASE WriteBack \/ PowerLoss
  BY <1>1, SystemStep
<1>2. CASE \E p \in Procs : Step(p)
  BY <1>2, BeginStep, HiddenStep, ReplaceStep, EndStep DEF Step
<1>3. CASE UNCHANGED vars
  <2>1. UNCHANGED <<Whole, Stable, Pending>>
    BY <1>3 DEF vars, fsVars, Whole, Stable, Pending
  <2>2. QED
    BY <2>1, StutterStep
<1>4. QED
  BY <1>1, <1>2, <1>3 DEF Next

\* atomic_write implements the one-step save: a call replaces the file whole, at
\* most once, or gives up, whatever the other writers and the system do.
THEOREM ImplementsDurableFile == Spec => ReplacesWhole
<1>1. Init => Replaced!Init
  <2> SUFFICES ASSUME Init PROVE Replaced!Init
    OBVIOUS
  <2>1. Whole \in Values /\ Stable = Whole /\ Pending = [p \in Procs |-> None]
    BY DEF Init, Idle, Whole, Stable, Pending
  <2>2. QED
    BY <2>1 DEF Replaced!Init, Whole, Stable, Pending
<1>2. FileInv /\ [Next]_vars => [Replaced!Next]_(Replaced!vars)
  BY EveryStepIsAbstract DEF AbstractStep
<1>3. QED
  BY <1>1, <1>2, FileInvariant, PTL DEF Spec, ReplacesWhole, Replaced!Spec

=============================================================================
