------------------------------- MODULE Outputs -------------------------------
(***************************************************************************)
(* What becomes of a run (executor.rs, delivery.rs, scan.rs, run_one and   *)
(* the delivery loop of tick.rs): a child process ends and its output is a *)
(* status and a Markdown text; the text is written to a file of its own in *)
(* the output directory of the job, a line is appended to its run log, and *)
(* it is posted to the webhooks of the job.  The newest file of one job is *)
(* the context of another job's prompt, in a later pass.                   *)
(*                                                                         *)
(* One pass at a time, as the tick lock has it (OnePassAtATime in Tick):   *)
(* no other process writes below output/.  A kill may end it anywhere.     *)
(***************************************************************************)
EXTENDS Decision, FiniteSets

CONSTANTS
    Jobs,
    Vector,         \* the order of the jobs in jobs.json
    Defs,           \* per job, what its executor is given
    Specs,          \* per job, the --deliver options it was added with
    Hosts,          \* the hosts of their URLs
    Defaults,       \* what default_webhook may be, None if it is not set
    Allowlists,     \* what webhook_allowlist may be
    Children,       \* per job, how its child process may end
    MaxStamp,       \* bound: the stamps the clock gives
    MaxPasses,      \* bound: passes
    MaxFaults       \* bound: failed writes and kills

Url == [user : BOOLEAN, host : Hosts \cup {None}, port : BOOLEAN]

\* An option is "file", "webhook", webhook:URL or anything else.
Option == [kind : {"file", "webhook", "other"}] \cup [kind : {"url"}, url : Url]

Def == [ executor : {"codex", "shell", "ao2"},
         prompt   : Text,
         script   : BOOLEAN,            \* there is one, and it is not blank
         context  : Jobs \cup {None} ]  \* context_from

Child == [ok : BOOLEAN, stdout : Text, stderr : Text]

ASSUME VectorAssumption == IsInjective(Vector) /\ ToSet(Vector) = Jobs
ASSUME DefsAssumption == \A j \in Jobs :
    /\ Defs[j] \in Def
    /\ Specs[j] \in Seq(Option)
    /\ Children[j] \subseteq Child
ASSUME ConfigAssumption ==
    /\ Defaults \subseteq Url \cup {None}
    /\ \A allowlist \in Allowlists : allowlist \subseteq Hosts
ASSUME BoundsAssumption == {MaxStamp, MaxPasses, MaxFaults} \subseteq Nat

VARIABLES
    deliver,    \* per job, its delivery targets
    dir,        \* per job, the *.md files of its output directory
    log,        \* per job, the lines of runs.jsonl
    pass,       \* the pass that is under way
    passes,     \* passes so far
    faults,
    \* History: per target of the snapshot at hand, the posts made to it.
    posts

vars == <<deliver, dir, log, pass, passes, faults, posts>>

\* A file is its name, a stamp and a suffix (0 for none), and the text and the
\* status of the run it was written for.  A line of the log names its file and
\* says the status; a fragment has no end of line, a spoilt line is no JSON.
FileLine(name, status) == [kind |-> "line", file |-> name, status |-> status]
Fragment == [kind |-> "fragment"]
Spoilt == [kind |-> "spoilt"]

Idle == [ pc        |-> "idle",
          allowlist |-> {},                         \* of WebhookDelivery
          todo      |-> {},                         \* snapshots to run
          out       |-> [j \in Jobs |-> None],      \* outputs
          queue     |-> {},                         \* snapshots to deliver
          snap      |-> None,                       \* the one at hand
          name      |-> None,                       \* md_path
          k         |-> 1,                          \* target of job.deliver
          attempt   |-> 0,
          error     |-> FALSE,                      \* of WebhookDelivery
          reported  |-> {} ]                        \* delivery_errors

-----------------------------------------------------------------------------
(* Text *)

\* Lowercase, one space between two words, whatever was there.
Words(text) ==
    LET words[i \in 0..Len(text)] ==       \* of the first i lines
            IF i = 0 THEN <<>>
            ELSE IF text[i] = "blank" THEN words[i - 1]
            ELSE Append(words[i - 1], text[i])
    IN  words

normalize(text) == Words(text)[Len(text)]

\* A pattern in one line, or one that goes over a line break.
scan(text) ==
    LET words == normalize(text)
    IN  \/ "poison" \in ToSet(words)
        \/ \E i \in 1..(Len(words) - 1) :
               words[i] = "half" /\ words[i + 1] = "other half"

\* The first line that is not blank.
is_wake_agent_false(stdout) ==
    LET lines == SelectSeq(stdout, LAMBDA line : line # "blank")
    IN  lines # <<>> /\ lines[1] = "wake false"

\* Headings and fences are plain.
render_md(stdout, stderr) ==
    <<"plain">> \o stdout \o <<"plain">> \o stderr \o <<"plain">>

\* RunOutput, and the prompt that was handed to an agent, None if none was.
Output(status, markdown, prompt) ==
    [status |-> status, markdown |-> markdown, prompt |-> prompt]

failed(prompt) == Output("failed", <<"plain">>, prompt)
silent == Output("silent", <<>>, None)

\* The reason quotes the pattern.
refused == Output("refused", <<"plain", "poison">>, None)

from_process(child, prompt) ==
    Output(IF child.ok THEN "success" ELSE "failed",
           render_md(child.stdout, child.stderr), prompt)

-----------------------------------------------------------------------------
(* Executors *)

\* File names in the order of mds.sort(): '-' sorts before '.'.  Suffixes are in
\* the order of their numbers here, as they are up to 9; the last name never has
\* one.
Before(f, g) ==
    \/ f.stamp < g.stamp
    \/ f.stamp = g.stamp /\ f.suffix # 0 /\ (g.suffix = 0 \/ f.suffix < g.suffix)

\* Defect: the first of the sorted names.
earliest_output(j) == CHOOSE f \in dir[j] : \A g \in dir[j] \ {f} : Before(f.name, g.name)

latest_output(j) == CHOOSE f \in dir[j] : \A g \in dir[j] \ {f} : Before(g.name, f.name)

assemble_prompt(def) ==
    IF def.context = None \/ dir[def.context] = {} THEN def.prompt
    ELSE <<"plain">> \o latest_output(def.context).text \o <<"plain">> \o def.prompt

\* What the executors return when the child ends so, None if it does not start.
ShellRun(def, child) ==
    IF ~def.script \/ child = None              THEN failed(None)
    ELSE IF is_wake_agent_false(child.stdout)   THEN silent
    ELSE from_process(child, None)

Ao2Run(def, child) ==
    IF ~def.script \/ child = None THEN failed(None) ELSE from_process(child, None)

\* Defect: the assembled prompt is not scanned.
CodexRunUnscanned(def, child) ==
    LET prompt == assemble_prompt(def)
    IN  IF child = None THEN failed(prompt) ELSE from_process(child, prompt)

CodexRun(def, child) ==
    LET prompt == assemble_prompt(def)
    IN  IF scan(prompt)         THEN refused
        ELSE IF child = None    THEN failed(prompt)
        ELSE from_process(child, prompt)

run_one(def, child) ==
    CASE def.executor = "codex" -> IF scan(def.prompt) THEN refused
                                                       ELSE CodexRun(def, child)
      [] def.executor = "shell" -> ShellRun(def, child)
      [] def.executor = "ao2"   -> Ao2Run(def, child)

-----------------------------------------------------------------------------
(* A pass up to its deliveries *)

File == [kind |-> "file"]
Webhook(url) == [kind |-> "webhook", url |-> url]

\* The targets, or None where cmd_add and cmd_edit fail.
parse_deliver(specs, default) ==
    IF \E i \in DOMAIN specs : \/ specs[i].kind = "webhook" /\ default = None
                               \/ specs[i].kind = "other"
    THEN None
    ELSE IF specs = <<>> THEN <<File>>
    ELSE [i \in DOMAIN specs |-> CASE specs[i].kind = "file"    -> File
                                   [] specs[i].kind = "webhook" -> Webhook(default)
                                   [] specs[i].kind = "url"     -> Webhook(specs[i].url)]

Init ==
    /\ \E default \in Defaults :
           /\ \A j \in Jobs : parse_deliver(Specs[j], default) # None
           /\ deliver = [j \in Jobs |-> parse_deliver(Specs[j], default)]
    /\ dir = [j \in Jobs |-> {}]
    /\ log = [j \in Jobs |-> <<>>]
    /\ pass = Idle
    /\ passes = 0
    /\ faults = 0
    /\ posts = <<>>

\* run_one_tick reads the configuration, tick() finds some jobs due.
StartPass ==
    /\ pass.pc = "idle"
    /\ passes < MaxPasses
    /\ passes' = passes + 1
    /\ \E due \in (SUBSET Jobs) \ {{}}, allowlist \in Allowlists :
           pass' = [Idle EXCEPT !.pc = "run", !.todo = due, !.allowlist = allowlist]
    /\ UNCHANGED <<deliver, dir, log, faults, posts>>

\* A thread of run_due.
RunOne(j) ==
    /\ pass.pc = "run"
    /\ j \in pass.todo
    /\ \E child \in Children[j] \cup {None} :
           pass' = [pass EXCEPT !.todo   = @ \ {j},
                                !.out[j] = run_one(Defs[j], child)]
    /\ UNCHANGED <<deliver, dir, log, passes, faults, posts>>

\* All threads are joined, the outcomes are saved: what is left to deliver.
Joined ==
    /\ pass.pc = "run"
    /\ pass.todo = {}
    /\ pass' = [pass EXCEPT !.pc    = "next",
                            !.queue = {j \in Jobs : /\ pass.out[j] # None
                                                    /\ pass.out[j].status # "silent"}]
    /\ UNCHANGED <<deliver, dir, log, passes, faults, posts>>

EndPass ==
    /\ pass.pc = "next"
    /\ pass.queue = {}
    /\ pass' = Idle
    /\ UNCHANGED <<deliver, dir, log, passes, faults, posts>>

-----------------------------------------------------------------------------
(* FileDelivery::deliver *)

\* Defect: the stamp is unique enough.
stamped_run_md(j, stamp) == [stamp |-> stamp, suffix |-> 0]

\* {stamp}, or the first of {stamp}-1, {stamp}-2, ... that is free.
unique_run_md(j, stamp) ==
    LET Named(suffix) == [stamp |-> stamp, suffix |-> suffix]
        free == {s \in 0..Cardinality(dir[j]) : \A f \in dir[j] : f.name # Named(s)}
    IN  Named(CHOOSE s \in free : \A r \in free : s <= r)

\* for (i, snap) in &snapshots, in the order of the jobs.
NextJob ==
    /\ pass.pc = "next"
    /\ \E i \in DOMAIN Vector :
           /\ Vector[i] \in pass.queue
           /\ \A k \in 1..(i - 1) : Vector[k] \notin pass.queue
           /\ pass' = [pass EXCEPT !.pc = "file", !.snap = Vector[i]]
           /\ posts' = [k \in DOMAIN deliver[Vector[i]] |-> [tried |-> 0, acked |-> FALSE]]
    /\ UNCHANGED <<deliver, dir, log, passes, faults>>

\* atomic_write, a rename over whatever has that name.  The clock may give a
\* stamp again, or an earlier one.
WriteMd(stamp) ==
    LET name == unique_run_md(pass.snap, stamp)
        out  == pass.out[pass.snap]
    IN  /\ pass.pc = "file"
        /\ dir' = [dir EXCEPT ![pass.snap] =
                {f \in @ : f.name # name}
                    \cup {[name |-> name, status |-> out.status,
                           text |-> out.markdown, run |-> passes]}]
        /\ pass' = [pass EXCEPT !.pc = "log", !.name = name]
        /\ UNCHANGED <<deliver, log, passes, faults, posts>>

\* append_line, onto a fragment if the log ends with one.
LogWith(j, line) ==
    log' = [log EXCEPT ![j] =
        IF @ # <<>> /\ Last(@).kind = "fragment"
        THEN Append(Front(@), IF line.kind = "fragment" THEN Fragment ELSE Spoilt)
        ELSE Append(@, line)]

\* Defect: the line names the stamp.
AppendLogStamp ==
    /\ pass.pc = "log"
    /\ LogWith(pass.snap, FileLine([pass.name EXCEPT !.suffix = 0], pass.out[pass.snap].status))
    /\ pass' = [pass EXCEPT !.pc = "hook"]
    /\ UNCHANGED <<deliver, dir, passes, faults, posts>>

AppendLog ==
    /\ pass.pc = "log"
    /\ LogWith(pass.snap, FileLine(pass.name, pass.out[pass.snap].status))
    /\ pass' = [pass EXCEPT !.pc = "hook"]
    /\ UNCHANGED <<deliver, dir, passes, faults, posts>>

\* Nothing of the line, or some of it: the line and its end are two writes.
LogCutShort == UNCHANGED log \/ LogWith(pass.snap, Fragment)

\* A directory, a file or the log cannot be written: Err, on to the next sink.
FileFails ==
    /\ pass.pc \in {"file", "log"}
    /\ faults < MaxFaults
    /\ faults' = faults + 1
    /\ IF pass.pc = "log" THEN LogCutShort ELSE UNCHANGED log
    /\ pass' = [pass EXCEPT !.pc       = "hook",
                            !.reported = @ \cup {pass.snap}]
    /\ UNCHANGED <<deliver, dir, passes, posts>>

-----------------------------------------------------------------------------
(* WebhookDelivery::deliver *)

\* Without its user and its port.
host_of(url) == url.host

allowed(url) == pass.allowlist = {} \/ host_of(url) \in pass.allowlist

Target == deliver[pass.snap][pass.k]

AtTarget ==
    /\ pass.pc = "hook"
    /\ pass.k <= Len(deliver[pass.snap])

\* Defect: only the last target counts.
NextTargetLastCounts(error) ==
    [pass EXCEPT !.k = @ + 1, !.attempt = 0, !.error = error]

\* The next target; nothing that went wrong is forgotten.
NextTarget(error) ==
    [pass EXCEPT !.k = @ + 1, !.attempt = 0, !.error = @ \/ error]

SkipTarget ==
    /\ AtTarget
    /\ Target.kind = "file"
    /\ pass' = [pass EXCEPT !.k = @ + 1]
    /\ UNCHANGED <<deliver, dir, log, passes, faults, posts>>

\* Defect: return Err at once.
BlockTargetAndReturn ==
    /\ AtTarget
    /\ Target.kind = "webhook"
    /\ ~allowed(Target.url)
    /\ pass' = [NextTarget(TRUE) EXCEPT !.k = Len(deliver[pass.snap]) + 1]
    /\ UNCHANGED <<deliver, dir, log, passes, faults, posts>>

BlockTarget ==
    /\ AtTarget
    /\ Target.kind = "webhook"
    /\ ~allowed(Target.url)
    /\ pass' = NextTarget(TRUE)
    /\ UNCHANGED <<deliver, dir, log, passes, faults, posts>>

\* One client.post(..).send().  Its 2xx arrives in time or not; if not, the
\* server may have acted on it all the same.
Posted(acked) ==
    posts' = [posts EXCEPT ![pass.k] = [tried |-> @.tried + 1, acked |-> acked]]

MayPost ==
    /\ AtTarget
    /\ Target.kind = "webhook"
    /\ allowed(Target.url)

PostAcked ==
    /\ MayPost
    /\ Posted(TRUE)
    /\ pass' = NextTarget(FALSE)
    /\ UNCHANGED <<deliver, dir, log, passes, faults>>

\* Defect: the attempts start again.
PostForever ==
    /\ MayPost
    /\ pass' = [pass EXCEPT !.attempt = 1 - @]
    /\ UNCHANGED <<deliver, dir, log, passes, faults, posts>>

\* for attempt in 0..3
PostFails ==
    /\ MayPost
    /\ Posted(FALSE)
    /\ pass' = IF pass.attempt < 2 THEN [pass EXCEPT !.attempt = @ + 1]
                                   ELSE NextTarget(TRUE)
    /\ UNCHANGED <<deliver, dir, log, passes, faults>>

HooksEnd ==
    /\ pass.pc = "hook"
    /\ ~AtTarget
    /\ pass' = [pass EXCEPT !.pc       = "next",
                            !.queue    = @ \ {pass.snap},
                            !.snap     = None,
                            !.name     = None,
                            !.k        = 1,
                            !.error    = FALSE,
                            !.reported = IF pass.error THEN @ \cup {pass.snap} ELSE @]
    /\ posts' = <<>>
    /\ UNCHANGED <<deliver, dir, log, passes, faults>>

-----------------------------------------------------------------------------

\* The process dies, perhaps in the middle of a line.
Kill ==
    /\ pass.pc # "idle"
    /\ faults < MaxFaults
    /\ faults' = faults + 1
    /\ IF pass.pc = "log" THEN LogCutShort ELSE UNCHANGED log
    /\ pass' = Idle
    /\ posts' = <<>>
    /\ UNCHANGED <<deliver, dir, passes>>

Delivering ==
    \/ NextJob
    \/ \E stamp \in 1..MaxStamp : WriteMd(stamp)
    \/ AppendLog \/ FileFails
    \/ SkipTarget \/ BlockTarget \/ PostAcked \/ PostFails \/ HooksEnd
    \/ EndPass

Next ==
    \/ StartPass
    \/ \E j \in Jobs : RunOne(j)
    \/ Joined
    \/ Delivering
    \/ Kill

\* A post is given up after 10 seconds; a child may run for ever.
Spec == Init /\ [][Next]_vars /\ WF_vars(Delivering)

-----------------------------------------------------------------------------
(* Properties *)

\* No run takes the file of an earlier one, however often the clock gives the
\* same stamp: history is only added to.
NeverOverwritten == [][\A j \in Jobs : dir[j] \subseteq dir'[j]]_vars

\* Where the log has a line that can be read at all.
LineAt(j) == {i \in DOMAIN log[j] : log[j][i].kind = "line"}

\* The two records of a run agree: a line names a file that is there, a file of
\* its own and of that status.  A run whose file has no line cost a fault, and
\* a fault costs no more than two: its own line and the one after a fragment.
LogAgreesWithFiles ==
    \A j \in Jobs :
        LET named == {log[j][i].file : i \in LineAt(j)}
            under_way == IF pass.pc = "log" /\ pass.snap = j THEN {pass.name} ELSE {}
        IN  /\ \A i, k \in LineAt(j) : log[j][i].file = log[j][k].file => i = k
            /\ \A i \in LineAt(j) : \E f \in dir[j] :
                   f.name = log[j][i].file /\ f.status = log[j][i].status
            /\ Cardinality({f.name : f \in dir[j]} \ (named \cup under_way)) <= 2 * faults

\* Which run is "the most recent <ts>.md" of a context, also where stamps collide
\* or the clock is set back: of the latest stamp, and of all runs that were given
\* it the first.  A newer run is only passed over where its stamp is no later.
ContextIsFirstOfLatestStamp ==
    \A j \in Jobs : dir[j] # {} =>
        LET latest == latest_output(j)
        IN  \A f \in dir[j] \ {latest} :
                \/ f.name.stamp < latest.name.stamp
                \/ f.name.stamp = latest.name.stamp /\ latest.run < f.run

\* A pattern that goes on in the next line that is not blank, or does not.
Poisoned(text) ==
    \E i, k \in DOMAIN text :
        \/ text[i] = "poison"
        \/ /\ i < k /\ text[i] = "half" /\ text[k] = "other half"
           /\ \A m \in (i + 1)..(k - 1) : text[m] = "blank"

\* "must be screened before it reaches the agent": no agent is handed a pattern,
\* not one that an earlier run of another job has printed either.
AgentPromptsAreClean ==
    \A j \in Jobs : pass.out[j] # None /\ pass.out[j].prompt # None =>
        ~Poisoned(pass.out[j].prompt)

\* All targets of the snapshot at hand are done with.
HooksDone == pass.pc = "hook" /\ ~AtTarget

\* One target that is blocked or does not answer costs no other target its
\* post: each one that is allowed has answered, or was tried three times.  A
\* blocked one hears nothing, and a post that was answered is not repeated.
EveryTargetIsTried ==
    HooksDone => \A k \in DOMAIN posts :
        LET target == deliver[pass.snap][k]
        IN  IF target.kind = "webhook" /\ allowed(target.url)
            THEN /\ posts[k].tried <= 3
                 /\ posts[k].acked \/ posts[k].tried = 3
            ELSE posts[k].tried = 0

\* The pass reports a delivery error exactly when some webhook has not answered,
\* whether the ones before or after it have.
HookReportIsTrue ==
    HooksDone =>
        (pass.error <=> \E k \in DOMAIN posts :
                            deliver[pass.snap][k].kind = "webhook" /\ ~posts[k].acked)

\* The first line of an output that has the schema decides, whatever other
\* lines come before and after it: a broken decision is never overtaken by a
\* later one, and stderr has its say only when stdout has none.
DecisionStands ==
    \A j \in Jobs : pass.out[j] # None =>
        LET text == pass.out[j].markdown
            said == parse_event_loop_decision(text)
        IN  \A i \in DOMAIN text :
                /\ text[i] \in Schematic
                /\ \A k \in 1..(i - 1) : text[k] \in Plain
                => said = IF text[i] \in Actions THEN text[i] ELSE "fail"

\* A pass whose children have ended delivers and ends, whatever the webhooks do.
DeliveryEnds == pass.pc \in {"next", "file", "log", "hook"} ~> pass.pc = "idle"

=============================================================================
