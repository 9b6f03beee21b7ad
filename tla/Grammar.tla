------------------------------- MODULE Grammar -------------------------------
(***************************************************************************)
(* What becomes of the schedule a user types (schedule.rs): parse_schedule *)
(* and parse_duration turn the text into a Schedule, and compute_next_run, *)
(* called by Job::new or cmd_edit, gives the job its next run.  A call may *)
(* also be made for a stored interval, by a pass: those are the initial    *)
(* states of FastForward.                                                  *)
(*                                                                         *)
(* A text is what the parser can tell of it: its form and, in a duration,  *)
(* its digits and its unit.  Minutes are a u64 of Width bits that is cast  *)
(* to an i64 of as many; chrono panics beyond MaxDelta and MaxDate.        *)
(***************************************************************************)
EXTENDS FastForward

CONSTANTS
    Width,          \* bits of u64 and i64
    MaxDelta,       \* chrono: the longest TimeDelta, in minutes
    MaxDate,        \* chrono: the last DateTime<Utc>
    Digits,         \* bound: the numbers users type
    IsoTimes        \* bound: the timestamps users type

Units == {"m", "h", "d", "no unit"}

\* "every <dur>", "<dur>", a timestamp, 5 fields of cron characters that croner
\* accepts or not, nothing, anything else.
Typed ==
    [form : {"every", "bare"}, n : Digits \cup {None}, unit : Units]
        \cup [form : {"iso"}, at : IsoTimes]
        \cup [form : {"cron"}, expr : CronExprs]
        \cup [form : {"bad cron", "blank", "other"}]

ASSUME WidthAssumption == Width \in Nat /\ Width > 1

\* Facts of arithmetic, stated because the provers know nothing of powers.
ASSUME PowersAssumption ==
    2^(Width - 1) \in Nat /\ 2^Width = 2^(Width - 1) + 2^(Width - 1)

ASSUME LimitsAssumption ==
    /\ {MaxDelta, MaxDate} \subseteq Nat
    /\ MaxTime < MaxDate /\ MaxDate < MaxDelta /\ MaxDelta < 2^(Width - 1)

ASSUME TypedAssumption ==
    Digits \subseteq Nat /\ IsoTimes \subseteq Instants /\ None \notin Typed

VARIABLES
    text,       \* what was typed, None when the call is for a stored job
    schedule    \* the Schedule it was read as, None before

typedVars == <<text, schedule>>
gvars == <<vars, typedVars>>

-----------------------------------------------------------------------------
(* The arithmetic of the machine *)

Minutes == [unit \in {"m", "h", "d"} |->
                CASE unit = "m" -> 1 [] unit = "h" -> 60 [] unit = "d" -> 1440]

\* minutes as i64
AsSigned(minutes) ==
    IF minutes < 2^(Width - 1) THEN minutes ELSE minutes - 2^Width

\* Duration::minutes(m) and DateTime + Duration, where they do not panic.
IsDelta(m) == m \in (-MaxDelta)..MaxDelta
IsDate(t) == t \in (-MaxDate)..MaxDate

\* Defect: zero is accepted.
IsAcceptedZeroToo(t) == t.n \in 0..(2^Width - 1) /\ t.unit # "no unit"

\* Not Err(BadDuration): digits that parse as a u64 and are not 0, and a unit.
IsAccepted(t) == t.n \in 1..(2^Width - 1) /\ t.unit # "no unit"

\* n * mult: on overflow a debug build panics and a release build wraps.
Overflows(t) == t.n * Minutes[t.unit] >= 2^Width

parse_duration(t) == (t.n * Minutes[t.unit]) % 2^Width

-----------------------------------------------------------------------------

GInit ==
    \/ Init /\ text = None /\ schedule = None
    \/ /\ text \in Typed
       /\ schedule = None
       /\ period = 0 /\ next = 0 /\ result = None
       /\ last \in Instants \cup {None}
       /\ now \in Instants
       /\ pc = "parse"

Stops(how) == pc' = how /\ UNCHANGED <<args, next, result, typedVars>>

Reads(as) ==
    /\ schedule' = as
    /\ pc' = "create"
    /\ UNCHANGED <<args, next, result, text>>

IsDuration(form) ==
    /\ pc = "parse"
    /\ text.form = form
    /\ IsAccepted(text)

ParseEvery ==
    /\ IsDuration("every")
    /\ Reads([kind |-> "interval", minutes |-> parse_duration(text)])

\* now + Duration::minutes(minutes as i64)
Span == AsSigned(parse_duration(text))

ParseBare ==
    /\ IsDuration("bare")
    /\ IsDelta(Span)
    /\ IsDate(now + Span)
    /\ Reads([kind |-> "once", run_at |-> now + Span])

ParseCron ==
    /\ pc = "parse"
    /\ text.form = "cron"
    /\ Reads([kind |-> "cron", expr |-> text.expr])

ParseIso ==
    /\ pc = "parse"
    /\ text.form = "iso"
    /\ Reads([kind |-> "once", run_at |-> text.at])

\* Err(ScheduleError): a bad bare duration is tried as a timestamp first and
\* ends as Unrecognized.
Refuse ==
    /\ pc = "parse"
    /\ \/ text.form \in {"bad cron", "blank", "other"}
       \/ text.form \in {"every", "bare"} /\ ~IsAccepted(text)
    /\ Stops("refused")

ParsePanics ==
    /\ \/ IsDuration("every") /\ Overflows(text)
       \/ IsDuration("bare") /\ (Overflows(text) \/ ~IsDelta(Span) \/ ~IsDate(now + Span))
    /\ Stops("panicked")

\* compute_next_run(&schedule, last_run_at, now), the interval arm ...
CallInterval ==
    /\ pc = "create"
    /\ schedule.kind = "interval"
    /\ IsDelta(AsSigned(schedule.minutes))
    /\ period' = AsSigned(schedule.minutes)
    /\ pc' = "start"
    /\ UNCHANGED <<last, now, next, result, typedVars>>

\* ... and the others.
CallOther ==
    /\ pc = "create"
    /\ schedule.kind # "interval"
    /\ result' = compute_next_run(schedule, last, now)
    /\ pc' = "given"
    /\ UNCHANGED <<args, next, typedVars>>

\* A step of FastForward, where the cursor stays a DateTime.
Compute == Next /\ IsDate(next') /\ UNCHANGED typedVars

ComputePanics ==
    /\ \/ pc = "create" /\ schedule.kind = "interval"
                        /\ ~IsDelta(AsSigned(schedule.minutes))
       \/ pc = "start" /\ period > 0 /\ ~IsDate(anchor + period)
       \/ pc = "loop" /\ next <= now /\ ~IsDate(next + period)
    /\ Stops("panicked")

GNext ==
    \/ ParseEvery \/ ParseBare \/ ParseCron \/ ParseIso
    \/ Refuse \/ ParsePanics
    \/ CallInterval \/ CallOther \/ Compute \/ ComputePanics

GSpec == GInit /\ [][GNext]_gvars /\ WF_gvars(GNext)

-----------------------------------------------------------------------------
(* Properties *)

Ended == {"done", "given", "refused", "panicked"}

Asked == text.n * Minutes[text.unit]

\* A duration is taken for what it says if the calendar reaches that far and
\* refused if it says nothing, and the machine arithmetic in between (a
\* product, a cast, two chrono types) changes neither: a fresh job runs first
\* exactly that long from now.  Only beyond the calendar may a command panic.
ReadsTheGrammar ==
    pc \in Ended /\ text # None /\ text.form \in {"every", "bare"} =>
        IF text.n = None \/ text.n = 0 \/ text.unit = "no unit"
        THEN pc = "refused"
        ELSE /\ pc = "refused" => text.n >= 2^Width
             /\ pc = "panicked" => MaxTime + Asked > MaxDate
             /\ last = None /\ now + Asked <= MaxDate => result = now + Asked

\* However large the number and stale the anchor, the call returns or fails.
Answers == <>(pc \in Ended)

=============================================================================
