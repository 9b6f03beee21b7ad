---------------------------- MODULE GrammarProofs ----------------------------
(***************************************************************************)
(* The loop of compute_next_run returns the closed form NextInterval and   *)
(* lands on the next slot of the grid, for every period, anchor and clock, *)
(* whether it is called for a stored job or for what was just typed; and a *)
(* duration that is typed is taken for what it says, whatever the width of *)
(* the machine's integers and the limits of the calendar.                  *)
(***************************************************************************)
EXTENDS Grammar, ScheduleProofs

-----------------------------------------------------------------------------
(* The loop *)

\* One turn of the loop does not change the grid point it is heading for.
LEMMA IterateKeepsTarget ==
    ASSUME NEW p \in Nat, p > 0, NEW cursor \in Nat, NEW instant \in Nat,
           cursor <= instant
    PROVE  NextOnGrid(cursor + p, p, instant) = NextOnGrid(cursor, p, instant)
<1> DEFINE gap == instant - cursor
<1>1. gap \in Nat /\ NextOnGrid(cursor, p, instant) = instant + p - (gap % p)
  BY DEF NextOnGrid
<1>2. CASE cursor + p > instant
  <2>1. gap < p
    BY <1>2
  <2>2. gap % p = gap
    BY <1>1, <2>1, ModUnique, gap = p * 0 + gap
  <2>3. NextOnGrid(cursor + p, p, instant) = cursor + p
    BY <1>2 DEF NextOnGrid
  <2>4. QED
    BY <1>1, <2>2, <2>3
<1>3. CASE ~(cursor + p > instant)
  <2>1. NextOnGrid(cursor + p, p, instant) = instant + p - ((instant - (cursor + p)) % p)
    BY <1>3 DEF NextOnGrid
  <2>2. instant - (cursor + p) \in Int /\ (instant - (cursor + p)) + p = gap
    OBVIOUS
  <2>3. gap % p = (instant - (cursor + p)) % p
    BY <2>2, ModPlusPeriod
  <2>4. QED
    BY <1>1, <2>1, <2>3
<1>4. QED
  BY <1>2, <1>3

\* The invariant: what the loop still has to do from the cursor ends where the
\* closed form does, and the cursor is on the grid.
Target == NextOnGrid(anchor + period, period, now)

IInv ==
    /\ TypeOK
    /\ pc = "loop" =>
           /\ period > 0
           /\ NextOnGrid(next, period, now) = Target
    /\ pc = "done" => result = NextInterval(period, last, now)

CallInv == IInv /\ OnGridSoFar

LEMMA CallTypes ==
    ASSUME TypeOK
    PROVE  anchor \in Nat /\ now \in Nat /\ anchor <= MaxTime /\ now <= MaxTime
BY MaxTimeAssumption DEF TypeOK, anchor, Instants

LEMMA StepKeepsTarget ==
    ASSUME IInv, Next
    PROVE  IInv'
<1> USE CallTypes DEF IInv
<1>1. CASE RejectPeriod
  BY <1>1 DEF RejectPeriod, args, TypeOK, OptInstant, NextInterval
<1>2. CASE EnterLoop
  <2>1. period' = period /\ last' = last /\ now' = now /\ anchor' = anchor
    BY <1>2 DEF EnterLoop, args, anchor
  <2>2. next' = anchor + period /\ next' \in Nat /\ period > 0
    BY <1>2 DEF EnterLoop, TypeOK
  <2>3. (NextOnGrid(next, period, now) = Target)'
    BY <2>1, <2>2 DEF Target, NextOnGrid
  <2>4. QED
    BY <1>2, <2>1, <2>2, <2>3 DEF EnterLoop, TypeOK
<1>3. CASE Iterate
  <2>1. period' = period /\ last' = last /\ now' = now /\ anchor' = anchor
    BY <1>3 DEF Iterate, args, anchor
  <2>2. pc = "loop" /\ period > 0 /\ next <= now /\ next' = next + period /\ next' \in Nat
    BY <1>3 DEF Iterate, TypeOK
  <2>3. NextOnGrid(next + period, period, now) = NextOnGrid(next, period, now)
    BY <2>2, IterateKeepsTarget DEF TypeOK
  <2>4. (NextOnGrid(next, period, now) = Target)'
    BY <2>1, <2>2, <2>3 DEF Target, NextOnGrid
  <2>5. QED
    BY <1>3, <2>1, <2>2, <2>4 DEF Iterate, TypeOK
<1>4. CASE LeaveLoop
  <2>1. NextOnGrid(next, period, now) = next
    BY <1>4 DEF LeaveLoop, NextOnGrid
  <2>2. NextInterval(period, last, now) = Target
    BY <1>4 DEF LeaveLoop, NextInterval, Target, anchor, TypeOK
  <2>3. QED
    BY <1>4, <2>1, <2>2 DEF LeaveLoop, args, TypeOK, OptInstant
<1>5. QED
  BY <1>1, <1>2, <1>3, <1>4 DEF Next


LEMMA FirstCursor ==
    ASSUME TypeOK, period > 0
    PROVE  IsCursor(anchor + period)
<1>1. anchor \in Nat /\ period \in Nat
  BY CallTypes DEF TypeOK
<1>2. (period * 1 + 0) % period = 0
  BY <1>1, ModUnique
<1>3. (anchor + period) - anchor = period * 1 + 0
  BY <1>1
<1>4. QED
  BY <1>1, <1>2, <1>3 DEF IsCursor

LEMMA NextCursor ==
    ASSUME TypeOK, IsCursor(next), next <= now
    PROVE  IsCursor(next + period)
<1>1. anchor \in Nat /\ period \in Nat /\ period > 0 /\ next \in Nat /\ now \in Nat
  BY CallTypes DEF TypeOK, IsCursor
<1>2. ((next - anchor) + period) % period = (next - anchor) % period
  BY <1>1, ModPlusPeriod
<1>3. (next + period) - anchor = (next - anchor) + period
  BY <1>1
<1>4. QED
  BY <1>1, <1>2, <1>3 DEF IsCursor

LEMMA StepKeepsGrid ==
    ASSUME TypeOK, OnGridSoFar, Next
    PROVE  OnGridSoFar'
<1>1. CASE RejectPeriod
  BY <1>1 DEF RejectPeriod, OnGridSoFar
<1>2. CASE EnterLoop
  <2>1. IsCursor(anchor + period)
    BY <1>2, FirstCursor DEF EnterLoop
  <2>2. QED
    BY <1>2, <2>1 DEF EnterLoop, args, OnGridSoFar, IsCursor, anchor
<1>3. CASE Iterate
  <2>1. IsCursor(next + period)
    BY <1>3, NextCursor DEF Iterate, OnGridSoFar
  <2>2. QED
    BY <1>3, <2>1 DEF Iterate, args, OnGridSoFar, IsCursor, anchor
<1>4. CASE LeaveLoop
  BY <1>4 DEF LeaveLoop, args, OnGridSoFar, IsCursor, anchor
<1>5. QED
  BY <1>1, <1>2, <1>3, <1>4 DEF Next

LEMMA CallStep ==
    ASSUME CallInv, Next
    PROVE  CallInv'
BY StepKeepsTarget, StepKeepsGrid DEF CallInv, IInv

LEMMA CallStays ==
    ASSUME CallInv, UNCHANGED vars
    PROVE  CallInv'
BY DEF CallInv, vars, IInv, TypeOK, Target, anchor, NextOnGrid, NextInterval, OnGridSoFar,
       IsCursor

\* Where no loop is under way, there is nothing to keep but the types.
LEMMA OutsideTheLoop ==
    ASSUME TypeOK', pc' \notin {"loop", "done"}
    PROVE  CallInv'
BY DEF CallInv, IInv, OnGridSoFar

LEMMA CallInit == Init => CallInv
BY MaxPeriodAssumption, MaxTimeAssumption
DEF Init, CallInv, IInv, TypeOK, Instants, OptInstant, OnGridSoFar

LEMMA CallComputes == CallInv => ComputesNextInterval
BY DEF CallInv, IInv, ComputesNextInterval, compute_next_run

LEMMA CallLands == CallInv => LandsOnNextSlot
<1> SUFFICES ASSUME TypeOK, pc = "done", IsCursor(result), result > now, result # None,
                    NEW slot \in (anchor + 1)..(result - 1),
                    (slot - anchor) % period = 0
             PROVE  slot <= now
  BY DEF CallInv, IInv, OnGridSoFar, LandsOnNextSlot, IsCursor
<1>1. anchor \in Nat /\ period \in Nat /\ period > 0 /\ now \in Nat /\ result \in Nat
  BY CallTypes DEF TypeOK, IsCursor, OptInstant
<1>2. (slot - anchor) + period <= result - anchor
  BY <1>1, MultiplesApart DEF IsCursor
<1>3. slot + period <= result /\ slot > anchor
  BY <1>1, <1>2
<1>4. QED
  BY <1>1, <1>3 DEF IsCursor

LEMMA CallAlways == Spec => []CallInv
BY CallInit, CallStep, CallStays, PTL DEF Spec

\* The loop returns the closed form, whatever the period, the last run and
\* the wall clock: the Interval arm of compute_next_run is NextInterval.
THEOREM LoopComputesNextInterval == Spec => []ComputesNextInterval
BY CallAlways, CallComputes, PTL

\* A late call lands on the one next slot: in the future, on the anchor's
\* grid, with no slot of the grid between now and it, whatever the period,
\* the last run and the wall clock.
THEOREM LoopLandsOnNextSlot == Spec => []LandsOnNextSlot
BY CallAlways, CallLands, PTL

-----------------------------------------------------------------------------
(* What was typed *)

Durations == {t \in Typed : t.form \in {"every", "bare"}}

LEMMA DurationParts ==
    ASSUME NEW t \in Typed, t.form \in {"every", "bare"}
    PROVE  t \in Durations /\ t.n \in Nat \cup {None} /\ t.unit \in Units
BY TypedAssumption DEF Typed, Durations

LEMMA WidthIsEnough == 2^Width \in Nat /\ 2^Width > MaxDelta /\ MaxDelta > MaxDate
                                         /\ MaxDate \in Nat /\ MaxDelta \in Nat
<1> DEFINE half  == 2^(Width - 1)
           whole == 2^Width
<1>1. half \in Nat /\ whole = half + half /\ MaxDelta < half
  BY PowersAssumption, LimitsAssumption
<1>2. MaxDelta \in Nat /\ MaxDate \in Nat /\ MaxDate < MaxDelta
  BY LimitsAssumption
<1> HIDE DEF half, whole
<1>3. whole \in Nat /\ whole > MaxDelta
  BY <1>1, <1>2
<1>4. QED
  BY <1>2, <1>3 DEF whole

\* The product, the cast to i64 and the overflow of the product, for what the
\* calendar can reach: nothing is changed.
LEMMA SpanIsAsked ==
    ASSUME NEW t \in Durations, IsAccepted(t)
    PROVE  LET asked == t.n * Minutes[t.unit]
               span  == AsSigned(parse_duration(t))
           IN  /\ asked \in Nat /\ asked > 0
               /\ span \in Int
               /\ asked <= MaxDelta => ~Overflows(t) /\ span = asked
<1> DEFINE asked == t.n * Minutes[t.unit]
           half  == 2^(Width - 1)
           whole == 2^Width
<1>1. half \in Nat /\ whole = half + half /\ MaxDelta \in Nat /\ MaxDelta < half
  BY PowersAssumption, LimitsAssumption
<1>2. t.n \in Nat /\ t.n > 0 /\ t.unit \in {"m", "h", "d"}
  <2>1. t.unit \in Units
    BY DurationParts DEF Durations
  <2>2. t.n \in 1..(whole - 1) /\ t.unit # "no unit"
    BY DEF IsAccepted
  <2> HIDE DEF whole, half
  <2>3. whole \in Int
    BY <1>1
  <2>4. \A k \in 1..(whole - 1) : k \in Nat /\ k > 0
    BY <2>3
  <2>5. t.unit \in {"m", "h", "d"}
    BY <2>1, <2>2, Zenon DEF Units
  <2>6. QED
    BY <2>2, <2>4, <2>5
<1>3. asked \in Nat /\ asked > 0
  <2>1. Minutes[t.unit] \in {1, 60, 1440}
    BY <1>2 DEF Minutes
  <2> HIDE DEF asked
  <2>2. QED
    BY <1>2, <2>1 DEF asked
<1> HIDE DEF asked, half, whole
<1>4. whole \in Nat /\ whole > 0
  BY <1>1
<1>5. asked % whole \in Nat /\ (asked < whole => asked % whole = asked)
  <2>1. asked = whole * 0 + asked
    BY <1>3, <1>4
  <2>2. QED
    BY <1>3, <1>4, <2>1, ModUnique
<1>6. parse_duration(t) = asked % whole /\ (Overflows(t) <=> asked >= whole)
  BY DEF parse_duration, Overflows, asked, whole
<1>7. AsSigned(asked % whole) = IF asked % whole < half THEN asked % whole
                                                       ELSE (asked % whole) - whole
  BY DEF AsSigned, half, whole
<1>8. AsSigned(parse_duration(t)) \in Int
  BY <1>4, <1>5, <1>6, <1>7
<1>9. ASSUME asked <= MaxDelta PROVE ~Overflows(t) /\ AsSigned(parse_duration(t)) = asked
  BY <1>1, <1>3, <1>4, <1>5, <1>6, <1>7, <1>9
<1>10. QED
  BY <1>3, <1>8, <1>9 DEF asked

\* Beyond the calendar, and from now if there is no other anchor.
IsBeyond ==
    /\ MaxTime + Asked > MaxDate
    /\ last = None => now + Asked > MaxDate

\* What is within the calendar is neither wrapped nor cast to something else.
LEMMA WithinTheCalendar ==
    ASSUME TypeOK, text \in Durations, IsAccepted(text)
    PROVE  /\ Asked \in Nat /\ Asked > 0 /\ Span \in Int
           /\ Asked <= MaxDelta => ~Overflows(text) /\ Span = Asked
           /\ now + Asked > MaxDate => IsBeyond
<1>1. now <= MaxTime /\ now \in Nat /\ MaxTime \in Nat /\ MaxDate \in Nat
  BY CallTypes, MaxTimeAssumption, LimitsAssumption
<1>2. /\ Asked \in Nat /\ Asked > 0 /\ Span \in Int
      /\ Asked <= MaxDelta => ~Overflows(text) /\ Span = Asked
  BY SpanIsAsked DEF Asked, Span
<1>3. QED
  BY <1>1, <1>2 DEF IsBeyond

\* The invariant: what the text was read as is still at hand at every step.
TypedInv ==
    /\ text = None => pc \in {"start", "loop", "done", "panicked"}
    /\ text # None => text \in Typed
    /\ pc = "create" /\ schedule.kind = "interval" =>
           text.form = "every" /\ schedule.minutes = parse_duration(text)

DurationInv ==
    text # None /\ text \in Durations =>
        /\ pc = "refused" <=> pc # "parse" /\ ~IsAccepted(text)
        /\ pc = "create" =>
               \/ text.form = "every" /\ schedule.kind = "interval"
               \/ text.form = "bare" /\ schedule = [kind |-> "once", run_at |-> now + Span]
        /\ pc \in {"start", "loop", "done"} => text.form = "every" /\ period = Span
        /\ pc = "given" => (last = None => result = now + Span)
        /\ pc = "panicked" => IsBeyond

GInv == CallInv /\ TypedInv /\ DurationInv


-----------------------------------------------------------------------------
(* Every step keeps the invariant.                                         *)

LEMMA GInvInit == GInit => GInv
<1>1. ASSUME Init, text = None, schedule = None PROVE GInv
  BY <1>1, CallInit DEF Init, GInv, TypedInv, DurationInv
<1>2. ASSUME text \in Typed, period = 0, next = 0, result = None,
             last \in Instants \cup {None}, now \in Instants, pc = "parse"
      PROVE  GInv
  BY <1>2, TypedAssumption
  DEF GInv, CallInv, IInv, OnGridSoFar, TypeOK, TypedInv, DurationInv
<1>3. QED
  BY <1>1, <1>2 DEF GInit

\* The steps outside the loop change neither the arguments nor the cursor.
LEMMA OutsideKeepsTypes ==
    ASSUME CallInv, UNCHANGED <<last, now, next>>, period' \in Int,
           pc' \notin {"loop", "done"}
    PROVE  CallInv'
BY OutsideTheLoop DEF CallInv, IInv, TypeOK

LEMMA SameText ==
    ASSUME text' = text
    PROVE  Span' = Span /\ Asked' = Asked /\ IsAccepted(text)' = IsAccepted(text)
BY DEF Span, Asked, IsAccepted, AsSigned, parse_duration, Minutes

LEMMA ParseKeepsGInv ==
    ASSUME GInv, ParseEvery \/ ParseBare \/ ParseCron \/ ParseIso
    PROVE  GInv'
<1>1. /\ pc = "parse" /\ pc' = "create" /\ UNCHANGED <<args, next, result, text>>
      /\ text # None /\ text \in Typed
  BY DEF GInv, TypedInv, ParseEvery, ParseBare, ParseCron, ParseIso, IsDuration, Reads
<1>2. CallInv'
  BY <1>1, OutsideKeepsTypes DEF GInv, args, CallInv, IInv, TypeOK
<1>3. TypedInv'
  BY <1>1 DEF TypedInv, ParseEvery, ParseBare, ParseCron, ParseIso, Reads, IsDuration,
              parse_duration, Minutes
<1>4. DurationInv'
  <2> SUFFICES ASSUME text \in Durations
               PROVE  /\ IsAccepted(text)
                      /\ \/ text.form = "every" /\ schedule'.kind = "interval"
                         \/ /\ text.form = "bare"
                            /\ schedule' = [kind |-> "once", run_at |-> now + Span]
    BY <1>1 DEF DurationInv, IsAccepted, Span, parse_duration, AsSigned, Minutes, args
  <2> QED
    BY DEF ParseEvery, ParseBare, ParseCron, ParseIso, Reads, IsDuration, Durations
<1>5. QED
  BY <1>2, <1>3, <1>4 DEF GInv

LEMMA StopsKeepsGInv ==
    ASSUME GInv, NEW how \in {"refused", "panicked"}, Stops(how),
           text # None /\ text \in Durations =>
               /\ how = "refused" <=> ~IsAccepted(text)
               /\ how = "panicked" => IsBeyond,
           text = None => how = "panicked"
    PROVE  GInv'
<1>1. CallInv'
  BY OutsideKeepsTypes DEF GInv, Stops, args, CallInv, IInv, TypeOK
<1>2. TypedInv' /\ DurationInv'
  BY DEF GInv, TypedInv, DurationInv, Stops, typedVars, args, IsBeyond, Asked, IsAccepted
<1>3. QED
  BY <1>1, <1>2 DEF GInv

LEMMA RefuseKeepsGInv ==
    ASSUME GInv, Refuse
    PROVE  GInv'
<1>1. text # None /\ text \in Durations => ~IsAccepted(text)
  BY DEF Refuse, Durations
<1>2. text # None
  BY DEF GInv, TypedInv, Refuse
<1>3. QED
  BY <1>1, <1>2, StopsKeepsGInv DEF Refuse

LEMMA ParsePanicsKeepsGInv ==
    ASSUME GInv, ParsePanics
    PROVE  GInv'
<1>1. text # None /\ text \in Durations /\ IsAccepted(text) /\ TypeOK
  BY DurationParts DEF GInv, CallInv, IInv, TypedInv, ParsePanics, IsDuration
<1>2. now + Asked > MaxDate
  <2> SUFFICES ASSUME ~(now + Asked > MaxDate) PROVE FALSE
    OBVIOUS
  <2>1. now + Asked <= MaxDate /\ Asked <= MaxDelta /\ Asked \in Nat /\ now \in Nat /\ now <= MaxTime
    BY <1>1, WithinTheCalendar, CallTypes, LimitsAssumption
  <2>2. ~Overflows(text) /\ Span = Asked
    BY <1>1, <2>1, WithinTheCalendar
  <2>3. IsDelta(Span) /\ IsDate(now + Span)
    BY <2>1, <2>2, LimitsAssumption, MaxTimeAssumption DEF IsDelta, IsDate
  <2>4. QED
    BY <2>2, <2>3 DEF ParsePanics
<1>3. QED
  BY <1>1, <1>2, WithinTheCalendar, StopsKeepsGInv DEF ParsePanics


LEMMA CallIntervalKeepsGInv ==
    ASSUME GInv, CallInterval
    PROVE  GInv'
<1>1. /\ pc' = "start" /\ UNCHANGED <<last, now, next, result, text>>
      /\ text # None /\ text \in Typed /\ text \in Durations /\ text.form = "every"
      /\ IsAccepted(text) /\ TypeOK /\ period' = Span
  BY DurationParts
  DEF GInv, CallInv, IInv, TypedInv, DurationInv, CallInterval, typedVars, Span
<1>2. period' \in Int
  BY <1>1, WithinTheCalendar
<1>3. CallInv'
  BY <1>1, <1>2, OutsideKeepsTypes DEF GInv
<1>4. TypedInv' /\ DurationInv'
  BY <1>1, SameText DEF TypedInv, DurationInv
<1>5. QED
  BY <1>3, <1>4 DEF GInv

LEMMA CallOtherKeepsGInv ==
    ASSUME GInv, CallOther
    PROVE  GInv'
<1>1. /\ pc = "create" /\ pc' = "given" /\ UNCHANGED <<args, next, typedVars>>
      /\ text # None /\ text \in Typed
      /\ result' = compute_next_run(schedule, last, now)
  BY DEF CallOther, GInv, TypedInv
<1>2. CallInv'
  BY <1>1, OutsideKeepsTypes DEF GInv, args, CallInv, IInv, TypeOK
<1>3. TypedInv'
  BY <1>1 DEF TypedInv, typedVars
<1>4. ASSUME text \in Durations
      PROVE  IsAccepted(text) /\ (last = None => result' = now + Span)
  <2>1. IsAccepted(text) /\ schedule = [kind |-> "once", run_at |-> now + Span]
    BY <1>1, <1>4 DEF GInv, DurationInv, CallOther
  <2>2. QED
    BY <1>1, <2>1 DEF compute_next_run, NextOnce
<1>5. DurationInv'
  BY <1>1, <1>4
  DEF DurationInv, IsAccepted, Span, parse_duration, AsSigned, Minutes, typedVars, args
<1>6. QED
  BY <1>2, <1>3, <1>5 DEF GInv

LEMMA ComputeKeepsGInv ==
    ASSUME GInv, Compute
    PROVE  GInv'
<1>1. /\ pc \in {"start", "loop"} /\ pc' \in {"loop", "done"}
      /\ UNCHANGED <<args, typedVars>>
  BY DEF Compute, Next, RejectPeriod, EnterLoop, Iterate, LeaveLoop
<1>2. CallInv'
  BY CallStep DEF GInv, Compute
<1>3. period' = period /\ last' = last /\ now' = now /\ text' = text
  BY <1>1 DEF args, typedVars
<1>4. TypedInv' /\ DurationInv'
  BY <1>1, <1>3, SameText DEF GInv, TypedInv, DurationInv
<1>5. QED
  BY <1>2, <1>4 DEF GInv

\* A call panics only for a period that leads beyond the calendar.
LEMMA ComputePanicsKeepsGInv ==
    ASSUME GInv, ComputePanics
    PROVE  GInv'
<1>1. Stops("panicked") /\ pc \in {"create", "start", "loop"}
  BY DEF ComputePanics
<1>2. ASSUME text # None, text \in Durations PROVE IsAccepted(text) /\ IsBeyond
  <2>1. IsAccepted(text) /\ TypeOK
    BY <1>1, <1>2 DEF GInv, DurationInv, CallInv, IInv
  <2> DEFINE asked == Asked
             span  == Span
  <2>2. /\ asked \in Nat /\ asked > 0 /\ span \in Int
        /\ asked <= MaxDelta => span = asked
        /\ now + asked > MaxDate => IsBeyond
    BY <1>2, <2>1, WithinTheCalendar
  <2>3. /\ now \in Nat /\ anchor \in Nat /\ anchor <= MaxTime /\ now <= MaxTime
        /\ MaxDate \in Nat /\ MaxDelta \in Nat /\ MaxTime \in Nat /\ MaxDate < MaxDelta
        /\ next \in Nat
    BY <2>1, CallTypes, LimitsAssumption, MaxTimeAssumption DEF TypeOK
  <2>4. IsBeyond <=> /\ MaxTime + asked > MaxDate
                     /\ last = None => now + asked > MaxDate
    BY DEF IsBeyond
  <2>5. last = None => anchor = now
    BY DEF anchor
  <2>6. CASE pc = "create"
    <3>1. ~IsDelta(span)
      BY <1>2, <2>6 DEF ComputePanics, GInv, TypedInv, Span
    <3> HIDE DEF asked, span
    <3>2. asked > MaxDelta
      BY <2>2, <2>3, <3>1 DEF IsDelta
    <3>3. QED
      BY <2>1, <2>2, <2>3, <3>2
  <2>7. CASE pc = "start"
    <3>1. period = span /\ ~IsDate(anchor + period)
      BY <1>2, <2>7 DEF ComputePanics, GInv, DurationInv
    <3> HIDE DEF asked, span
    <3>2. anchor + asked > MaxDate
      BY <2>2, <2>3, <3>1 DEF IsDate
    <3>3. QED
      BY <2>1, <2>2, <2>3, <2>4, <2>5, <3>2
  <2>8. CASE pc = "loop"
    <3>1. period = span /\ next <= now /\ ~IsDate(next + period) /\ period > 0
      BY <1>2, <2>8 DEF ComputePanics, GInv, DurationInv, CallInv, IInv
    <3> HIDE DEF asked, span
    <3>2. now + asked > MaxDate
      BY <2>2, <2>3, <3>1 DEF IsDate
    <3>3. QED
      BY <2>1, <2>2, <3>2
  <2>9. QED
    BY <1>1, <2>6, <2>7, <2>8
<1>3. QED
  BY <1>1, <1>2, StopsKeepsGInv


LEMMA GrammarAlways == GSpec => []GInv
<1>1. GInv /\ [GNext]_gvars => GInv'
  <2>1. ASSUME GInv, UNCHANGED gvars PROVE GInv'
    <3>1. CallInv'
      BY <2>1, CallStays DEF GInv, gvars
    <3>2. TypedInv' /\ DurationInv'
      <4>1. pc' = pc /\ args' = args /\ result' = result /\ text' = text /\ schedule' = schedule
        BY <2>1 DEF gvars, vars, args, typedVars
      <4>2. parse_duration(text)' = parse_duration(text)
        BY <4>1 DEF parse_duration, Minutes
      <4>3. IsBeyond' = IsBeyond
        BY <4>1, SameText DEF IsBeyond, args
      <4>4. TypedInv'
        BY <2>1, <4>1, <4>2 DEF GInv, TypedInv
      <4>5. DurationInv'
        BY <2>1, <4>1, <4>3, SameText DEF GInv, DurationInv, args
      <4>6. QED
        BY <4>4, <4>5
    <3>3. QED
      BY <3>1, <3>2 DEF GInv
  <2>2. QED
    BY <2>1, ParseKeepsGInv, RefuseKeepsGInv, ParsePanicsKeepsGInv, CallIntervalKeepsGInv,
       CallOtherKeepsGInv, ComputeKeepsGInv, ComputePanicsKeepsGInv
    DEF GNext
<1>2. QED
  BY <1>1, GInvInit, PTL DEF GSpec

\* u64's range, minus zero.
LEMMA OutOfRange ==
    /\ None \notin 1..(2^Width - 1) /\ 0 \notin 1..(2^Width - 1)
    /\ \A n \in Nat : n # 0 /\ n \notin 1..(2^Width - 1) => n >= 2^Width
<1> DEFINE whole == 2^Width
<1>1. whole \in Nat
  BY WidthIsEnough
<1> HIDE DEF whole
<1>2. None \notin 1..(whole - 1)
  BY <1>1, NoneAssumption
<1>3. 0 \notin 1..(whole - 1)
  BY <1>1
<1>4. \A n \in Nat : n # 0 /\ n \notin 1..(whole - 1) => n >= whole
  BY <1>1
<1>5. QED
  BY <1>2, <1>3, <1>4 DEF whole

LEMMA SaysNothing ==
    ASSUME NEW t, t.n = None \/ t.n = 0 \/ t.unit = "no unit"
    PROVE  ~IsAccepted(t)
BY OutOfRange, Zenon DEF IsAccepted

LEMMA SaysSomething ==
    ASSUME NEW t \in Durations, t.n # None, t.n # 0, t.unit # "no unit", ~IsAccepted(t)
    PROVE  t.n \in Nat /\ t.n >= 2^Width
<1>1. t.n \in Nat
  BY DurationParts, Zenon DEF Durations
<1>2. t.n \notin 1..(2^Width - 1)
  BY Zenon DEF IsAccepted
<1>3. QED
  BY <1>1, <1>2, OutOfRange, Zenon

LEMMA MinutesOf ==
    ASSUME NEW n \in Nat, NEW unit \in {"m", "h", "d"}
    PROVE  n * Minutes[unit] \in Nat /\ n * Minutes[unit] >= n
<1> DEFINE m == Minutes[unit]
<1>1. m \in {1, 60, 1440}
  BY DEF Minutes
<1> HIDE DEF m
<1>2. n * m \in Nat /\ n * m >= n
  BY <1>1
<1>3. QED
  BY <1>2 DEF m

\* What is asked is no less than the number in it.
LEMMA AskedAtLeast ==
    ASSUME text \in Durations, text.n \in Nat, text.unit # "no unit"
    PROVE  Asked \in Nat /\ Asked >= text.n
<1>1. text.unit \in {"m", "h", "d"}
  BY DurationParts, Zenon DEF Durations, Units
<1>2. text.n * Minutes[text.unit] \in Nat /\ text.n * Minutes[text.unit] >= text.n
  BY <1>1, MinutesOf
<1>3. QED
  BY <1>2, Zenon DEF Asked

\* What is typed and what is stored: the arm of compute_next_run returns the
\* closed form, as above, when it is called with what the parser produced.
THEOREM TypedIntervalsAreComputed == GSpec => []ComputesNextInterval
BY GrammarAlways, CallComputes, PTL DEF GInv

\* ... and lands on the one next slot of the grid of what was typed.
THEOREM TypedIntervalsLand == GSpec => []LandsOnNextSlot
BY GrammarAlways, CallLands, PTL DEF GInv

\* A duration that says something is taken for exactly that wherever the
\* calendar reaches, for every number, unit, width of the machine's integers
\* and limits of chrono: parse_duration's product, the cast to i64 and the
\* loop change nothing, and only what lies beyond the calendar may panic.
THEOREM DurationsAreRead == GSpec => []ReadsTheGrammar
<1>1. GInv => ReadsTheGrammar
  <2> SUFFICES ASSUME GInv, pc \in Ended, text # None, text.form \in {"every", "bare"}
               PROVE  IF text.n = None \/ text.n = 0 \/ text.unit = "no unit"
                      THEN pc = "refused"
                      ELSE /\ pc = "refused" => text.n >= 2^Width
                           /\ pc = "panicked" => MaxTime + Asked > MaxDate
                           /\ last = None /\ now + Asked <= MaxDate => result = now + Asked
    BY DEF ReadsTheGrammar
  <2>1. /\ text \in Durations /\ text.n \in Nat \cup {None} /\ TypeOK /\ pc # "parse"
        /\ pc \in Ended
    BY DurationParts DEF GInv, TypedInv, CallInv, IInv, Ended
  <2>2. pc = "refused" <=> ~IsAccepted(text)
    BY <2>1 DEF GInv, DurationInv
  <2>3. CASE text.n = None \/ text.n = 0 \/ text.unit = "no unit"
    BY <2>2, <2>3, SaysNothing
  <2>4. CASE ~(text.n = None \/ text.n = 0 \/ text.unit = "no unit")
    <3>1. pc = "refused" => text.n >= 2^Width
      BY <2>1, <2>2, <2>4, SaysSomething
    <3>2. pc = "panicked" => IsBeyond
      BY <2>1 DEF GInv, DurationInv
    <3>3. ASSUME last = None, now + Asked <= MaxDate PROVE result = now + Asked
      <4>1. now \in Nat /\ MaxDate \in Nat /\ MaxDate < MaxDelta /\ MaxDate < 2^Width
        BY <2>1, CallTypes, WidthIsEnough
      <4>2. IsAccepted(text)
        <5> SUFFICES ASSUME ~IsAccepted(text) PROVE FALSE
          OBVIOUS
        <5> DEFINE n == text.n
                   asked == Asked
                   whole == 2^Width
        <5>1. n \in Nat /\ n >= whole
          BY <2>1, <2>4, SaysSomething, Zenon
        <5>2. asked \in Nat /\ asked >= n
          BY <2>1, <2>4, <5>1, AskedAtLeast, Zenon
        <5>3. whole \in Nat /\ whole > MaxDate /\ now + asked <= MaxDate
          BY <3>3, <4>1, WidthIsEnough
        <5> HIDE DEF n, asked, whole
        <5>4. QED
          BY <4>1, <5>1, <5>2, <5>3
      <4>3. Asked \in Nat /\ Asked > 0 /\ Span = Asked
        <5>1. Asked \in Nat /\ Asked > 0 /\ (Asked <= MaxDelta => Span = Asked)
          BY <2>1, <4>2, WithinTheCalendar
        <5> DEFINE asked == Asked
        <5>2. asked \in Nat /\ now + asked <= MaxDate /\ MaxDelta \in Nat
          BY <3>3, <5>1, WidthIsEnough
        <5> HIDE DEF asked
        <5>3. asked <= MaxDelta
          BY <4>1, <5>2
        <5>4. QED
          BY <5>1, <5>3 DEF asked
      <4>4. pc # "panicked"
        BY <3>2, <3>3, <4>1, <4>3 DEF IsBeyond
      <4>5. CASE pc = "given"
        BY <2>1, <3>3, <4>3, <4>5 DEF GInv, DurationInv
      <4>6. CASE pc = "done"
        <5>1. result = NextInterval(Asked, None, now)
          BY <2>1, <3>3, <4>3, <4>6 DEF GInv, DurationInv, CallInv, IInv
        <5> HIDE DEF Asked
        <5>2. QED
          BY <4>1, <4>3, <5>1 DEF NextInterval, NextOnGrid
      <4>7. QED
        BY <2>1, <2>2, <4>2, <4>4, <4>5, <4>6 DEF Ended
    <3>4. QED
      BY <2>4, <3>1, <3>2, <3>3 DEF IsBeyond
  <2>5. QED
    BY <2>3, <2>4
<1>2. QED
  BY <1>1, GrammarAlways, PTL

=============================================================================
