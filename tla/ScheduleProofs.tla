--------------------------- MODULE ScheduleProofs ---------------------------
(* What compute_next_run returns, for every schedule. *)
EXTENDS Schedule, TLAPS

-----------------------------------------------------------------------------
(* Remainders *)

LEMMA ProductAtLeast ==
    ASSUME NEW p \in Nat, NEW d \in Int, d >= 1
    PROVE  p * d >= p
<1>1. p * d = p * (d - 1) + p
  OBVIOUS
<1>2. p * (d - 1) >= 0
  OBVIOUS
<1>3. QED
  BY <1>1, <1>2

\* The remainder is determined by any quotient that leaves one in range.
LEMMA ModUnique ==
    ASSUME NEW p \in Nat, p > 0, NEW q \in Int, NEW r \in 0..(p - 1)
    PROVE  (p * q + r) % p = r
<1> DEFINE a == p * q + r
           q2 == a \div p
           r2 == a % p
<1>1. a \in Int
  OBVIOUS
<1>2. q2 \in Int /\ r2 \in 0..(p - 1) /\ a = p * q2 + r2
  BY <1>1
<1>3. p * (q2 - q) = r - r2
  BY <1>2
<1>4. CASE q2 - q >= 1
  <2>1. p * (q2 - q) >= p
    BY <1>2, <1>4, ProductAtLeast
  <2>2. QED
    BY <2>1, <1>2, <1>3
<1>5. CASE q - q2 >= 1
  <2>1. p * (q - q2) >= p
    BY <1>2, <1>5, ProductAtLeast
  <2>2. p * (q - q2) = r2 - r
    BY <1>2
  <2>3. QED
    BY <2>1, <2>2, <1>2
<1>6. CASE q2 = q
  BY <1>2, <1>3, <1>6
<1>7. QED
  BY <1>2, <1>4, <1>5, <1>6

LEMMA ModPlusPeriod ==
    ASSUME NEW a \in Int, NEW p \in Nat, p > 0
    PROVE  (a + p) % p = a % p
<1> DEFINE r == a % p
           q == a \div p
<1>1. r \in 0..(p - 1) /\ q \in Int /\ a = p * q + r
  OBVIOUS
<1>2. a + p = p * (q + 1) + r /\ q + 1 \in Int
  BY <1>1
<1> HIDE DEF q, r
<1>3. (p * (q + 1) + r) % p = r
  BY <1>1, <1>2, ModUnique
<1>4. QED
  BY <1>2, <1>3 DEF r

\* Two multiples of p are equal or at least p apart.
LEMMA MultiplesApart ==
    ASSUME NEW p \in Nat, p > 0, NEW a \in Int, NEW b \in Int,
           a % p = 0, b % p = 0, a < b
    PROVE  a + p <= b
<1> DEFINE q1 == a \div p
           q2 == b \div p
<1>1. q1 \in Int /\ q2 \in Int /\ a = p * q1 /\ b = p * q2
  OBVIOUS
<1> HIDE DEF q1, q2
<1>2. p * (q2 - q1) = b - a /\ p * (q1 - q2) = a - b
  BY <1>1
<1>3. CASE q2 - q1 >= 1
  <2>1. p * (q2 - q1) >= p
    BY <1>1, <1>3, ProductAtLeast
  <2>2. QED
    BY <2>1, <1>2
<1>4. CASE q1 - q2 >= 1
  <2>1. p * (q1 - q2) >= p
    BY <1>1, <1>4, ProductAtLeast
  <2>2. QED
    BY <2>1, <1>2
<1>5. CASE q1 = q2
  BY <1>1, <1>5
<1>6. QED
  BY <1>1, <1>3, <1>4, <1>5

-----------------------------------------------------------------------------
(* compute_next_run *)

\* The grid point returned is a natural number after now, whatever the first
\* point and the period: NextInterval never stays behind the clock.
LEMMA NextOnGridAfterNow ==
    ASSUME NEW first \in Nat, NEW period \in Nat, period > 0, NEW now \in Nat
    PROVE  NextOnGrid(first, period, now) \in Nat /\ NextOnGrid(first, period, now) > now
<1>1. CASE first > now
  BY <1>1 DEF NextOnGrid
<1>2. CASE ~(first > now)
  <2>1. now - first \in Int
    OBVIOUS
  <2>2. (now - first) % period \in 0..(period - 1)
    BY <2>1
  <2>3. NextOnGrid(first, period, now) = now + period - ((now - first) % period)
    BY <1>2 DEF NextOnGrid
  <2>4. QED
    BY <2>2, <2>3
<1>3. QED
  BY <1>1, <1>2

\* With a last run that is not in the future (the case of a pass, whose
\* anchor is a due slot), the next run of any job lies strictly after now,
\* or there is none.
LEMMA NextRunAfterNow ==
    ASSUME NEW schedule \in Schedule, NEW last \in Nat, NEW now \in Instants, last <= now
    PROVE  LET next == compute_next_run(schedule, last, now)
           IN  next = None \/ (next \in Nat /\ next > now)
<1> now \in Nat /\ last # None
  BY NoneAssumption, MaxTimeAssumption DEF Instants
<1>1. CASE schedule.kind = "interval"
  <2>1. schedule.minutes \in Int
    BY <1>1 DEF Schedule, IntervalSchedule, CronSchedule, OnceSchedule
  <2>2. compute_next_run(schedule, last, now) = NextInterval(schedule.minutes, last, now)
    BY <1>1 DEF compute_next_run
  <2>3. CASE schedule.minutes <= 0
    BY <2>2, <2>3 DEF NextInterval
  <2>4. CASE ~(schedule.minutes <= 0)
    <3>1. schedule.minutes \in Nat /\ schedule.minutes > 0 /\ last + schedule.minutes \in Nat
      BY <2>1, <2>4
    <3>2. NextInterval(schedule.minutes, last, now)
            = NextOnGrid(last + schedule.minutes, schedule.minutes, now)
      BY <2>4 DEF NextInterval
    <3>3. QED
      BY <2>2, <3>1, <3>2, NextOnGridAfterNow
  <2>5. QED
    BY <2>3, <2>4
<1>2. CASE schedule.kind = "cron"
  <2>1. schedule.expr \in CronExprs
    BY <1>2 DEF Schedule, IntervalSchedule, CronSchedule, OnceSchedule
  <2>2. compute_next_run(schedule, last, now) = Occurrence(schedule.expr, now)
    BY <1>2 DEF compute_next_run, NextCron
  <2>3. QED
    BY <2>1, <2>2, OccurrenceAssumption
<1>3. CASE schedule.kind = "once"
  BY <1>3 DEF compute_next_run, NextOnce
<1>4. QED
  BY <1>1, <1>2, <1>3 DEF Schedule, IntervalSchedule, CronSchedule, OnceSchedule

\* Whenever it ran last, even after a clock that was set back, and if it never
\* did, the next run of a job is an instant or none.
LEMMA NextRunType ==
    ASSUME NEW schedule \in Schedule, NEW now \in Instants,
           NEW last \in Instants \cup {None}
    PROVE  compute_next_run(schedule, last, now) \in OptInstant
<1> now \in Nat /\ Instants \subseteq Nat
  BY MaxTimeAssumption DEF Instants
<1>1. CASE schedule.kind = "interval"
  <2> DEFINE anchor == IF last = None THEN now ELSE last
  <2>1. schedule.minutes \in Int /\ anchor \in Nat
    BY <1>1 DEF Schedule, IntervalSchedule, CronSchedule, OnceSchedule
  <2>2. compute_next_run(schedule, last, now) = NextInterval(schedule.minutes, last, now)
    BY <1>1 DEF compute_next_run
  <2>3. CASE schedule.minutes <= 0
    BY <2>2, <2>3 DEF NextInterval, OptInstant
  <2>4. CASE ~(schedule.minutes <= 0)
    <3>1. NextInterval(schedule.minutes, last, now)
            = NextOnGrid(anchor + schedule.minutes, schedule.minutes, now)
      BY <2>4 DEF NextInterval
    <3> HIDE DEF anchor
    <3>2. schedule.minutes \in Nat /\ schedule.minutes > 0 /\ anchor + schedule.minutes \in Nat
      BY <2>1, <2>4
    <3>3. QED
      BY <2>2, <3>1, <3>2, NextOnGridAfterNow DEF OptInstant
  <2>5. QED
    BY <2>3, <2>4
<1>2. CASE schedule.kind = "cron"
  <2> DEFINE after == IF last # None /\ last > now THEN last ELSE now
  <2>1. schedule.expr \in CronExprs /\ after \in Instants
    BY <1>2 DEF Schedule, IntervalSchedule, CronSchedule, OnceSchedule
  <2>2. compute_next_run(schedule, last, now) = Occurrence(schedule.expr, after)
    BY <1>2 DEF compute_next_run, NextCron
  <2> HIDE DEF after
  <2>3. QED
    BY <2>1, <2>2, OccurrenceAssumption DEF OptInstant
<1>3. CASE schedule.kind = "once"
  BY <1>3 DEF compute_next_run, NextOnce, OptInstant, Schedule, IntervalSchedule,
              CronSchedule, OnceSchedule
<1>4. QED
  BY <1>1, <1>2, <1>3 DEF Schedule, IntervalSchedule, CronSchedule, OnceSchedule

=============================================================================
