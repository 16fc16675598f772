------------------------------- MODULE Clocks -------------------------------
(***************************************************************************)
(* apps/workbench: the times that a page shows and that go on by           *)
(* themselves (hooks/use-now.ts): how long ago an alert fired              *)
(* (alert-queue.tsx) and for how long a triage has been going on           *)
(* (investigator-trace-stepper.tsx).                                       *)
(*                                                                         *)
(* The hook reads the clock when a component is rendered and whenever its  *)
(* interval ticks, and rounds what it read down to the interval, whose     *)
(* ticks are counted from the mount.  A tick comes when it is due.         *)
(***************************************************************************)
EXTENDS Integers, FiniteSetsExt

CONSTANTS
    Every,          \* intervalMs
    PerMinute,      \* 60 seconds, and so on: the unit of time is the second of the labels
    PerHour,
    PerDay,
    FiredAt,        \* the alert
    MaxTime         \* bound: the time a behaviour takes

ASSUME ClockConstants ==
    /\ {Every, PerMinute, PerHour, PerDay} \subseteq Nat \ {0}
    /\ FiredAt \in 0..MaxTime /\ MaxTime \in Nat

Null == -1

VARIABLES
    time,           \* Date.now()
    due,            \* the next tick of the interval, Null on no page
    now,            \* what the hook returned last, Null while the page hydrates
    stored,         \* triage_start of the case in sessionStorage
    storing,        \* does the browser let the page use sessionStorage?
    startedAt,      \* of the mount
    since           \* the first time the page was opened

clockVars == <<time, due, now, stored, storing, startedAt, since>>

ClockInit ==
    /\ time \in 0..Every /\ due = Null /\ now = Null
    /\ stored = Null /\ storing \in BOOLEAN /\ startedAt = Null /\ since = Null

Ticking == due # Null

-----------------------------------------------------------------------------
getSnapshot == (time \div Every) * Every

\* Mutant of StartOf: every mount begins anew.
StartOf_mount == time

StartOf == IF stored # Null THEN stored ELSE time

\* A page that comes from the server is hydrated with no time first.
MountClock(hydrates) ==
    /\ ~Ticking
    /\ due' = time + Every
    /\ now' = IF hydrates THEN Null ELSE getSnapshot
    /\ startedAt' = StartOf
    /\ stored' = IF storing THEN StartOf ELSE Null
    /\ since' = IF since = Null THEN time ELSE since
    /\ UNCHANGED <<time, storing>>

\* Hydration ends, or the component is rendered for another reason.
Rerendered ==
    /\ Ticking
    /\ now' = getSnapshot
    /\ UNCHANGED <<time, due, stored, storing, startedAt, since>>

ClockTick ==
    /\ Ticking /\ time = due
    /\ now' = getSnapshot /\ due' = due + Every
    /\ UNCHANGED <<time, stored, storing, startedAt, since>>

UnmountClock ==
    /\ Ticking
    /\ due' = Null /\ now' = Null /\ startedAt' = Null
    /\ UNCHANGED <<time, stored, storing, since>>

Pass ==
    /\ time < MaxTime /\ time # due
    /\ time' = time + 1
    /\ UNCHANGED <<due, now, stored, storing, startedAt, since>>

ClockNext == Rerendered \/ ClockTick \/ UnmountClock \/ Pass \/ \E h \in BOOLEAN : MountClock(h)

-----------------------------------------------------------------------------
\* What is shown.

\* "5m ago": the count and what it counts, in seconds.
relativeTime(fired, at) ==
    LET s == Max({0, at - fired})
        m == s \div PerMinute
        h == m \div PerHour
    IN  CASE s < PerMinute -> [n |-> s, unit |-> 1]
          [] s >= PerMinute /\ m < PerHour -> [n |-> m, unit |-> PerMinute]
          [] m >= PerHour /\ h < PerDay -> [n |-> h, unit |-> PerMinute * PerHour]
          [] OTHER -> [n |-> h \div PerDay, unit |-> PerMinute * PerHour * PerDay]

elapsed == IF now = Null THEN 0 ELSE Max({0, now - startedAt})

-----------------------------------------------------------------------------
\* Properties.

\* An alert is never said to be older than it is, and is younger than the next count of its
\* label and two intervals: the clock may be read just before a tick of the interval and is
\* rounded down by as much again.
AgeIsTrue ==
    Ticking /\ now # Null /\ time >= FiredAt =>
        LET l == relativeTime(FiredAt, now)
            age == time - FiredAt
        IN  l.n * l.unit <= age /\ age < (l.n + 1) * l.unit + 2 * Every

\* The timer of a triage shows no more than the time since its page was first opened in the
\* tab and, but for the hydration, lags less than two intervals behind it; without
\* sessionStorage it is only the time of this visit.  Leaving and coming back do not set it
\* back, and nor does a second triage of the case.
ElapsedIsTrue ==
    Ticking =>
        /\ elapsed \in 0..(time - since)
        /\ now # Null /\ storing => time - since < elapsed + 2 * Every

\* What a page shows of the time never leads, and lags by less than two intervals and the
\* unit of its label, whenever the page was mounted, left and rendered (useNow).
ShownTimesAreTrue == AgeIsTrue /\ ElapsedIsTrue
=============================================================================
