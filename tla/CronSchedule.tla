------------------------------ MODULE CronSchedule ------------------------------
(***************************************************************************)
(* Cron expressions in cron_manager.py: the values a field stands for, the *)
(* preview of the next runs that the page shows (_compute_next_runs), the  *)
(* launchd schedule that really starts the job                             *)
(* (_cron_to_launchd_schedule), and the way back when plists of an earlier *)
(* installation are imported.  A field is a list of parts [lo, hi, step]   *)
(* with star set for "*"; texts, names of days and months, and messages    *)
(* are left out.  The ranges of the fields and the calendar are            *)
(* parameters; the code's are 0..59, 0..23, 1..31, 1..12, 0..7 and time's. *)
(***************************************************************************)
EXTENDS Naturals, Sequences, FiniteSets

CONSTANTS FieldRanges, \* field -> <<min, max>>
          FieldTexts,  \* field -> the fields a user may write
          Calendar,    \* sequence of days [Month, Day, Weekday], Weekday 0 = Sunday
          Starts,      \* days on which a preview may be asked for
          MaxDays,     \* how far the preview looks
          Count        \* how many runs it shows

VARIABLES expr,    \* field -> parts
          cursor,  \* the walk of the preview: [day, Hour, Minute]
          end,     \* where it stops
          results  \* the runs found

vars == <<expr, cursor, end, results>>

Fields == {"Minute", "Hour", "Day", "Month", "Weekday"}
Dates == {"Day", "Month", "Weekday"}
Lo(f) == FieldRanges[f][1]
Hi(f) == FieldRanges[f][2]
Minutes == Lo("Minute")..Hi("Minute")
Hours == Lo("Hour")..Hi("Hour")

----------------------------------------------------------------------------
\* _parse_field: which parts are accepted, and their values.  A step after a
\* single value is read and has no effect.

PartOk(p, f) == /\ p.step >= 1
                /\ p.star \/ (p.lo >= Lo(f) /\ p.hi <= Hi(f) /\ p.lo <= p.hi)

PartValues(p, f) ==
    CASE p.star -> {v \in Lo(f)..Hi(f) : (v - Lo(f)) % p.step = 0}
      [] ~p.star /\ p.single -> {p.lo}
      [] OTHER -> {v \in p.lo..p.hi : (v - p.lo) % p.step = 0}

Accepted(f) == {parts \in FieldTexts[f] : \A i \in 1..Len(parts) : PartOk(parts[i], f)}
Values(e, f) == UNION {PartValues(e[f][i], f) : i \in 1..Len(e[f])}

\* validate_cron_expr
Valid(e) == \A f \in Fields : \A i \in 1..Len(e[f]) : PartOk(e[f][i], f)

----------------------------------------------------------------------------
\* _cron_to_launchd_schedule

IsStar(e, f) == Len(e[f]) = 1 /\ e[f][1].star /\ ~e[f][1].slash
IsStep(e, f) == Len(e[f]) = 1 /\ e[f][1].star /\ e[f][1].slash

\* The two forms that become a StartInterval, in minutes.
MinuteStep(e) == IsStep(e, "Minute") /\ \A f \in Fields \ {"Minute"} : IsStar(e, f)
HourStep(e) == IsStep(e, "Hour") /\ \A f \in Dates : IsStar(e, f)
Interval(e) == IF MinuteStep(e) THEN e["Minute"][1].step
               ELSE e["Hour"][1].step * Cardinality(Minutes)

\* all_minutes .. all_dows: whether a field constrains nothing, told by the
\* number of its values.
All(e, f) == IF f = "Weekday" THEN Cardinality(Values(e, f)) >= 7
             ELSE Cardinality(Values(e, f)) = Cardinality(Lo(f)..Hi(f))

Constrained(e) == {f \in Fields : ~All(e, f)}

\* The values an entry may take: cron's Sunday is 0 or 7, launchd's is 0.
Choices(e, f) == IF f = "Weekday" THEN {v % 7 : v \in Values(e, f)} ELSE Values(e, f)

\* One entry for each combination of the constrained fields; one without any
\* key when there is none.
Entries(e) ==
    LET Keys == Constrained(e)
        Pick(f) == IF f \in Keys THEN Choices(e, f) ELSE {0}
    IN  {[f \in Keys |-> [Minute |-> m, Hour |-> h, Day |-> d, Month |-> mo, Weekday |-> w][f]] :
            m \in Pick("Minute"), h \in Pick("Hour"), d \in Pick("Day"),
            mo \in Pick("Month"), w \in Pick("Weekday")}

Schedule(e) == IF MinuteStep(e) \/ HourStep(e)
               THEN [type |-> "interval", minutes |-> Interval(e)]
               ELSE [type |-> "calendar", intervals |-> Entries(e)]

----------------------------------------------------------------------------
\* import_from_legacy: the expression for a plist found without its job.  Of
\* several entries one is taken, an entry without keys counts as none.

Single(v) == <<[star |-> FALSE, single |-> TRUE, slash |-> FALSE, lo |-> v, hi |-> v, step |-> 1]>>
Star == <<[star |-> TRUE, single |-> FALSE, slash |-> FALSE, lo |-> 0, hi |-> 0, step |-> 1]>>
Every(n) == <<[star |-> TRUE, single |-> FALSE, slash |-> TRUE, lo |-> 0, hi |-> 0, step |-> n]>>

Fallback == [f \in Fields |-> IF f = "Minute" THEN Single(0) ELSE Star]

Imported(s) ==
    IF s.type = "interval" THEN [f \in Fields |-> IF f = "Minute" THEN Every(s.minutes) ELSE Star]
    ELSE LET iv == CHOOSE x \in s.intervals : TRUE
         IN  IF DOMAIN iv = {} THEN Fallback
             ELSE [f \in Fields |-> IF f \in DOMAIN iv THEN Single(iv[f]) ELSE Star]

----------------------------------------------------------------------------
\* _compute_next_runs: a walk that skips months, days and hours.

Before(a, b) == \/ a.day < b.day
                \/ a.day = b.day /\ a.Hour < b.Hour
                \/ a.day = b.day /\ a.Hour = b.Hour /\ a.Minute < b.Minute

Midnight(d) == [day |-> d, Hour |-> Lo("Hour"), Minute |-> Lo("Minute")]

NextHour(t) == IF t.Hour < Hi("Hour") THEN [t EXCEPT !.Hour = @ + 1, !.Minute = Lo("Minute")]
               ELSE Midnight(t.day + 1)
NextMinute(t) == IF t.Minute < Hi("Minute") THEN [t EXCEPT !.Minute = @ + 1] ELSE NextHour(t)

\* The first day of the next month, or the end of the calendar.
NextMonth(t) == LET firsts == {d \in t.day + 1..Len(Calendar) : Calendar[d].Day = 1}
                IN  Midnight(IF firsts = {} THEN Len(Calendar) + 1
                             ELSE CHOOSE d \in firsts : \A x \in firsts : d <= x)

InMonth(t) == Calendar[t.day].Month \in Values(expr, "Month")
\* Both day fields have to match; cron's 7 is its 0 (_convert_cron_dow_to_python).
BadOnDay(t) == /\ Calendar[t.day].Day \in Values(expr, "Day")
               /\ Calendar[t.day].Weekday \in Values(expr, "Weekday")
OnDay(t) == /\ Calendar[t.day].Day \in Values(expr, "Day")
            /\ Calendar[t.day].Weekday \in {v % 7 : v \in Values(expr, "Weekday")}
InHour(t) == t.Hour \in Values(expr, "Hour")
Walking == Before(cursor, end) /\ Len(results) < Count

Init == /\ \E m \in Accepted("Minute"), h \in Accepted("Hour"), d \in Accepted("Day"),
              mo \in Accepted("Month"), w \in Accepted("Weekday") :
              expr = [Minute |-> m, Hour |-> h, Day |-> d, Month |-> mo, Weekday |-> w]
        /\ \E d \in Starts, h \in {Lo("Hour"), Hi("Hour")} :
              LET now == [day |-> d, Hour |-> h, Minute |-> Lo("Minute")]
              IN  cursor = NextMinute(now) /\ end = [now EXCEPT !.day = @ + MaxDays]
        /\ results = <<>>

SkipMonth ==
    /\ Walking /\ ~InMonth(cursor)
    /\ cursor' = NextMonth(cursor)
    /\ UNCHANGED <<expr, end, results>>

SkipDay ==
    /\ Walking /\ InMonth(cursor) /\ ~OnDay(cursor)
    /\ cursor' = Midnight(cursor.day + 1)
    /\ UNCHANGED <<expr, end, results>>

SkipHour ==
    /\ Walking /\ InMonth(cursor) /\ OnDay(cursor) /\ ~InHour(cursor)
    /\ cursor' = NextHour(cursor)
    /\ UNCHANGED <<expr, end, results>>

Minute ==
    /\ Walking /\ InMonth(cursor) /\ OnDay(cursor) /\ InHour(cursor)
    /\ results' = IF cursor.Minute \in Values(expr, "Minute") THEN Append(results, cursor) ELSE results
    /\ cursor' = NextMinute(cursor)
    /\ UNCHANGED <<expr, end>>

Next == SkipMonth \/ SkipDay \/ SkipHour \/ Minute

Spec == Init /\ [][Next]_vars

----------------------------------------------------------------------------
\* The reference: what cron's and launchd's manuals say of a point in time.

Names(e, f, v) == v \in {x % (IF f = "Weekday" THEN 7 ELSE x + 1) : x \in Values(e, f)}
Full(e, f) == \A v \in (IF f = "Weekday" THEN 0..6 ELSE Lo(f)..Hi(f)) : Names(e, f, v)

Points == {[Minute |-> m, Hour |-> h, Day |-> Calendar[d].Day, Month |-> Calendar[d].Month,
            Weekday |-> Calendar[d].Weekday] : m \in Minutes, h \in Hours, d \in 1..Len(Calendar)}

\* cron: when both day fields are restricted, either one is enough.
CronFires(e, p) ==
    /\ \A f \in {"Minute", "Hour", "Month"} : Names(e, f, p[f])
    /\ IF Full(e, "Day") \/ Full(e, "Weekday")
       THEN Names(e, "Day", p.Day) /\ Names(e, "Weekday", p.Weekday)
       ELSE Names(e, "Day", p.Day) \/ Names(e, "Weekday", p.Weekday)

\* launchd: the keys of an entry have to match, of Day and Weekday either.
EntryFires(x, p) ==
    /\ \A f \in DOMAIN x \cap {"Minute", "Hour", "Month"} : x[f] = p[f]
    /\ LET days == DOMAIN x \cap {"Day", "Weekday"}
       IN  days = {} \/ \E f \in days : x[f] = p[f]

----------------------------------------------------------------------------
\* The walk stays within the calendar, and what it found is in order.
TypeOK ==
    /\ Valid(expr)
    /\ cursor.day \in 1..Len(Calendar) + 1 /\ cursor.Hour \in Hours /\ cursor.Minute \in Minutes
    /\ Len(results) <= Count
    /\ \A i \in 1..Len(results) - 1 : Before(results[i], results[i + 1])

First == NextMinute([end EXCEPT !.day = @ - MaxDays])

\* However the walk skips, the runs it shows are those of the minutes it has
\* passed that the expression names: no run is jumped over, none is made up.
PreviewIsExact ==
    LET passed == {t \in [day : 1..Len(Calendar), Hour : Hours, Minute : Minutes] :
                       ~Before(t, First) /\ Before(t, cursor)}
    IN  {results[i] : i \in 1..Len(results)} =
            {t \in passed : /\ Names(expr, "Minute", t.Minute) /\ Names(expr, "Hour", t.Hour)
                            /\ \A f \in Dates : Names(expr, f, Calendar[t.day][f])}

\* launchd starts the job in exactly the minutes that cron would, for every
\* expression that becomes a calendar of entries; but for a weekday field that
\* names seven numbers and yet not every day (both 0 and 7).  (A question of the
\* expression alone: it is asked where the walk begins.)
LaunchdFiresAsCron ==
    LET s == Schedule(expr)
    IN  cursor = First /\ s.type = "calendar" /\ (Cardinality(Values(expr, "Weekday")) = 7 => Full(expr, "Weekday"))
            => \A p \in Points : (\E x \in s.intervals : EntryFires(x, p)) <=> CronFires(expr, p)

\* A plist that is imported without its job is written again as it was, if it
\* holds an interval or a single entry with a key.
ImportKeepsSchedule ==
    LET s == Schedule(expr)
    IN  cursor = First /\ (s.type = "interval" \/ (Cardinality(s.intervals) = 1 /\ Constrained(expr) # {}))
            => Valid(Imported(s)) /\ Schedule(Imported(s)) = s
=============================================================================
