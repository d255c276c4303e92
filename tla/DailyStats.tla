----------------------------- MODULE DailyStats -----------------------------
(***************************************************************************)
(* The statistics by day of one link: count_daily_visits_by_code of        *)
(* models/link.rs, for one request.  An instant is a number of ticks in    *)
(* UTC, a day has DayLen ticks, and a time zone is an offset that changes  *)
(* once, at the instant "switch", by no more than a day (as none ever did, *)
(* the date line included).  chrono and MySQL are given the same rules for *)
(* the zone.                                                               *)
(* The specification has a prefix of its own to be proved about beside     *)
(* ClickCount.                                                             *)
(***************************************************************************)
EXTENDS Integers, FiniteSets

CONSTANTS
    DayLen,    \* ticks of a day
    Instants,  \* bound: the instants visits and requests come at
    Offsets,   \* offsets a zone can have
    MaxVisits, \* bound: visits of the link
    MaxDays    \* max_stats_days

ASSUME DailyStatsAssumption ==
    /\ DayLen \in Nat \ {0}
    /\ Instants \subseteq Int
    /\ Offsets \subseteq Int
    /\ MaxVisits \in Nat
    /\ MaxDays \in Nat \ {0}

VARIABLES
    zone,   \* the zone asked for: [switch, before, after]
    days,   \* the number of days asked for
    now,    \* Utc::now()
    visits, \* the link's rows in visit_logs, by visit_time
    status, \* "asked", or what the request is answered
    rows    \* the answer: the visits of each day listed

statsVars == <<zone, days, now, visits, status, rows>>

Zones == {z \in [switch : Instants, before : Offsets, after : Offsets] :
             z.after - z.before \in (-DayLen)..DayLen}

Tables == {v \in SUBSET Instants : IsFiniteSet(v) /\ Cardinality(v) <= MaxVisits}

\* The handler has checked that days is positive and that the zone exists.
StatsInit ==
    /\ zone \in Zones
    /\ days \in 1..(MaxDays + 1)
    /\ now \in Instants
    /\ visits \in Tables
    /\ status = "asked"
    /\ rows = <<>>

Offset(t) == IF t < zone.switch THEN zone.before ELSE zone.after
Local(t) == t + Offset(t)
Day(local) == local \div DayLen

\* Slip: the offset of today is used for every day.
UtcByToday(local) == {t \in {local - Offset(now)} : Local(t) = local}

\* from_local_datetime: none, one or two instants.
Utc(local) == {t \in {local - zone.before, local - zone.after} : Local(t) = local}

\* Slip: a day less.
FirstDayLess == Day(Local(now - days * DayLen))

\* (now_local - Duration::days(days - 1)).date_naive(): the duration is taken
\* from the instant, not from the local time.
FirstDay == Day(Local(now - (days - 1) * DayLen))
Today == Day(Local(now))

TooManyDays ==
    /\ status = "asked"
    /\ days > MaxDays
    /\ status' = "bad_request"
    /\ UNCHANGED <<zone, days, now, visits, rows>>

\* The link is not there, or not the user's.
NotFound ==
    /\ status = "asked"
    /\ days <= MaxDays
    /\ status' = "not_found"
    /\ UNCHANGED <<zone, days, now, visits, rows>>

\* The first midnight comes twice, or never.
Ambiguous ==
    /\ status = "asked"
    /\ days <= MaxDays
    /\ Cardinality(Utc(FirstDay * DayLen)) # 1
    /\ status' = "internal_error"
    /\ UNCHANGED <<zone, days, now, visits, rows>>

\* Slip: the period starts DayLen * (days - 1) ago, at this time of the day.
VisitsFromNow(start) == {v \in visits : now - (days - 1) * DayLen <= v /\ v <= now}

\* WHERE visit_time >= start_utc AND visit_time <= now_utc
VisitsSince(start) == {v \in visits : start <= v /\ v <= now}

\* GROUP BY day_local, and 0 for the days without a row.
Answer ==
    /\ status = "asked"
    /\ days <= MaxDays
    /\ \E start \in Utc(FirstDay * DayLen) :
        /\ Utc(FirstDay * DayLen) = {start}
        /\ rows' = [d \in FirstDay..Today |->
                       Cardinality({v \in VisitsSince(start) : Day(Local(v)) = d})]
    /\ status' = "answered"
    /\ UNCHANGED <<zone, days, now, visits>>

StatsNext == TooManyDays \/ NotFound \/ Ambiguous \/ Answer

StatsSpec == StatsInit /\ [][StatsNext]_statsVars

-----------------------------------------------------------------------------
(* Properties                                                              *)

\* Every variable has its type (models/link.rs:625-719).
StatsTypeOK ==
    /\ status \in {"asked", "bad_request", "not_found", "internal_error", "answered"}
    /\ days \in 1..(MaxDays + 1)
    /\ now \in Instants
    /\ visits \subseteq Instants
    /\ status = "answered" => \A d \in DOMAIN rows : rows[d] \in 0..Cardinality(visits)

\* Each day listed has exactly its visits: the range, computed in UTC from a
\* local midnight, cuts nothing off the first day and adds nothing to it,
\* wherever in the period the zone's offset changes (link.rs:661-706).
DaysComplete ==
    status = "answered" =>
        \A d \in DOMAIN rows :
            rows[d] = Cardinality({v \in visits : v <= now /\ Day(Local(v)) = d})

\* As many days are listed as were asked for, today being the last, when the
\* offset was the same at the start of the period; when it has changed since
\* then, one more or one less (link.rs:661-664: "days days, today included").
DaysListed ==
    status = "answered" =>
        /\ Today \in DOMAIN rows
        /\ IF Offset(now) = Offset(now - (days - 1) * DayLen)
           THEN Cardinality(DOMAIN rows) = days
           ELSE Cardinality(DOMAIN rows) \in (days - 1)..(days + 1)

\* A request for a link of the user's is refused only when the offset changes
\* within a day of the first midnight, and not when it changes elsewhere
\* (link.rs:666-672).
RefusedOnlyAtSwitch ==
    status = "internal_error" =>
        /\ zone.before # zone.after
        /\ zone.switch - (FirstDay * DayLen - zone.before) \in (-DayLen)..DayLen
=============================================================================
