---------------------------- MODULE DrawCalendar ----------------------------
(***************************************************************************)
(* The calendar of draw days: written row by row by cmd/seed, read by the  *)
(* guard of every purchase, and looked over once by each start of cmd/api. *)
(* Nobody is made to seed again, a run of the seed may die half-way, and a *)
(* day without a row is a day on which the product is sold.                *)
(*                                                                         *)
(* The bank and its customers live at UTC+7 and the program at UTC: from   *)
(* midnight to seven in the morning the program is one date behind.  Dates *)
(* are numbered from 1 January of FirstYear; time stops only at the days   *)
(* of a month that can differ, the ones a draw may fall on, and New Year.  *)
(***************************************************************************)
EXTENDS Integers, FiniteSets, Sums

CONSTANTS
    FirstYear, LastYear,
    MaxUptime,     \* bound: days the API runs without a restart
    MaxSeeds,      \* bound: runs of the seed
    RowsWritten    \* bound: how many rows a run gets to before it dies

ASSUME CalendarAssumption ==
    /\ FirstYear \in Nat /\ LastYear \in Nat /\ FirstYear =< LastYear
    /\ {MaxUptime, MaxSeeds} \subseteq Nat
    /\ RowsWritten \subseteq Nat

VARIABLES
    today,       \* the date at the bank
    night,       \* is it before seven there?
    rows,        \* rows of salak.draw_dates of each product
    seeds,       \* runs of the seed so far
    seededOn,    \* when, by its own clock, the last complete run was
    startedOn,   \* when, by its own clock, the API was started
    warned       \* the products that start warned about

drawVars == <<today, night, rows, seeds, seededOn, startedOn, warned>>

Product == {"SALAK_1Y", "SALAK_2Y"}

TermMonths == [p \in Product |-> IF p = "SALAK_1Y" THEN 12 ELSE 24]

Never == -1000

-----------------------------------------------------------------------------
(***************************************************************************)
(* Dates.                                                                  *)
(***************************************************************************)
Years == FirstYear..LastYear

IsLeap(year) == year % 4 = 0 /\ (year % 100 # 0 \/ year % 400 = 0)

DaysIn(year, month) ==
    CASE month \in {4, 6, 9, 11} -> 30
      [] month = 2               -> IF IsLeap(year) THEN 29 ELSE 28
      [] OTHER                   -> 31

MonthsBefore(year, month) ==
    {ym \in Years \X (1..12) : ym[1] < year \/ (ym[1] = year /\ ym[2] < month)}

MonthLength == [ym \in Years \X (1..12) |-> DaysIn(ym[1], ym[2])]

MonthStart ==
    [year \in Years |-> [month \in 1..12 |->
        Total(MonthLength, MonthsBefore(year, month))]]

FirstOf(year, month) == MonthStart[year][month]

Day(year, month, day) == FirstOf(year, month) + day - 1

EndOfYear(year) == Day(year, 12, 31)

YearOf(date) == CHOOSE year \in Years : date =< EndOfYear(year)
                            /\ date >= FirstOf(year, 1)

(* The dates on which something can differ.                                *)
Stop == {Day(year, month, day) : year \in Years, month \in 1..12, day \in {1, 2, 16}}
            \cup {EndOfYear(year) : year \in Years}

(* The official sales sheets: the 16th; the 1st, but 2 January and 2 May.  *)
DrawDays ==
    [p \in Product |->
        IF p = "SALAK_1Y"
        THEN {Day(year, month, 16) : year \in Years, month \in 1..12}
        ELSE {Day(year, month, 1) : year \in Years, month \in (1..12) \ {1, 5}}
                 \cup {Day(year, month, 2) : year \in Years, month \in {1, 5}}]

UtcDate == IF night THEN today - 1 ELSE today

DrawTypeOK ==
    /\ today \in Stop
    /\ night \in BOOLEAN
    /\ rows \in [Product -> SUBSET Nat]
    /\ seeds \in 0..MaxSeeds
    /\ seededOn \in Stop \cup {s - 1 : s \in Stop} \cup {Never}
    /\ startedOn \in Stop \cup {s - 1 : s \in Stop}
    /\ warned \subseteq Product

-----------------------------------------------------------------------------
(***************************************************************************)
(* Faults.  Each replaces the definition below whose name it starts with.  *)
(***************************************************************************)
drawDayFor_NoException(termMonths, month) == IF termMonths = 12 THEN 16 ELSE 1

within_TwoWeeks == 14

-----------------------------------------------------------------------------
(***************************************************************************)
(* cmd/seed.                                                               *)
(***************************************************************************)
drawDayFor(termMonths, month) ==
    IF termMonths = 12 THEN 16
    ELSE IF month \in {1, 5} THEN 2 ELSE 1

SeededYears == {YearOf(UtcDate), YearOf(UtcDate) + 1}

generateDrawDates(p) ==
    {Day(year, month, drawDayFor(TermMonths[p], month)) :
        year \in SeededYears \cap Years, month \in 1..12}

Earliest(dates, n) == {d \in dates : Cardinality({e \in dates : e < d}) < n}

(* The rows a run finds stay.                                              *)
Kept(p) == rows[p]

(* The run writes n rows: those of the first product first, by date.       *)
Seed(n) ==
    LET first == generateDrawDates("SALAK_1Y")
        second == generateDrawDates("SALAK_2Y")
        size == Cardinality(first)
    IN  /\ seeds < MaxSeeds
        /\ seeds' = seeds + 1
        /\ rows' = [p \in Product |->
                      Kept(p) \cup IF p = "SALAK_1Y" THEN Earliest(first, n)
                                   ELSE Earliest(second, n - size)]
        /\ seededOn' = IF n >= 2 * size THEN UtcDate ELSE seededOn
        /\ UNCHANGED <<today, night, startedOn, warned>>

-----------------------------------------------------------------------------
(***************************************************************************)
(* cmd/api and the guard.                                                  *)
(***************************************************************************)
within == 60

(* furthest.Before(now.Add(within)), for a start that is not at midnight.  *)
drawDateCoverageWarnings ==
    {p \in Product : rows[p] = {} \/ Max(rows[p]) =< UtcDate + within}

StartAndWarn ==
    /\ startedOn' = UtcDate
    /\ warned' = drawDateCoverageWarnings
    /\ UNCHANGED <<today, night, rows, seeds, seededOn>>

(* EnsureNotDrawDay lets a purchase of p through.                          *)
OnSale(p) == UtcDate \notin rows[p]

nextAvailableDateSearchLimit == 45

NextAvailableDate(p) ==
    Min({d \in UtcDate + 1 .. UtcDate + nextAvailableDateSearchLimit : d \notin rows[p]})

-----------------------------------------------------------------------------
(***************************************************************************)
(* Time.                                                                   *)
(***************************************************************************)
Morning ==
    /\ night
    /\ night' = FALSE
    /\ UNCHANGED <<today, rows, seeds, seededOn, startedOn, warned>>

Midnight ==
    LET later == {s \in Stop : s > today}
    IN  /\ ~ night
        /\ later # {}
        /\ Min(later) - startedOn =< MaxUptime
        /\ today' = Min(later)
        /\ night' = TRUE
        /\ UNCHANGED <<rows, seeds, seededOn, startedOn, warned>>

(* A new installation, seeded for the first time, and its API started.     *)
DrawInit ==
    /\ today = Day(FirstYear, 11, 2)
    /\ night = FALSE
    /\ rows = [p \in Product |-> {}]
    /\ seeds = 0
    /\ seededOn = Never
    /\ startedOn = today
    /\ warned = Product

DrawNext ==
    \/ \E n \in RowsWritten : Seed(n)
    \/ StartAndWarn
    \/ Morning
    \/ Midnight

DrawSpec == DrawInit /\ [][DrawNext]_drawVars

-----------------------------------------------------------------------------
(***************************************************************************)
(* Properties.                                                             *)
(***************************************************************************)

(* For a year after a complete run of the seed every draw day is closed,   *)
(* by the program's date.  However old or incomplete the calendar is, the  *)
(* guard turns away nobody on a day without a draw, and the retry it leads *)
(* to is on the very next day.                                             *)
ClosedExactlyOnDrawDays ==
    \A p \in Product :
        /\ seededOn # Never /\ UtcDate =< seededOn + 365 /\ UtcDate \in DrawDays[p]
                => ~ OnSale(p)
        /\ ~ OnSale(p) => UtcDate \in DrawDays[p] /\ NextAvailableDate(p) = UtcDate + 1

(* draw_date_coverage.go: an API restarted every sixty days has warned of  *)
(* the calendar before a draw day is missing from it.                      *)
WarnedBeforeItFailsOpen ==
    \A p \in Product : UtcDate \in DrawDays[p] /\ OnSale(p) => p \in warned

=============================================================================
