----------------------------- MODULE DateRange -----------------------------
(***************************************************************************)
(* DateRangeInput.svelte and Month.svelte: two months side by side, from    *)
(* which the start and the end of a range are picked by clicks, by keys or  *)
(* by dragging over the days.                                              *)
(***************************************************************************)
EXTENDS Integers, Sequences

CONSTANTS
    Dates,        \* the dates that are used: [year, month, day]
    MonthLength,  \* per month of the calendar [year, month]: its days
    FirstWeekday, \* and the weekday that it begins with, 0 for Sunday
    NoDate
\* Assumed by the module that gives the constants their values.
RangeAssumption ==
    /\ Dates \subseteq [year : Int, month : Int, day : Int]
    /\ \A month \in DOMAIN MonthLength : MonthLength[month] \in Nat /\ FirstWeekday[month] \in 0 .. 6
    /\ \A date \in Dates : [year |-> date.year, month |-> date.month] \in DOMAIN MonthLength

Sides == {"start", "end"}
Months == DOMAIN MonthLength

VARIABLES
    start, end,         \* the range that the owner has
    down,               \* per side: the date that the mouse went down on, or NoDate
    mouseover,          \* the day that the mouse came to with its button down
    visible,            \* per side: the month that is shown
    pressed             \* the button that the mouse went down on: [side, date]; a click needs it
vars == <<start, end, down, mouseover, visible, pressed>>

\* date_object.ts.
date_gt(a, b) ==
    \/ a.year > b.year
    \/ a.year = b.year /\ a.month > b.month
    \/ a.year = b.year /\ a.month = b.month /\ a.day > b.day
dates_match(a, b) == a = b
date_lte(a, b) == ~date_gt(a, b)
date_lt(a, b) == date_lte(a, b) /\ ~dates_match(a, b)

MonthOf(date) == [year |-> date.year, month |-> date.month]

\* calendarize: the cells of the month, seven to a week; a cell without a day is 0.
Weeks(month) == (MonthLength[month] + FirstWeekday[month] + 6) \div 7
Cell(month, week, weekday) ==
    LET day == week * 7 + weekday - FirstWeekday[month] + 1
    IN  IF day >= 1 /\ day <= MonthLength[month] THEN day ELSE 0
Cells(month) == (0 .. Weeks(month) - 1) \X (0 .. 6)

\* The days that a side has a button for.
HasButton(side, date) ==
    /\ MonthOf(date) = visible[side]
    /\ \E c \in Cells(visible[side]) : Cell(visible[side], c[1], c[2]) = date.day

dates_as_range(a, b) == IF date_lte(a, b) THEN <<a, b>> ELSE <<b, a>>

Other(date, than) == IF mouseover # NoDate /\ ~dates_match(mouseover, date) THEN mouseover ELSE than
display_range ==
    IF down.start # NoDate THEN dates_as_range(down.start, Other(down.start, end))
    ELSE IF down.end # NoDate THEN dates_as_range(Other(down.end, start), down.end)
    ELSE dates_as_range(start, end)

MouseIsUp == [side \in Sides |-> NoDate]

MouseDown(side, date) ==
    /\ HasButton(side, date)
    /\ down' = [down EXCEPT ![side] = date]
    /\ mouseover' = date
    /\ pressed' = [side |-> side, date |-> date]
    /\ UNCHANGED <<start, end, visible>>

MouseEnter(side, date) ==
    /\ HasButton(side, date)
    /\ down # MouseIsUp
    /\ mouseover' = date
    /\ UNCHANGED <<start, end, down, visible, pressed>>

\* (a mistake) Every day of a side is that end of the range.
EndsAsPicked(side, date) == IF side = "start" THEN <<date, end>> ELSE <<start, date>>
\* on_start_day_selected and on_end_day_selected: a day on the other side of the range's other
\* end makes that one the end that was picked.
EndsAfterClick(side, date) ==
    IF side = "start"
    THEN IF date_gt(date, end) THEN <<end, date>> ELSE <<date, end>>
    ELSE IF date_lt(date, start) THEN <<date, start>> ELSE <<start, date>>

Select(range) == start' = range[1] /\ end' = range[2]

\* The button comes up over a day: on_mouseup_date selects what was dragged over, and on the day
\* where it went down there is a click instead.
Drags(date) == down # MouseIsUp /\ ~ \E side \in Sides : down[side] # NoDate /\ dates_match(date, down[side])
MouseUp(side, date) ==
    /\ HasButton(side, date)
    /\ Select(IF Drags(date) THEN display_range
              ELSE IF pressed = [side |-> side, date |-> date] THEN EndsAfterClick(side, date)
              ELSE <<start, end>>)
    /\ down' = MouseIsUp
    /\ pressed' = NoDate
    /\ UNCHANGED <<mouseover, visible>>

MouseUpElsewhere ==
    /\ down' = MouseIsUp /\ pressed' = NoDate
    /\ UNCHANGED <<start, end, mouseover, visible>>

\* A day is chosen with the keyboard, even while the mouse is down.
PressKey(side, date) ==
    /\ HasButton(side, date)
    /\ Select(EndsAfterClick(side, date))
    /\ down' = MouseIsUp
    /\ UNCHANGED <<mouseover, visible, pressed>>

\* switch_month; the months of the calendar are a bound.
Switched(month, increment) ==
    LET m == month.month + increment IN
    IF m < 1 THEN [year |-> month.year - 1, month |-> m + 12]
    ELSE IF m > 12 THEN [year |-> month.year + 1, month |-> m - 12]
    ELSE [year |-> month.year, month |-> m]
SwitchMonth(side, increment) ==
    /\ Switched(visible[side], increment) \in Months
    /\ visible' = [visible EXCEPT ![side] = Switched(@, increment)]
    /\ UNCHANGED <<start, end, down, mouseover, pressed>>

Init ==
    /\ start \in Dates /\ end \in Dates /\ date_lte(start, end)
    /\ down = MouseIsUp /\ mouseover = NoDate /\ pressed = NoDate
    /\ visible = [side \in Sides |-> MonthOf(IF side = "start" THEN start ELSE end)]

Next ==
    \/ \E side \in Sides, date \in Dates :
        MouseDown(side, date) \/ MouseEnter(side, date) \/ MouseUp(side, date) \/ PressKey(side, date)
    \/ MouseUpElsewhere
    \/ \E side \in Sides, increment \in {-1, 1} : SwitchMonth(side, increment)

\* The range never ends before it starts, by whatever mixture of presses, drags and keys it was
\* picked, and every month that is shown has each of its days once, under its weekday
\* (DateRangeInput.svelte, calendarize.ts).
RangeIsOrdered ==
    /\ date_lte(start, end) /\ date_lte(display_range[1], display_range[2])
    /\ \A side \in Sides : \A day \in 1 .. MonthLength[visible[side]] :
        {c \in Cells(visible[side]) : Cell(visible[side], c[1], c[2]) = day}
            = {<<(FirstWeekday[visible[side]] + day - 1) \div 7, (FirstWeekday[visible[side]] + day - 1) % 7>>}
=============================================================================
