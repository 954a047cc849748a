----------------------------- MODULE DatePicker -----------------------------
(***************************************************************************)
(* A date or month field: its trigger, the popover with the day grid and   *)
(* the year grid behind its caption, and what the keyboard, the mouse and  *)
(* midnight do to them.  One kind of field bounds what can be picked: a    *)
(* receipt is not dated in the future.  No screen sets a lower bound.      *)
(*                                                                         *)
(* A month is a number, 12 * year + month - 1, a date a pair of a month    *)
(* and a day; both compare as their ISO strings do.                        *)
(*                                                                         *)
(*   form.value    the date, or the month, of the form around the field    *)
(*   form.max      the bound, as the form last rendered it                 *)
(*   form.today    today, as the field last rendered                       *)
(*   form.open, form.view, form.month, form.focus   the popover            *)
(*   db.today      today                                                   *)
(***************************************************************************)
EXTENDS Tab, Integers

CONSTANTS Horizon,    \* bound: the months the user looks at
          Choices,    \* bound: the days the user picks from the grid
          Midnights   \* today, and the days that follow it, each as a pair

\* bounded: max is today; clears: an optional field; by: what is picked.
DateField(by, traits) ==
    [by |-> by, bounded |-> "bounded" \in traits, clears |-> "clears" \in traits,
     seeded |-> "seeded" \in traits]

DateFields == [receiveDate |-> DateField("day", {"bounded", "seeded"}),
               auditDate |-> DateField("day", {"clears"}),
               reportMonth |-> DateField("month", {"seeded"})]

ThisField == DateFields[screen]
ByDay == ThisField.by = "day"

-----------------------------------------------------------------------------
(* Dates.                                                                   *)

MonthOf(d) == d[1]

Leap(y) == y % 4 = 0 /\ (y % 100 # 0 \/ y % 400 = 0)

MonthLength(ym) ==
    LET m == ym % 12 IN
    IF m = 1 THEN IF Leap(ym \div 12) THEN 29 ELSE 28
    ELSE IF m \in {3, 5, 8, 10} THEN 30 ELSE 31

Before(d, e) == d[1] < e[1] \/ (d[1] = e[1] /\ d[2] < e[2])

\* A date is no absent one, and midnights pass in order.
ASSUME PickerAssumption ==
    /\ NoKey \notin Nat \X Nat
    /\ Choices \subseteq Nat \X Nat
    /\ Midnights \in Seq(Nat \X Nat) \ {<<>>}
    /\ \A i, j \in DOMAIN Midnights : i < j => Before(Midnights[i], Midnights[j])

\* Of at most a week either way.
AddDays(d, n) ==
    LET k == d[2] + n IN
    IF k < 1 THEN <<d[1] - 1, MonthLength(d[1] - 1) + k>>
    ELSE IF k > MonthLength(d[1]) THEN <<d[1] + 1, k - MonthLength(d[1])>>
    ELSE <<d[1], k>>

\* The day is clamped into the month it lands in.
ShiftMonth(d, n) ==
    LET last == MonthLength(d[1] + n) IN <<d[1] + n, IF d[2] < last THEN d[2] ELSE last>>

\* 0 for Monday.  Days from the year 1, 1 January of which was a Monday.
WeekdayIndex(d) ==
    LET y == d[1] \div 12
        m == d[1] % 12
        days == 365 * (y - 1) + (y - 1) \div 4 - (y - 1) \div 100 + (y - 1) \div 400
                + <<0, 31, 59, 90, 120, 151, 181, 212, 243, 273, 304, 334>>[m + 1]
                + (IF m > 1 /\ Leap(y) THEN 1 ELSE 0) + d[2] - 1
    IN days % 7

(* Mutant: the day after the last one is let in.                            *)
OutOfBounds_DayAfter(d, max) == max # NoKey /\ Before(AddDays(max, 1), d)

OutOfBounds(d, max) == max # NoKey /\ Before(max, d)

MonthOutOfBounds(ym, max) == max # NoKey /\ MonthOf(max) < ym

ClampDate(d, max) == IF OutOfBounds(d, max) THEN max ELSE d

NavKeys == {"ArrowLeft", "ArrowRight", "ArrowUp", "ArrowDown", "Home", "End",
            "PageUp", "PageDown"}

\* Where a key moves the focus, unless that is out of bounds.
NextFocusDate(d, key, max, shift) ==
    LET years == IF shift THEN 12 ELSE 1
        next == CASE key = "ArrowLeft" -> AddDays(d, -1)
                  [] key = "ArrowRight" -> AddDays(d, 1)
                  [] key = "ArrowUp" -> AddDays(d, -7)
                  [] key = "ArrowDown" -> AddDays(d, 7)
                  [] key = "Home" -> AddDays(d, -WeekdayIndex(d))
                  [] key = "End" -> AddDays(d, 6 - WeekdayIndex(d))
                  [] key = "PageUp" -> ShiftMonth(d, -years)
                  [] key = "PageDown" -> ShiftMonth(d, years)
    IN IF OutOfBounds(next, max) THEN d ELSE next

NextFocusMonth(ym, key, max) ==
    LET next == CASE key = "ArrowLeft" -> ym - 1
                  [] key = "ArrowRight" -> ym + 1
                  [] key = "ArrowUp" -> ym - 3
                  [] key = "ArrowDown" -> ym + 3
                  [] key = "Home" -> ym - (ym % 12)
                  [] key = "End" -> ym - (ym % 12) + 11
                  [] key = "PageUp" -> ym - 12
                  [] key = "PageDown" -> ym + 12
    IN IF MonthOutOfBounds(next, max) THEN ym ELSE next

\* The 42 days on screen, Monday first, and the 12 months of a year.
MonthGrid(ym) ==
    LET lead == WeekdayIndex(<<ym, 1>>) IN
    {<<ym - 1, MonthLength(ym - 1) - k>> : k \in 0..(lead - 1)}
      \cup {<<ym, k>> : k \in 1..MonthLength(ym)}
      \cup {<<ym + 1, k>> : k \in 1..(42 - lead - MonthLength(ym))}

YearGrid(ym) == {ym - (ym % 12) + k : k \in 0..11}

-----------------------------------------------------------------------------
(* The popover.                                                             *)

OnPicker == screen \in DOMAIN DateFields

Today == Midnights[db.day]
Bound == IF ThisField.bounded THEN Today ELSE NoKey

\* Where an opening starts, whatever an earlier one left behind.
StartOf(f) ==
    IF f.value # NoKey THEN f.value
    ELSE IF ByDay THEN ClampDate(f.today, f.max) ELSE MonthOf(f.today)

\* The month, or the year of months, that goes with the focus.
VisibleMonth(focus) == IF ByDay THEN MonthOf(focus) ELSE focus - (focus % 12)

Opened(f) == [f EXCEPT !.open = TRUE, !.view = "days", !.focus = StartOf(f),
                       !.month = VisibleMonth(StartOf(f))]

Closed(f) == [f EXCEPT !.open = FALSE, !.view = "days", !.focus = NoKey, !.month = 0]

PickerInit ==
    /\ screen \in DOMAIN DateFields \cap Mounted
    /\ db = [day |-> 1]
    /\ wire = <<>>
    /\ form = Closed([value |-> IF ~ThisField.seeded THEN NoKey
                                ELSE IF ByDay THEN Today ELSE MonthOf(Today),
                      max |-> Bound, today |-> Today,
                      open |-> FALSE, view |-> "days", month |-> 0, focus |-> NoKey])

InHorizon(f) == f.open => f.month \in Horizon[ThisField.by]

\* The field renders after each of its own steps, with the bound it was given.
Shows(f) ==
    /\ form' = [f EXCEPT !.today = Today]
    /\ InHorizon(form')
    /\ UNCHANGED <<screen, wire, db>>

\* The form renders with what was picked: the bound is taken anew.
Picks(v) == Shows([Closed(form) EXCEPT !.value = v, !.max = Bound])

\* The form renders for a reason of its own: a bound that moved starts over.
FormRenders ==
    /\ OnPicker
    /\ <<form.today, form.max>> # <<Today, Bound>>
    /\ LET f == [form EXCEPT !.today = Today, !.max = Bound] IN
       Shows(IF form.open /\ form.max # Bound THEN Opened(f) ELSE f)

\* The form starts over, as after a save.
FormStartsOver ==
    /\ OnPicker /\ ThisField.bounded
    /\ form.value # Today
    /\ LET f == [form EXCEPT !.value = Today, !.max = Bound] IN
       Shows(IF form.open THEN Opened(f) ELSE f)

Midnight ==
    /\ OnPicker /\ db.day < Len(Midnights)
    /\ db' = [db EXCEPT !.day = @ + 1]
    /\ UNCHANGED <<screen, form, wire>>

OpenPicker ==
    /\ OnPicker /\ ~form.open
    /\ Shows(Opened([form EXCEPT !.today = Today]))

ClosePicker ==
    /\ OnPicker /\ form.open
    /\ Shows(Closed(form))

-----------------------------------------------------------------------------
(* The grids.                                                               *)

OnDays == OnPicker /\ form.open /\ ByDay /\ form.view = "days"
OnMonths == OnPicker /\ form.open /\ (ByDay => form.view = "months")

\* The arrows beside the caption move what is shown and not the focus.
StepCaption(way) ==
    /\ OnPicker /\ form.open
    /\ Shows([form EXCEPT !.month = @ + way * (IF OnDays THEN 1 ELSE 12)])

ShowMonths ==
    /\ OnDays
    /\ Shows([form EXCEPT !.view = "months"])

\* A grid takes keys while one of its cells can hold the focus.
DayKey(key, shift) ==
    /\ OnDays
    /\ \E d \in MonthGrid(form.month) : ~OutOfBounds(d, form.max)
    /\ LET d == NextFocusDate(form.focus, key, form.max, shift) IN
       Shows([form EXCEPT !.focus = d, !.month = MonthOf(d)])

MonthKey(key) ==
    /\ OnMonths
    /\ \E ym \in YearGrid(form.month) : ~MonthOutOfBounds(ym, form.max)
    /\ Shows(IF ByDay THEN [form EXCEPT !.month = NextFocusMonth(@, key, form.max)]
             ELSE LET ym == NextFocusMonth(form.focus, key, form.max) IN
                  [form EXCEPT !.focus = ym, !.month = VisibleMonth(ym)])

PickDay ==
    /\ OnDays
    /\ \E d \in Choices \cap MonthGrid(form.month) : ~OutOfBounds(d, form.max) /\ Picks(d)

\* In a date field a month leads back to its days.
PickMonth ==
    /\ OnMonths
    /\ \E ym \in YearGrid(form.month) :
          /\ ~MonthOutOfBounds(ym, form.max)
          /\ IF ByDay THEN Shows([form EXCEPT !.view = "days", !.month = ym,
                                              !.focus = ClampDate(<<ym, 1>>, form.max)])
             ELSE Picks(ym)

\* Today as the field last rendered it.
PickToday ==
    /\ OnDays
    /\ ClampDate(form.today, form.max) = form.today
    /\ Picks(form.today)

ClearDate ==
    /\ OnDays /\ ThisField.clears
    /\ Picks(NoKey)

PickerNext ==
    \/ FormRenders \/ FormStartsOver \/ Midnight \/ OpenPicker \/ ClosePicker
    \/ ShowMonths \/ PickDay \/ PickMonth \/ PickToday \/ ClearDate
    \/ \E way \in {-1, 1} : StepCaption(way)
    \/ \E key \in NavKeys : MonthKey(key) \/ \E shift \in BOOLEAN : DayKey(key, shift)

PickerSpec == PickerInit /\ [][PickerNext]_tabVars

-----------------------------------------------------------------------------
(* A receipt is never dated in the future, nor does the keyboard come to    *)
(* rest on a day that cannot be picked: whichever way the grids are         *)
(* browsed, across month and year ends, and with midnight passing while     *)
(* the field or its form still shows the day before.                        *)
NothingInTheFuture ==
    OnPicker /\ ThisField.bounded =>
        /\ ~Before(Today, form.value)
        /\ OnDays => ~OutOfBounds(form.focus, form.max)
=============================================================================
