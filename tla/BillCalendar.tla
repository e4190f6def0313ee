----------------------------- MODULE BillCalendar -----------------------------
(***************************************************************************)
(* Recurring bills on the phone: which period a row of app/(app)/bills.tsx *)
(* or of Home is about, what it says of it, what "Tandai lunas" sends, and *)
(* what the API stores and answers; and the months of the reports screen,  *)
(* which are made of the same dates.                                       *)
(*                                                                         *)
(* Time is counted in parts of a day of UTC.  The phone is zone parts      *)
(* ahead of UTC: day d of its calendar begins at Parts * d - zone.  The    *)
(* API keeps dates of UTC.                                                 *)
(***************************************************************************)
EXTENDS Integers, FiniteSets, FiniteSetsExt, Sequences

CONSTANTS
  Parts,        \* parts of a day that the time tells apart
  Zones,        \* offsets a phone may have
  DueDays,      \* due days a bill may have
  MonthLength,  \* the days of each month
  FirstMonth,   \* the month in which the app is started
  LastMonth,    \* bound: the app is not used after it
  Offsets,      \* the months before that one that the reports show
  MaxTaps,      \* bound on the payments
  Fault         \* what may go wrong

Months == DOMAIN MonthLength

ASSUME BillCalendarAssumption ==
  /\ Parts \in Nat \ {0} /\ Zones \subseteq 1 - Parts .. Parts - 1
  /\ DueDays \subseteq 1 .. 31
  /\ MonthLength \in Seq(Nat \ {0})
  /\ {FirstMonth, LastMonth, LastMonth + 1, FirstMonth - Offsets} \subseteq Months
  /\ FirstMonth <= LastMonth /\ Offsets \in Nat
  /\ MaxTaps \in Nat
  /\ Fault \subseteq {"lost", "error"}

VARIABLES
  zone, dueDay,  \* the phone's zone and the bill's due day: they do not change
  now,           \* the time
  occurrences,   \* server: the payments of the bill
  tap,           \* the phone's requests to pay it
  screen,        \* the screen that is open
  seen,          \* the time its rows were made for
  last,          \* query cache: the bill's last_paid_due_date, Unknown before the first answer
  failed,        \* query cache: the last fetch failed
  fetch,         \* query cache: the fetch in flight
  dashboard      \* the dashboard query of Home

bill == <<zone, dueDay>>
view == <<screen, seen, dashboard>>
cache == <<last, failed, fetch>>
vars == <<bill, now, occurrences, tap, view, cache>>

-----------------------------------------------------------------------------
(* The phone's calendar.                                                   *)

FirstDay[m \in 1 .. Len(MonthLength) + 1] ==
  IF m = 1 THEN 1 ELSE FirstDay[m - 1] + MonthLength[m - 1]
LastDay(m) == FirstDay[m + 1] - 1
DaysOf(m) == FirstDay[m] .. LastDay(m)

LocalDay(t) == (t + zone) \div Parts
Midnight(day) == Parts * day - zone
MonthOf(t) == CHOOSE m \in Months : LocalDay(t) \in DaysOf(m)

(* toRFC3339, then ::date. *)
UTCDate(t) == t \div Parts
Never == -1
Unknown == -2

(* Faulty variant of CandidateFor: a short month is overrun. *)
CandidateOverrun(m) == Midnight(FirstDay[m] + dueDay - 1)

CandidateFor(m) == Midnight(FirstDay[m] + Min({dueDay, MonthLength[m]}) - 1)

CurrentBillPeriodDueDate(t) == CandidateFor(MonthOf(t))

(* Faulty variant of NextBillOccurrence: today has begun, so it is over. *)
NextBillOccurrenceAfter(t) ==
  LET thisMonth == CurrentBillPeriodDueDate(t)
  IN IF thisMonth >= t THEN thisMonth ELSE CandidateFor(MonthOf(t) + 1)

NextBillOccurrence(t) ==
  LET thisMonth == CurrentBillPeriodDueDate(t)
  IN IF thisMonth >= Midnight(LocalDay(t)) THEN thisMonth
     ELSE CandidateFor(MonthOf(t) + 1)

(* Math.round *)
Days(due, t) == (2 * (due - t) + Parts) \div (2 * Parts)

(* Faulty variants of IsPaidForPeriod: any payment counts; the payment of  *)
(* the period itself does not.                                             *)
IsPaidAtAll(paid, due) == paid # Never
IsPaidAfter(paid, due) == paid # Never /\ Parts * paid > due

(* The date is read back as midnight UTC. *)
IsPaidForPeriod(paid, due) == paid # Never /\ Parts * paid >= due

BillUrgency(due, t) ==
  LET days == Days(due, t)
  IN IF days < 0 THEN "late" ELSE IF days = 0 THEN "today" ELSE "ahead"

-----------------------------------------------------------------------------
(* What the screens show.                                                  *)

NoFetch == [phase |-> "none", got |-> Never]
Asked == [phase |-> "asked", got |-> Never]
Answered(date) == [phase |-> "answered", got |-> date]

Loaded == last # Unknown
Due == CurrentBillPeriodDueDate(seen)
Paid == Loaded /\ IsPaidForPeriod(last, Due)

BillRow == IF Paid THEN "lunas" ELSE BillUrgency(Due, seen)

(* "loading" is a spinner, "error" a message. *)
BillsScreen ==
  CASE failed -> "error"
    [] ~failed /\ ~Loaded -> "loading"
    [] OTHER -> BillRow

(* Home looks at dashboard.data first: its message is for a refresh that   *)
(* failed, a first load that failed leaves the spinner.  It ignores a      *)
(* failure of the bills and keeps what they were.                          *)
HomeScreen ==
  CASE dashboard = "unknown" -> "loading"
    [] dashboard = "stale" -> "error"
    [] OTHER -> "content"

(* attentionItems: the bill, when it is late or due today. *)
AttentionItems ==
  /\ HomeScreen = "content"
  /\ Loaded /\ ~Paid /\ Days(Due, seen) <= 0

(* "Tandai lunas" on one screen, "Tandai dibayar" on the other. *)
Offered ==
  \/ screen = "bills" /\ BillsScreen \in {"late", "today", "ahead"}
  \/ screen = "home" /\ AttentionItems

-----------------------------------------------------------------------------
(* Months of the reports screen.                                           *)

(* Faulty variant of ReportEnd: the last day is not counted. *)
ReportEndExclusive(m) == Parts * UTCDate(Midnight(LastDay(m)))

(* CashFlow takes the day of each end, in UTC, and the last one in full. *)
ReportStart(m) == Parts * UTCDate(Midnight(FirstDay[m]))
ReportEnd(m) == Parts * (UTCDate(Midnight(LastDay(m))) + 1)

CountedIn(t) == {m \in Months : ReportStart(m) <= t /\ t < ReportEnd(m)}

(* Worked out when the module is loaded, for the months up to that one. *)
MonthRanges == FirstMonth - Offsets .. FirstMonth

Expenses(m) == Cardinality({o \in occurrences : m \in o.counted})

(* Nothing is drawn before the current month has a transaction, whatever   *)
(* the earlier ones hold.                                                  *)
ReportsScreen ==
  IF Expenses(FirstMonth) = 0 THEN {} ELSE {<<m, Expenses(m)>> : m \in MonthRanges}

(* scaleY over the highest value, times that value. *)
MaxV == Max({1} \cup {p[2] : p \in ReportsScreen})
CashFlowChart == {<<p[1], 130 * MaxV - 110 * p[2]>> : p \in ReportsScreen}

-----------------------------------------------------------------------------
Instants == Midnight(1) .. Midnight(LastDay(LastMonth) + 1) - 1
Dates == {UTCDate(t) : t \in Instants}

Tap == [status : {"unused", "sent", "paid", "over", "lost"}, month : Months \cup {0}, due : Int]
Unused == [status |-> "unused", month |-> 0, due |-> 0]

TypeOK ==
  /\ zone \in Zones /\ dueDay \in DueDays
  /\ now \in Instants /\ seen \in Instants /\ seen <= now
  /\ occurrences \subseteq
       [date : Dates, month : FirstMonth .. LastMonth, counted : SUBSET Months]
  /\ tap \in [1 .. MaxTaps -> Tap]
  /\ \A i \in 1 .. MaxTaps :
       tap[i].month # 0 => tap[i].due \in {Midnight(d) : d \in DaysOf(tap[i].month)}
  /\ screen \in {"home", "bills", "elsewhere"}
  /\ dashboard \in {"unknown", "fresh", "stale"}
  /\ last \in {Unknown, Never} \cup Dates
  /\ failed \in BOOLEAN
  /\ fetch \in {NoFetch, Asked} \cup {Answered(d) : d \in {Never} \cup Dates}

Init ==
  /\ zone \in Zones /\ dueDay \in DueDays
  /\ now = Midnight(FirstDay[FirstMonth]) /\ seen = now
  /\ occurrences = {}
  /\ tap = [i \in 1 .. MaxTaps |-> Unused]
  /\ screen = "elsewhere" /\ dashboard = "unknown"
  /\ last = Unknown /\ failed = FALSE /\ fetch = NoFetch

Tick ==
  /\ now + 1 \in Instants
  /\ now' = now + 1
  /\ UNCHANGED <<bill, occurrences, tap, view, cache>>

-----------------------------------------------------------------------------
(* The query of the bills.                                                 *)

(* max(due_date) *)
LastPaidDueDate == Max({Never} \cup {o.date : o \in occurrences})

ServeFetch ==
  /\ fetch = Asked
  /\ fetch' = Answered(LastPaidDueDate)
  /\ UNCHANGED <<bill, now, occurrences, tap, view, last, failed>>

(* The same data again changes nothing on Home, whose rows are memoised,   *)
(* and renders the bills screen only if it showed a message.               *)
Deliver ==
  /\ fetch.phase = "answered"
  /\ last' = fetch.got /\ failed' = FALSE /\ fetch' = NoFetch
  /\ seen' = IF ~Loaded \/ last # fetch.got \/ (failed /\ screen = "bills")
             THEN now ELSE seen
  /\ UNCHANGED <<bill, now, occurrences, tap, screen, dashboard>>

FailFetch ==
  /\ "error" \in Fault
  /\ fetch # NoFetch
  /\ failed' = TRUE /\ fetch' = NoFetch
  /\ UNCHANGED <<bill, now, occurrences, tap, view, last>>

(* invalidateQueries(["bills"]), see MoneyScreens. *)
Invalidate ==
  fetch' = IF screen # "elsewhere" /\ (Loaded \/ fetch = NoFetch) THEN Asked ELSE fetch

(* The dashboard query of Home, whenever it is fetched. *)
LoadDashboard ==
  /\ screen = "home"
  /\ \/ dashboard' = "fresh"
     \/ "error" \in Fault /\ dashboard = "fresh" /\ dashboard' = "stale"
  /\ UNCHANGED <<bill, now, occurrences, tap, screen, seen, cache>>

(* The other thing that makes Home's rows anew: a cash-flow report that is *)
(* not the one it had.                                                     *)
LoadCashFlow ==
  /\ screen = "home"
  /\ seen' = now
  /\ UNCHANGED <<bill, now, occurrences, tap, screen, dashboard, cache>>

(* What the cache holds of the dashboard when Home opens is left open. *)
Go ==
  /\ \E s \in {"home", "bills", "elsewhere"} \ {screen} :
       /\ screen' = s
       /\ dashboard' \in IF s = "home" THEN {"unknown", "fresh", "stale"} ELSE {"unknown"}
       /\ fetch' = IF s # "elsewhere" /\ fetch = NoFetch THEN Asked ELSE fetch
  /\ seen' = now
  /\ UNCHANGED <<bill, now, occurrences, tap, last, failed>>

-----------------------------------------------------------------------------
(* Paying.                                                                 *)

(* Faulty variant of DueDate: the day is sent, not the day it is due. *)
DueDateToday == Midnight(LocalDay(seen))

(* What a tap sends. *)
DueDate == Due

(* A tap; the control stays enabled while an earlier one is in flight. *)
MarkPaid ==
  /\ Offered
  /\ \E i \in 1 .. MaxTaps :
       /\ tap[i] = Unused /\ \A j \in 1 .. i - 1 : tap[j] # Unused
       /\ tap' = [tap EXCEPT ![i] =
                    [status |-> "sent", month |-> MonthOf(seen), due |-> DueDate]]
  /\ UNCHANGED <<bill, now, occurrences, view, cache>>

(* BillService.MarkPaid under a key of its own: one occurrence a date. *)
Serve(i) ==
  LET date == UTCDate(tap[i].due)
      taken == \E o \in occurrences : o.date = date
  IN /\ tap[i].status = "sent"
     /\ tap' = [tap EXCEPT ![i].status = IF taken THEN "over" ELSE "paid"]
     /\ occurrences' =
          IF taken THEN occurrences
          ELSE occurrences \cup
                 {[date |-> date, month |-> tap[i].month, counted |-> CountedIn(now)]}
     /\ UNCHANGED <<bill, now, view, cache>>

(* onSuccess.  A refusal or a failure has no effect at all. *)
Acknowledge(i) ==
  /\ tap[i].status = "paid"
  /\ tap' = [tap EXCEPT ![i].status = "over"]
  /\ Invalidate
  /\ UNCHANGED <<bill, now, occurrences, view, last, failed>>

Lose(i) ==
  /\ "lost" \in Fault
  /\ tap[i].status \in {"sent", "paid"}
  /\ tap' = [tap EXCEPT ![i].status = "lost"]
  /\ UNCHANGED <<bill, now, occurrences, view, cache>>

Next ==
  \/ Tick \/ Go \/ MarkPaid
  \/ \E i \in 1 .. MaxTaps : Serve(i) \/ Acknowledge(i) \/ Lose(i)
  \/ ServeFetch \/ Deliver \/ FailFetch \/ LoadDashboard \/ LoadCashFlow

Spec == Init /\ [][Next]_vars

(* The server answers what it is asked, the runtime delivers it. *)
Fairness ==
  /\ WF_vars(ServeFetch) /\ WF_vars(Deliver)
  /\ \A i \in 1 .. MaxTaps : WF_vars(Serve(i)) /\ WF_vars(Acknowledge(i))

FairSpec == Spec /\ Fairness

-----------------------------------------------------------------------------
(* No period of the bill is paid twice, however often and wherever it is   *)
(* tapped, across a midnight, a month and a lost answer, in any zone: each *)
(* tap takes a new key, so all that holds this is that the taps of one     *)
(* period agree on one UTC date (bills.tsx:38, home.tsx:73).               *)
ChargedOncePerPeriod ==
  \A o1, o2 \in occurrences : o1.month = o2.month => o1 = o2

(* On a phone that keeps UTC the period that was paid last is Lunas.  On   *)
(* no other is any: the date of a payment, read back as midnight UTC, is   *)
(* earlier than the local midnight it is compared with, east of UTC and    *)
(* west of it (billPaymentStatus.ts:7).                                    *)
LunasOnlyAtUTC ==
  /\ zone # 0 => ~Paid
  /\ zone = 0 /\ last = UTCDate(Due) => Paid

(* A row that says Lunas, or an item that Home leaves out as paid, is of a *)
(* period that the server has a payment for (billPaymentStatus.ts:5),      *)
(* however old what is cached; and which phones have such rows.            *)
LunasMeansPaid ==
  /\ Paid => \E o \in occurrences : o.month = MonthOf(seen)
  /\ LunasOnlyAtUTC

(* What the calendar of the phone promises, in any zone: a row tells of    *)
(* the days that are left on its calendar, and of one less exactly when it *)
(* was made after noon, when the rounding counts the day that has begun    *)
(* (billUrgency.ts:11); the next occurrence is the first that is not       *)
(* before today.                                                           *)
AfterNoon(t) == 2 * (t - Midnight(LocalDay(t))) > Parts
CountsTheDays ==
  LET left(t) == LocalDay(CurrentBillPeriodDueDate(t)) - LocalDay(t)
  IN /\ Days(Due, seen) = left(seen) - (IF AfterNoon(seen) THEN 1 ELSE 0)
     /\ NextBillOccurrence(now) =
          Min({due \in {CandidateFor(m) : m \in MonthOf(now) .. MonthOf(now) + 1} :
                 due >= Midnight(LocalDay(now))})

(* Every payment is an expense of one month of the reports, of one only,   *)
(* although the months are cut in UTC and asked for by local midnights     *)
(* (reports.tsx:26, reporting.go:155-158); and the line drawn through them *)
(* stays between the first gridline and the axis (CashFlowChart.tsx:21).   *)
ReportsAddUp ==
  /\ \A o \in occurrences : Cardinality(o.counted) = 1
  /\ \A p \in CashFlowChart : p[2] \in 20 * MaxV .. 130 * MaxV

(* A payment whose answer reaches the screen stops being asked for there:  *)
(* the row becomes Lunas, the item goes, unless the refresh fails          *)
(* (useMarkBillPaid.ts:24).                                                *)
Asking(m) == Offered /\ MonthOf(seen) = m
StopsAsking ==
  \A i \in 1 .. MaxTaps :
    (tap[i].status = "paid" /\ Asking(tap[i].month))
      ~> (tap[i].status = "lost" \/ failed \/ ~Asking(tap[i].month))

(* It does so on a phone that keeps UTC.                                   *)
PaidIsShown ==
  \A i \in 1 .. MaxTaps :
    (zone = 0 /\ tap[i].status = "paid" /\ Asking(tap[i].month))
      ~> (tap[i].status = "lost" \/ failed \/ ~Asking(tap[i].month))
=============================================================================
