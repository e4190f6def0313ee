------------------------------ MODULE Prototype ------------------------------
(***************************************************************************)
(* The prototype the app was designed from (design_handoff_sakuplan_rn):   *)
(* one object in memory, pure functions that change it (lib/finance.ts),   *)
(* and what Beranda and the breakdown show of it.                          *)
(*                                                                         *)
(* A name stands for the identifier of an account, a budget, a bill or a   *)
(* goal; a date is a number of days.  The operations the store offers are  *)
(* called by screens, two of which are part of the prototype.              *)
(***************************************************************************)
EXTENDS FiniteSets, FiniteSetsExt, Functions, Integers, Sequences

CONSTANTS
  AccountType,     \* the type of each account
  SourceAccount,   \* the account bills and goals are paid from
  Seed,            \* the data the prototype starts with
  MonthLength,     \* days of each month, one more than the app is used in
  MaxAmount,       \* bound on an amount
  MaxTransactions, \* bound on the transactions
  LastDay          \* bound on today

Account == DOMAIN AccountType
Liquid == {a \in Account : AccountType[a] # "Tabungan"}
Bill == DOMAIN Seed.bills
Goal == DOMAIN Seed.goals
Suggestion == DOMAIN Seed.suggestions
Amount == 1 .. MaxAmount
Month == 1 .. Len(MonthLength)

Status == {"paid", "overdue", "upcoming"}
Budget == [allocated : Nat, spent : Nat]

(* The days before a month. *)
Before(month) == SumFunctionOnSet(MonthLength, 1 .. month - 1)

ASSUME PrototypeAssumption ==
  /\ SourceAccount \in Liquid
  /\ MaxAmount \in Nat /\ MaxTransactions \in Nat
  /\ MonthLength \in Seq(Nat \ {0}) /\ Len(MonthLength) > 0
  /\ LastDay \in Nat \ {0} /\ LastDay <= Before(Len(MonthLength))

(* Categories of transactions that no budget is for. *)
OwnCategories == {"Pemasukan", "Tagihan", "Tabungan"}

(* What seed.ts has the shape of. *)
ASSUME SeedAssumption ==
  /\ Seed.accounts \in [Account -> Int] /\ IsFiniteSet(Account)
  /\ Seed.budgets \in [DOMAIN Seed.budgets -> Budget] /\ IsFiniteSet(DOMAIN Seed.budgets)
  /\ Seed.bills \in [Bill -> [amount : Nat, due : Int, status : Status]] /\ IsFiniteSet(Bill)
  /\ Seed.goals \in [Goal -> [target : Nat \ {0}, contributed : Nat]]
  /\ IsFiniteSet(Goal) /\ Goal # {}
  /\ \A s \in Suggestion :
       Seed.suggestions[s].kind \in {"update", "new"} /\ Seed.suggestions[s].suggested \in Nat
  /\ \A s, t \in Suggestion :
       Seed.suggestions[s].kind = "new" =>
         /\ Seed.suggestions[s].category \notin DOMAIN Seed.budgets
         /\ s # t => Seed.suggestions[s].category # Seed.suggestions[t].category
  /\ (DOMAIN Seed.budgets \cup {Seed.suggestions[s].category : s \in Suggestion})
       \cap OwnCategories = {}

VARIABLES
  accounts,     \* balances
  budgets,      \* what is allocated to and spent on a category
  bills,        \* status of a bill
  goals,        \* what has been contributed to a goal
  suggestions,  \* suggestions not answered yet
  transactions, \* newest first, since the start
  paydayDay,    \* the day of payday that was entered; 0: not a number
  safetyBuffer, \* what is to be left
  today

books == <<accounts, budgets, bills, goals, suggestions, transactions>>
settings == <<paydayDay, safetyBuffer>>
vars == <<books, settings, today>>

Init ==
  /\ accounts = Seed.accounts /\ budgets = Seed.budgets
  /\ bills = [b \in Bill |-> Seed.bills[b].status]
  /\ goals = [g \in Goal |-> Seed.goals[g].contributed]
  /\ suggestions = Suggestion /\ transactions = <<>>
  /\ paydayDay = 0 /\ safetyBuffer = 1 /\ today = 1

-----------------------------------------------------------------------------
(* Days.                                                                   *)

MonthOf(date) == CHOOSE m \in Month : Before(m) < date /\ date <= Before(m) + MonthLength[m]

DefaultDay == 2

(* nextPaydayDate: the day, or the last of a month that does not have it. *)
CandidateFor(day, month) == Before(month) + Min({day, MonthLength[month]})

(* Faulty variant of NextPaydayDate: payday is today. *)
NextPaydayToday(day) ==
  LET d == Max({1, IF day = 0 THEN DefaultDay ELSE day})
      m == MonthOf(today) IN
  IF CandidateFor(d, m) < today THEN CandidateFor(d, m + 1) ELSE CandidateFor(d, m)

NextPaydayDate(day) ==
  LET d == Max({1, IF day = 0 THEN DefaultDay ELSE day})
      m == MonthOf(today) IN
  IF CandidateFor(d, m) <= today THEN CandidateFor(d, m + 1) ELSE CandidateFor(d, m)

-----------------------------------------------------------------------------
(* What is derived, for the screens.                                       *)

LiquidCash == SumFunctionOnSet(accounts, Liquid)

BillAmount == [b \in Bill |-> Seed.bills[b].amount]

(* Faulty variant of UnpaidBills: overdue ones are forgotten. *)
UnpaidUpcoming == SumFunctionOnSet(BillAmount, {b \in Bill : bills[b] = "upcoming"})

UnpaidBills == SumFunctionOnSet(BillAmount, {b \in Bill : bills[b] # "paid"})

Remaining(c) == Max({budgets[c].allocated - budgets[c].spent, 0})
RemainingBudget == SumFunctionOnSet([c \in DOMAIN budgets |-> Remaining(c)], DOMAIN budgets)

SafeUntilPayday == LiquidCash - UnpaidBills - RemainingBudget - safetyBuffer
Days == Max({NextPaydayDate(paydayDay) - today, 1})

Overdue(b) == bills[b] = "overdue" \/ (bills[b] # "paid" /\ Seed.bills[b].due < today)
Over(c) == budgets[c].spent > budgets[c].allocated

(* "Perlu perhatian" *)
AttentionItems ==
  [kind : {"bill"}, ref : {b \in Bill : Overdue(b)}]
    \cup [kind : {"budget"}, ref : {c \in DOMAIN budgets : Over(c)}]

(* A bill on the bills screen. *)
BillRow(b) ==
  CASE bills[b] = "paid" -> "paid"
    [] bills[b] = "overdue" \/ (bills[b] = "upcoming" /\ Seed.bills[b].due < today) -> "overdue"
    [] bills[b] = "upcoming" /\ Seed.bills[b].due = today -> "today"
    [] bills[b] = "upcoming" /\ Seed.bills[b].due > today -> "upcoming"

(* The goal nearest its end. *)
TopGoal ==
  CHOOSE g \in Goal : \A k \in Goal :
    goals[g] * Seed.goals[k].target >= goals[k] * Seed.goals[g].target

GoalPct(g) == Min({100, (200 * goals[g] + Seed.goals[g].target) \div (2 * Seed.goals[g].target)})

(* Math.round of an amount for each of the days, as fmtIDR shows it. *)
PerDay(amount) == (2 * amount + Days) \div (2 * Days)

(* Beranda: the figure of the day, never negative, its sense, and what     *)
(* asks for attention.                                                     *)
HomeScreen ==
  [exceeded |-> SafeUntilPayday < 0,
   figure |-> PerDay(IF SafeUntilPayday < 0 THEN -SafeUntilPayday ELSE SafeUntilPayday),
   attention |-> AttentionItems,
   goal |-> GoalPct(TopGoal)]

(* The breakdown shows the sign, and what the sum is made of except the    *)
(* buffer.                                                                 *)
SafeToSpendScreen ==
  [today |-> PerDay(SafeUntilPayday), until |-> SafeUntilPayday,
   liquid |-> LiquidCash, bills |-> UnpaidBills, budget |-> RemainingBudget]

-----------------------------------------------------------------------------
(* The store's operations.                                                 *)

Moved(account, amount) == [accounts EXCEPT ![account] = @ + amount]
Recorded(category, desc, account, amount) ==
  <<[category |-> category, desc |-> desc, account |-> account, amount |-> amount]>> \o transactions

Room == Len(transactions) < MaxTransactions

(* addTransaction, with an account one may spend from (spendableAccounts). *)
AddExpense ==
  /\ Room
  /\ \E account \in Liquid, category \in DOMAIN budgets \cup {"Lain-lain"}, amount \in Amount :
       /\ accounts' = Moved(account, -amount)
       /\ budgets' = [c \in DOMAIN budgets |->
            IF c = category THEN [budgets[c] EXCEPT !.spent = @ + amount] ELSE budgets[c]]
       /\ transactions' = Recorded(category, category, account, -amount)
  /\ UNCHANGED <<bills, goals, suggestions, settings, today>>

AddIncome ==
  /\ Room
  /\ \E account \in Liquid, amount \in Amount :
       /\ accounts' = Moved(account, amount)
       /\ transactions' = Recorded("Pemasukan", "Pemasukan", account, amount)
  /\ UNCHANGED <<budgets, bills, goals, suggestions, settings, today>>

(* Faulty variant of CanPay: whatever is listed can be paid again. *)
CanPayAgain(b) == b \in Bill

CanPay(b) == b \in Bill /\ bills[b] # "paid"

(* markBillPaid, "Tandai dibayar" on Beranda and the bills screen's. *)
MarkBillPaid(b) ==
  /\ Room
  /\ CanPay(b)
  /\ bills' = [bills EXCEPT ![b] = "paid"]
  /\ accounts' = Moved(SourceAccount, -Seed.bills[b].amount)
  /\ transactions' = Recorded("Tagihan", b, SourceAccount, -Seed.bills[b].amount)
  /\ UNCHANGED <<budgets, goals, suggestions, settings, today>>

(* addGoalFunds *)
AddGoalFunds(g) ==
  /\ Room
  /\ \E amount \in Amount :
       /\ goals' = [goals EXCEPT ![g] = @ + amount]
       /\ accounts' = Moved(SourceAccount, -amount)
       /\ transactions' = Recorded("Tabungan", g, SourceAccount, -amount)
  /\ UNCHANGED <<budgets, bills, suggestions, settings, today>>

(* setBudgetAllocation *)
SetBudgetAllocation(c) ==
  /\ \E amount \in Amount \cup {0} : budgets' = [budgets EXCEPT ![c].allocated = amount]
  /\ UNCHANGED <<accounts, bills, goals, suggestions, transactions, settings, today>>

(* approveSuggestion: an update of a budget, or a new one. *)
ApproveSuggestion(s) ==
  LET sug == Seed.suggestions[s] IN
  /\ budgets' =
       IF sug.kind = "update"
       THEN [c \in DOMAIN budgets |->
              IF c = sug.category
              THEN [budgets[c] EXCEPT !.allocated = sug.suggested]
              ELSE budgets[c]]
       ELSE [c \in DOMAIN budgets \cup {sug.category} |->
              IF c = sug.category
              THEN [allocated |-> sug.suggested, spent |-> 0]
              ELSE budgets[c]]
  /\ suggestions' = suggestions \ {s}
  /\ UNCHANGED <<accounts, bills, goals, transactions, settings, today>>

(* rejectSuggestion *)
RejectSuggestion(s) ==
  /\ suggestions' = suggestions \ {s}
  /\ UNCHANGED <<accounts, budgets, bills, goals, transactions, settings, today>>

(* setPaydayDay, setSafetyBuffer: whatever is typed. *)
Configure ==
  /\ \/ paydayDay' \in 0 .. Max(Range(MonthLength)) /\ UNCHANGED safetyBuffer
     \/ safetyBuffer' \in Amount \cup {0} /\ UNCHANGED paydayDay
  /\ UNCHANGED <<books, today>>

(* The date the app is drawn with. *)
Day ==
  /\ today < LastDay /\ today' = today + 1
  /\ UNCHANGED <<books, settings>>

Next ==
  \/ AddExpense \/ AddIncome \/ Configure \/ Day
  \/ \E b \in Bill : MarkBillPaid(b)
  \/ \E g \in Goal : AddGoalFunds(g)
  \/ \E c \in DOMAIN budgets : SetBudgetAllocation(c)
  \/ \E s \in suggestions : ApproveSuggestion(s) \/ RejectSuggestion(s)

Spec == Init /\ [][Next]_vars

-----------------------------------------------------------------------------
TypeOK ==
  /\ accounts \in [Account -> Int]
  /\ budgets \in [DOMAIN budgets -> Budget]
  /\ bills \in [Bill -> Status]
  /\ goals \in [Goal -> Nat] /\ suggestions \subseteq Suggestion
  /\ paydayDay \in Nat /\ safetyBuffer \in Nat /\ today \in 1 .. LastDay
  /\ NextPaydayDate(paydayDay) > today
  /\ HomeScreen.goal \in 0 .. 100

(* Sums of transactions. *)
Sum(S) == SumFunctionOnSet([i \in DOMAIN transactions |-> transactions[i].amount], S)
OnAccount(a) == {i \in DOMAIN transactions : transactions[i].account = a}
InCategory(c) == {i \in DOMAIN transactions : transactions[i].category = c}
For(c, name) == {i \in InCategory(c) : transactions[i].desc = name}

(* Every balance, goal, budget and paid bill is what its transactions make *)
(* it, in whatever order money was spent, moved and planned (finance.ts:   *)
(* 183-267), and no bill is paid twice.                                    *)
BooksBalance ==
  /\ \A a \in Account : accounts[a] = Seed.accounts[a] + Sum(OnAccount(a))
  /\ \A g \in Goal : goals[g] = Seed.goals[g].contributed - Sum(For("Tabungan", g))
  /\ \A c \in DOMAIN Seed.budgets :
       budgets[c].spent = Seed.budgets[c].spent - Sum(InCategory(c))
  /\ \A b \in Bill :
       Sum(For("Tagihan", b)) =
         IF bills[b] = Seed.bills[b].status THEN 0 ELSE -Seed.bills[b].amount

(* What the two screens say is safe, for the day and until payday. *)
SafeShown ==
  <<HomeScreen.exceeded, HomeScreen.figure, SafeToSpendScreen.today, SafeToSpendScreen.until>>

(* Paying a bill leaves what Beranda and the breakdown say is safe as it   *)
(* was, and Beranda stops asking for the bill (finance.ts:139, 327).       *)
PayingIsNeutral ==
  \A b \in Bill :
    (bills[b] # "paid" /\ bills'[b] = "paid") =>
      /\ SafeShown' = SafeShown
      /\ BillRow(b)' = "paid"
      /\ [kind |-> "bill", ref |-> b] \notin HomeScreen.attention'

(* Spending what a budget has left leaves it as it was too.                *)
SpendingIsNeutral ==
  \A c \in DOMAIN budgets :
    LET spent == budgets'[c].spent - budgets[c].spent IN
    (spent > 0 /\ budgets[c].spent + spent <= budgets[c].allocated) =>
      SafeShown' = SafeShown

(* What is planned for is already taken off: paying a bill, and spending   *)
(* what a budget has left, leave what Beranda and the breakdown say is     *)
(* safe as it was, and Beranda stops asking for the bill (finance.ts:139,  *)
(* 327, index.tsx:160).                                                    *)
PlannedSpendIsNeutral == [][PayingIsNeutral /\ SpendingIsNeutral]_vars
=============================================================================
