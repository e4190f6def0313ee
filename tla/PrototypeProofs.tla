--------------------------- MODULE PrototypeProofs ---------------------------
(* Proofs about Prototype, for any data it starts with that has the shape  *)
(* of seed.ts, any calendar and any number of transactions.                *)
EXTENDS Prototype, SumTheorems, TLAPS

N == Len(MonthLength)

-----------------------------------------------------------------------------
(* Numbers *)

LEMMA MaxOfTwo ==
  ASSUME NEW x \in Int, NEW y \in Int
  PROVE  Max({x, y}) = IF x >= y THEN x ELSE y
<1> DEFINE P(z) == z \in {x, y} /\ \A w \in {x, y} : z >= w
           a == IF x >= y THEN x ELSE y
<1>1. P(a) /\ \A z : P(z) => z = a
  OBVIOUS
<1>2. Max({x, y}) = CHOOSE z : P(z)
  BY DEF Max
<1> HIDE DEF P, a
<1>3. P(CHOOSE z : P(z))
  BY <1>1
<1>4. QED
  BY <1>1, <1>2, <1>3 DEF a

LEMMA MinOfTwo ==
  ASSUME NEW x \in Int, NEW y \in Int
  PROVE  Min({x, y}) = IF x <= y THEN x ELSE y
<1> DEFINE P(z) == z \in {x, y} /\ \A w \in {x, y} : z <= w
           a == IF x <= y THEN x ELSE y
<1>1. P(a) /\ \A z : P(z) => z = a
  OBVIOUS
<1>2. Min({x, y}) = CHOOSE z : P(z)
  BY DEF Min
<1> HIDE DEF P, a
<1>3. P(CHOOSE z : P(z))
  BY <1>1
<1>4. QED
  BY <1>1, <1>2, <1>3 DEF a

(* Fractions are ordered. *)
LEMMA Fractions ==
  ASSUME NEW a \in Nat, NEW b \in Nat \ {0}, NEW c \in Nat, NEW d \in Nat \ {0},
         NEW e \in Nat, NEW f \in Nat \ {0},
         a * d >= c * b, c * f >= e * d
  PROVE  a * f >= e * b
<1>1. (a * d) * f >= (c * b) * f /\ (c * f) * b >= (e * d) * b
  OBVIOUS
<1>2. (a * f) * d >= (e * b) * d
  <2>1. (a * d) * f = (a * f) * d /\ (c * b) * f = (c * f) * b /\ (e * d) * b = (e * b) * d
    OBVIOUS
  <2>2. QED
    BY <1>1, <2>1
<1>3. ASSUME NEW x \in Nat, NEW y \in Nat, x * d >= y * d
      PROVE  x >= y
  <2>1. x < y => x * d < y * d
    OBVIOUS
  <2>2. x * d \in Nat /\ y * d \in Nat
    OBVIOUS
  <2>3. QED
    BY <1>3, <2>1, <2>2
<1>4. a * f \in Nat /\ e * b \in Nat
  OBVIOUS
<1>5. QED
  BY <1>2, <1>3, <1>4

-----------------------------------------------------------------------------
(* The calendar *)

LEMMA MonthsType ==
  /\ N \in Nat \ {0} /\ Month = 1 .. N /\ \A m \in 1 .. N : MonthLength[m] \in Nat \ {0}
  /\ LastDay \in Nat \ {0} /\ LastDay <= Before(N)
BY PrototypeAssumption DEF N, Month

LEMMA BeforeType ==
  ASSUME NEW m \in 1 .. N
  PROVE  /\ Before(m) \in Int /\ Before(m + 1) \in Int
         /\ Before(m + 1) = Before(m) + MonthLength[m]
         /\ Before(1) = 0
<1> DEFINE S == 1 .. m - 1
<1>1. IsFiniteSet(S)
  BY FS_Interval
<1>2. m \notin S /\ 1 .. (m + 1) - 1 = S \cup {m} /\ 1 .. 1 - 1 = {}
  BY MonthsType
<1>3. \A i \in S \cup {m} : MonthLength[i] \in Int
  BY MonthsType
<1>4. Before(m) = SumFunctionOnSet(MonthLength, S)
  BY DEF Before
<1>5. Before(m + 1) = SumFunctionOnSet(MonthLength, S \cup {m})
  BY <1>2 DEF Before
<1> HIDE DEF S
<1>6. Before(m + 1) = Before(m) + MonthLength[m]
  BY <1>1, <1>2, <1>3, <1>4, <1>5, SumAdd
<1>7. Before(m) \in Int
  BY <1>1, <1>3, <1>4, SumInt
<1>8. Before(1) = 0
  BY <1>2, SumEmpty DEF Before
<1>9. MonthLength[m] \in Int
  BY MonthsType
<1>10. QED
  BY <1>6, <1>7, <1>8, <1>9

(* Every day of use is in a month that another one follows. *)
LEMMA TodayInMonth ==
  ASSUME NEW t \in 1 .. LastDay
  PROVE  /\ MonthOf(t) \in 1 .. N /\ MonthOf(t) + 1 \in 1 .. N
         /\ t <= Before(MonthOf(t) + 1) /\ t \in Int
<1> DEFINE T == {m \in Nat : m \in 1 .. N /\ t <= Before(m)}
<1>1. N \in T /\ t \in Nat \ {0} /\ t <= Before(N)
  BY MonthsType, BeforeType
<1>2. PICK m \in T : \A j \in T : m <= j
  BY <1>1, LeastNat
<1>3. m \in 1 .. N /\ t <= Before(m) /\ m \in Nat
  BY <1>2
<1>4. m # 1
  BY <1>1, <1>3, BeforeType
<1>5. m - 1 \in 1 .. N /\ (m - 1) + 1 = m /\ m - 1 \in Nat /\ ~(m <= m - 1)
  BY <1>3, <1>4, MonthsType
<1>6. ~(t <= Before(m - 1))
  BY <1>2, <1>5
<1>7. /\ Before(m) = Before(m - 1) + MonthLength[m - 1] /\ Before(m - 1) \in Int
      /\ MonthLength[m - 1] \in Int
  BY <1>5, BeforeType, MonthsType
<1>8. Before(m - 1) < t /\ t <= Before(m - 1) + MonthLength[m - 1]
  BY <1>1, <1>3, <1>6, <1>7
<1> DEFINE P(k) == k \in Month /\ Before(k) < t /\ t <= Before(k) + MonthLength[k]
<1>9. \E k : P(k)
  BY <1>5, <1>8, MonthsType
<1>10. MonthOf(t) = CHOOSE k : P(k)
  BY DEF MonthOf
<1>11. P(MonthOf(t))
  BY <1>9, <1>10
<1> DEFINE M == MonthOf(t)
<1>12. M \in 1 .. N /\ Before(M) < t /\ t <= Before(M) + MonthLength[M]
  BY <1>11, MonthsType
<1> HIDE DEF M
<1>13. M # N
  <2>1. Before(N) \in Int
    BY BeforeType, MonthsType
  <2>2. QED
    BY <1>1, <1>12, <2>1
<1>14. M + 1 \in 1 .. N /\ Before(M + 1) = Before(M) + MonthLength[M]
  BY <1>12, <1>13, BeforeType, MonthsType
<1>15. QED
  BY <1>1, <1>12, <1>14 DEF M

(* Payday is after today, whatever was typed. *)
LEMMA PaydayAhead ==
  ASSUME today \in 1 .. LastDay, NEW day \in Nat
  PROVE  NextPaydayDate(day) \in Int /\ NextPaydayDate(day) > today
<1> DEFINE wanted == IF day = 0 THEN DefaultDay ELSE day
           d == Max({1, wanted})
           m == MonthOf(today)
<1>1. wanted \in Int
  BY DEF DefaultDay
<1> HIDE DEF wanted
<1>2. d \in Nat \ {0}
  BY <1>1, MaxOfTwo
<1>3. m \in 1 .. N /\ m + 1 \in 1 .. N /\ today <= Before(m + 1) /\ today \in Int
  BY TodayInMonth
<1>4. NextPaydayDate(day) =
        IF CandidateFor(d, m) <= today THEN CandidateFor(d, m + 1) ELSE CandidateFor(d, m)
  BY DEF NextPaydayDate, wanted
<1> HIDE DEF d, m
<1>5. ASSUME NEW k \in 1 .. N
      PROVE  CandidateFor(d, k) \in Int /\ CandidateFor(d, k) > Before(k)
  <2>1. MonthLength[k] \in Nat \ {0} /\ Before(k) \in Int
    BY MonthsType, BeforeType
  <2>2. Min({d, MonthLength[k]}) \in Nat \ {0}
    BY <1>2, <2>1, MinOfTwo
  <2>3. QED
    BY <2>1, <2>2 DEF CandidateFor
<1>6. /\ CandidateFor(d, m) \in Int /\ CandidateFor(d, m + 1) \in Int
      /\ CandidateFor(d, m + 1) > Before(m + 1) /\ Before(m + 1) \in Int
  BY <1>3, <1>5, BeforeType
<1>7. QED
  BY <1>3, <1>4, <1>6

-----------------------------------------------------------------------------
(* The inductive invariant                                                 *)

SuggestedCategories == {Seed.suggestions[s].category : s \in Suggestion}

Transaction ==
  [category : OwnCategories \cup {"Lain-lain"} \cup DOMAIN Seed.budgets \cup SuggestedCategories,
   desc : OwnCategories \cup {"Lain-lain"} \cup DOMAIN Seed.budgets \cup SuggestedCategories
            \cup Bill \cup Goal,
   account : Account, amount : Int]

(* Budgets are added and never removed, and only those suggested. *)
BudgetsGrow ==
  /\ budgets \in [DOMAIN budgets -> Budget]
  /\ IsFiniteSet(DOMAIN budgets)
  /\ DOMAIN Seed.budgets \subseteq DOMAIN budgets
  /\ DOMAIN budgets \subseteq DOMAIN Seed.budgets \cup SuggestedCategories

(* A bill that is not as it was is paid. *)
BillsGetPaid ==
  /\ bills \in [Bill -> Status]
  /\ \A b \in Bill : bills[b] \in {Seed.bills[b].status, "paid"}

SettingsType ==
  /\ suggestions \subseteq Suggestion
  /\ paydayDay \in Nat /\ safetyBuffer \in Nat /\ today \in 1 .. LastDay

IInv ==
  /\ accounts \in [Account -> Int] /\ goals \in [Goal -> Nat]
  /\ BudgetsGrow /\ BillsGetPaid /\ SettingsType
  /\ transactions \in Seq(Transaction)
  /\ BooksBalance

(* What seed.ts has, by part. *)
LEMMA SeedType ==
  /\ Seed.accounts \in [Account -> Int] /\ IsFiniteSet(Account)
  /\ Seed.budgets \in [DOMAIN Seed.budgets -> Budget] /\ IsFiniteSet(DOMAIN Seed.budgets)
  /\ \A b \in Bill : Seed.bills[b].amount \in Nat /\ Seed.bills[b].status \in Status
  /\ IsFiniteSet(Bill) /\ IsFiniteSet(Goal) /\ Goal # {}
  /\ \A g \in Goal : Seed.goals[g].target \in Nat \ {0} /\ Seed.goals[g].contributed \in Nat
  /\ \A s \in Suggestion : Seed.suggestions[s].suggested \in Nat
  /\ (DOMAIN Seed.budgets \cup SuggestedCategories) \cap OwnCategories = {}
  /\ SourceAccount \in Liquid /\ Liquid \subseteq Account
BY SeedAssumption, PrototypeAssumption DEF SuggestedCategories, Liquid

(* A new transaction adds its amount to the sums it is one of. *)
LEMMA SumRecorded ==
  ASSUME transactions \in Seq(Transaction), NEW x \in Transaction,
         transactions' = <<x>> \o transactions
  PROVE  /\ transactions' \in Seq(Transaction)
         /\ \A a : Sum(OnAccount(a))' = Sum(OnAccount(a)) + (IF x.account = a THEN x.amount ELSE 0)
         /\ \A c : Sum(InCategory(c))' = Sum(InCategory(c)) + (IF x.category = c THEN x.amount ELSE 0)
         /\ \A c, name : Sum(For(c, name))' = Sum(For(c, name)) +
                            (IF x.category = c /\ x.desc = name THEN x.amount ELSE 0)
<1> DEFINE n == Len(transactions)
           f == [i \in DOMAIN transactions |-> transactions[i].amount]
           g == [i \in DOMAIN transactions' |-> transactions'[i].amount]
<1>1. /\ transactions' \in Seq(Transaction) /\ n \in Nat
      /\ DOMAIN transactions = 1 .. n /\ DOMAIN transactions' = 1 .. n + 1
      /\ transactions'[1] = x
      /\ \A i \in 1 .. n : transactions'[i + 1] = transactions[i] /\ transactions[i] \in Transaction
                           /\ i + 1 \in 1 .. n + 1
  OBVIOUS
<1>2. /\ \A i \in 1 .. n : f[i] \in Int /\ g[i + 1] = f[i]
      /\ g[1] \in Int /\ g[1] = x.amount /\ 1 \in 1 .. n + 1
  BY <1>1 DEF Transaction
<1>3. /\ \A S : Sum(S) = SumFunctionOnSet(f, S)
      /\ \A S : Sum(S)' = SumFunctionOnSet(g, S')
  BY DEF Sum
<1> HIDE DEF f, g, n
<1>4. ASSUME NEW S, NEW T, MovedUp(n, S, T)
      PROVE  SumFunctionOnSet(g, T) = SumFunctionOnSet(f, S) + (IF 1 \in T THEN x.amount ELSE 0)
  <2>1. Prepended(n, f, g)
    BY <1>1, <1>2 DEF Prepended
  <2>2. QED
    BY <1>2, <1>4, <2>1, SumPrepend
<1>5. ASSUME NEW a
      PROVE  Sum(OnAccount(a))' = Sum(OnAccount(a)) + (IF x.account = a THEN x.amount ELSE 0)
  <2> DEFINE S == OnAccount(a)
             T == {i \in DOMAIN transactions' : transactions'[i].account = a}
  <2>1. /\ MovedUp(n, S, T)
        /\ 1 \in T <=> x.account = a
    BY <1>1, <1>2 DEF OnAccount, MovedUp
  <2>2. Sum(OnAccount(a)) = SumFunctionOnSet(f, S) /\ Sum(OnAccount(a))' = SumFunctionOnSet(g, T)
    BY DEF Sum, OnAccount, f, g
  <2> HIDE DEF S, T
  <2>3. QED
    BY <1>4, <2>1, <2>2
<1>6. ASSUME NEW c
      PROVE  Sum(InCategory(c))' = Sum(InCategory(c)) + (IF x.category = c THEN x.amount ELSE 0)
  <2> DEFINE S == InCategory(c)
             T == {i \in DOMAIN transactions' : transactions'[i].category = c}
  <2>1. /\ MovedUp(n, S, T)
        /\ 1 \in T <=> x.category = c
    BY <1>1, <1>2 DEF InCategory, MovedUp
  <2>2. Sum(InCategory(c)) = SumFunctionOnSet(f, S) /\ Sum(InCategory(c))' = SumFunctionOnSet(g, T)
    BY DEF Sum, InCategory, f, g
  <2> HIDE DEF S, T
  <2>3. QED
    BY <1>4, <2>1, <2>2
<1>7. ASSUME NEW c, NEW name
      PROVE  Sum(For(c, name))' = Sum(For(c, name)) +
               (IF x.category = c /\ x.desc = name THEN x.amount ELSE 0)
  <2> DEFINE S == For(c, name)
             T == {i \in DOMAIN transactions' :
                     transactions'[i].category = c /\ transactions'[i].desc = name}
  <2>1. /\ MovedUp(n, S, T)
        /\ 1 \in T <=> x.category = c /\ x.desc = name
    BY <1>1, <1>2 DEF For, InCategory, MovedUp
  <2>2. T = For(c, name)'
    BY DEF For, InCategory
  <2>3. Sum(For(c, name)) = SumFunctionOnSet(f, S) /\ Sum(For(c, name))' = SumFunctionOnSet(g, T)
    BY <2>2 DEF Sum, f, g
  <2> HIDE DEF S, T
  <2>4. QED
    BY <1>4, <2>1, <2>3
<1>8. QED
  BY <1>1, <1>5, <1>6, <1>7

(* Sums are numbers. *)
LEMMA SumType ==
  ASSUME transactions \in Seq(Transaction)
  PROVE  /\ \A a : Sum(OnAccount(a)) \in Int
         /\ \A c : Sum(InCategory(c)) \in Int
         /\ \A c, name : Sum(For(c, name)) \in Int
<1> DEFINE f == [i \in DOMAIN transactions |-> transactions[i].amount]
<1>1. Len(transactions) \in Nat /\ DOMAIN transactions = 1 .. Len(transactions)
  OBVIOUS
<1>2. IsFiniteSet(DOMAIN transactions)
  BY <1>1, FS_Interval
<1>3. \A i \in DOMAIN transactions : f[i] \in Int
  <2>1. \A i \in DOMAIN transactions : transactions[i] \in Transaction
    BY <1>1
  <2>2. \A x \in Transaction : x.amount \in Int
    BY DEF Transaction
  <2>3. QED
    BY <2>1, <2>2
<1>4. ASSUME NEW S \in SUBSET DOMAIN transactions
      PROVE  Sum(S) \in Int
  <2>1. IsFiniteSet(S)
    BY <1>2, FS_Subset
  <2>2. Sum(S) = SumFunctionOnSet(f, S)
    BY DEF Sum
  <2> HIDE DEF f
  <2>3. \A i \in S : f[i] \in Int
    BY <1>3
  <2>4. QED
    BY <2>1, <2>2, <2>3, SumInt
<1>5. /\ \A a : OnAccount(a) \subseteq DOMAIN transactions
      /\ \A c : InCategory(c) \subseteq DOMAIN transactions
      /\ \A c, name : For(c, name) \subseteq DOMAIN transactions
  BY DEF OnAccount, InCategory, For
<1>6. QED
  BY <1>4, <1>5

-----------------------------------------------------------------------------
(* The inductive invariant is one.                                         *)

LEMMA StartsBalanced == Init => IInv
<1> SUFFICES ASSUME Init
             PROVE  IInv
  OBVIOUS
<1> USE SeedType
<1>1. accounts = Seed.accounts /\ budgets = Seed.budgets /\ suggestions = Suggestion
      /\ bills = [b \in Bill |-> Seed.bills[b].status]
      /\ goals = [g \in Goal |-> Seed.goals[g].contributed]
      /\ transactions = <<>> /\ paydayDay = 0 /\ safetyBuffer = 1 /\ today = 1
  BY DEF Init
<1>2. accounts \in [Account -> Int] /\ goals \in [Goal -> Nat]
  BY <1>1
<1>3. BudgetsGrow
  BY <1>1 DEF BudgetsGrow
<1>4. BillsGetPaid
  BY <1>1 DEF BillsGetPaid
<1>5. SettingsType
  BY <1>1, MonthsType DEF SettingsType
<1>6. transactions \in Seq(Transaction)
  BY <1>1
<1>7. DOMAIN transactions = {}
  BY <1>1
<1>8. \A S : S \subseteq DOMAIN transactions => Sum(S) = 0
  BY <1>7, SumEmpty DEF Sum
<1>9. /\ \A a : Sum(OnAccount(a)) = 0
      /\ \A c : Sum(InCategory(c)) = 0
      /\ \A c, name : Sum(For(c, name)) = 0
  BY <1>8 DEF OnAccount, InCategory, For
<1>10. /\ \A a \in Account : Seed.accounts[a] \in Int
       /\ \A c \in DOMAIN Seed.budgets : Seed.budgets[c].spent \in Int
  BY DEF Budget
<1>11. BooksBalance
  BY <1>1, <1>9, <1>10 DEF BooksBalance
<1>12. QED
  BY <1>2, <1>3, <1>4, <1>5, <1>6, <1>11 DEF IInv

(* A transaction that changes what it is about keeps the books balanced.   *)
LEMMA BooksStep ==
  ASSUME IInv, NEW x \in Transaction, transactions' = <<x>> \o transactions,
         \A a \in Account :
           accounts'[a] = accounts[a] + (IF x.account = a THEN x.amount ELSE 0),
         \A g \in Goal :
           goals'[g] = goals[g] - (IF x.category = "Tabungan" /\ x.desc = g THEN x.amount ELSE 0),
         \A c \in DOMAIN Seed.budgets :
           budgets'[c].spent = budgets[c].spent - (IF x.category = c THEN x.amount ELSE 0),
         \A b \in Bill :
           IF x.category = "Tagihan" /\ x.desc = b
           THEN /\ bills[b] = Seed.bills[b].status /\ bills'[b] # Seed.bills[b].status
                /\ x.amount = -Seed.bills[b].amount
           ELSE bills'[b] = bills[b]
  PROVE  transactions' \in Seq(Transaction) /\ BooksBalance'
<1>1. /\ transactions \in Seq(Transaction) /\ BooksBalance
      /\ accounts \in [Account -> Int] /\ goals \in [Goal -> Nat]
      /\ budgets \in [DOMAIN budgets -> Budget] /\ DOMAIN Seed.budgets \subseteq DOMAIN budgets
  BY DEF IInv, BudgetsGrow
<1>2. x.amount \in Int
  BY DEF Transaction
<1>3. \A c \in DOMAIN Seed.budgets : budgets[c].spent \in Int
  BY <1>1 DEF Budget
<1>4. /\ transactions' \in Seq(Transaction)
      /\ \A a : Sum(OnAccount(a))' = Sum(OnAccount(a)) + (IF x.account = a THEN x.amount ELSE 0)
      /\ \A c : Sum(InCategory(c))' = Sum(InCategory(c)) + (IF x.category = c THEN x.amount ELSE 0)
      /\ \A c, name : Sum(For(c, name))' = Sum(For(c, name)) +
                         (IF x.category = c /\ x.desc = name THEN x.amount ELSE 0)
  BY <1>1, SumRecorded
<1>5. /\ \A a : Sum(OnAccount(a)) \in Int
      /\ \A c : Sum(InCategory(c)) \in Int
      /\ \A c, name : Sum(For(c, name)) \in Int
  BY <1>1, SumType
<1>6. /\ \A a \in Account : Seed.accounts[a] \in Int
      /\ \A g \in Goal : Seed.goals[g].contributed \in Int
      /\ \A c \in DOMAIN Seed.budgets : Seed.budgets[c].spent \in Int
      /\ \A b \in Bill : Seed.bills[b].amount \in Int
  BY SeedType DEF Budget
<1>7. \A a \in Account : accounts'[a] = Seed.accounts[a] + Sum(OnAccount(a))'
  BY <1>1, <1>2, <1>4, <1>5, <1>6 DEF BooksBalance
<1>8. \A g \in Goal : goals'[g] = Seed.goals[g].contributed - Sum(For("Tabungan", g))'
  BY <1>1, <1>2, <1>4, <1>5, <1>6 DEF BooksBalance
<1>9. \A c \in DOMAIN Seed.budgets :
        budgets'[c].spent = Seed.budgets[c].spent - Sum(InCategory(c))'
  BY <1>1, <1>2, <1>3, <1>4, <1>5, <1>6 DEF BooksBalance
<1>10. ASSUME NEW b \in Bill
       PROVE  Sum(For("Tagihan", b))' =
                IF bills'[b] = Seed.bills[b].status THEN 0 ELSE -Seed.bills[b].amount
  <2>1. Sum(For("Tagihan", b)) =
          IF bills[b] = Seed.bills[b].status THEN 0 ELSE -Seed.bills[b].amount
    BY <1>1 DEF BooksBalance
  <2>2. Sum(For("Tagihan", b))' = Sum(For("Tagihan", b)) +
          (IF x.category = "Tagihan" /\ x.desc = b THEN x.amount ELSE 0)
    BY <1>4
  <2>3. CASE x.category = "Tagihan" /\ x.desc = b
    BY <1>2, <2>1, <2>2, <2>3
  <2>4. CASE ~(x.category = "Tagihan" /\ x.desc = b)
    BY <1>5, <2>1, <2>2, <2>4
  <2>5. QED
    BY <2>3, <2>4
<1>11. QED
  BY <1>4, <1>7, <1>8, <1>9, <1>10 DEF BooksBalance

(* What records nothing and spends nothing keeps them too. *)
LEMMA BooksKept ==
  ASSUME IInv, UNCHANGED <<accounts, bills, goals, transactions>>,
         \A c \in DOMAIN Seed.budgets : budgets'[c].spent = budgets[c].spent
  PROVE  transactions' \in Seq(Transaction) /\ BooksBalance'
<1>1. /\ \A a : Sum(OnAccount(a))' = Sum(OnAccount(a))
      /\ \A c : Sum(InCategory(c))' = Sum(InCategory(c))
      /\ \A c, name : Sum(For(c, name))' = Sum(For(c, name))
  BY DEF Sum, OnAccount, InCategory, For
<1>2. BooksBalance /\ transactions \in Seq(Transaction)
  BY DEF IInv
<1>3. QED
  BY <1>1, <1>2 DEF BooksBalance

(* An amount moved to an account. *)
LEMMA MovedType ==
  ASSUME accounts \in [Account -> Int], NEW account \in Account, NEW amount \in Int,
         accounts' = Moved(account, amount)
  PROVE  /\ accounts' \in [Account -> Int]
         /\ \A a \in Account : accounts'[a] = accounts[a] + (IF account = a THEN amount ELSE 0)
BY DEF Moved

LEMMA ExpenseStep ==
  ASSUME IInv, AddExpense
  PROVE  IInv'
<1>1. PICK account \in Liquid, category \in DOMAIN budgets \cup {"Lain-lain"}, amount \in Amount :
        /\ accounts' = Moved(account, -amount)
        /\ budgets' = [c \in DOMAIN budgets |->
             IF c = category THEN [budgets[c] EXCEPT !.spent = @ + amount] ELSE budgets[c]]
        /\ transactions' = Recorded(category, category, account, -amount)
  BY DEF AddExpense
<1> DEFINE x == [category |-> category, desc |-> category, account |-> account, amount |-> -amount]
<1>2. UNCHANGED <<bills, goals, suggestions, paydayDay, safetyBuffer, today>>
  BY DEF AddExpense, settings
<1>3. amount \in Nat /\ account \in Account
  BY <1>1, SeedType, PrototypeAssumption DEF Amount
<1>4. BudgetsGrow /\ BillsGetPaid /\ SettingsType /\ accounts \in [Account -> Int]
      /\ goals \in [Goal -> Nat]
  BY DEF IInv
<1>5. category \in DOMAIN Seed.budgets \cup SuggestedCategories \cup {"Lain-lain"}
  BY <1>1, <1>4 DEF BudgetsGrow
<1>6. category \notin OwnCategories /\ category # "Tabungan" /\ category # "Tagihan"
  BY <1>5, SeedType DEF OwnCategories
<1>7. x \in Transaction /\ transactions' = <<x>> \o transactions
  BY <1>1, <1>3, <1>5 DEF Transaction, Recorded
<1>8. x.category = category /\ x.desc = category /\ x.account = account /\ x.amount = -amount
  OBVIOUS
<1> HIDE DEF x
<1>9. BudgetsGrow' /\ \A c \in DOMAIN budgets : budgets'[c].spent =
                        budgets[c].spent - (IF category = c THEN -amount ELSE 0)
  <2>1. ASSUME NEW c \in DOMAIN budgets
        PROVE  budgets[c] \in Budget /\ budgets[c].spent \in Nat /\ budgets[c].allocated \in Nat
    BY <1>4 DEF BudgetsGrow, Budget
  <2>2. ASSUME NEW c \in DOMAIN budgets
        PROVE  /\ budgets'[c] \in Budget
               /\ budgets'[c].spent = budgets[c].spent - (IF category = c THEN -amount ELSE 0)
    BY <1>1, <1>3, <2>1 DEF Budget
  <2>3. DOMAIN budgets' = DOMAIN budgets /\ budgets' = [c \in DOMAIN budgets' |-> budgets'[c]]
    BY <1>1
  <2>4. QED
    BY <1>4, <2>2, <2>3 DEF BudgetsGrow
<1>10. /\ accounts' \in [Account -> Int]
       /\ \A a \in Account : accounts'[a] = accounts[a] + (IF x.account = a THEN x.amount ELSE 0)
  BY <1>1, <1>3, <1>4, <1>8, MovedType
<1>11. transactions' \in Seq(Transaction) /\ BooksBalance'
  <2>1. \A g \in Goal : goals'[g] = goals[g] -
           (IF x.category = "Tabungan" /\ x.desc = g THEN x.amount ELSE 0)
    BY <1>2, <1>4, <1>6, <1>8
  <2>2. \A c \in DOMAIN Seed.budgets : budgets'[c].spent =
           budgets[c].spent - (IF x.category = c THEN x.amount ELSE 0)
    BY <1>4, <1>8, <1>9 DEF BudgetsGrow
  <2>3. \A b \in Bill : bills'[b] = bills[b] /\ ~(x.category = "Tagihan" /\ x.desc = b)
    BY <1>2, <1>6, <1>8
  <2>4. QED
    BY <1>7, <1>10, <2>1, <2>2, <2>3, BooksStep
<1>12. BillsGetPaid' /\ SettingsType' /\ goals' \in [Goal -> Nat]
  BY <1>2, <1>4 DEF BillsGetPaid, SettingsType
<1>13. QED
  BY <1>9, <1>10, <1>11, <1>12 DEF IInv

LEMMA IncomeStep ==
  ASSUME IInv, AddIncome
  PROVE  IInv'
<1>1. PICK account \in Liquid, amount \in Amount :
        /\ accounts' = Moved(account, amount)
        /\ transactions' = Recorded("Pemasukan", "Pemasukan", account, amount)
  BY DEF AddIncome
<1> DEFINE x == [category |-> "Pemasukan", desc |-> "Pemasukan", account |-> account,
                 amount |-> amount]
<1>2. UNCHANGED <<budgets, bills, goals, suggestions, paydayDay, safetyBuffer, today>>
  BY DEF AddIncome, settings
<1>3. amount \in Int /\ account \in Account
  BY <1>1, SeedType, PrototypeAssumption DEF Amount
<1>4. BudgetsGrow /\ BillsGetPaid /\ SettingsType /\ accounts \in [Account -> Int]
      /\ goals \in [Goal -> Nat]
  BY DEF IInv
<1>5. "Pemasukan" \notin DOMAIN Seed.budgets /\ "Pemasukan" \in OwnCategories
  BY SeedType DEF OwnCategories
<1>6. x \in Transaction /\ transactions' = <<x>> \o transactions
  BY <1>1, <1>3, <1>5 DEF Transaction, Recorded
<1>7. x.category = "Pemasukan" /\ x.account = account /\ x.amount = amount
  OBVIOUS
<1> HIDE DEF x
<1>8. /\ accounts' \in [Account -> Int]
      /\ \A a \in Account : accounts'[a] = accounts[a] + (IF x.account = a THEN x.amount ELSE 0)
  BY <1>1, <1>3, <1>4, <1>7, MovedType
<1>9. transactions' \in Seq(Transaction) /\ BooksBalance'
  <2>1. \A g \in Goal : goals'[g] = goals[g] -
           (IF x.category = "Tabungan" /\ x.desc = g THEN x.amount ELSE 0)
    BY <1>2, <1>4, <1>7
  <2>2. \A c \in DOMAIN Seed.budgets : budgets'[c].spent =
           budgets[c].spent - (IF x.category = c THEN x.amount ELSE 0)
    BY <1>2, <1>4, <1>5, <1>7 DEF BudgetsGrow, Budget
  <2>3. \A b \in Bill : bills'[b] = bills[b] /\ ~(x.category = "Tagihan" /\ x.desc = b)
    BY <1>2, <1>7
  <2>4. QED
    BY <1>6, <1>8, <2>1, <2>2, <2>3, BooksStep
<1>10. BudgetsGrow' /\ BillsGetPaid' /\ SettingsType' /\ goals' \in [Goal -> Nat]
  BY <1>2, <1>4 DEF BudgetsGrow, BillsGetPaid, SettingsType
<1>11. QED
  BY <1>8, <1>9, <1>10 DEF IInv

LEMMA PayStep ==
  ASSUME IInv, NEW bill \in Bill, MarkBillPaid(bill)
  PROVE  IInv'
<1> DEFINE amount == -Seed.bills[bill].amount
           x == [category |-> "Tagihan", desc |-> bill, account |-> SourceAccount,
                 amount |-> amount]
<1>1. /\ bills[bill] # "paid" /\ bills' = [bills EXCEPT ![bill] = "paid"]
      /\ accounts' = Moved(SourceAccount, amount)
      /\ transactions' = Recorded("Tagihan", bill, SourceAccount, amount)
      /\ UNCHANGED <<budgets, goals, suggestions, paydayDay, safetyBuffer, today>>
  BY DEF MarkBillPaid, CanPay, settings
<1>2. amount \in Int /\ SourceAccount \in Account
  BY SeedType
<1>3. BudgetsGrow /\ BillsGetPaid /\ SettingsType /\ accounts \in [Account -> Int]
      /\ goals \in [Goal -> Nat]
  BY DEF IInv
<1>4. "Tagihan" \notin DOMAIN Seed.budgets /\ "Tagihan" \in OwnCategories
  BY SeedType DEF OwnCategories
<1>5. x \in Transaction /\ transactions' = <<x>> \o transactions
  BY <1>1, <1>2, <1>4 DEF Transaction, Recorded
<1>6. x.category = "Tagihan" /\ x.desc = bill /\ x.account = SourceAccount
      /\ x.amount = -Seed.bills[bill].amount /\ x.amount = amount
  OBVIOUS
<1> HIDE DEF x, amount
<1>7. /\ accounts' \in [Account -> Int]
      /\ \A a \in Account : accounts'[a] = accounts[a] + (IF x.account = a THEN x.amount ELSE 0)
  BY <1>1, <1>2, <1>3, <1>6, MovedType
<1>8. /\ bills' \in [Bill -> Status]
      /\ \A b \in Bill : bills'[b] = IF b = bill THEN "paid" ELSE bills[b]
      /\ bills[bill] = Seed.bills[bill].status
  BY <1>1, <1>3 DEF BillsGetPaid, Status
<1>9. transactions' \in Seq(Transaction) /\ BooksBalance'
  <2>1. \A g \in Goal : goals'[g] = goals[g] -
           (IF x.category = "Tabungan" /\ x.desc = g THEN x.amount ELSE 0)
    BY <1>1, <1>3, <1>6
  <2>2. \A c \in DOMAIN Seed.budgets : budgets'[c].spent =
           budgets[c].spent - (IF x.category = c THEN x.amount ELSE 0)
    BY <1>1, <1>3, <1>4, <1>6 DEF BudgetsGrow, Budget
  <2>3. \A b \in Bill :
          IF x.category = "Tagihan" /\ x.desc = b
          THEN /\ bills[b] = Seed.bills[b].status /\ bills'[b] # Seed.bills[b].status
               /\ x.amount = -Seed.bills[b].amount
          ELSE bills'[b] = bills[b]
    BY <1>1, <1>6, <1>8
  <2>4. QED
    BY <1>5, <1>7, <2>1, <2>2, <2>3, BooksStep
<1>10. BillsGetPaid'
  BY <1>3, <1>8 DEF BillsGetPaid
<1>11. BudgetsGrow' /\ SettingsType' /\ goals' \in [Goal -> Nat]
  BY <1>1, <1>3 DEF BudgetsGrow, SettingsType
<1>12. QED
  BY <1>7, <1>9, <1>10, <1>11 DEF IInv

LEMMA FundsStep ==
  ASSUME IInv, NEW goal \in Goal, AddGoalFunds(goal)
  PROVE  IInv'
<1>1. PICK amount \in Amount :
        /\ goals' = [goals EXCEPT ![goal] = @ + amount]
        /\ accounts' = Moved(SourceAccount, -amount)
        /\ transactions' = Recorded("Tabungan", goal, SourceAccount, -amount)
  BY DEF AddGoalFunds
<1> DEFINE x == [category |-> "Tabungan", desc |-> goal, account |-> SourceAccount,
                 amount |-> -amount]
<1>2. UNCHANGED <<budgets, bills, suggestions, paydayDay, safetyBuffer, today>>
  BY DEF AddGoalFunds, settings
<1>3. amount \in Nat /\ -amount \in Int /\ SourceAccount \in Account
  BY <1>1, SeedType, PrototypeAssumption DEF Amount
<1>4. BudgetsGrow /\ BillsGetPaid /\ SettingsType /\ accounts \in [Account -> Int]
      /\ goals \in [Goal -> Nat]
  BY DEF IInv
<1>5. "Tabungan" \notin DOMAIN Seed.budgets /\ "Tabungan" \in OwnCategories
  BY SeedType DEF OwnCategories
<1>6. x \in Transaction /\ transactions' = <<x>> \o transactions
  BY <1>1, <1>3, <1>5 DEF Transaction, Recorded
<1>7. x.category = "Tabungan" /\ x.desc = goal /\ x.account = SourceAccount /\ x.amount = -amount
  OBVIOUS
<1> HIDE DEF x
<1>8. /\ accounts' \in [Account -> Int]
      /\ \A a \in Account : accounts'[a] = accounts[a] + (IF x.account = a THEN x.amount ELSE 0)
  BY <1>1, <1>3, <1>4, <1>7, MovedType
<1>9. /\ goals' \in [Goal -> Nat]
      /\ \A g \in Goal : goals'[g] = goals[g] -
           (IF x.category = "Tabungan" /\ x.desc = g THEN x.amount ELSE 0)
  BY <1>1, <1>3, <1>4, <1>7
<1>10. transactions' \in Seq(Transaction) /\ BooksBalance'
  <2>1. \A c \in DOMAIN Seed.budgets : budgets'[c].spent =
           budgets[c].spent - (IF x.category = c THEN x.amount ELSE 0)
    BY <1>2, <1>4, <1>5, <1>7 DEF BudgetsGrow, Budget
  <2>2. \A b \in Bill : bills'[b] = bills[b] /\ ~(x.category = "Tagihan" /\ x.desc = b)
    BY <1>2, <1>7
  <2>3. QED
    BY <1>6, <1>8, <1>9, <2>1, <2>2, BooksStep
<1>11. BudgetsGrow' /\ BillsGetPaid' /\ SettingsType'
  BY <1>2, <1>4 DEF BudgetsGrow, BillsGetPaid, SettingsType
<1>12. QED
  BY <1>8, <1>9, <1>10, <1>11 DEF IInv

LEMMA AllocationStep ==
  ASSUME IInv, NEW category \in DOMAIN budgets, SetBudgetAllocation(category)
  PROVE  IInv'
<1>1. PICK amount \in Amount \cup {0} : budgets' = [budgets EXCEPT ![category].allocated = amount]
  BY DEF SetBudgetAllocation
<1>2. UNCHANGED <<accounts, bills, goals, suggestions, transactions, paydayDay, safetyBuffer, today>>
  BY DEF SetBudgetAllocation, settings
<1>3. amount \in Nat
  BY <1>1, PrototypeAssumption DEF Amount
<1>4. BudgetsGrow /\ BillsGetPaid /\ SettingsType
      /\ accounts \in [Account -> Int] /\ goals \in [Goal -> Nat]
  BY DEF IInv
<1>5. DOMAIN budgets' = DOMAIN budgets /\ budgets' \in [DOMAIN budgets -> Budget]
      /\ \A c \in DOMAIN budgets : budgets'[c].spent = budgets[c].spent
  BY <1>1, <1>3, <1>4 DEF BudgetsGrow, Budget
<1>6. BudgetsGrow' /\ BillsGetPaid' /\ SettingsType'
  BY <1>2, <1>4, <1>5 DEF BudgetsGrow, BillsGetPaid, SettingsType
<1>7. transactions' \in Seq(Transaction) /\ BooksBalance'
  BY <1>2, <1>4, <1>5, BooksKept DEF BudgetsGrow
<1>8. QED
  BY <1>2, <1>4, <1>6, <1>7 DEF IInv

LEMMA ApproveStep ==
  ASSUME IInv, NEW s \in suggestions, ApproveSuggestion(s)
  PROVE  IInv'
<1> DEFINE sug == Seed.suggestions[s]
<1>1. UNCHANGED <<accounts, bills, goals, transactions, paydayDay, safetyBuffer, today>>
      /\ suggestions' = suggestions \ {s}
  BY DEF ApproveSuggestion, settings
<1>2. BudgetsGrow /\ BillsGetPaid /\ SettingsType
      /\ accounts \in [Account -> Int] /\ goals \in [Goal -> Nat]
  BY DEF IInv
<1>3. s \in Suggestion /\ sug.suggested \in Nat /\ sug.category \in SuggestedCategories
  BY <1>2, SeedType DEF SettingsType, SuggestedCategories
<1>4. \A c \in DOMAIN budgets : budgets[c] \in Budget /\ budgets[c].spent \in Nat
  BY <1>2 DEF BudgetsGrow, Budget
<1>5. BudgetsGrow' /\ \A c \in DOMAIN Seed.budgets : budgets'[c].spent = budgets[c].spent
  <2>1. CASE sug.kind = "update"
    <3>1. budgets' = [c \in DOMAIN budgets |->
                       IF c = sug.category
                       THEN [budgets[c] EXCEPT !.allocated = sug.suggested]
                       ELSE budgets[c]]
      BY <2>1 DEF ApproveSuggestion
    <3>2. \A c \in DOMAIN budgets : budgets'[c] \in Budget /\ budgets'[c].spent = budgets[c].spent
      BY <1>3, <1>4, <3>1 DEF Budget
    <3>3. DOMAIN budgets' = DOMAIN budgets /\ budgets' = [c \in DOMAIN budgets' |-> budgets'[c]]
      BY <3>1
    <3>4. QED
      BY <1>2, <3>2, <3>3 DEF BudgetsGrow
  <2>2. CASE sug.kind # "update"
    <3>1. budgets' = [c \in DOMAIN budgets \cup {sug.category} |->
                       IF c = sug.category
                       THEN [allocated |-> sug.suggested, spent |-> 0]
                       ELSE budgets[c]]
      BY <2>2 DEF ApproveSuggestion
    <3>2. \A c \in DOMAIN budgets \cup {sug.category} :
            budgets'[c] \in Budget /\ (c # sug.category => budgets'[c] = budgets[c])
      BY <1>3, <1>4, <3>1 DEF Budget
    <3>3. /\ DOMAIN budgets' = DOMAIN budgets \cup {sug.category}
          /\ budgets' = [c \in DOMAIN budgets' |-> budgets'[c]]
      BY <3>1
    <3>4. IsFiniteSet(DOMAIN budgets')
      BY <1>2, <3>3, FS_AddElement DEF BudgetsGrow
    <3>5. BudgetsGrow'
      BY <1>2, <1>3, <3>2, <3>3, <3>4 DEF BudgetsGrow
    <3>6. sug.category \notin DOMAIN Seed.budgets
      BY <1>3, <2>2, SeedAssumption
    <3>7. QED
      BY <1>2, <3>2, <3>5, <3>6 DEF BudgetsGrow
  <2>3. QED
    BY <2>1, <2>2
<1>6. BillsGetPaid' /\ SettingsType'
  BY <1>1, <1>2 DEF BillsGetPaid, SettingsType
<1>7. transactions' \in Seq(Transaction) /\ BooksBalance'
  BY <1>1, <1>5, BooksKept
<1>8. QED
  BY <1>1, <1>2, <1>5, <1>6, <1>7 DEF IInv

(* Steps that change neither books nor budgets. *)
LEMMA SettingStep ==
  ASSUME IInv, UNCHANGED <<accounts, budgets, bills, goals, transactions>>,
         suggestions' \subseteq suggestions,
         paydayDay' \in Nat, safetyBuffer' \in Nat, today' \in 1 .. LastDay
  PROVE  IInv'
<1>1. transactions' \in Seq(Transaction) /\ BooksBalance'
  BY BooksKept
<1>2. BudgetsGrow' /\ BillsGetPaid' /\ SettingsType'
  BY DEF IInv, BudgetsGrow, BillsGetPaid, SettingsType
<1>3. QED
  BY <1>1, <1>2 DEF IInv

LEMMA InvariantKept == IInv /\ [Next]_vars => IInv'
<1> SUFFICES ASSUME IInv, [Next]_vars
             PROVE  IInv'
  OBVIOUS
<1>1. paydayDay \in Nat /\ safetyBuffer \in Nat /\ today \in 1 .. LastDay
  BY DEF IInv, SettingsType
<1>2. CASE AddExpense
  BY <1>2, ExpenseStep
<1>3. CASE AddIncome
  BY <1>3, IncomeStep
<1>4. CASE Configure
  <2>1. ASSUME NEW k \in 0 .. Max(Range(MonthLength))
        PROVE  k \in Nat
    OBVIOUS
  <2>2. \A k \in Amount \cup {0} : k \in Nat
    BY PrototypeAssumption DEF Amount
  <2>3. paydayDay' \in Nat /\ safetyBuffer' \in Nat
    BY <1>1, <1>4, <2>1, <2>2 DEF Configure
  <2>4. UNCHANGED <<accounts, budgets, bills, goals, transactions, suggestions, today>>
    BY <1>4 DEF Configure, books
  <2>5. QED
    BY <1>1, <2>3, <2>4, SettingStep
<1>5. CASE Day
  BY <1>1, <1>5, SettingStep, PrototypeAssumption DEF Day, books, settings
<1>6. CASE \E b \in Bill : MarkBillPaid(b)
  BY <1>6, PayStep
<1>7. CASE \E g \in Goal : AddGoalFunds(g)
  BY <1>7, FundsStep
<1>8. CASE \E c \in DOMAIN budgets : SetBudgetAllocation(c)
  BY <1>8, AllocationStep
<1>9. ASSUME NEW s \in suggestions, ApproveSuggestion(s) \/ RejectSuggestion(s)
      PROVE  IInv'
  <2>1. CASE ApproveSuggestion(s)
    BY <2>1, ApproveStep
  <2>2. CASE RejectSuggestion(s)
    BY <1>1, <2>2, SettingStep DEF RejectSuggestion, settings
  <2>3. QED
    BY <1>9, <2>1, <2>2
<1>10. CASE UNCHANGED vars
  BY <1>1, <1>10, SettingStep DEF vars, books, settings
<1>11. QED
  BY <1>2, <1>3, <1>4, <1>5, <1>6, <1>7, <1>8, <1>9, <1>10 DEF Next

(* Whatever is recorded, planned and configured, on whatever day           *)
(* (finance.ts:183-267, store/index.tsx), the invariant holds.             *)
THEOREM PrototypeInductive == Spec => []IInv
BY StartsBalanced, InvariantKept, PTL DEF Spec

(* Every balance, goal, budget and paid bill is what its transactions make *)
(* it, and no bill is paid twice (finance.ts:183-267).                     *)
THEOREM PrototypeBalances == Spec => []BooksBalance
<1>1. IInv => BooksBalance
  BY DEF IInv
<1>2. QED
  BY <1>1, PrototypeInductive, PTL

-----------------------------------------------------------------------------
(* What Beranda shows                                                      *)

(* The parts of what is safe to spend are numbers. *)
LEMMA FigureType ==
  ASSUME IInv
  PROVE  /\ LiquidCash \in Int /\ UnpaidBills \in Int /\ RemainingBudget \in Int
         /\ SafeUntilPayday \in Int
         /\ \A c \in DOMAIN budgets : Remaining(c) \in Int
<1>1. /\ accounts \in [Account -> Int] /\ budgets \in [DOMAIN budgets -> Budget]
      /\ IsFiniteSet(DOMAIN budgets) /\ safetyBuffer \in Nat
  BY DEF IInv, BudgetsGrow, SettingsType
<1>2. LiquidCash \in Int
  <2>1. IsFiniteSet(Liquid) /\ \A a \in Liquid : accounts[a] \in Int
    BY <1>1, SeedType, FS_Subset
  <2>2. QED
    BY <2>1, SumInt DEF LiquidCash
<1>3. UnpaidBills \in Int
  <2> DEFINE U == {b \in Bill : bills[b] # "paid"}
  <2>1. IsFiniteSet(U) /\ \A b \in U : BillAmount[b] \in Int
    BY SeedType, FS_Subset DEF BillAmount
  <2>2. UnpaidBills = SumFunctionOnSet(BillAmount, U)
    BY DEF UnpaidBills
  <2> HIDE DEF U
  <2>3. QED
    BY <2>1, <2>2, SumInt
<1>4. \A c \in DOMAIN budgets : Remaining(c) \in Int
  <2>1. ASSUME NEW x \in Int
        PROVE  Max({x, 0}) \in Int
    BY MaxOfTwo
  <2>2. \A c \in DOMAIN budgets : budgets[c].allocated - budgets[c].spent \in Int
    BY <1>1 DEF Budget
  <2>3. QED
    BY <2>1, <2>2 DEF Remaining
<1>5. RemainingBudget \in Int
  <2> DEFINE left == [c \in DOMAIN budgets |-> Remaining(c)]
  <2>1. \A c \in DOMAIN budgets : left[c] \in Int
    BY <1>4
  <2>2. RemainingBudget = SumFunctionOnSet(left, DOMAIN budgets)
    BY DEF RemainingBudget
  <2> HIDE DEF left
  <2>3. QED
    BY <1>1, <2>1, <2>2, SumInt
<1>6. QED
  BY <1>1, <1>2, <1>3, <1>4, <1>5 DEF SafeUntilPayday

(* One goal is nearest its end. *)
LEMMA AGoalLeads ==
  ASSUME IInv
  PROVE  TopGoal \in Goal
<1> DEFINE Leads(g, k) == goals[g] * Seed.goals[k].target >= goals[k] * Seed.goals[g].target
           G == {T \in SUBSET Goal : T = {} \/ \E g \in T : \A k \in T : Leads(g, k)}
<1>1. \A g \in Goal : goals[g] \in Nat /\ Seed.goals[g].target \in Nat \ {0}
  BY SeedType DEF IInv
<1>2. \A g \in Goal : Leads(g, g)
  <2>1. ASSUME NEW x \in Nat, NEW y \in Nat
        PROVE  x * y >= x * y
    OBVIOUS
  <2>2. QED
    BY <1>1, <2>1
<1>3. ASSUME NEW g \in Goal, NEW k \in Goal
      PROVE  Leads(g, k) \/ Leads(k, g)
  <2>1. ASSUME NEW x \in Nat, NEW y \in Nat, NEW v \in Nat, NEW w \in Nat
        PROVE  x * y >= v * w \/ v * w >= x * y
    OBVIOUS
  <2>2. QED
    BY <1>1, <2>1
<1>4. ASSUME NEW g \in Goal, NEW k \in Goal, NEW h \in Goal, Leads(g, k), Leads(k, h)
      PROVE  Leads(g, h)
  BY <1>1, <1>4, Fractions
<1> HIDE DEF Leads
<1>5. {} \in G
  OBVIOUS
<1>6. ASSUME NEW T \in SUBSET Goal, NEW x \in Goal \ T, T \in G
      PROVE  T \cup {x} \in G
  <2>1. CASE T = {}
    BY <1>2, <2>1
  <2>2. CASE T # {}
    <3>1. PICK g \in T : \A k \in T : Leads(g, k)
      BY <1>6, <2>2
    <3>2. CASE Leads(g, x)
      BY <3>1, <3>2
    <3>3. CASE Leads(x, g)
      <4>1. \A k \in T \cup {x} : Leads(x, k)
        BY <1>2, <1>4, <3>1, <3>3
      <4>2. QED
        BY <4>1
    <3>4. QED
      BY <1>3, <3>2, <3>3
  <2>3. QED
    BY <2>1, <2>2
<1> HIDE DEF G
<1>7. Goal \in G
  BY <1>5, <1>6, SeedType, FiniteInduction
<1>8. \E g \in Goal : \A k \in Goal : Leads(g, k)
  BY <1>7, SeedType DEF G
<1>9. TopGoal = CHOOSE g \in Goal : \A k \in Goal : Leads(g, k)
  BY DEF TopGoal, Leads
<1>10. QED
  BY <1>8, <1>9

LEMMA PercentType ==
  ASSUME IInv, NEW g \in Goal
  PROVE  GoalPct(g) \in 0 .. 100
<1> DEFINE t == Seed.goals[g].target
           q == (200 * goals[g] + t) \div (2 * t)
<1>1. goals[g] \in Nat /\ t \in Nat \ {0}
  BY SeedType DEF IInv
<1>2. q \in Nat
  <2>1. ASSUME NEW x \in Nat, NEW y \in Nat \ {0}
        PROVE  x \div y \in Nat
    OBVIOUS
  <2>2. 200 * goals[g] + t \in Nat /\ 2 * t \in Nat \ {0}
    BY <1>1
  <2>3. QED
    BY <2>1, <2>2
<1>3. GoalPct(g) = Min({100, q})
  BY DEF GoalPct
<1> HIDE DEF q
<1>4. ASSUME NEW x \in Nat
      PROVE  Min({100, x}) \in 0 .. 100
  <2>1. Min({100, x}) = IF 100 <= x THEN 100 ELSE x
    BY MinOfTwo
  <2>2. QED
    BY <2>1
<1>5. QED
  BY <1>2, <1>3, <1>4

(* The type invariant: payday is after today whatever day was entered, and *)
(* the percentage of the goal on Beranda is one                            *)
(* (finance.ts:125-156, 355-371; utils/date.ts).                           *)
THEOREM PrototypeTyped == Spec => []TypeOK
<1>1. ASSUME IInv
      PROVE  TypeOK
  <2>1. /\ accounts \in [Account -> Int] /\ goals \in [Goal -> Nat]
        /\ budgets \in [DOMAIN budgets -> Budget] /\ bills \in [Bill -> Status]
        /\ suggestions \subseteq Suggestion
        /\ paydayDay \in Nat /\ safetyBuffer \in Nat /\ today \in 1 .. LastDay
    BY <1>1 DEF IInv, BudgetsGrow, BillsGetPaid, SettingsType
  <2>2. NextPaydayDate(paydayDay) > today
    BY <2>1, PaydayAhead
  <2>3. HomeScreen.goal \in 0 .. 100
    <3>1. HomeScreen.goal = GoalPct(TopGoal)
      BY DEF HomeScreen
    <3>2. QED
      BY <1>1, <3>1, AGoalLeads, PercentType
  <2>4. QED
    BY <2>1, <2>2, <2>3 DEF TypeOK
<1>2. QED
  BY <1>1, PrototypeInductive, PTL

-----------------------------------------------------------------------------
(* What is planned for is already taken off                                *)

(* Liquid cash changes by what is moved to a liquid account. *)
LEMMA CashMoved ==
  ASSUME IInv, NEW account \in Liquid, NEW amount \in Int, accounts' = Moved(account, amount)
  PROVE  LiquidCash' = LiquidCash + amount
<1>1. IsFiniteSet(Liquid) /\ account \in Account /\ Liquid \subseteq Account
  BY SeedType, FS_Subset
<1>2. accounts \in [Account -> Int]
  BY DEF IInv
<1>3. /\ \A a \in Account : accounts'[a] = accounts[a] + (IF account = a THEN amount ELSE 0)
      /\ accounts' \in [Account -> Int]
  BY <1>1, <1>2, MovedType
<1>4. /\ \A a \in Liquid : accounts[a] \in Int /\ accounts'[a] \in Int
      /\ \A a \in Liquid \ {account} : accounts'[a] = accounts[a]
      /\ accounts'[account] = accounts[account] + amount
  BY <1>1, <1>2, <1>3
<1>5. LiquidCash = SumFunctionOnSet(accounts, Liquid) /\ LiquidCash' = SumFunctionOnSet(accounts', Liquid)
  BY DEF LiquidCash
<1>6. LiquidCash' = LiquidCash + (accounts'[account] - accounts[account])
  BY <1>1, <1>4, <1>5, SumExchange
<1>7. LiquidCash \in Int /\ accounts[account] \in Int
  BY <1>4, FigureType
<1>8. QED
  BY <1>4, <1>6, <1>7

(* On one day, with one payday, what the screens say follows from what is  *)
(* safe until payday.                                                      *)
LEMMA ShownFollows ==
  ASSUME SafeUntilPayday' = SafeUntilPayday, UNCHANGED <<paydayDay, today>>
  PROVE  SafeShown' = SafeShown
<1>1. MonthOf(today)' = MonthOf(today)
  BY DEF MonthOf
<1>2. NextPaydayDate(paydayDay)' = NextPaydayDate(paydayDay)
  BY <1>1 DEF NextPaydayDate
<1>3. Days' = Days
  BY <1>2 DEF Days
<1>4. QED
  BY <1>3 DEF SafeShown, HomeScreen, SafeToSpendScreen, PerDay

(* Paying a bill takes its amount off the account and off the bills. *)
LEMMA PayIsNeutral ==
  ASSUME IInv, NEW bill \in Bill, MarkBillPaid(bill)
  PROVE  SafeUntilPayday' = SafeUntilPayday
<1> DEFINE amount == Seed.bills[bill].amount
           U == {b \in Bill : bills[b] # "paid"}
<1>1. /\ bills[bill] # "paid" /\ bills' = [bills EXCEPT ![bill] = "paid"]
      /\ accounts' = Moved(SourceAccount, -amount)
      /\ budgets' = budgets /\ safetyBuffer' = safetyBuffer
  BY DEF MarkBillPaid, CanPay, settings
<1>2. amount \in Int /\ SourceAccount \in Liquid /\ -amount \in Int
  BY SeedType
<1>3. LiquidCash' = LiquidCash + -amount
  BY <1>1, <1>2, CashMoved
<1>4. UnpaidBills = amount + UnpaidBills' /\ UnpaidBills' \in Int
  <2>1. bills \in [Bill -> Status]
    BY DEF IInv, BillsGetPaid
  <2>2. {b \in Bill : bills'[b] # "paid"} = U \ {bill} /\ bill \in U
    BY <1>1, <2>1
  <2>3. UnpaidBills = SumFunctionOnSet(BillAmount, U)
        /\ UnpaidBills' = SumFunctionOnSet(BillAmount, U \ {bill})
    BY <2>2 DEF UnpaidBills
  <2>4. IsFiniteSet(U) /\ (\A b \in U : BillAmount[b] \in Int) /\ BillAmount[bill] = amount
    BY SeedType, FS_Subset DEF BillAmount
  <2> HIDE DEF U
  <2>5. SumFunctionOnSet(BillAmount, U) = BillAmount[bill] + SumFunctionOnSet(BillAmount, U \ {bill})
    BY <2>2, <2>4, SumRemove
  <2>6. IsFiniteSet(U \ {bill}) /\ \A b \in U \ {bill} : BillAmount[b] \in Int
    BY <2>4, FS_Subset
  <2>7. SumFunctionOnSet(BillAmount, U \ {bill}) \in Int
    BY <2>6, SumInt
  <2>8. QED
    BY <2>3, <2>4, <2>5, <2>7
<1>5. RemainingBudget' = RemainingBudget
  BY <1>1 DEF RemainingBudget, Remaining
<1>6. QED
  <2>1. LiquidCash \in Int /\ UnpaidBills \in Int /\ RemainingBudget \in Int /\ safetyBuffer \in Int
    BY FigureType DEF IInv, SettingsType
  <2>2. QED
    BY <1>1, <1>2, <1>3, <1>4, <1>5, <2>1 DEF SafeUntilPayday

(* Spending what a budget has left takes it off the account and off what   *)
(* the budget has left.                                                    *)
LEMMA SpendIsNeutral ==
  ASSUME IInv, AddExpense, NEW c \in DOMAIN budgets,
         budgets'[c].spent > budgets[c].spent, budgets'[c].spent <= budgets[c].allocated
  PROVE  SafeUntilPayday' = SafeUntilPayday
<1>1. PICK account \in Liquid, category \in DOMAIN budgets \cup {"Lain-lain"}, amount \in Amount :
        /\ accounts' = Moved(account, -amount)
        /\ budgets' = [k \in DOMAIN budgets |->
             IF k = category THEN [budgets[k] EXCEPT !.spent = @ + amount] ELSE budgets[k]]
  BY DEF AddExpense
<1>2. UNCHANGED <<bills, safetyBuffer>>
  BY DEF AddExpense, settings
<1>3. amount \in Nat /\ amount \in Int /\ -amount \in Int
  BY <1>1, PrototypeAssumption DEF Amount
<1>4. /\ budgets \in [DOMAIN budgets -> Budget] /\ IsFiniteSet(DOMAIN budgets)
      /\ safetyBuffer \in Int
  BY DEF IInv, BudgetsGrow, SettingsType
<1>5. \A k \in DOMAIN budgets : budgets[k].allocated \in Nat /\ budgets[k].spent \in Nat
  BY <1>4 DEF Budget
<1>6. category = c
  <2>1. CASE category # c
    <3>1. budgets'[c] = budgets[c]
      BY <1>1, <2>1
    <3>2. QED
      BY <1>5, <3>1
  <2>2. QED
    BY <2>1
<1>7. /\ budgets'[c].allocated = budgets[c].allocated
      /\ budgets'[c].spent = budgets[c].spent + amount
      /\ \A k \in DOMAIN budgets \ {c} : budgets'[k] = budgets[k]
      /\ DOMAIN budgets' = DOMAIN budgets
  BY <1>1, <1>3, <1>4, <1>6 DEF Budget
<1>8. LiquidCash' = LiquidCash + -amount
  BY <1>1, <1>3, CashMoved
<1>9. UnpaidBills' = UnpaidBills
  BY <1>2 DEF UnpaidBills
<1> DEFINE left == [k \in DOMAIN budgets |-> Remaining(k)]
           leftNow == [k \in DOMAIN budgets' |-> Remaining(k)']
<1>10. /\ left[c] = budgets[c].allocated - budgets[c].spent
       /\ leftNow[c] = budgets[c].allocated - (budgets[c].spent + amount)
  <2>1. ASSUME NEW x \in Int, x >= 0
        PROVE  Max({x, 0}) = x
    BY <2>1, MaxOfTwo
  <2>2. /\ budgets[c].allocated - budgets[c].spent \in Int
        /\ budgets[c].allocated - budgets[c].spent >= 0
        /\ budgets[c].allocated - (budgets[c].spent + amount) \in Int
        /\ budgets[c].allocated - (budgets[c].spent + amount) >= 0
    BY <1>3, <1>5, <1>7
  <2>3. /\ Remaining(c) = Max({budgets[c].allocated - budgets[c].spent, 0})
        /\ Remaining(c)' = Max({budgets[c].allocated - (budgets[c].spent + amount), 0})
    BY <1>7 DEF Remaining
  <2>4. QED
    BY <1>7, <2>1, <2>2, <2>3
<1>11. /\ \A k \in DOMAIN budgets \ {c} : leftNow[k] = left[k]
       /\ \A k \in DOMAIN budgets : left[k] \in Int /\ leftNow[k] \in Int
  <2>1. \A k \in DOMAIN budgets \ {c} : Remaining(k)' = Remaining(k)
    BY <1>7 DEF Remaining
  <2>2. \A k \in DOMAIN budgets : Remaining(k) \in Int
    BY FigureType
  <2>3. leftNow[c] \in Int
    BY <1>3, <1>5, <1>10
  <2>4. QED
    BY <1>7, <2>1, <2>2, <2>3
<1>12. /\ RemainingBudget = SumFunctionOnSet(left, DOMAIN budgets)
       /\ RemainingBudget' = SumFunctionOnSet(leftNow, DOMAIN budgets)
  BY <1>7 DEF RemainingBudget
<1> HIDE DEF left, leftNow
<1>13. RemainingBudget' = RemainingBudget + (leftNow[c] - left[c])
  BY <1>4, <1>11, <1>12, SumExchange
<1>14. QED
  <2>1. LiquidCash \in Int /\ UnpaidBills \in Int /\ RemainingBudget \in Int
    BY FigureType
  <2>2. RemainingBudget' = RemainingBudget - amount
    BY <1>3, <1>5, <1>10, <1>13, <2>1
  <2>3. QED
    BY <1>2, <1>3, <1>4, <1>8, <1>9, <2>1, <2>2 DEF SafeUntilPayday

(* Paying a bill, and spending what a budget has left, leave what Beranda  *)
(* and the breakdown say is safe as it was, and Beranda stops asking for   *)
(* the bill (finance.ts:139, 327, index.tsx:160).                          *)
THEOREM PlansAreCounted == Spec => PlannedSpendIsNeutral
<1>1. ASSUME IInv, [Next]_vars
      PROVE  PayingIsNeutral
  <2> SUFFICES ASSUME NEW b \in Bill, bills[b] # "paid", bills'[b] = "paid"
               PROVE  /\ SafeShown' = SafeShown
                      /\ BillRow(b)' = "paid"
                      /\ [kind |-> "bill", ref |-> b] \notin HomeScreen.attention'
    BY DEF PayingIsNeutral
  <2>1. BillRow(b)' = "paid"
    BY DEF BillRow
  <2>2. [kind |-> "bill", ref |-> b] \notin HomeScreen.attention'
    <3>1. [kind |-> "bill", ref |-> b] \notin [kind : {"bill"}, ref : {k \in Bill : Overdue(k)'}]
      BY DEF Overdue
    <3>2. [kind |-> "bill", ref |-> b] \notin [kind : {"budget"}, ref : {c \in DOMAIN budgets' : Over(c)'}]
      OBVIOUS
    <3>3. QED
      BY <3>1, <3>2 DEF HomeScreen, AttentionItems
  <2>3. PICK k \in Bill : MarkBillPaid(k)
    BY <1>1 DEF Next, vars, books, settings, AddExpense, AddIncome, Configure, Day, AddGoalFunds,
                SetBudgetAllocation, ApproveSuggestion, RejectSuggestion
  <2>4. SafeShown' = SafeShown
    <3>1. UNCHANGED <<paydayDay, today>>
      BY <2>3 DEF MarkBillPaid, settings
    <3>2. QED
      BY <1>1, <2>3, <3>1, PayIsNeutral, ShownFollows
  <2>5. QED
    BY <2>1, <2>2, <2>4
<1>2. ASSUME IInv, [Next]_vars
      PROVE  SpendingIsNeutral
  <2> SUFFICES ASSUME NEW c \in DOMAIN budgets,
                      budgets'[c].spent - budgets[c].spent > 0,
                      budgets[c].spent + (budgets'[c].spent - budgets[c].spent) <= budgets[c].allocated
               PROVE  SafeShown' = SafeShown
    BY DEF SpendingIsNeutral
  <2>1. /\ budgets \in [DOMAIN budgets -> Budget] /\ budgets[c] \in Budget
        /\ budgets[c].spent \in Nat /\ budgets[c].allocated \in Nat
    BY <1>2 DEF IInv, BudgetsGrow, Budget
  <2>2. CASE AddExpense
    <3>1. DOMAIN budgets' = DOMAIN budgets
      BY <2>2 DEF AddExpense
    <3>2. budgets' \in [DOMAIN budgets' -> Budget]
      BY <1>2, InvariantKept DEF IInv, BudgetsGrow
    <3>3. budgets'[c].spent \in Nat
      BY <3>1, <3>2 DEF Budget
    <3>4. budgets'[c].spent > budgets[c].spent /\ budgets'[c].spent <= budgets[c].allocated
      BY <2>1, <3>3
    <3>5. UNCHANGED <<paydayDay, today>>
      BY <2>2 DEF AddExpense, settings
    <3>6. QED
      BY <1>2, <2>2, <3>4, <3>5, SpendIsNeutral, ShownFollows
  <2>3. ASSUME NEW k \in DOMAIN budgets, SetBudgetAllocation(k)
        PROVE  FALSE
    <3>1. budgets'[c].spent = budgets[c].spent
      BY <2>1, <2>3 DEF SetBudgetAllocation, Budget
    <3>2. QED
      BY <2>1, <3>1
  <2>4. ASSUME NEW s \in suggestions, ApproveSuggestion(s)
        PROVE  FALSE
    <3>1. budgets'[c].spent = budgets[c].spent \/ budgets'[c].spent = 0
      BY <2>1, <2>4 DEF ApproveSuggestion, Budget
    <3>2. QED
      BY <2>1, <3>1
  <2>5. CASE budgets' = budgets
    BY <2>1, <2>5
  <2>6. \/ AddExpense \/ budgets' = budgets
        \/ \E k \in DOMAIN budgets : SetBudgetAllocation(k)
        \/ \E s \in suggestions : ApproveSuggestion(s)
    BY <1>2 DEF Next, vars, books, AddIncome, Configure, Day, MarkBillPaid, AddGoalFunds,
                RejectSuggestion
  <2>7. QED
    BY <2>2, <2>3, <2>4, <2>5, <2>6
<1>3. IInv /\ [Next]_vars => PayingIsNeutral /\ SpendingIsNeutral
  BY <1>1, <1>2
<1>4. QED
  BY <1>3, PrototypeInductive, PTL DEF Spec, PlannedSpendIsNeutral

=============================================================================
