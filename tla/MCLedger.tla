------------------------------ MODULE MCLedger ------------------------------
(* Small instances of Ledger for TLC. *)
EXTENDS Ledger, TLC

CONSTANTS a1, a2, usd, food, salary, rent, saving, nosuch, k1, k2, d1, d2, t1

MCInitialBalance == [a \in Account |-> IF a = a1 THEN 5 ELSE 0]
MCCurrencyOf == [a \in Account |-> IF a = usd THEN "USD" ELSE "IDR"]
MCKindOf == [c \in Category |-> IF c = salary THEN "income" ELSE "expense"]
MCBillRow == [b \in Bill |-> [account |-> a1, amount |-> 3]]

MCRef == Account \cup Category \cup Bill \cup Goal \cup TxId
           \cup {k1, k2, d1, d2, salary, usd, nosuch, None}

Blank == [op |-> "income", key |-> k1, account |-> None, dest |-> None,
          category |-> None, amount |-> 0, occ |-> Omitted, reason |-> None,
          target |-> None, bill |-> None, goal |-> None, due |-> None]

Post(op, key, amount) ==
  [Blank EXCEPT !.op = op, !.key = key, !.account = a1, !.amount = amount, !.occ = 0]
Income(category) == [Post("income", k1, 4) EXCEPT !.category = category]
Expense(key, amount) == [Post("expense", key, amount) EXCEPT !.category = food]
Transfer(dest) == [Post("transfer", k1, 2) EXCEPT !.dest = dest]
Adjust(reason) == [Post("adjustment", k1, 1) EXCEPT !.reason = reason]
Reverse(key, t) ==
  [Blank EXCEPT !.op = "reverse", !.key = key, !.target = t, !.reason = "credit"]
Pay(key, due) == [Blank EXCEPT !.op = "pay", !.key = key, !.bill = rent, !.due = due]
Contribute == [Post("contribute", k1, 1) EXCEPT !.goal = saving]

(* One key used for two payloads and for two operations, and two keys that *)
(* race to reverse any transaction, a reversal included.                   *)
ReverseRequests ==
  {Expense(k1, 1), Expense(k1, 2), Transfer(a2)}
    \cup {Reverse(k, t) : k \in {k1, k2}, t \in TxId}

(* Two keys that race to pay one period, another period under the first    *)
(* key, a contribution, and reversals of what they post.                   *)
RecordRequests ==
  {Pay(k1, d1), Pay(k2, d1), Pay(k1, d2), Contribute}
    \cup {Reverse(k1, t) : t \in TxId}

(* Every type of Create and every refusal it knows, while accounts and the *)
(* category are archived; the clock fills in a missing occurred_at.        *)
CreateRequests ==
  {Income(salary), Income(food), Income(None), Income(nosuch),
   Expense(k1, 1), Expense(k1, 0),
   [Expense(k1, 1) EXCEPT !.account = nosuch],
   [Expense(k1, 1) EXCEPT !.occ = Omitted],
   [Expense(k1, 1) EXCEPT !.key = None],
   Transfer(a2), [Transfer(a2) EXCEPT !.category = nosuch], Transfer(a1), Transfer(usd), Transfer(nosuch), Transfer(None),
   Adjust("debit"), Adjust("credit"), Adjust(None),
   Post("reversal", k1, 1)}

(* Two keys race for one bill period and then to reverse its payment.      *)
LivenessRequests ==
  {Pay(k1, d1), Pay(k2, d1), Reverse(k1, t1), Reverse(k2, t1)}

Symmetry == Permutations(TxId) \cup Permutations(Handler)
=============================================================================
