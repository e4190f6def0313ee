----------------------------- MODULE MCPrototype -----------------------------
(* A small instance of Prototype for TLC: one account of each kind, an     *)
(* overdue bill and one that falls due, a budget to change and one to add. *)
EXTENDS Prototype, TLC

Accounts == ("Kas" :> "Tunai") @@ ("BCA" :> "Bank") @@ ("Darurat" :> "Tabungan")

Data ==
  [accounts |-> ("Kas" :> 1) @@ ("BCA" :> 4) @@ ("Darurat" :> 2),
   budgets |-> ("Makan" :> [allocated |-> 2, spent |-> 1]),
   bills |-> ("Iuran" :> [amount |-> 1, due |-> 0, status |-> "overdue"])
          @@ ("Listrik" :> [amount |-> 2, due |-> 2, status |-> "upcoming"]),
   goals |-> ("Dana" :> [target |-> 3, contributed |-> 1]),
   suggestions |-> ("ubah" :> [kind |-> "update", category |-> "Makan", suggested |-> 1])
                @@ ("baru" :> [kind |-> "new", category |-> "Sehat", suggested |-> 1])]

Calendar == <<3, 2, 3>>
=============================================================================
