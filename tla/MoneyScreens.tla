----------------------------- MODULE MoneyScreens -----------------------------
(***************************************************************************)
(* The screens of the mobile app that record money: the form and the       *)
(* history of app/(app)/(tabs)/transactions.tsx, the card that adds a      *)
(* first account, the cards of app/(app)/goals.tsx, the mutations behind   *)
(* them and the query caches they read and invalidate.                     *)
(*                                                                         *)
(* A mutation is named by its Idempotency-Key.  What a query returns is    *)
(* the set of the mutations applied when the server answered it; the       *)
(* accounts are read in one step.  The amount of a form is the key its     *)
(* submission will carry, 0 when the field is empty: it names what the     *)
(* user means to record, and stays the same when they try again.           *)
(***************************************************************************)
EXTENDS FiniteSets, FiniteSetsExt, Naturals

CONSTANTS
  Account,   \* accounts the user may have
  Savings,   \* those that are not spendable
  MaxKeys,   \* bound on the mutations
  MaxEntries,\* bound on those that are not reversals
  Fault,     \* what may go wrong
  None

Op == {"account", "create", "reverse", "contribute"}
Status ==
  {"sent", "done",                           \* on its way to the server and back
   "saved", "conflict", "failed", "lost"}    \* how the mutation ended

ASSUME MoneyScreensAssumption ==
  /\ Savings \subseteq Account /\ None \notin Account \cup Op \cup Status
  /\ MaxKeys \in Nat /\ MaxEntries \in 0 .. MaxKeys
  /\ Fault \subseteq {"lost", "error", "twice"}

VARIABLES
  screen,     \* the screen that is open
  accounts,   \* query cache: the accounts, None before they are known
  amount,     \* the amount field of that screen
  mounted,    \* mutations started by components that are still mounted
  request,    \* the mutations
  applied,    \* server: those that took effect
  opened,     \* server: accounts that exist
  data,       \* query cache: the last answer
  failed,     \* query cache: the last fetch failed
  fetch       \* query cache: the fetch in flight

server == <<applied, opened>>
cache == <<accounts, data, failed, fetch>>
vars == <<screen, amount, mounted, request, server, cache>>

Key == 1 .. MaxKeys
Type == {"income", "expense", "transfer", "adjustment"}

Request ==
  [op : Op \cup {None}, status : Status \cup {None},
   intent : 0 .. MaxKeys,          \* the amount submitted
   target : 0 .. MaxKeys,          \* reverse: the transaction
   twin : BOOLEAN]                 \* the second of two taps at once
Unused ==
  [op |-> None, status |-> None, intent |-> 0, target |-> 0, twin |-> FALSE]

(* A fetch not answered yet, and one answered with the set s. *)
NoFetch == [phase |-> "none", got |-> {}]
Asked == [phase |-> "asked", got |-> {}]
Answered(s) == [phase |-> "answered", got |-> s]

TypeOK ==
  /\ screen \in {"transactions", "goals", "elsewhere"}
  /\ amount \in 0 .. MaxKeys
  /\ request \in [Key -> Request]
  /\ {mounted, applied} \subseteq SUBSET Key
  /\ opened \subseteq Account
  /\ accounts \in {None} \cup SUBSET Account
  /\ data \in {None} \cup SUBSET Key
  /\ failed \in BOOLEAN
  /\ fetch \in {NoFetch, Asked} \cup {Answered(s) : s \in SUBSET Key}

Init ==
  /\ screen = "elsewhere" /\ amount = 0 /\ mounted = {}
  /\ request = [k \in Key |-> Unused]
  /\ applied = {}
  /\ opened \in {{}, Account}
  /\ accounts = None
  /\ data = None /\ failed = FALSE /\ fetch = NoFetch

-----------------------------------------------------------------------------
(* The cache of ["transactions"], as the screens use it: no staleTime, no  *)
(* polling, a fetch whenever the tabs mount.                               *)

(* Home and the other tabs stay mounted with "transactions"; the screens   *)
(* outside the tabs replace them all.  A fetch in flight is joined.        *)
Mount(s) ==
  fetch' = IF s = "transactions" /\ fetch = NoFetch THEN Asked ELSE fetch

(* invalidateQueries: a fetch in flight starts over if there is an answer  *)
(* to show meanwhile, a first fetch goes on; nothing is fetched for a      *)
(* screen that is gone.                                                    *)
Invalidate(queries) ==
  fetch' = IF /\ "transactions" \in queries /\ screen = "transactions"
              /\ data # None \/ fetch = NoFetch
           THEN Asked ELSE fetch

ServeFetch ==
  /\ fetch = Asked
  /\ fetch' = Answered(applied)
  /\ UNCHANGED <<screen, accounts, amount, mounted, request, server, data, failed>>

Deliver ==
  /\ fetch.phase = "answered"
  /\ data' = fetch.got /\ failed' = FALSE /\ fetch' = NoFetch
  /\ UNCHANGED <<screen, accounts, amount, mounted, request, server>>

(* The fetch and its retries fail: what was cached stays, the rows give    *)
(* way to a message and forget what they were doing.                       *)
FailFetch ==
  /\ "error" \in Fault
  /\ fetch # NoFetch
  /\ fetch' = NoFetch /\ failed' = TRUE
  /\ mounted' = {k \in mounted : request[k].op # "reverse"}
  /\ UNCHANGED <<screen, accounts, amount, request, server, data>>

(* useAccounts.  Nothing tells a first load that failed from an empty list. *)
LoadAccounts ==
  /\ screen # "elsewhere"
  /\ \/ accounts' = opened
     \/ "error" \in Fault /\ accounts = None /\ accounts' = {}
  /\ UNCHANGED <<screen, amount, mounted, request, server, data, failed, fetch>>

-----------------------------------------------------------------------------
(* What the screens show and offer.                                        *)

InFlight(k) == request[k].status \in {"sent", "done"}

(* useMutation shows the latest mutation of its component. *)
Current(op, target) ==
  LET mine == {k \in mounted : request[k].op = op /\ request[k].target = target}
  IN IF mine = {} THEN 0 ELSE Max(mine)
Pending(op, target) ==
  Current(op, target) # 0 /\ InFlight(Current(op, target))

Accounts == IF accounts = None THEN {} ELSE accounts
Spendable == Accounts \ Savings

(* Rows of the history that the screen lets the user reverse. *)
History ==
  IF failed \/ data = None \/ Accounts = {} THEN {}
  ELSE {k \in data : request[k].op \in {"create", "reverse", "contribute"}}
ReversedBy(k, keys) == {r \in keys : request[r].op = "reverse" /\ request[r].target = k}
CanReverse(k) == request[k].op # "reverse" /\ ReversedBy(k, History) = {}

(* The form of the transactions screen, apart from its amount.  A type     *)
(* clears the category; nothing clears the destination, which may become   *)
(* the account itself.                                                     *)
AvailableTypes == IF Cardinality(Spendable) >= 2 THEN Type ELSE Type \ {"transfer"}
Form ==
  [type : AvailableTypes, account : Spendable \cup {None},
   destination : Spendable \cup {None}, category : BOOLEAN, reason : BOOLEAN]

(* Faulty variant of CanSubmit: the pending mutation is forgotten. *)
CanSubmitAgain(f) == f.account # None /\ amount # 0

(* An income takes the income category the server has. *)
CanSubmit(f) ==
  /\ f.account # None /\ amount # 0 /\ ~Pending("create", 0)
  /\ CASE f.type = "income" -> TRUE
       [] f.type = "expense" -> f.category
       [] f.type = "transfer" -> f.destination \notin {None, f.account}
       [] f.type = "adjustment" -> f.reason

(* A spinner while the accounts load, the card for a first account when    *)
(* there are none, a failed load included, else the form.                  *)
TransactionsScreen(f) ==
  IF screen # "transactions" \/ accounts = None THEN {}
  ELSE IF Accounts = {} THEN {"account"}
  ELSE {"form"} \cup (IF CanSubmit(f) THEN {"submit"} ELSE {})

(* GoalCard, with the account chosen on it. *)
CanSave(account) == amount # 0 /\ account # None /\ ~Pending("contribute", 0)

GoalsScreen(account) ==
  IF screen = "goals"
  THEN {"form"} \cup (IF CanSave(account) THEN {"save"} ELSE {})
  ELSE {}

-----------------------------------------------------------------------------
(* Mutations.                                                              *)

NextKey == 1 + Cardinality({k \in Key : request[k].op # None})

(* A new amount is typed, or the field is emptied. *)
EditAmount ==
  /\ \/ \E f \in Form : "form" \in TransactionsScreen(f)
     \/ "form" \in GoalsScreen(None)
  /\ amount' \in {0, NextKey} \cap (0 .. MaxKeys)
  /\ amount' # amount
  /\ UNCHANGED <<screen, mounted, request, server, cache>>

(* mutate: one POST under a key of its own; two if the button is tapped    *)
(* again before the screen has rendered the first.                         *)
Mutate(r) ==
  \E n \in {1} \cup IF "twice" \in Fault THEN {2} ELSE {} :
    LET keys == NextKey .. NextKey + n - 1 IN
    /\ keys \subseteq Key
    /\ r.op # "reverse" =>
         n + Cardinality({k \in Key : request[k].op \notin {None, "reverse"}}) <= MaxEntries
    /\ request' = [k \in Key |->
         IF k \in keys THEN [r EXCEPT !.status = "sent", !.twin = k # NextKey]
         ELSE request[k]]
    /\ mounted' = mounted \cup keys
    /\ UNCHANGED <<screen, amount, server, cache>>

(* AddAccountCard: any name, any type. *)
AddAccount ==
  /\ \E f \in Form : "account" \in TransactionsScreen(f)
  /\ ~Pending("account", 0)
  /\ Mutate([Unused EXCEPT !.op = "account"])

(* handleSubmit *)
Submit ==
  /\ \E f \in Form : "submit" \in TransactionsScreen(f)
  /\ Mutate([Unused EXCEPT !.op = "create", !.intent = amount])

(* Faulty variant of Reverse: offered on every row of the history. *)
ReverseAny ==
  /\ screen = "transactions"
  /\ \E k \in History :
       /\ ~Pending("reverse", k)
       /\ Mutate([Unused EXCEPT !.op = "reverse", !.target = k])

(* TransactionListItem: opened, given a reason, confirmed. *)
Reverse ==
  /\ screen = "transactions"
  /\ \E k \in History :
       /\ CanReverse(k) /\ ~Pending("reverse", k)
       /\ Mutate([Unused EXCEPT !.op = "reverse", !.target = k])

Contribute ==
  /\ \E a \in Accounts : "save" \in GoalsScreen(a)
  /\ Mutate([Unused EXCEPT !.op = "contribute", !.intent = amount])

End(k, status) == request' = [request EXCEPT ![k].status = status]

(* The server.  It refuses to reverse a reversal or what is reversed.  A   *)
(* request whose answer nobody waits for any more may still arrive.        *)
Reversible(k) ==
  request[k].op # "reverse" /\ ReversedBy(k, applied) = {}

Serve(k) ==
  LET r == request[k] IN
  /\ r.status = "sent" \/ (r.status = "lost" /\ k \notin applied)
  /\ r.op = "reverse" => Reversible(r.target)
  /\ request' = IF r.status = "sent" THEN [request EXCEPT ![k].status = "done"] ELSE request
  /\ applied' = applied \cup {k}
  /\ opened' = IF r.op = "account" /\ opened # Account
               THEN opened \cup {CHOOSE a \in Account : a \notin opened} ELSE opened
  /\ UNCHANGED <<screen, amount, mounted, cache>>

(* The answer 409. *)
Refuse(k) ==
  LET r == request[k] IN
  /\ r.status = "sent"
  /\ r.op = "reverse" /\ ~Reversible(r.target)
  /\ End(k, "conflict")
  /\ UNCHANGED <<screen, amount, mounted, server, cache>>

(* Faulty variant of Invalidates: a new transaction refreshes Home only. *)
InvalidatesHome(op) ==
  IF op = "reverse" THEN {"transactions", "dashboard"} ELSE {"dashboard"}

(* A contribution is a row of the history too, and does not refresh it. *)
Invalidates(op) ==
  CASE op = "account" -> {"accounts"}
    [] op \in {"create", "reverse"} -> {"transactions", "dashboard"}
    [] op = "contribute" -> {"goals", "dashboard"}

(* Faulty variant of AfterSuccess: the field is left undefined. *)
AfterSuccessUndefined(k) ==
  IF request[k].op \in {"create", "contribute"} /\ k = Current(request[k].op, 0)
  THEN None ELSE amount

(* The callbacks given to mutate, for the latest mutation of a mounted     *)
(* component: the form is emptied, whatever was typed meanwhile.           *)
AfterSuccess(k) ==
  IF request[k].op \in {"create", "contribute"} /\ k = Current(request[k].op, 0)
  THEN 0 ELSE amount

(* The answer to a mutation that took effect: onSuccess. *)
Acknowledge(k) ==
  /\ request[k].status = "done"
  /\ End(k, "saved")
  /\ Invalidate(Invalidates(request[k].op))
  /\ amount' = AfterSuccess(k)
  /\ UNCHANGED <<screen, accounts, mounted, server, data, failed>>

(* Any other answer, 409 for an archived account included: the server did  *)
(* nothing, and the form stays as it is.                                   *)
Fail(k) ==
  /\ "error" \in Fault
  /\ request[k].status = "sent"
  /\ End(k, "failed")
  /\ UNCHANGED <<screen, amount, mounted, server, cache>>

(* The request or its answer is lost, or the app gives up on it. *)
Lose(k) ==
  /\ "lost" \in Fault
  /\ InFlight(k)
  /\ End(k, "lost")
  /\ UNCHANGED <<screen, amount, mounted, server, cache>>

-----------------------------------------------------------------------------
(* Navigation: the tab bar, the rows of the More screen, the back button.  *)
(* A screen that is left loses its component state.                        *)
Go ==
  /\ \E s \in {"transactions", "goals", "elsewhere"} \ {screen} :
       screen' = s /\ Mount(s)
  /\ amount' = 0
  /\ mounted' = {}
  /\ UNCHANGED <<accounts, request, server, data, failed>>

Next ==
  \/ EditAmount \/ AddAccount \/ Submit \/ Reverse \/ Contribute \/ Go
  \/ \E k \in Key : Serve(k) \/ Refuse(k) \/ Acknowledge(k) \/ Fail(k) \/ Lose(k)
  \/ ServeFetch \/ Deliver \/ FailFetch \/ LoadAccounts

Spec == Init /\ [][Next]_vars

(* The server answers, and the runtime delivers what has arrived. *)
Fairness ==
  /\ \A k \in Key :
       WF_vars(request[k].status = "sent" /\ (Serve(k) \/ Refuse(k))) /\ WF_vars(Acknowledge(k))
  /\ WF_vars(ServeFetch) /\ WF_vars(Deliver)

FairSpec == Spec /\ Fairness

-----------------------------------------------------------------------------
(* Properties.                                                             *)

(* What the user entered once is recorded once, and once more at most for  *)
(* every answer that was lost and every button tapped twice at once: the   *)
(* form is not submitted again while it waits, and is empty after a        *)
(* success.                                                                *)
RecordedOncePerAnswer ==
  \A i \in Key :
    LET posts == {k \in Key : request[k].intent = i} IN
    Cardinality(posts \cap applied)
      <= 1 + Cardinality({k \in posts : request[k].status = "lost"})
           + Cardinality({k \in posts : request[k].twin})

(* "Transaksi ini sudah pernah dibatalkan" is shown only under a row that  *)
(* a reversal has taken back.                                              *)
ConflictMeansReversed ==
  \A k \in Key :
    request[k].op = "reverse" /\ request[k].status = "conflict"
      => ReversedBy(request[k].target, applied) # {}

(* The history on screen comes to show what was created or reversed,       *)
(* unless the answer is lost, the screen is left, or the fetch failed,     *)
(* which the screen says.                                                  *)
HistoryCatchesUp ==
  \A k \in Key :
    /\ request[k].status = "done" /\ request[k].op \in {"create", "reverse"}
    /\ screen = "transactions" /\ data # None
    ~> \/ data # None /\ k \in data
       \/ failed \/ screen # "transactions" \/ request[k].status = "lost"
=============================================================================
