------------------------------- MODULE Ledger -------------------------------
(***************************************************************************)
(* The write side of the personal ledger: the use cases that post rows to  *)
(* financial_transactions and transaction_entries, run by concurrent HTTP  *)
(* handlers against PostgreSQL at READ COMMITTED.                          *)
(*                                                                         *)
(*   TransactionService.Create   income, expense, transfer, adjustment     *)
(*   TransactionService.Reverse  posts the offsetting row, links original  *)
(*   BillService.MarkPaid        posts an expense and a bill occurrence    *)
(*   GoalService.Contribute      posts a debit and a goal contribution     *)
(*   AccountService.Archive, CategoryService.Archive                       *)
(*                                                                         *)
(* One action is one SQL statement that other handlers can tell apart from *)
(* the next one, with the Go code up to the following statement.  Rows an  *)
(* open transaction has written live in its handler until Commit; a        *)
(* statement that PostgreSQL would block on another open transaction is    *)
(* disabled until that one ends.  Every query and both unique keys carry   *)
(* user_id, so the module is the ledger of one user.                       *)
(***************************************************************************)
EXTENDS Integers, FiniteSets, Functions

CONSTANTS
  Handler,         \* requests the API serves at the same time
  TxId,            \* ids a transaction row can get
  Account,         \* financial_accounts, created before the run starts
  Category,        \* categories
  Bill,            \* recurring_bills
  Goal,            \* saving_goals
  Ref,             \* the ids, keys and dates a request may name, and None
  Request,         \* the requests clients may send, each any number of times
  InitialBalance,  \* initial_balance of each account
  CurrencyOf,      \* currency of each account
  KindOf,          \* kind of each category: "income" or "expense"
  BillRow,         \* account and amount of each bill
  Archivable,      \* bound: the accounts and categories that get archived
  MaxTime,         \* bound on the clock
  Omitted,         \* an occurred_at the client left out
  None

Time == 0 .. MaxTime

(* idempotency_operation of the use cases. *)
CreateOps == {"income", "expense", "transfer", "adjustment", "reversal"}
PairedOps == {"reverse", "pay", "contribute"}  \* they write a second table or row
TimedOps  == CreateOps \cup {"contribute"}    \* their payload has occurred_at

Direction == {"debit", "credit"}
Entry == [account : Account, direction : Direction]

(* The clock of the server is read before the payload is hashed, so the    *)
(* payload that is hashed and stored always has a definite occurred_at.    *)
Resolve(r, at) ==
  IF r.op \in TimedOps /\ r.occ = Omitted THEN [r EXCEPT !.occ = at] ELSE r

Payload == {Resolve(r, at) : r \in Request, at \in Time}

Row == [id       : TxId,
        req      : Payload,                 \* type, key and request_hash
        amount   : Int,
        entries  : SUBSET Entry,
        reverses : TxId \cup {None}]

(* What the caller of a use case gets: the record, or a domain error.      *)
Result == {"ok", "conflict", "idempotency_conflict", "invalid", "not_found",
           "same_account", "error"}

(* A request is the operation with the JSON body and path of its endpoint; *)
(* fields an endpoint does not have are None, and what is named need not   *)
(* exist.                                                                  *)
RequestType ==
  [op : CreateOps \cup PairedOps, key : Ref, account : Ref, dest : Ref,
   category : Ref, amount : Int, occ : Time \cup {Omitted},
   reason : Direction \cup {None}, target : Ref, bill : Ref, goal : Ref, due : Ref]

ASSUME LedgerAssumption ==
  /\ MaxTime \in Nat
  /\ None \notin TxId \cup Row \cup Result
  /\ IsFiniteSet(Account)
  /\ InitialBalance \in [Account -> Int]
  /\ BillRow \in [Bill -> [account : Account, amount : Nat \ {0}]]
  /\ Request \subseteq RequestType
  /\ \A r \in Request : r.op \in PairedOps => r.category = None

VARIABLES
  ledger,              \* committed rows of financial_transactions + entries
  reversedBy,          \* its one mutable column, reversed_by_id
  occurrences,         \* committed bill_occurrences
  contributions,       \* committed saving_goal_contributions
  archivedAccounts,
  archivedCategories,
  now,                 \* the server's clock
  h,                   \* the handlers
  acks                 \* answers "ok" that reached a client

store == <<ledger, reversedBy, occurrences, contributions>>
env   == <<archivedAccounts, archivedCategories, now>>
vars  == <<store, env, h, acks>>

(* The statements of a handler, in the order the code runs them. *)
Pc == {"idle", "lookup", "read", "check", "insert", "link", "commit", "reply"}
HandlerType ==
  [pc : Pc, req : Payload \cup {None}, row : Row \cup {None},
   result : Result \cup {None}, id : TxId \cup {None}]

Idle == [pc |-> "idle", req |-> None, row |-> None, result |-> None, id |-> None]

Init ==
  /\ ledger = {}
  /\ reversedBy = [t \in TxId |-> None]
  /\ occurrences = {}
  /\ contributions = {}
  /\ archivedAccounts = {}
  /\ archivedCategories = {}
  /\ now = 0
  /\ h = [p \in Handler |-> Idle]
  /\ acks = {}

-----------------------------------------------------------------------------
(* Helpers *)

(* UNIQUE(user_id, idempotency_operation, idempotency_key); the operation  *)
(* of Create carries the transaction's type.                               *)
SameKey(r, s) == r.op = s.op /\ r.key = s.key

(* The account a use case reads before it posts. *)
SourceOf(r) == IF r.op = "pay" THEN BillRow[r.bill].account ELSE r.account
AmountOf(r) == IF r.op = "pay" THEN BillRow[r.bill].amount ELSE r.amount

One(a, d) == {[account |-> a, direction |-> d]}

(* The entries each use case builds; an adjustment's direction comes from  *)
(* the prefix of its reason.                                               *)
EntriesOf(r) ==
  CASE r.op = "income"     -> One(r.account, "credit")
    [] r.op = "transfer"   -> One(r.account, "debit") \cup One(r.dest, "credit")
    [] r.op = "adjustment" -> One(r.account, IF r.reason = "debit" THEN "debit"
                                                                   ELSE "credit")
    [] OTHER               -> One(SourceOf(r), "debit")

(* Faulty variant of Flip: a reversal that credits whatever was moved. *)
FlipToCredit(entries) == {[e EXCEPT !.direction = "credit"] : e \in entries}

Flip(entries) ==
  {[e EXCEPT !.direction = IF @ = "debit" THEN "credit" ELSE "debit"] : e \in entries}

(* The row a handler inserts: a reversal copies what it read of the        *)
(* original, whose columns other than reversed_by_id never change.         *)
NewRow(id, r) ==
  IF r.op = "reverse"
  THEN {[id |-> id, req |-> r, amount |-> o.amount,
         entries |-> Flip(o.entries), reverses |-> o.id] :
          o \in {x \in ledger : x.id = r.target}}
  ELSE {[id |-> id, req |-> r, amount |-> AmountOf(r),
         entries |-> EntriesOf(r), reverses |-> None]}

Open(p) == h[p].pc \in {"link", "commit"}   \* it has an uncommitted row
Linked(p) == h[p].pc = "commit"             \* and its second write

UsedIds == {x.id : x \in ledger} \cup {h[p].row.id : p \in {q \in Handler : Open(q)}}

Goto(p, pc) == h' = [h EXCEPT ![p].pc = pc]

(* Faulty variant of Answer: the rows are not dropped. *)
AnswerKeepingRow(p, result, id) ==
  h' = [h EXCEPT ![p] = [@ EXCEPT !.pc = "reply", !.result = result, !.id = id]]

(* WithinTransaction rolls back and the error travels to errorHandler: the *)
(* rows buffered in the handler are dropped.                               *)
Answer(p, result, id) ==
  h' = [h EXCEPT ![p] = [@ EXCEPT !.pc = "reply", !.row = None,
                                  !.result = result, !.id = id]]

(* UNIQUE(bill_id, due_date) of bill_occurrences. *)
SamePeriod(r, s) == r.bill = s.bill /\ r.due = s.due

(* The record of its own that a posting has. *)
HasRecord(x) ==
  /\ x.req.op = "pay" => \E o \in occurrences : o.tx = x.id
  /\ x.req.op = "contribute" => \E c \in contributions : c.tx = x.id

-----------------------------------------------------------------------------
(* Faulty variants of the statements below: each property is checked to    *)
(* fail when one of them takes the place of the statement it is named for. *)

(* The stored hash is not compared. *)
LookupByKeyOnly(p) ==
  LET hits == {x \in ledger : SameKey(x.req, h[p].req)}
  IN /\ h[p].pc = "lookup"
     /\ \/ hits = {} /\ Goto(p, "read")
        \/ \E x \in hits : Answer(p, "ok", x.id)
     /\ UNCHANGED <<store, env, acks>>

(* Kind and currency are not compared. *)
RefusalByExistence(r) ==
  CASE r.op \in {"income", "expense"} /\ r.category \notin Category -> "not_found"
    [] r.op = "transfer" /\ r.dest \in {None, r.account}           -> "same_account"
    [] r.op = "transfer" /\ r.dest \notin Account                  -> "not_found"
    [] OTHER                                                       -> None

(* No unique key: the look-up is all there is against a second row. *)
InsertWithoutKey(p) ==
  LET r == h[p].req
  IN /\ h[p].pc = "insert"
     /\ \E id \in TxId \ UsedIds : \E row \in NewRow(id, r) :
          h' = [h EXCEPT ![p] = [@ EXCEPT
                  !.row = row, !.pc = IF r.op \in PairedOps THEN "link" ELSE "commit"]]
     /\ UNCHANGED <<store, env, acks>>

(* The UPDATE trusts what was read before. *)
LinkWithoutRecheck(p) ==
  /\ h[p].pc = "link" /\ h[p].req.op = "reverse"
  /\ Goto(p, "commit")
  /\ UNCHANGED <<store, env, acks>>

(* The INSERT already locks the original against the UPDATE of another,    *)
(* as a foreign key on a column the UPDATE changes would.                  *)
LinkBehindInserts(p) ==
  LET r == h[p].req
  IN /\ h[p].pc = "link" /\ r.op = "reverse"
     /\ \A q \in Handler \ {p} :
          Open(q) /\ h[q].req.op = "reverse" => h[q].req.target # r.target
     /\ IF reversedBy[r.target] = None THEN Goto(p, "commit") ELSE Answer(p, "conflict", None)
     /\ UNCHANGED <<store, env, acks>>

(* No unique key on the bill's period. *)
AddOccurrenceWithoutKey(p) ==
  /\ h[p].pc = "link" /\ h[p].req.op = "pay"
  /\ Goto(p, "commit")
  /\ UNCHANGED <<store, env, acks>>

-----------------------------------------------------------------------------
(* The statements of a handler *)

(* Trimming and validation, the clock read, and the payload hash; what     *)
(* fails here never reaches the database.                                  *)
ValidInput(r) ==
  /\ r.key # None
  /\ r.op \in TimedOps => r.amount > 0 /\ r.account # None
  /\ r.op = "reverse" => r.target # None /\ r.reason # None
  /\ r.op = "pay" => r.bill # None /\ r.due # None
  /\ r.op = "contribute" => r.goal # None

Receive(p, r) ==
  /\ h[p].pc = "idle"
  /\ h' = [h EXCEPT ![p] =
             [pc |-> IF ValidInput(r) THEN "lookup" ELSE "reply",
              req |-> Resolve(r, now), row |-> None,
              result |-> IF ValidInput(r) THEN None ELSE "invalid", id |-> None]]
  /\ UNCHANGED <<store, env, acks>>

(* GetByIdempotency, outside the transaction.  A hit with an equal hash is *)
(* answered with the row found; MarkPaid and Contribute then load the      *)
(* record that belongs to it.                                              *)
Lookup(p) ==
  LET hits == {x \in ledger : SameKey(x.req, h[p].req)}
  IN /\ h[p].pc = "lookup"
     /\ \/ hits = {} /\ Goto(p, "read")
        \/ \E x \in hits : x.req # h[p].req /\ Answer(p, "idempotency_conflict", None)
        \/ \E x \in hits : /\ x.req = h[p].req
                           /\ IF HasRecord(x) THEN Answer(p, "ok", x.id)
                                              ELSE Answer(p, "not_found", None)
     /\ UNCHANGED <<store, env, acks>>

(* The reads of the transaction before its first write.  None of them      *)
(* locks the row it reads.                                                 *)
ReadAccount(p) ==
  LET r == h[p].req
  IN /\ h[p].pc = "read" /\ r.op # "reverse"
     /\ \/ /\ \/ r.op = "pay" /\ r.bill \notin Bill
              \/ r.op = "contribute" /\ r.goal \notin Goal
              \/ r.op # "pay" /\ r.account \notin Account
           /\ Answer(p, "not_found", None)
        \/ /\ r.op = "pay" => r.bill \in Bill
           /\ r.op = "contribute" => r.goal \in Goal
           /\ SourceOf(r) \in Account
           /\ IF SourceOf(r) \in archivedAccounts
              THEN Answer(p, "conflict", None)
              ELSE Goto(p, IF r.op \in CreateOps THEN "check" ELSE "insert")
     /\ UNCHANGED <<store, env, acks>>

ReadOriginal(p) ==
  LET originals == {x \in ledger : x.id = h[p].req.target}
  IN /\ h[p].pc = "read" /\ h[p].req.op = "reverse"
     /\ \/ originals = {} /\ Answer(p, "not_found", None)
        \/ \E o \in originals :
             IF o.req.op = "reverse" \/ reversedBy[o.id] # None
             THEN Answer(p, "conflict", None)
             ELSE Goto(p, "insert")
     /\ UNCHANGED <<store, env, acks>>

(* The branch of Create for the transaction's type. *)
Refusal(r) ==
  CASE r.op \in {"income", "expense"} ->
         IF r.category = None THEN "invalid"
         ELSE IF r.category \notin Category THEN "not_found"
         ELSE IF KindOf[r.category] # r.op \/ r.category \in archivedCategories
              THEN "invalid" ELSE None
    [] r.op = "transfer" ->
         IF r.dest \in {None, r.account} THEN "same_account"
         ELSE IF r.dest \notin Account THEN "not_found"
         ELSE IF r.dest \in archivedAccounts \/ CurrencyOf[r.dest] # CurrencyOf[r.account]
              THEN "conflict" ELSE None
    [] r.op = "adjustment" -> IF r.reason = None THEN "invalid" ELSE None
    [] OTHER -> "invalid"

Check(p) ==
  LET refusal == Refusal(h[p].req)
  IN /\ h[p].pc = "check"
     /\ IF refusal = None THEN Goto(p, "insert") ELSE Answer(p, refusal, None)
     /\ UNCHANGED <<store, env, acks>>

(* INSERT of the row and its entries.  It waits for an open transaction    *)
(* that has inserted the same idempotency key, and fails with ErrConflict  *)
(* when a committed row has it.  Only here, by the foreign key, is the     *)
(* category of a transfer or an adjustment looked at.                      *)
Insert(p) ==
  LET r == h[p].req
  IN /\ h[p].pc = "insert"
     /\ \A q \in Handler \ {p} : Open(q) => ~SameKey(h[q].req, r)
     /\ IF \E x \in ledger : SameKey(x.req, r)
        THEN Answer(p, "conflict", None)
        ELSE IF r.op \in CreateOps /\ r.category \notin Category \cup {None}
        THEN Answer(p, "invalid", None)
        ELSE \E id \in TxId \ UsedIds : \E row \in NewRow(id, r) :
               h' = [h EXCEPT ![p] = [@ EXCEPT
                       !.row = row, !.pc = IF r.op \in PairedOps THEN "link" ELSE "commit"]]
     /\ UNCHANGED <<store, env, acks>>

(* The second write.  Reverse updates the original WHERE reversed_by_id IS *)
(* NULL AND type <> 'reversal': it waits for the row's lock and then       *)
(* evaluates the clause again.  MarkPaid inserts the occurrence under      *)
(* UNIQUE(bill_id, due_date), Contribute its contribution.                 *)
LinkReversal(p) ==
  LET r == h[p].req
  IN /\ h[p].pc = "link" /\ r.op = "reverse"
     /\ \A q \in Handler \ {p} :
          Linked(q) /\ h[q].req.op = "reverse" => h[q].req.target # r.target
     /\ IF /\ reversedBy[r.target] = None
           /\ \E o \in ledger : o.id = r.target /\ o.req.op # "reverse"
        THEN Goto(p, "commit")
        ELSE Answer(p, "conflict", None)
     /\ UNCHANGED <<store, env, acks>>

AddOccurrence(p) ==
  LET r == h[p].req
  IN /\ h[p].pc = "link" /\ r.op = "pay"
     /\ \A q \in Handler \ {p} :
          Linked(q) /\ h[q].req.op = "pay" => ~SamePeriod(h[q].req, r)
     /\ IF \E o \in occurrences : SamePeriod(o, r)
        THEN Answer(p, "conflict", None)
        ELSE Goto(p, "commit")
     /\ UNCHANGED <<store, env, acks>>

AddContribution(p) ==
  /\ h[p].pc = "link" /\ h[p].req.op = "contribute"
  /\ Goto(p, "commit")
  /\ UNCHANGED <<store, env, acks>>

(* COMMIT publishes everything the transaction wrote.  When the connection *)
(* is lost while it commits, the handler reports an error although the     *)
(* rows are there.                                                         *)
Commit(p, result) ==
  LET r   == h[p].req
      row == h[p].row
  IN /\ h[p].pc = "commit"
     /\ ledger' = ledger \cup {row}
     /\ reversedBy' = IF r.op = "reverse" THEN [reversedBy EXCEPT ![r.target] = row.id]
                                          ELSE reversedBy
     /\ occurrences' = IF r.op = "pay"
                       THEN occurrences \cup {[bill |-> r.bill, due |-> r.due, tx |-> row.id]}
                       ELSE occurrences
     /\ contributions' = IF r.op = "contribute"
                         THEN contributions \cup {[goal |-> r.goal, amount |-> r.amount, tx |-> row.id]}
                         ELSE contributions
     /\ Answer(p, result, IF result = "ok" THEN row.id ELSE None)
     /\ UNCHANGED <<env, acks>>

(* A statement fails, the request is cancelled, or the API dies: the       *)
(* transaction rolls back.                                                 *)
Fail(p) ==
  /\ h[p].pc \notin {"idle", "reply"}
  /\ Answer(p, "error", None)
  /\ UNCHANGED <<store, env, acks>>

(* The answer reaches the client, or is lost on the way. *)
Reply(p) ==
  /\ h[p].pc = "reply"
  /\ acks' = IF h[p].result = "ok" THEN acks \cup {[req |-> h[p].req, id |-> h[p].id]}
                                   ELSE acks
  /\ h' = [h EXCEPT ![p] = Idle]
  /\ UNCHANGED <<store, env>>

LoseReply(p) ==
  /\ h[p].pc = "reply"
  /\ h' = [h EXCEPT ![p] = Idle]
  /\ UNCHANGED <<store, env, acks>>

(* The archive endpoints: one UPDATE each, in no lock conflict with the    *)
(* handlers above.                                                         *)
ArchiveAccount(a) ==
  /\ a \in Archivable \ archivedAccounts
  /\ archivedAccounts' = archivedAccounts \cup {a}
  /\ UNCHANGED <<store, archivedCategories, now, h, acks>>

ArchiveCategory(c) ==
  /\ c \in Archivable
  /\ archivedCategories' = archivedCategories \cup {c}
  /\ UNCHANGED <<store, archivedAccounts, now, h, acks>>

Tick ==
  /\ now < MaxTime
  /\ now' = now + 1
  /\ UNCHANGED <<store, archivedAccounts, archivedCategories, h, acks>>

-----------------------------------------------------------------------------
Work(p) ==
  \/ Lookup(p) \/ ReadAccount(p) \/ ReadOriginal(p) \/ Check(p)
  \/ Insert(p) \/ LinkReversal(p) \/ AddOccurrence(p) \/ AddContribution(p)
  \/ Commit(p, "ok")

Next ==
  \/ \E p \in Handler :
       \/ \E r \in Request : Receive(p, r)
       \/ Work(p)
       \/ Commit(p, "error") \/ Fail(p)
       \/ Reply(p) \/ LoseReply(p)
  \/ \E a \in Account : ArchiveAccount(a)
  \/ \E c \in Category : ArchiveCategory(c)
  \/ Tick

Spec == Init /\ [][Next]_vars

(* A running handler keeps running.  A blocked statement is woken when the *)
(* transaction it waits for ends and retries; that it is not overtaken for *)
(* ever by newly arriving requests is PostgreSQL's lock queue.  Nothing    *)
(* makes clients send, failures happen or accounts be archived.            *)
Fairness ==
  \A p \in Handler :
    /\ WF_vars(Work(p))
    /\ WF_vars(Reply(p) \/ LoseReply(p))
    /\ SF_vars(Insert(p)) /\ SF_vars(LinkReversal(p)) /\ SF_vars(AddOccurrence(p))

FairSpec == Spec /\ Fairness

-----------------------------------------------------------------------------
(* What the store shows to readers *)

(* The signed effect of a row on an account. *)
Effect(x, a) ==
  (IF [account |-> a, direction |-> "credit"] \in x.entries THEN x.amount ELSE 0)
  - (IF [account |-> a, direction |-> "debit"] \in x.entries THEN x.amount ELSE 0)

(* AccountBalance: no balance is stored, it is summed from the entries. *)
Effects(a) == [x \in ledger |-> Effect(x, a)]
Balance(a) == InitialBalance[a] + SumFunctionOnSet(Effects(a), ledger)

IsReversal(x) == x.req.op = "reverse"
LiveRows == {x \in ledger : ~IsReversal(x) /\ reversedBy[x.id] = None}

-----------------------------------------------------------------------------
(* Invariants *)

(* Every variable has its type; a handler between its INSERT and its end   *)
(* has a row to publish.                                                   *)
TypeOK ==
  /\ ledger \subseteq Row
  /\ reversedBy \in [TxId -> TxId \cup {None}]
  /\ \A o \in occurrences : o.tx \in TxId
  /\ \A c \in contributions : c.tx \in TxId
  /\ archivedAccounts \subseteq Account
  /\ archivedCategories \subseteq Category
  /\ now \in Time
  /\ h \in [Handler -> HandlerType]
  /\ \A p \in Handler : /\ h[p].pc # "idle" => h[p].req \in Payload
                        /\ Open(p) <=> h[p].row # None
                        /\ h[p].pc = "reply" /\ h[p].result = "ok" => h[p].id \in TxId
  /\ acks \subseteq [req : Payload, id : TxId]

(* However often a request is sent and however its attempts overlap, its   *)
(* (operation, key) has at most one row (TXN-007, the glossary's "one      *)
(* financial effect"), and rows have distinct ids.                         *)
OneEffectPerKey ==
  \A x, y \in ledger : SameKey(x.req, y.req) \/ x.id = y.id => x = y

(* A transaction is reversed at most once, a reversal never, and the two   *)
(* rows of a pair point at each other and cancel entry by entry.           *)
ReversalsPaired ==
  /\ \A x \in ledger : IsReversal(x) =>
       \E o \in ledger : /\ o.id = x.reverses /\ ~IsReversal(o)
                         /\ reversedBy[o.id] = x.id
                         /\ x.amount = o.amount /\ x.entries = Flip(o.entries)
  /\ \A t \in TxId : reversedBy[t] # None =>
       \E x \in ledger : x.id = reversedBy[t] /\ x.reverses = t

(* The balance an account shows is its initial balance plus the entries of *)
(* the transactions that are in force: a reversed transaction and its      *)
(* reversal together change nothing (BR-004), and a transfer moves money   *)
(* without making any.                                                     *)
BalanceOfLiveRows ==
  /\ \A a \in Account :
       Balance(a) = InitialBalance[a] + SumFunctionOnSet(Effects(a), LiveRows)
  /\ SumFunctionOnSet([a \in Account |-> Balance(a)], Account) =
       SumFunctionOnSet(InitialBalance, Account)
       + SumFunctionOnSet(
           [x \in ledger |-> SumFunctionOnSet([a \in Account |-> Effect(x, a)], Account)],
           {x \in LiveRows : x.req.op # "transfer"})

(* Each bill period is paid by at most one expense, and an expense posted  *)
(* by MarkPaid or a debit posted by Contribute never exists without its    *)
(* occurrence or contribution, nor the other way round (TXN-010, BILL-005).*)
RecordsMatchRows ==
  /\ \A o, q \in occurrences : SamePeriod(o, q) => o = q
  /\ \A o \in occurrences : \E x \in ledger :
       x.id = o.tx /\ x.req.op = "pay" /\ SamePeriod(x.req, o)
  /\ \A c \in contributions : \E x \in ledger :
       x.id = c.tx /\ x.req.op = "contribute" /\ x.amount = c.amount
  /\ \A x \in ledger : HasRecord(x)

(* An answer "ok" a client has received stays true: the row it names is    *)
(* there and was posted for exactly that payload, so that a replayed       *)
(* answer never hands out another request's transaction.                   *)
AcksHonoured ==
  \A a \in acks : \E x \in ledger : x.id = a.id /\ x.req = a.req

(* A posted income, expense, transfer or adjustment obeys the rules of its *)
(* type, whatever was archived or sent again in the meantime; a client     *)
(* cannot post a "reversal" through the create endpoint.                   *)
RowsFollowTheirType ==
  \A x \in ledger :
    /\ x.req.op # "reversal" /\ x.amount > 0
    /\ x.req.category \in Category \cup {None}
    /\ \A e \in x.entries : e.account \in Account
    /\ x.req.op \in {"income", "expense"} =>
         x.req.category \in Category /\ KindOf[x.req.category] = x.req.op
    /\ x.req.op = "transfer" =>
         /\ Cardinality({e.account : e \in x.entries}) = 2
         /\ \A e, f \in x.entries : CurrencyOf[e.account] = CurrencyOf[f.account]
    /\ x.req.op = "adjustment" => x.req.reason # None

(* Every request the server took is answered or its connection is dropped: *)
(* handlers never wait on each other in a circle.                          *)
Answered == \A p \in Handler : h[p].pc # "idle" ~> h[p].pc = "idle"

-----------------------------------------------------------------------------
(* Why the invariants hold: what open transactions have in common          *)

(* Between the reads and the INSERT, what the entries are built from is    *)
(* known to exist.                                                         *)
ReadsDone ==
  \A p \in Handler : LET r == h[p].req IN
    /\ h[p].pc = "check" => r.op \in CreateOps
    /\ h[p].pc \in {"check", "insert"} /\ r.op # "reverse" =>
         /\ SourceOf(r) \in Account
         /\ r.op = "pay" => r.bill \in Bill
    /\ h[p].pc = "insert" /\ r.op = "transfer" => r.dest \in Account

(* The unique key at work: an uncommitted row shares its id and its key    *)
(* with no committed row and with no other uncommitted one.                *)
UncommittedRowsAreFresh ==
  \A p \in Handler : Open(p) =>
    /\ h[p].row.req = h[p].req
    /\ \A x \in ledger : x.id # h[p].row.id /\ ~SameKey(x.req, h[p].req)
    /\ \A q \in Handler \ {p} : Open(q) =>
         h[q].row.id # h[p].row.id /\ ~SameKey(h[q].req, h[p].req)

(* The row lock at work: an uncommitted reversal offsets a committed row,  *)
(* and once it has updated that row nobody else has or can.                *)
UncommittedReversals ==
  \A p \in Handler : Open(p) /\ h[p].req.op = "reverse" =>
    /\ h[p].row.reverses = h[p].req.target
    /\ \E o \in ledger : /\ o.id = h[p].req.target
                         /\ h[p].row.amount = o.amount
                         /\ h[p].row.entries = Flip(o.entries)
                         /\ Linked(p) => ~IsReversal(o) /\ reversedBy[o.id] = None
    /\ Linked(p) => \A q \in Handler \ {p} :
         Linked(q) /\ h[q].req.op = "reverse" => h[q].req.target # h[p].req.target

(* UNIQUE(bill_id, due_date) at work, and the amount a contribution shares *)
(* with its row.                                                           *)
UncommittedRecords ==
  \A p \in Handler :
    /\ Linked(p) /\ h[p].req.op = "pay" =>
         /\ \A o \in occurrences : ~SamePeriod(o, h[p].req)
         /\ \A q \in Handler \ {p} : Linked(q) /\ h[q].req.op = "pay" =>
              ~SamePeriod(h[q].req, h[p].req)
    /\ Open(p) /\ h[p].req.op = "contribute" => h[p].row.amount = h[p].req.amount

(* An "ok" on its way names a row that was posted for that payload.        *)
RepliesHonoured ==
  \A p \in Handler : h[p].pc = "reply" /\ h[p].result = "ok" =>
    \E x \in ledger : x.id = h[p].id /\ x.req = h[p].req

(* The inductive invariant. *)
IInv ==
  /\ TypeOK /\ ReadsDone
  /\ OneEffectPerKey /\ UncommittedRowsAreFresh
  /\ ReversalsPaired /\ UncommittedReversals
  /\ RecordsMatchRows /\ UncommittedRecords
  /\ AcksHonoured /\ RepliesHonoured

(* What Create checks before its INSERT, and no archiving undoes. *)
FollowsItsType(r) ==
  /\ r.op # "reversal"
  /\ r.op \in {"income", "expense"} => r.category \in Category /\ KindOf[r.category] = r.op
  /\ r.op = "transfer" =>
       /\ {r.account, r.dest} \subseteq Account /\ r.dest # r.account
       /\ CurrencyOf[r.dest] = CurrencyOf[r.account]
  /\ r.op = "adjustment" => r.reason # None

(* A row is what its request says, or offsets one. *)
PostedFor(x) ==
  /\ x.req.op \in CreateOps => FollowsItsType(x.req)
  /\ x.req.category \in Category \cup {None}
  /\ x.amount > 0
  /\ ~IsReversal(x) => x.entries = EntriesOf(x.req) /\ x.reverses = None

(* Rows are posted for requests that passed every check; a row that only   *)
(* copies an amount and entries copies those of such a row.                *)
RowsArePosted ==
  /\ \A x \in ledger : PostedFor(x)
  /\ \A p \in Handler : LET r == h[p].req IN
       /\ h[p].pc \notin {"idle", "reply"} => ValidInput(r)
       /\ h[p].pc = "insert" /\ r.op \in CreateOps => FollowsItsType(r)
       /\ Open(p) => PostedFor(h[p].row)

(* There are finitely many rows, and those not in force cancel out. *)
ReversalsCancel ==
  /\ IsFiniteSet(ledger)
  /\ \A a \in Account :
       SumFunctionOnSet(Effects(a), ledger) = SumFunctionOnSet(Effects(a), LiveRows)

(* Every behaviour is one of AtomicLedger: statements, locks, failures and *)
(* retries only decide which of its steps happen.                          *)
Atomic == INSTANCE AtomicLedger

ImplementsAtomicLedger == Atomic!Spec

=============================================================================
