---------------------------- MODULE LedgerProofs ----------------------------
(* Proofs about Ledger, for any number of handlers, ids and requests. *)
EXTENDS Ledger, SumTheorems, TLAPS

-----------------------------------------------------------------------------
(* Lemmas on payloads, entries and rows *)

LEMMA PayloadType == Payload \subseteq RequestType
<1> SUFFICES ASSUME NEW r \in Request, NEW t \in Time
             PROVE  Resolve(r, t) \in RequestType
  BY DEF Payload
<1>1. r \in RequestType
  BY LedgerAssumption
<1>2. [r EXCEPT !.occ = t] \in RequestType
  BY <1>1 DEF RequestType
<1>3. QED
  BY <1>1, <1>2 DEF Resolve

LEMMA ResolveType ==
  ASSUME NEW r \in Request
  PROVE  now \in Time => Resolve(r, now) \in Payload
BY DEF Payload

LEMMA FlipType ==
  ASSUME NEW e \in SUBSET Entry
  PROVE  Flip(e) \in SUBSET Entry
BY DEF Flip, Entry, Direction

LEMMA EntriesType ==
  ASSUME NEW r \in RequestType, r.op # "reverse", SourceOf(r) \in Account,
         r.op = "transfer" => r.dest \in Account
  PROVE  EntriesOf(r) \in SUBSET Entry
<1>1. r.op # "pay" => r.account \in Account
  BY DEF SourceOf
<1>2. QED
  BY <1>1 DEF EntriesOf, One, Entry, Direction

LEMMA AmountType ==
  ASSUME NEW r \in RequestType, r.op = "pay" => r.bill \in Bill
  PROVE  AmountOf(r) \in Int
BY LedgerAssumption DEF AmountOf, RequestType

(* The row a handler inserts is a row, for the payload it was sent. *)
LEMMA NewRowType ==
  ASSUME NEW id \in TxId, NEW r \in Payload,
         ledger \subseteq Row,
         r.op # "reverse" => /\ SourceOf(r) \in Account
                             /\ r.op = "pay" => r.bill \in Bill
                             /\ r.op = "transfer" => r.dest \in Account,
         NEW row \in NewRow(id, r)
  PROVE  /\ row \in Row
         /\ row.id = id /\ row.req = r
         /\ r.op = "reverse" => \E o \in ledger :
              /\ o.id = r.target /\ row.reverses = o.id
              /\ row.amount = o.amount /\ row.entries = Flip(o.entries)
         /\ r.op # "reverse" => /\ row.reverses = None /\ row.amount = AmountOf(r)
                                 /\ row.entries = EntriesOf(r)
<1>1. r \in RequestType
  BY PayloadType
<1>2. CASE r.op = "reverse"
  <2>1. PICK o \in ledger :
          /\ o.id = r.target
          /\ row = [id |-> id, req |-> r, amount |-> o.amount,
                    entries |-> Flip(o.entries), reverses |-> o.id]
    BY <1>2 DEF NewRow
  <2>2. o \in Row
    OBVIOUS
  <2>3. Flip(o.entries) \in SUBSET Entry /\ o.id \in TxId /\ o.amount \in Int
    BY <2>2, FlipType DEF Row
  <2>4. QED
    BY <1>2, <2>1, <2>3 DEF Row
<1>3. CASE r.op # "reverse"
  <2>1. row = [id |-> id, req |-> r, amount |-> AmountOf(r),
               entries |-> EntriesOf(r), reverses |-> None]
    BY <1>3 DEF NewRow
  <2>2. EntriesOf(r) \in SUBSET Entry /\ AmountOf(r) \in Int
    BY <1>1, <1>3, EntriesType, AmountType
  <2>3. QED
    BY <1>3, <2>1, <2>2 DEF Row
<1>4. QED
  BY <1>2, <1>3

-----------------------------------------------------------------------------
(* Type correctness *)

(* What Answer and Goto do to the handlers. *)
LEMMA AnswerType ==
  ASSUME TypeOK, NEW p \in Handler, h[p].pc # "idle",
         NEW result \in Result, NEW id \in TxId \cup {None}, Answer(p, result, id)
  PROVE  /\ h' \in [Handler -> HandlerType]
         /\ \A q \in Handler \ {p} : h'[q] = h[q]
         /\ h'[p].pc = "reply" /\ h'[p].row = None
         /\ h'[p].result = result /\ h'[p].id = id
         /\ h'[p].req = h[p].req
BY DEF TypeOK, Answer, HandlerType, Pc

LEMMA GotoType ==
  ASSUME TypeOK, NEW p \in Handler, NEW pc \in Pc, Goto(p, pc)
  PROVE  /\ h' \in [Handler -> HandlerType]
         /\ \A q \in Handler \ {p} : h'[q] = h[q]
         /\ h'[p].pc = pc /\ h'[p].row = h[p].row
         /\ h'[p].req = h[p].req
BY DEF TypeOK, Goto, HandlerType

(* A step that only answers, or only moves on to another statement without *)
(* inserting, keeps the type of everything.                                *)
LEMMA AnswerKeepsType ==
  ASSUME TypeOK, ReadsDone, NEW p \in Handler, h[p].pc # "idle",
         NEW result \in Result, NEW id \in TxId \cup {None}, Answer(p, result, id),
         result = "ok" => id \in TxId, UNCHANGED <<store, env, acks>>
  PROVE  TypeOK' /\ ReadsDone'
BY AnswerType DEF TypeOK, ReadsDone, Open, store, env

LEMMA GotoKeepsType ==
  ASSUME TypeOK, ReadsDone, NEW p \in Handler, h[p].pc # "idle",
         NEW pc \in Pc \ {"idle", "reply"}, Goto(p, pc),
         h[p].pc \in {"link", "commit"} <=> pc \in {"link", "commit"},
         LET r == h[p].req IN
           /\ pc = "check" => r.op \in CreateOps
           /\ pc \in {"check", "insert"} /\ r.op # "reverse" =>
                SourceOf(r) \in Account /\ (r.op = "pay" => r.bill \in Bill)
           /\ pc = "insert" /\ r.op = "transfer" => r.dest \in Account,
         UNCHANGED <<store, env, acks>>
  PROVE  TypeOK' /\ ReadsDone'
BY GotoType DEF TypeOK, ReadsDone, Open, store, env

LEMMA TypeStep ==
  ASSUME TypeOK, ReadsDone, [Next]_vars
  PROVE  TypeOK' /\ ReadsDone'
<1>1. CASE UNCHANGED vars
  BY <1>1 DEF TypeOK, ReadsDone, Open, vars, store, env
<1>2. ASSUME NEW p \in Handler, NEW r \in Request, Receive(p, r)
      PROVE  TypeOK' /\ ReadsDone'
  <2> DEFINE new == h'[p]
  <2>1. Resolve(r, now) \in Payload
    BY ResolveType DEF TypeOK
  <2>2. /\ h' \in [Handler -> HandlerType]
        /\ \A q \in Handler \ {p} : h'[q] = h[q]
        /\ new.pc \in {"lookup", "reply"} /\ new.req \in Payload
        /\ new.row = None
    BY <1>2, <2>1 DEF Receive, TypeOK, HandlerType, Pc, Result
  <2>3. QED
    BY <1>2, <2>2 DEF Receive, TypeOK, ReadsDone, Open, store, env
<1>3. ASSUME NEW p \in Handler, Lookup(p)
      PROVE  TypeOK' /\ ReadsDone'
  <2> USE DEF Result, Pc
  <2>1. \A x \in ledger : x.id \in TxId
    BY DEF TypeOK, Row
  <2>2. CASE Goto(p, "read")
    BY <1>3, <2>2, GotoKeepsType DEF Lookup
  <2>3. CASE Answer(p, "idempotency_conflict", None)
    BY <1>3, <2>3, AnswerKeepsType DEF Lookup
  <2>4. CASE Answer(p, "not_found", None)
    BY <1>3, <2>4, AnswerKeepsType DEF Lookup
  <2>5. ASSUME NEW x \in ledger, Answer(p, "ok", x.id)
        PROVE  TypeOK' /\ ReadsDone'
    BY <1>3, <2>1, <2>5, AnswerKeepsType DEF Lookup
  <2>6. QED
    BY <1>3, <2>2, <2>3, <2>4, <2>5 DEF Lookup
<1>4. ASSUME NEW p \in Handler, ReadAccount(p)
      PROVE  TypeOK' /\ ReadsDone'
  <2> USE DEF Result, Pc
  <2> DEFINE r == h[p].req
  <2>1. CASE \/ Answer(p, "not_found", None) \/ Answer(p, "conflict", None)
    BY <1>4, <2>1, AnswerKeepsType DEF ReadAccount
  <2>2. CASE /\ r.op = "pay" => r.bill \in Bill
             /\ SourceOf(r) \in Account
             /\ r.op \in CreateOps /\ Goto(p, "check")
    BY <1>4, <2>2, GotoKeepsType DEF ReadAccount
  <2>3. CASE /\ r.op = "pay" => r.bill \in Bill
             /\ SourceOf(r) \in Account
             /\ r.op \notin CreateOps /\ Goto(p, "insert")
    BY <1>4, <2>3, GotoKeepsType DEF ReadAccount, CreateOps
  <2>4. QED
    BY <1>4, <2>1, <2>2, <2>3 DEF ReadAccount
<1>5. ASSUME NEW p \in Handler, ReadOriginal(p)
      PROVE  TypeOK' /\ ReadsDone'
  <2> USE DEF Result, Pc
  <2>1. CASE \/ Answer(p, "not_found", None) \/ Answer(p, "conflict", None)
    BY <1>5, <2>1, AnswerKeepsType DEF ReadOriginal
  <2>2. CASE Goto(p, "insert")
    BY <1>5, <2>2, GotoKeepsType DEF ReadOriginal
  <2>3. QED
    BY <1>5, <2>1, <2>2 DEF ReadOriginal
<1>6. ASSUME NEW p \in Handler, Check(p)
      PROVE  TypeOK' /\ ReadsDone'
  <2> USE DEF Result, Pc
  <2>1. Refusal(h[p].req) \in (Result \ {"ok"}) \cup {None}
    BY DEF Refusal
  <2>2. CASE Refusal(h[p].req) # None
    BY <1>6, <2>1, <2>2, AnswerKeepsType DEF Check
  <2>3. CASE Refusal(h[p].req) = None
    <3>1. h[p].req.op = "transfer" => h[p].req.dest \in Account
      <4> SUFFICES ASSUME h[p].req.op = "transfer", h[p].req.dest \notin Account
                   PROVE  FALSE
        OBVIOUS
      <4>1. Refusal(h[p].req) \in {"same_account", "not_found"}
        BY DEF Refusal
      <4>2. QED
        BY <2>3, <4>1, LedgerAssumption
    <3>2. QED
      BY <1>6, <2>3, <3>1, GotoKeepsType DEF Check, ReadsDone, CreateOps
  <2>4. QED
    BY <2>2, <2>3
<1>7. ASSUME NEW p \in Handler, Insert(p)
      PROVE  TypeOK' /\ ReadsDone'
  <2> DEFINE r == h[p].req
  <2>1. CASE Answer(p, "conflict", None) \/ Answer(p, "invalid", None)
    BY <1>7, <2>1, AnswerKeepsType DEF Insert, Result
  <2>2. ASSUME NEW id \in TxId \ UsedIds, NEW row \in NewRow(id, r),
               h' = [h EXCEPT ![p] = [@ EXCEPT
                       !.row = row, !.pc = IF r.op \in PairedOps THEN "link" ELSE "commit"]]
        PROVE  TypeOK' /\ ReadsDone'
    <3>1. r \in Payload /\ ledger \subseteq Row
      BY <1>7 DEF Insert, TypeOK
    <3>2. r.op # "reverse" => /\ SourceOf(r) \in Account
                              /\ r.op = "pay" => r.bill \in Bill
                              /\ r.op = "transfer" => r.dest \in Account
      BY <1>7 DEF Insert, ReadsDone
    <3>3. row \in Row
      BY <3>1, <3>2, NewRowType
    <3>4. /\ h' \in [Handler -> HandlerType]
          /\ \A q \in Handler \ {p} : h'[q] = h[q]
          /\ h'[p].pc \in {"link", "commit"} /\ h'[p].row = row
          /\ h'[p].req = r
      BY <2>2, <3>3 DEF TypeOK, HandlerType, Pc
    <3>5. row # None
      BY <3>3, LedgerAssumption
    <3>6. QED
      BY <1>7, <3>1, <3>4, <3>5 DEF Insert, TypeOK, ReadsDone, Open, store, env
  <2>3. QED
    BY <1>7, <2>1, <2>2 DEF Insert
<1>8. ASSUME NEW p \in Handler, LinkReversal(p) \/ AddOccurrence(p) \/ AddContribution(p)
      PROVE  TypeOK' /\ ReadsDone'
  <2>1. /\ h[p].pc = "link" /\ UNCHANGED <<store, env, acks>>
        /\ Goto(p, "commit") \/ Answer(p, "conflict", None)
    BY <1>8 DEF LinkReversal, AddOccurrence, AddContribution
  <2>2. QED
    BY <2>1, AnswerKeepsType, GotoKeepsType DEF Result, Pc
<1>9. ASSUME NEW p \in Handler, NEW result \in {"ok", "error"}, Commit(p, result)
      PROVE  TypeOK' /\ ReadsDone'
  <2> DEFINE row == h[p].row
  <2>1. row \in Row /\ row.id \in TxId /\ row # None
    BY <1>9 DEF Commit, TypeOK, Open, HandlerType, Row
  <2>2. /\ h' \in [Handler -> HandlerType]
        /\ \A q \in Handler \ {p} : h'[q] = h[q]
        /\ h'[p].pc = "reply" /\ h'[p].row = None
        /\ h'[p].req = h[p].req
        /\ h'[p].result = "ok" => h'[p].id = row.id
    BY <1>9, <2>1, AnswerType DEF Commit, Result
  <2>3. ledger' \subseteq Row
    BY <1>9, <2>1 DEF Commit, TypeOK
  <2>4. reversedBy' \in [TxId -> TxId \cup {None}]
    BY <1>9, <2>1 DEF Commit, TypeOK
  <2>5. \A o \in occurrences' : o.tx \in TxId
    BY <1>9, <2>1 DEF Commit, TypeOK
  <2>6. \A c \in contributions' : c.tx \in TxId
    BY <1>9, <2>1 DEF Commit, TypeOK
  <2>7. h[p].req \in Payload
    BY <1>9 DEF Commit, TypeOK
  <2>8. \A q \in Handler :
          /\ h'[q].pc # "idle" => h'[q].req \in Payload
          /\ h'[q].pc \in {"link", "commit"} <=> h'[q].row # None
          /\ h'[q].pc = "reply" /\ h'[q].result = "ok" => h'[q].id \in TxId
    BY <2>1, <2>2, <2>7 DEF TypeOK, Open
  <2>9. ReadsDone'
    BY <2>2 DEF ReadsDone
  <2>10. UNCHANGED <<archivedAccounts, archivedCategories, now, acks>>
    BY <1>9 DEF Commit, env
  <2>11. QED
    BY <2>2, <2>3, <2>4, <2>5, <2>6, <2>8, <2>9, <2>10 DEF TypeOK, Open
<1>10. ASSUME NEW p \in Handler, Fail(p)
       PROVE  TypeOK' /\ ReadsDone'
  BY <1>10, AnswerKeepsType DEF Fail, Result
<1>11. ASSUME NEW p \in Handler, Reply(p) \/ LoseReply(p)
       PROVE  TypeOK' /\ ReadsDone'
  <2>1. /\ h' \in [Handler -> HandlerType]
        /\ \A q \in Handler \ {p} : h'[q] = h[q]
        /\ h'[p].pc = "idle" /\ h'[p].row = None
    BY <1>11 DEF Reply, LoseReply, TypeOK, Idle, HandlerType, Pc
  <2>2. acks' \subseteq [req : Payload, id : TxId]
    BY <1>11 DEF Reply, LoseReply, TypeOK
  <2>3. QED
    BY <1>11, <2>1, <2>2 DEF Reply, LoseReply, TypeOK, ReadsDone, Open, store, env
<1>12. CASE \/ \E a \in Account : ArchiveAccount(a)
            \/ \E c \in Category : ArchiveCategory(c)
            \/ Tick
  BY <1>12, LedgerAssumption
     DEF ArchiveAccount, ArchiveCategory, Tick, TypeOK, ReadsDone, Open, store, Time
<1>13. QED
  BY <1>1, <1>2, <1>3, <1>4, <1>5, <1>6, <1>7, <1>8, <1>9, <1>10, <1>11, <1>12
     DEF Next, Work

(* Type correctness: what TypeOK states holds in every reachable state,    *)
(* whatever handlers, requests and ids there are.                          *)
THEOREM TypeCorrect == Spec => [](TypeOK /\ ReadsDone)
<1>1. Init => TypeOK /\ ReadsDone
  BY LedgerAssumption
     DEF Init, TypeOK, ReadsDone, Open, Idle, HandlerType, Pc, Time
<1>2. TypeOK /\ ReadsDone /\ [Next]_vars => (TypeOK /\ ReadsDone)'
  BY TypeStep
<1>3. QED
  BY <1>1, <1>2, PTL DEF Spec

-----------------------------------------------------------------------------
(* The kinds of steps the invariants can tell apart *)

Others(p) == \A q \in Handler \ {p} : h'[q] = h[q]

(* The store stays as it is and handler p has no row afterwards. *)
Quiet(p) ==
  /\ UNCHANGED store /\ Others(p) /\ h'[p].pc \notin {"link", "commit"}
  /\ h'[p].pc = "reply" /\ h'[p].result = "ok" =>
       \E x \in ledger : x.id = h'[p].id /\ x.req = h'[p].req
  /\ \/ UNCHANGED acks
     \/ \E x \in ledger : acks' = acks \cup {[req |-> x.req, id |-> x.id]}

InsertsRow(p, row) ==
  /\ UNCHANGED <<store, acks>> /\ Others(p)
  /\ h[p].pc = "insert" /\ h'[p].row = row /\ h'[p].req = h[p].req
  /\ h'[p].pc = IF h[p].req.op \in PairedOps THEN "link" ELSE "commit"
  /\ row \in Row /\ row.req = h[p].req
  /\ \A x \in ledger : x.id # row.id /\ ~SameKey(x.req, h[p].req)
  /\ \A q \in Handler \ {p} : Open(q) =>
       h[q].row.id # row.id /\ ~SameKey(h[q].req, h[p].req)
  /\ h[p].req.op = "reverse" =>
       \E o \in ledger : /\ o.id = h[p].req.target /\ row.reverses = o.id
                         /\ row.amount = o.amount /\ row.entries = Flip(o.entries)
  /\ h[p].req.op # "reverse" => /\ row.reverses = None /\ row.amount = AmountOf(h[p].req)
                                /\ row.entries = EntriesOf(h[p].req)
  /\ h[p].req.op \in CreateOps => h[p].req.category \in Category \cup {None}

WritesSecond(p) ==
  /\ UNCHANGED <<store, acks>> /\ Others(p)
  /\ h[p].pc = "link" /\ h'[p].pc = "commit"
  /\ h'[p].row = h[p].row /\ h'[p].req = h[p].req
  /\ h[p].req.op = "reverse" =>
       /\ reversedBy[h[p].req.target] = None
       /\ \E o \in ledger : o.id = h[p].req.target /\ ~IsReversal(o)
       /\ \A q \in Handler \ {p} : Linked(q) /\ h[q].req.op = "reverse" =>
            h[q].req.target # h[p].req.target
  /\ h[p].req.op = "pay" =>
       /\ \A o \in occurrences : ~SamePeriod(o, h[p].req)
       /\ \A q \in Handler \ {p} : Linked(q) /\ h[q].req.op = "pay" =>
            ~SamePeriod(h[q].req, h[p].req)

Publishes(p) ==
  /\ Commit(p, "ok") \/ Commit(p, "error")
  /\ Others(p) /\ h[p].row \in Row
  /\ h'[p].pc = "reply" /\ h'[p].req = h[p].req
  /\ h'[p].result = "ok" => h'[p].id = h[p].row.id
  /\ UNCHANGED acks

(* Every step is one of these, or moves only the environment. *)
SomeKind ==
  \/ \E p \in Handler : \/ Quiet(p) \/ WritesSecond(p) \/ Publishes(p)
                        \/ \E row \in Row : InsertsRow(p, row)
  \/ UNCHANGED <<store, h, acks>>

LEMMA OpenRow ==
  ASSUME TypeOK, NEW p \in Handler, Open(p)
  PROVE  h[p].row \in Row /\ h[p].row.id \in TxId
BY DEF TypeOK, HandlerType, Row

(* The three steps that lead to a write, one lemma each. *)
LEMMA InsertKind ==
  ASSUME TypeOK, ReadsDone, NEW p \in Handler, Insert(p)
  PROVE  Quiet(p) \/ \E row \in Row : InsertsRow(p, row)
<1> DEFINE r == h[p].req
<1>1. CASE Answer(p, "conflict", None) \/ Answer(p, "invalid", None)
  BY <1>1, AnswerType DEF Insert, Result, Quiet, Others
<1>2. ASSUME NEW id \in TxId \ UsedIds, NEW row \in NewRow(id, r),
             ~\E x \in ledger : SameKey(x.req, r),
             r.op \in CreateOps => r.category \in Category \cup {None},
             h' = [h EXCEPT ![p] = [@ EXCEPT
                     !.row = row, !.pc = IF r.op \in PairedOps THEN "link" ELSE "commit"]]
      PROVE  InsertsRow(p, row) /\ row \in Row
  <2>1. r \in Payload /\ ledger \subseteq Row
    BY DEF Insert, TypeOK
  <2>2. r.op # "reverse" => /\ SourceOf(r) \in Account
                            /\ r.op = "pay" => r.bill \in Bill
                            /\ r.op = "transfer" => r.dest \in Account
    BY DEF Insert, ReadsDone
  <2>3. /\ row \in Row /\ row.id = id /\ row.req = r
        /\ r.op = "reverse" => \E o \in ledger :
              /\ o.id = r.target /\ row.reverses = o.id
              /\ row.amount = o.amount /\ row.entries = Flip(o.entries)
        /\ r.op # "reverse" => /\ row.reverses = None /\ row.amount = AmountOf(r)
                                /\ row.entries = EntriesOf(r)
    BY <2>1, <2>2, NewRowType
  <2>4. /\ Others(p) /\ h'[p].row = row /\ h'[p].req = r
        /\ h'[p].pc = IF r.op \in PairedOps THEN "link" ELSE "commit"
    BY <1>2 DEF TypeOK, HandlerType, Others
  <2>5. /\ \A x \in ledger : x.id # id
        /\ \A q \in Handler : Open(q) => h[q].row.id # id
    BY DEF UsedIds
  <2>6. QED
    BY <1>2, <2>3, <2>4, <2>5 DEF Insert, InsertsRow
<1>3. QED
  BY <1>1, <1>2 DEF Insert

LEMMA SecondKind ==
  ASSUME TypeOK, NEW p \in Handler,
         LinkReversal(p) \/ AddOccurrence(p) \/ AddContribution(p)
  PROVE  Quiet(p) \/ WritesSecond(p)
<1>1. CASE Answer(p, "conflict", None)
  <2>1. h[p].pc = "link" /\ UNCHANGED <<store, acks>>
    BY DEF LinkReversal, AddOccurrence, AddContribution
  <2>2. QED
    BY <1>1, <2>1, AnswerType DEF Result, Quiet, Others
<1>2. CASE Goto(p, "commit")
  <2>1. Others(p) /\ h'[p].pc = "commit" /\ h'[p].row = h[p].row /\ h'[p].req = h[p].req
    BY <1>2, GotoType DEF Pc, Others
  <2>2. h'[p].pc # "reply"
    BY <2>1
  <2>3. ~Answer(p, "conflict", None)
    BY <2>2, AnswerType DEF Result, LinkReversal, AddOccurrence, AddContribution
  <2>4. CASE LinkReversal(p)
    BY <2>1, <2>3, <2>4 DEF LinkReversal, WritesSecond, IsReversal
  <2>5. CASE AddOccurrence(p)
    BY <2>1, <2>3, <2>5 DEF AddOccurrence, WritesSecond
  <2>6. CASE AddContribution(p)
    BY <2>1, <2>6 DEF AddContribution, WritesSecond
  <2>7. QED
    BY <2>4, <2>5, <2>6
<1>3. QED
  BY <1>1, <1>2 DEF LinkReversal, AddOccurrence, AddContribution

LEMMA CommitKind ==
  ASSUME TypeOK, NEW p \in Handler, NEW result \in {"ok", "error"}, Commit(p, result)
  PROVE  Publishes(p)
<1>1. h[p].row \in Row /\ h[p].row.id \in TxId
  BY OpenRow DEF Commit, Open
<1>2. QED
  BY <1>1, AnswerType DEF Commit, Result, Publishes, Others

LEMMA QuietAnswer ==
  ASSUME TypeOK, NEW p \in Handler, h[p].pc # "idle",
         NEW result \in Result, NEW id \in TxId \cup {None}, Answer(p, result, id),
         result = "ok" => \E x \in ledger : x.id = id /\ x.req = h[p].req,
         UNCHANGED <<store, acks>>
  PROVE  Quiet(p)
BY AnswerType DEF Quiet, Others

LEMMA QuietGoto ==
  ASSUME TypeOK, NEW p \in Handler, NEW pc \in {"read", "check", "insert"},
         Goto(p, pc), UNCHANGED <<store, acks>>
  PROVE  Quiet(p)
BY GotoType DEF Quiet, Others, Pc

LEMMA StepKinds ==
  ASSUME TypeOK, ReadsDone, RepliesHonoured, [Next]_vars
  PROVE  SomeKind
<1> USE DEF Result
<1>1. ASSUME NEW p \in Handler, NEW r \in Request, Receive(p, r)
      PROVE  Quiet(p)
  BY <1>1 DEF Receive, Quiet, Others, TypeOK, HandlerType
<1>2. ASSUME NEW p \in Handler, Lookup(p)
      PROVE  Quiet(p)
  <2>1. CASE \/ Answer(p, "idempotency_conflict", None) \/ Answer(p, "not_found", None)
    BY <1>2, <2>1, QuietAnswer DEF Lookup
  <2>2. CASE Goto(p, "read")
    BY <1>2, <2>2, QuietGoto DEF Lookup
  <2>3. ASSUME NEW x \in ledger, x.req = h[p].req, Answer(p, "ok", x.id)
        PROVE  Quiet(p)
    <3>1. x.id \in TxId
      BY DEF TypeOK, Row
    <3>2. QED
      BY <1>2, <2>3, <3>1, QuietAnswer DEF Lookup
  <2>4. QED
    BY <1>2, <2>1, <2>2, <2>3 DEF Lookup
<1>3. ASSUME NEW p \in Handler, ReadAccount(p) \/ ReadOriginal(p) \/ Fail(p)
      PROVE  Quiet(p)
  <2>1. /\ h[p].pc # "idle" /\ UNCHANGED <<store, acks>>
        /\ \/ \E result \in {"not_found", "conflict", "error"} : Answer(p, result, None)
           \/ Goto(p, "check") \/ Goto(p, "insert")
    BY <1>3 DEF ReadAccount, ReadOriginal, Fail
  <2>2. QED
    BY <2>1, QuietAnswer, QuietGoto
<1>4. ASSUME NEW p \in Handler, Check(p)
      PROVE  Quiet(p)
  <2>1. Refusal(h[p].req) \in (Result \ {"ok"}) \cup {None}
    BY DEF Refusal
  <2>2. QED
    BY <1>4, <2>1, QuietAnswer, QuietGoto DEF Check
<1>5. ASSUME NEW p \in Handler, Reply(p) \/ LoseReply(p)
      PROVE  Quiet(p)
  <2>1. UNCHANGED store /\ Others(p) /\ h'[p].pc = "idle"
    BY <1>5 DEF Reply, LoseReply, TypeOK, Others, Idle
  <2>2. CASE UNCHANGED acks
    BY <2>1, <2>2 DEF Quiet
  <2>3. CASE /\ h[p].pc = "reply" /\ h[p].result = "ok"
             /\ acks' = acks \cup {[req |-> h[p].req, id |-> h[p].id]}
    <3>1. PICK x \in ledger : x.id = h[p].id /\ x.req = h[p].req
      BY <2>3 DEF RepliesHonoured
    <3>2. QED
      BY <2>1, <2>3, <3>1 DEF Quiet
  <2>4. QED
    BY <1>5, <2>2, <2>3 DEF Reply, LoseReply
<1>6. ASSUME \/ UNCHANGED vars
             \/ \E a \in Account : ArchiveAccount(a)
             \/ \E c \in Category : ArchiveCategory(c)
             \/ Tick
      PROVE  UNCHANGED <<store, h, acks>>
  BY <1>6 DEF vars, ArchiveAccount, ArchiveCategory, Tick
<1>7. ASSUME NEW p \in Handler, Insert(p)
      PROVE  Quiet(p) \/ \E row \in Row : InsertsRow(p, row)
  BY <1>7, InsertKind
<1>8. ASSUME NEW p \in Handler, LinkReversal(p) \/ AddOccurrence(p) \/ AddContribution(p)
      PROVE  Quiet(p) \/ WritesSecond(p)
  BY <1>8, SecondKind
<1>9. ASSUME NEW p \in Handler, NEW result \in {"ok", "error"}, Commit(p, result)
      PROVE  Publishes(p)
  BY <1>9, CommitKind
<1>10. CASE UNCHANGED <<store, h, acks>>
  BY <1>10 DEF SomeKind
<1>11. CASE \E p \in Handler :
              \/ \E r \in Request : Receive(p, r)
              \/ Work(p) \/ Commit(p, "error") \/ Fail(p)
              \/ Reply(p) \/ LoseReply(p)
  <2>1. PICK p \in Handler :
              \/ \E r \in Request : Receive(p, r)
              \/ Work(p) \/ Commit(p, "error") \/ Fail(p)
              \/ Reply(p) \/ LoseReply(p)
    BY <1>11
  <2>2. \/ Quiet(p) \/ WritesSecond(p) \/ Publishes(p)
        \/ \E row \in Row : InsertsRow(p, row)
    BY <2>1, <1>1, <1>2, <1>3, <1>4, <1>5, <1>7, <1>8, <1>9 DEF Work
  <2>3. QED
    BY <2>2 DEF SomeKind
<1>12. QED
  BY <1>6, <1>10, <1>11 DEF Next

-----------------------------------------------------------------------------
(* One effect per key *)

LEMMA KeyStep ==
  ASSUME TypeOK, OneEffectPerKey, UncommittedRowsAreFresh, SomeKind
  PROVE  OneEffectPerKey' /\ UncommittedRowsAreFresh'
<1> USE DEF OneEffectPerKey, UncommittedRowsAreFresh, Open, store
<1>1. CASE UNCHANGED <<store, h, acks>>
  BY <1>1
<1>2. ASSUME NEW p \in Handler, Quiet(p)
      PROVE  OneEffectPerKey' /\ UncommittedRowsAreFresh'
  BY <1>2 DEF Quiet, Others
<1>3. ASSUME NEW p \in Handler, WritesSecond(p)
      PROVE  OneEffectPerKey' /\ UncommittedRowsAreFresh'
  BY <1>3 DEF WritesSecond, Others
<1>4. ASSUME NEW p \in Handler, NEW row \in Row, InsertsRow(p, row)
      PROVE  OneEffectPerKey' /\ UncommittedRowsAreFresh'
  BY <1>4 DEF InsertsRow, Others, SameKey
<1>5. ASSUME NEW p \in Handler, Publishes(p)
      PROVE  OneEffectPerKey' /\ UncommittedRowsAreFresh'
  <2>1. Open(p) /\ Others(p) /\ h'[p].pc = "reply"
        /\ ledger' = ledger \cup {h[p].row}
    BY <1>5 DEF Publishes, Commit
  <2>2. OneEffectPerKey'
    BY <2>1 DEF SameKey
  <2>3. UncommittedRowsAreFresh'
    BY <2>1 DEF Others, SameKey
  <2>4. QED
    BY <2>2, <2>3
<1>6. QED
  BY <1>1, <1>2, <1>3, <1>4, <1>5 DEF SomeKind

-----------------------------------------------------------------------------
(* Reversals *)

LEMMA ReversalStep ==
  ASSUME TypeOK, OneEffectPerKey, UncommittedRowsAreFresh,
         ReversalsPaired, UncommittedReversals, SomeKind
  PROVE  ReversalsPaired' /\ UncommittedReversals'
<1> USE DEF IsReversal, Open, Linked, store
<1>1. CASE UNCHANGED <<store, h, acks>>
  BY <1>1 DEF ReversalsPaired, UncommittedReversals
<1>2. ASSUME NEW p \in Handler, Quiet(p)
      PROVE  ReversalsPaired' /\ UncommittedReversals'
  BY <1>2 DEF Quiet, Others, ReversalsPaired, UncommittedReversals
<1>3. ASSUME NEW p \in Handler, WritesSecond(p)
      PROVE  ReversalsPaired' /\ UncommittedReversals'
  <2> DEFINE r == h[p].req
  <2>1. /\ UNCHANGED store /\ Others(p) /\ h[p].pc = "link" /\ h'[p].pc = "commit"
        /\ h'[p].row = h[p].row /\ h'[p].req = r
    BY <1>3 DEF WritesSecond
  <2>2. ReversalsPaired'
    BY <2>1 DEF ReversalsPaired
  <2>3. CASE r.op # "reverse"
    <3>1. UncommittedReversals'
      BY <2>1, <2>3 DEF UncommittedReversals, Others
    <3>2. QED
      BY <2>2, <3>1
  <2>4. CASE r.op = "reverse"
    <3>1. PICK o \in ledger : /\ o.id = r.target /\ h[p].row.amount = o.amount
                              /\ h[p].row.entries = Flip(o.entries)
      BY <2>1, <2>4 DEF UncommittedReversals
    <3>2. ~IsReversal(o) /\ reversedBy[o.id] = None
      BY <1>3, <2>4, <3>1 DEF WritesSecond, OneEffectPerKey
    <3>3. \A q \in Handler \ {p} : Linked(q) /\ h[q].req.op = "reverse" =>
            h[q].req.target # r.target
      BY <1>3, <2>4 DEF WritesSecond
    <3>4. h[p].row.reverses = r.target
      BY <2>1, <2>4 DEF UncommittedReversals
    <3>5. UncommittedReversals'
      BY <2>1, <3>1, <3>2, <3>3, <3>4 DEF UncommittedReversals, Others
    <3>6. QED
      BY <2>2, <3>5
  <2>5. QED
    BY <2>3, <2>4
<1>4. ASSUME NEW p \in Handler, NEW row \in Row, InsertsRow(p, row)
      PROVE  ReversalsPaired' /\ UncommittedReversals'
  BY <1>4 DEF InsertsRow, Others, PairedOps, ReversalsPaired, UncommittedReversals
<1>5. ASSUME NEW p \in Handler, Publishes(p)
      PROVE  ReversalsPaired' /\ UncommittedReversals'
  <2> DEFINE r == h[p].req
             row == h[p].row
  <2>1. /\ Open(p) /\ h[p].pc = "commit" /\ Others(p) /\ h'[p].pc = "reply"
        /\ ledger' = ledger \cup {row} /\ row \in Row /\ row.req = r
        /\ reversedBy' = IF r.op = "reverse" THEN [reversedBy EXCEPT ![r.target] = row.id]
                                             ELSE reversedBy
    BY <1>5 DEF Publishes, Commit, UncommittedRowsAreFresh
  <2>2. CASE r.op # "reverse"
    <3>1. ReversalsPaired'
      BY <2>1, <2>2 DEF ReversalsPaired
    <3>2. UncommittedReversals'
      BY <2>1, <2>2 DEF UncommittedReversals, Others
    <3>3. QED
      BY <3>1, <3>2
  <2>3. CASE r.op = "reverse"
    <3>1. PICK o \in ledger : /\ o.id = r.target /\ row.amount = o.amount
                              /\ row.entries = Flip(o.entries)
                              /\ ~IsReversal(o) /\ reversedBy[o.id] = None
      BY <2>1, <2>3 DEF UncommittedReversals
    <3>2. row.reverses = o.id /\ o.id \in TxId /\ row.id \in TxId
      BY <2>1, <2>3, <3>1 DEF UncommittedReversals, TypeOK, Row
    <3>3. reversedBy' = [reversedBy EXCEPT ![o.id] = row.id]
      BY <2>1, <2>3, <3>1
    <3>4. \A t \in TxId : reversedBy'[t] = IF t = o.id THEN row.id ELSE reversedBy[t]
      BY <3>2, <3>3 DEF TypeOK
    <3>5. \A x \in ledger : x.id \in TxId
      BY DEF TypeOK, Row
    <3>6. ASSUME NEW x \in ledger', IsReversal(x)
          PROVE  \E y \in ledger' : /\ y.id = x.reverses /\ ~IsReversal(y)
                                    /\ reversedBy'[y.id] = x.id
                                    /\ x.amount = y.amount /\ x.entries = Flip(y.entries)
      <4>1. CASE x = row
        BY <2>1, <3>1, <3>2, <3>4, <4>1
      <4>2. CASE x \in ledger
        <5>1. PICK y \in ledger : /\ y.id = x.reverses /\ ~IsReversal(y)
                                  /\ reversedBy[y.id] = x.id
                                  /\ x.amount = y.amount /\ x.entries = Flip(y.entries)
          BY <3>6, <4>2 DEF ReversalsPaired
        <5>2. y.id # o.id
          BY <3>1, <3>5, <4>2, <5>1, LedgerAssumption
        <5>3. QED
          BY <2>1, <3>4, <3>5, <5>1, <5>2
      <4>3. QED
        BY <2>1, <4>1, <4>2
    <3>7. \A t \in TxId : reversedBy'[t] # None =>
            \E x \in ledger' : x.id = reversedBy'[t] /\ x.reverses = t
      BY <2>1, <3>2, <3>4 DEF ReversalsPaired
    <3>8. ReversalsPaired'
      BY <3>6, <3>7 DEF ReversalsPaired
    <3>9. ASSUME NEW q \in Handler, Open(q)', h'[q].req.op = "reverse"
          PROVE  /\ h'[q].row.reverses = h'[q].req.target
                 /\ \E y \in ledger' : /\ y.id = h'[q].req.target
                                       /\ h'[q].row.amount = y.amount
                                       /\ h'[q].row.entries = Flip(y.entries)
                                       /\ Linked(q)' => ~IsReversal(y) /\ reversedBy'[y.id] = None
                 /\ Linked(q)' => \A s \in Handler \ {q} :
                      Linked(s)' /\ h'[s].req.op = "reverse" =>
                        h'[s].req.target # h'[q].req.target
      <4>1. q # p /\ h'[q] = h[q]
        BY <2>1, <3>9 DEF Others
      <4>2. Linked(q) => h[q].req.target # o.id
        BY <2>1, <2>3, <3>1, <3>9, <4>1 DEF UncommittedReversals
      <4>3. PICK y \in ledger : /\ y.id = h[q].req.target
                                /\ h[q].row.amount = y.amount
                                /\ h[q].row.entries = Flip(y.entries)
                                /\ Linked(q) => ~IsReversal(y) /\ reversedBy[y.id] = None
        BY <3>9, <4>1 DEF UncommittedReversals
      <4>4. Linked(q) => reversedBy'[y.id] = None
        BY <3>4, <3>5, <4>2, <4>3
      <4>5. h[q].row.reverses = h[q].req.target
        BY <3>9, <4>1 DEF UncommittedReversals
      <4>6. ASSUME Linked(q), NEW s \in Handler \ {q}, Linked(s)', h'[s].req.op = "reverse"
            PROVE  h'[s].req.target # h[q].req.target
        BY <2>1, <3>9, <4>1, <4>6 DEF UncommittedReversals, Others
      <4>7. QED
        BY <2>1, <4>1, <4>3, <4>4, <4>5, <4>6
    <3>10. UncommittedReversals'
      BY <3>9 DEF UncommittedReversals
    <3>11. QED
      BY <3>8, <3>10
  <2>4. QED
    BY <2>2, <2>3
<1>6. QED
  BY <1>1, <1>2, <1>3, <1>4, <1>5 DEF SomeKind

-----------------------------------------------------------------------------
(* Occurrences and contributions *)

LEMMA RecordStep ==
  ASSUME TypeOK, UncommittedRowsAreFresh, RecordsMatchRows, UncommittedRecords, SomeKind
  PROVE  RecordsMatchRows' /\ UncommittedRecords'
<1> USE DEF Open, Linked, store
<1>1. CASE UNCHANGED <<store, h, acks>>
  BY <1>1 DEF RecordsMatchRows, HasRecord, UncommittedRecords
<1>2. ASSUME NEW p \in Handler, Quiet(p)
      PROVE  RecordsMatchRows' /\ UncommittedRecords'
  BY <1>2 DEF Quiet, Others, RecordsMatchRows, HasRecord, UncommittedRecords
<1>3. ASSUME NEW p \in Handler, WritesSecond(p)
      PROVE  RecordsMatchRows' /\ UncommittedRecords'
  <2>1. RecordsMatchRows'
    BY <1>3 DEF WritesSecond, RecordsMatchRows, HasRecord
  <2>2. UncommittedRecords'
    BY <1>3 DEF WritesSecond, Others, UncommittedRecords, SamePeriod
  <2>3. QED
    BY <2>1, <2>2
<1>4. ASSUME NEW p \in Handler, NEW row \in Row, InsertsRow(p, row)
      PROVE  RecordsMatchRows' /\ UncommittedRecords'
  <2>1. RecordsMatchRows'
    BY <1>4 DEF InsertsRow, RecordsMatchRows, HasRecord
  <2>2. UncommittedRecords'
    BY <1>4 DEF InsertsRow, Others, PairedOps, AmountOf, UncommittedRecords
  <2>3. QED
    BY <2>1, <2>2
<1>5. ASSUME NEW p \in Handler, Publishes(p)
      PROVE  RecordsMatchRows' /\ UncommittedRecords'
  <2> DEFINE r == h[p].req
             row == h[p].row
             paid == [bill |-> r.bill, due |-> r.due, tx |-> row.id]
             saved == [goal |-> r.goal, amount |-> r.amount, tx |-> row.id]
  <2>1. /\ Open(p) /\ Linked(p) /\ Others(p) /\ h'[p].pc = "reply"
        /\ ledger' = ledger \cup {row} /\ row.req = r
        /\ occurrences' = IF r.op = "pay" THEN occurrences \cup {paid} ELSE occurrences
        /\ contributions' = IF r.op = "contribute" THEN contributions \cup {saved}
                                                   ELSE contributions
    BY <1>5 DEF Publishes, Commit, UncommittedRowsAreFresh
  <2>2. \A x, y \in occurrences' : SamePeriod(x, y) => x = y
    BY <2>1 DEF RecordsMatchRows, UncommittedRecords, SamePeriod
  <2>3. \A y \in occurrences' : \E x \in ledger' :
          x.id = y.tx /\ x.req.op = "pay" /\ SamePeriod(x.req, y)
    BY <2>1 DEF RecordsMatchRows, SamePeriod
  <2>4. r.op = "contribute" => row.amount = r.amount
    BY <2>1 DEF UncommittedRecords
  <2>5. \A y \in contributions' : \E x \in ledger' :
          x.id = y.tx /\ x.req.op = "contribute" /\ x.amount = y.amount
    BY <2>1, <2>4 DEF RecordsMatchRows
  <2>6. \A x \in ledger' : /\ x.req.op = "pay" => \E y \in occurrences' : y.tx = x.id
                           /\ x.req.op = "contribute" => \E y \in contributions' : y.tx = x.id
    <3>1. \A x \in ledger : /\ x.req.op = "pay" => \E y \in occurrences : y.tx = x.id
                            /\ x.req.op = "contribute" => \E y \in contributions : y.tx = x.id
      BY DEF RecordsMatchRows, HasRecord
    <3>2. paid.tx = row.id /\ saved.tx = row.id
      OBVIOUS
    <3>3. QED
      BY <2>1, <3>1, <3>2
  <2>7. RecordsMatchRows'
    <3>1. (\A x \in ledger : HasRecord(x))'
      BY <2>6 DEF HasRecord
    <3>2. QED
      BY <2>2, <2>3, <2>5, <3>1 DEF RecordsMatchRows
  <2>8. UncommittedRecords'
    <3>1. ASSUME NEW q \in Handler, Linked(q)', h'[q].req.op = "pay", NEW y \in occurrences'
          PROVE  ~SamePeriod(y, h'[q].req)
      <4>1. q # p /\ h'[q] = h[q]
        BY <2>1, <3>1 DEF Others
      <4>2. CASE y \in occurrences
        BY <3>1, <4>1, <4>2 DEF UncommittedRecords
      <4>3. CASE r.op = "pay" /\ y = paid
        <5>1. ~SamePeriod(h[q].req, r)
          BY <2>1, <3>1, <4>1, <4>3 DEF UncommittedRecords
        <5>2. QED
          BY <4>1, <4>3, <5>1 DEF SamePeriod
      <4>4. QED
        BY <2>1, <4>2, <4>3
    <3>2. QED
      BY <2>1, <3>1 DEF UncommittedRecords, Others
  <2>9. QED
    BY <2>7, <2>8
<1>6. QED
  BY <1>1, <1>2, <1>3, <1>4, <1>5 DEF SomeKind

-----------------------------------------------------------------------------
(* Answers *)

LEMMA AckStep ==
  ASSUME TypeOK, UncommittedRowsAreFresh, AcksHonoured, RepliesHonoured, SomeKind
  PROVE  AcksHonoured' /\ RepliesHonoured'
<1> USE DEF store
<1>1. CASE UNCHANGED <<store, h, acks>>
  BY <1>1 DEF AcksHonoured, RepliesHonoured
<1>2. ASSUME NEW p \in Handler, Quiet(p)
      PROVE  AcksHonoured' /\ RepliesHonoured'
  <2>1. AcksHonoured'
    BY <1>2 DEF Quiet, AcksHonoured
  <2>2. RepliesHonoured'
    BY <1>2 DEF Quiet, Others, RepliesHonoured
  <2>3. QED
    BY <2>1, <2>2
<1>3. ASSUME NEW p \in Handler, WritesSecond(p)
      PROVE  AcksHonoured' /\ RepliesHonoured'
  BY <1>3 DEF WritesSecond, Others, AcksHonoured, RepliesHonoured
<1>4. ASSUME NEW p \in Handler, NEW row \in Row, InsertsRow(p, row)
      PROVE  AcksHonoured' /\ RepliesHonoured'
  BY <1>4 DEF InsertsRow, Others, AcksHonoured, RepliesHonoured
<1>5. ASSUME NEW p \in Handler, Publishes(p)
      PROVE  AcksHonoured' /\ RepliesHonoured'
  <2>1. /\ UNCHANGED acks /\ Others(p) /\ ledger' = ledger \cup {h[p].row}
        /\ h[p].row.req = h[p].req /\ h'[p].req = h[p].req
        /\ h'[p].result = "ok" => h'[p].id = h[p].row.id
    BY <1>5 DEF Publishes, Commit, UncommittedRowsAreFresh, Open
  <2>2. QED
    BY <2>1 DEF AcksHonoured, RepliesHonoured, Others
<1>6. QED
  BY <1>1, <1>2, <1>3, <1>4, <1>5 DEF SomeKind

-----------------------------------------------------------------------------
(* The inductive invariant and what follows from it *)

LEMMA IInvInit == Init => IInv
<1> SUFFICES ASSUME Init PROVE IInv
  OBVIOUS
<1>1. TypeOK /\ ReadsDone
  BY LedgerAssumption
     DEF Init, TypeOK, ReadsDone, Open, Idle, HandlerType, Pc, Time
<1>2. QED
  BY <1>1 DEF Init, Idle, IInv, OneEffectPerKey, UncommittedRowsAreFresh, ReversalsPaired,
     UncommittedReversals, RecordsMatchRows, UncommittedRecords, AcksHonoured,
     RepliesHonoured, Open, Linked

LEMMA IInvStep == IInv /\ [Next]_vars => IInv'
<1> SUFFICES ASSUME IInv, [Next]_vars PROVE IInv'
  OBVIOUS
<1> USE DEF IInv
<1>1. TypeOK' /\ ReadsDone'
  BY TypeStep
<1>2. SomeKind
  BY StepKinds
<1>3. OneEffectPerKey' /\ UncommittedRowsAreFresh'
  BY <1>2, KeyStep
<1>4. ReversalsPaired' /\ UncommittedReversals'
  BY <1>2, ReversalStep
<1>5. RecordsMatchRows' /\ UncommittedRecords'
  BY <1>2, RecordStep
<1>6. AcksHonoured' /\ RepliesHonoured'
  BY <1>2, AckStep
<1>7. QED
  BY <1>1, <1>3, <1>4, <1>5, <1>6

(* The inductive invariant holds throughout. *)
THEOREM Inductive == Spec => []IInv
BY IInvInit, IInvStep, PTL DEF Spec

(* However many handlers race and however often a request is repeated, an  *)
(* idempotency key has at most one row.                                    *)
THEOREM OneEffect == Spec => []OneEffectPerKey
<1>1. IInv => OneEffectPerKey
  BY DEF IInv
<1>2. QED
  BY <1>1, Inductive, PTL

(* A transaction is reversed at most once, a reversal never, and the pair  *)
(* cancels entry by entry.                                                 *)
THEOREM Paired == Spec => []ReversalsPaired
<1>1. IInv => ReversalsPaired
  BY DEF IInv
<1>2. QED
  BY <1>1, Inductive, PTL

(* Postings and their occurrences or contributions come together, and a    *)
(* bill period is paid at most once.                                       *)
THEOREM RecordsAndRows == Spec => []RecordsMatchRows
<1>1. IInv => RecordsMatchRows
  BY DEF IInv
<1>2. QED
  BY <1>1, Inductive, PTL

(* What a client was told stays true. *)
THEOREM Honoured == Spec => []AcksHonoured
<1>1. IInv => AcksHonoured
  BY DEF IInv
<1>2. QED
  BY <1>1, Inductive, PTL

-----------------------------------------------------------------------------
(* Rows are posted for requests that passed every check *)

(* A missing occurred_at is filled in; nothing else changes. *)
LEMMA ResolveKeeps ==
  ASSUME NEW r \in Request, NEW t
  PROVE  /\ ValidInput(Resolve(r, t)) <=> ValidInput(r)
         /\ Resolve(r, t).op = r.op /\ Resolve(r, t).category = r.category
<1>1. r \in RequestType
  BY LedgerAssumption
<1>2. LET e == [r EXCEPT !.occ = t] IN
        /\ e.op = r.op /\ e.key = r.key /\ e.amount = r.amount /\ e.account = r.account
        /\ e.target = r.target /\ e.reason = r.reason /\ e.bill = r.bill /\ e.due = r.due
        /\ e.goal = r.goal /\ e.category = r.category
  BY <1>1 DEF RequestType
<1>3. QED
  BY <1>2 DEF Resolve, ValidInput

(* The endpoints of a second write take no category. *)
LEMMA PairedCategory ==
  ASSUME NEW r \in Payload, r.op \in PairedOps
  PROVE  r.category = None
<1>1. PICK s \in Request, t \in Time : r = Resolve(s, t)
  BY DEF Payload
<1>2. QED
  BY <1>1, ResolveKeeps, LedgerAssumption

(* What Check lets pass. *)
LEMMA CheckPasses ==
  ASSUME NEW r \in RequestType, r.op \in CreateOps, SourceOf(r) \in Account, Refusal(r) = None
  PROVE  FollowsItsType(r)
<1>1. r.account \in Account
  BY DEF SourceOf, CreateOps
<1>2. None \notin {"invalid", "not_found", "same_account", "conflict"}
  BY LedgerAssumption DEF Result
<1>3. CASE r.op \in {"income", "expense"}
  BY <1>2, <1>3 DEF Refusal, FollowsItsType
<1>4. CASE r.op = "transfer"
  BY <1>1, <1>2, <1>4 DEF Refusal, FollowsItsType
<1>5. CASE r.op = "adjustment"
  BY <1>2, <1>5 DEF Refusal, FollowsItsType
<1>6. CASE r.op = "reversal"
  BY <1>2, <1>6 DEF Refusal
<1>7. QED
  BY <1>3, <1>4, <1>5, <1>6 DEF CreateOps

(* A step that answers, or goes on where the request has been checked. *)
LEMMA RowsKept ==
  ASSUME RowsArePosted, NEW p \in Handler, Others(p), UNCHANGED ledger,
         h'[p].pc \notin {"link", "commit"},
         h'[p].pc \notin {"idle", "reply"} => ValidInput(h'[p].req),
         h'[p].pc = "insert" /\ h'[p].req.op \in CreateOps => FollowsItsType(h'[p].req)
  PROVE  RowsArePosted'
<1>1. \A x \in ledger : PostedFor(x)
  BY DEF RowsArePosted
<1>2. ASSUME NEW q \in Handler
      PROVE  /\ h'[q].pc \notin {"idle", "reply"} => ValidInput(h'[q].req)
             /\ h'[q].pc = "insert" /\ h'[q].req.op \in CreateOps => FollowsItsType(h'[q].req)
             /\ h'[q].pc \in {"link", "commit"} => PostedFor(h'[q].row)
  <2>1. CASE q = p
    BY <2>1
  <2>2. CASE q # p
    BY <2>2 DEF RowsArePosted, Others, Open
  <2>3. QED
    BY <2>1, <2>2
<1>3. QED
  BY <1>1, <1>2 DEF RowsArePosted, Open, ValidInput, FollowsItsType, PostedFor, IsReversal,
                    EntriesOf, SourceOf

LEMMA RowsInsert ==
  ASSUME IInv, RowsArePosted, NEW p \in Handler, NEW row \in Row, InsertsRow(p, row)
  PROVE  RowsArePosted'
<1> DEFINE r == h[p].req
<1>1. /\ r \in Payload /\ r \in RequestType /\ ValidInput(r)
      /\ r.op \in CreateOps => FollowsItsType(r)
  BY PayloadType DEF InsertsRow, IInv, TypeOK, RowsArePosted
<1>2. r.op # "reverse" => SourceOf(r) \in Account /\ (r.op = "pay" => r.bill \in Bill)
  BY DEF InsertsRow, IInv, ReadsDone
<1>3. row.req = r /\ Others(p) /\ UNCHANGED ledger /\ h'[p].req = r /\ h'[p].row = row
      /\ h'[p].pc \in {"link", "commit"}
  BY DEF InsertsRow, store
<1>4. PostedFor(row)
  <2>1. r.category \in Category \cup {None}
    BY <1>1, PairedCategory DEF InsertsRow, RequestType
  <2>2. row.amount > 0
    <3>1. CASE r.op = "reverse"
      BY <3>1 DEF InsertsRow, RowsArePosted, PostedFor
    <3>2. CASE r.op = "pay"
      <4>1. BillRow[r.bill].amount > 0
        BY <1>2, <3>2, LedgerAssumption
      <4>2. QED
        BY <3>2, <4>1 DEF InsertsRow, AmountOf
    <3>3. CASE r.op \in TimedOps
      <4>1. r.amount > 0 /\ r.op \notin {"reverse", "pay"}
        BY <1>1, <3>3 DEF ValidInput, TimedOps, CreateOps
      <4>2. QED
        BY <4>1 DEF InsertsRow, AmountOf
    <3>4. QED
      BY <1>1, <3>1, <3>2, <3>3 DEF RequestType, TimedOps, PairedOps
  <2>3. QED
    BY <1>1, <1>3, <2>1, <2>2 DEF PostedFor, IsReversal, InsertsRow
<1>5. \A x \in ledger : PostedFor(x)
  BY DEF RowsArePosted
<1>6. ASSUME NEW q \in Handler
      PROVE  /\ h'[q].pc \notin {"idle", "reply"} => ValidInput(h'[q].req)
             /\ h'[q].pc = "insert" /\ h'[q].req.op \in CreateOps => FollowsItsType(h'[q].req)
             /\ h'[q].pc \in {"link", "commit"} => PostedFor(h'[q].row)
  <2>1. CASE q = p
    BY <1>1, <1>3, <1>4, <2>1
  <2>2. CASE q # p
    BY <1>3, <2>2 DEF RowsArePosted, Others, Open
  <2>3. QED
    BY <2>1, <2>2
<1>7. QED
  BY <1>3, <1>5, <1>6 DEF RowsArePosted, Open, ValidInput, FollowsItsType, PostedFor,
                          IsReversal, EntriesOf, SourceOf

LEMMA RowsWrite ==
  ASSUME IInv, RowsArePosted, NEW p \in Handler, WritesSecond(p) \/ Publishes(p)
  PROVE  RowsArePosted'
<1>1. /\ Others(p) /\ h'[p].req = h[p].req
      /\ \/ UNCHANGED ledger /\ h[p].pc = "link" /\ h'[p].pc = "commit" /\ h'[p].row = h[p].row
         \/ ledger' = ledger \cup {h[p].row} /\ h[p].pc = "commit" /\ h'[p].pc = "reply"
  BY DEF WritesSecond, Publishes, Commit, store
<1>2. PostedFor(h[p].row) /\ ValidInput(h[p].req)
  BY <1>1 DEF RowsArePosted, Open
<1>3. \A x \in ledger' : PostedFor(x)
  BY <1>1, <1>2 DEF RowsArePosted
<1>4. ASSUME NEW q \in Handler
      PROVE  /\ h'[q].pc \notin {"idle", "reply"} => ValidInput(h'[q].req)
             /\ h'[q].pc = "insert" /\ h'[q].req.op \in CreateOps => FollowsItsType(h'[q].req)
             /\ h'[q].pc \in {"link", "commit"} => PostedFor(h'[q].row)
  <2>1. CASE q = p
    BY <1>1, <1>2, <2>1
  <2>2. CASE q # p
    BY <1>1, <2>2 DEF RowsArePosted, Others, Open
  <2>3. QED
    BY <2>1, <2>2
<1>5. QED
  BY <1>3, <1>4 DEF RowsArePosted, Open, ValidInput, FollowsItsType, PostedFor, IsReversal,
                    EntriesOf, SourceOf

LEMMA RowsStep ==
  ASSUME IInv, RowsArePosted, [Next]_vars
  PROVE  RowsArePosted'
<1> USE DEF IInv
<1>1. CASE UNCHANGED <<ledger, h>>
  BY <1>1 DEF RowsArePosted, Open, ValidInput, FollowsItsType, PostedFor, IsReversal,
              EntriesOf, SourceOf
<1>2. ASSUME NEW p \in Handler, NEW r \in Request, Receive(p, r)
      PROVE  RowsArePosted'
  <2>1. /\ Others(p) /\ UNCHANGED ledger /\ h'[p].req = Resolve(r, now)
        /\ h'[p].pc = IF ValidInput(r) THEN "lookup" ELSE "reply"
    BY <1>2 DEF Receive, Others, TypeOK, store
  <2>2. QED
    BY <2>1, ResolveKeeps, RowsKept
<1>3. ASSUME NEW p \in Handler, NEW result \in Result, NEW id \in TxId \cup {None},
             h[p].pc # "idle", Answer(p, result, id), UNCHANGED ledger
      PROVE  RowsArePosted'
  BY <1>3, AnswerType, RowsKept DEF Others
<1>4. ASSUME NEW p \in Handler, NEW pc \in {"read", "check", "insert"}, Goto(p, pc),
             h[p].pc \notin {"idle", "reply"}, UNCHANGED ledger,
             pc = "insert" /\ h[p].req.op \in CreateOps => FollowsItsType(h[p].req)
      PROVE  RowsArePosted'
  <2>1. Others(p) /\ h'[p].pc = pc /\ h'[p].req = h[p].req
    BY <1>4, GotoType DEF Others, Pc
  <2>2. ValidInput(h[p].req)
    BY <1>4 DEF RowsArePosted
  <2>3. QED
    BY <1>4, <2>1, <2>2, RowsKept
<1>5. ASSUME NEW p \in Handler, Lookup(p)
      PROVE  RowsArePosted'
  <2>1. \A x \in ledger : x.id \in TxId
    BY DEF TypeOK, Row
  <2>2. QED
    BY <1>3, <1>4, <1>5, <2>1 DEF Lookup, store, Result
<1>6. ASSUME NEW p \in Handler, ReadAccount(p) \/ ReadOriginal(p) \/ Fail(p)
      PROVE  RowsArePosted'
  <2>1. /\ h[p].pc \notin {"idle", "reply"} /\ UNCHANGED ledger
        /\ \/ \E result \in {"not_found", "conflict", "error"} : Answer(p, result, None)
           \/ Goto(p, "check")
           \/ Goto(p, "insert") /\ h[p].req.op \notin CreateOps
    BY <1>6 DEF ReadAccount, ReadOriginal, Fail, store, CreateOps
  <2>2. QED
    BY <1>3, <1>4, <2>1 DEF Result
<1>7. ASSUME NEW p \in Handler, Check(p)
      PROVE  RowsArePosted'
  <2>1. Refusal(h[p].req) \in Result \cup {None} /\ UNCHANGED ledger
    BY <1>7 DEF Refusal, Result, Check, store
  <2>2. Refusal(h[p].req) = None => FollowsItsType(h[p].req)
    BY <1>7, PayloadType, CheckPasses DEF Check, TypeOK, ReadsDone, CreateOps
  <2>3. QED
    BY <1>3, <1>4, <1>7, <2>1, <2>2 DEF Check
<1>8. ASSUME NEW p \in Handler, Insert(p)
      PROVE  RowsArePosted'
  <2>1. CASE Answer(p, "conflict", None) \/ Answer(p, "invalid", None)
    BY <1>3, <1>8, <2>1 DEF Insert, Result, store
  <2>2. CASE \E row \in Row : InsertsRow(p, row)
    BY <2>2, RowsInsert
  <2>3. CASE ~(Answer(p, "conflict", None) \/ Answer(p, "invalid", None))
    <3>1. h'[p].pc \in {"link", "commit"}
      BY <1>8, <2>3 DEF Insert, TypeOK, HandlerType
    <3>2. QED
      BY <1>8, <2>2, <3>1, InsertKind DEF Quiet
  <2>4. QED
    BY <2>1, <2>3
<1>9. ASSUME NEW p \in Handler, LinkReversal(p) \/ AddOccurrence(p) \/ AddContribution(p)
      PROVE  RowsArePosted'
  <2>1. CASE WritesSecond(p)
    BY <2>1, RowsWrite
  <2>2. CASE Answer(p, "conflict", None)
    BY <1>3, <1>9, <2>2 DEF LinkReversal, AddOccurrence, AddContribution, Result, store
  <2>3. CASE Goto(p, "commit")
    <3>1. h'[p].pc = "commit"
      BY <2>3, GotoType DEF Pc
    <3>2. QED
      BY <1>9, <2>1, <3>1, SecondKind DEF Quiet
  <2>4. QED
    BY <1>9, <2>2, <2>3 DEF LinkReversal, AddOccurrence, AddContribution
<1>10. ASSUME NEW p \in Handler, Commit(p, "ok") \/ Commit(p, "error")
       PROVE  RowsArePosted'
  BY <1>10, CommitKind, RowsWrite
<1>11. ASSUME NEW p \in Handler, Reply(p) \/ LoseReply(p)
       PROVE  RowsArePosted'
  <2>1. Others(p) /\ h'[p].pc = "idle" /\ UNCHANGED ledger
    BY <1>11 DEF Reply, LoseReply, TypeOK, Others, Idle, store
  <2>2. QED
    BY <2>1, RowsKept
<1>12. CASE \/ \E a \in Account : ArchiveAccount(a)
            \/ \E c \in Category : ArchiveCategory(c)
            \/ Tick
  BY <1>1, <1>12 DEF ArchiveAccount, ArchiveCategory, Tick, store
<1>13. UNCHANGED vars => UNCHANGED <<ledger, h>>
  BY DEF vars, store
<1>14. QED
  BY <1>1, <1>2, <1>5, <1>6, <1>7, <1>8, <1>9, <1>10, <1>11, <1>12, <1>13 DEF Next, Work

-----------------------------------------------------------------------------
(* Balances *)

LEMMA EffectType ==
  ASSUME NEW x \in Row, NEW a
  PROVE  Effect(x, a) \in Int
BY DEF Effect, Row

(* A row and the one that offsets it add up to nothing on every account. *)
LEMMA FlipCancels ==
  ASSUME NEW x \in Row, NEW o \in Row, NEW a \in Account,
         x.amount = o.amount, x.entries = Flip(o.entries)
  PROVE  Effect(x, a) + Effect(o, a) = 0
<1> DEFINE credit == [account |-> a, direction |-> "credit"]
           debit == [account |-> a, direction |-> "debit"]
<1>1. o.entries \subseteq Entry /\ o.amount \in Int
  BY DEF Row
<1>2. credit \in Flip(o.entries) <=> debit \in o.entries
  <2>1. ASSUME NEW e \in o.entries,
               credit = [e EXCEPT !.direction = IF @ = "debit" THEN "credit" ELSE "debit"]
        PROVE  e = debit
    BY <1>1, <2>1 DEF Entry, Direction
  <2>2. [debit EXCEPT !.direction = IF @ = "debit" THEN "credit" ELSE "debit"] = credit
    OBVIOUS
  <2> HIDE DEF credit, debit
  <2>3. QED
    BY <2>1, <2>2 DEF Flip
<1>3. debit \in Flip(o.entries) <=> credit \in o.entries
  <2>1. ASSUME NEW e \in o.entries,
               debit = [e EXCEPT !.direction = IF @ = "debit" THEN "credit" ELSE "debit"]
        PROVE  e = credit
    BY <1>1, <2>1 DEF Entry, Direction
  <2>2. [credit EXCEPT !.direction = IF @ = "debit" THEN "credit" ELSE "debit"] = debit
    OBVIOUS
  <2> HIDE DEF credit, debit
  <2>3. QED
    BY <2>1, <2>2 DEF Flip
<1>4. QED
  BY <1>1, <1>2, <1>3 DEF Effect

(* A commit publishes one new row; it is in force, unless it is a reversal *)
(* and takes the row it offsets out of force.                              *)
LEMMA CommitLive ==
  ASSUME IInv, RowsArePosted, NEW p \in Handler, Publishes(p)
  PROVE  LET row == h[p].row IN
         /\ row \in Row /\ row \notin ledger /\ ledger' = ledger \cup {row}
         /\ \/ LiveRows' = LiveRows \cup {row}
            \/ \E o \in LiveRows : /\ LiveRows' = LiveRows \ {o}
                                   /\ row.amount = o.amount /\ row.entries = Flip(o.entries)
<1> DEFINE row == h[p].row
           r == h[p].req
<1> USE DEF IInv, Open, Linked, IsReversal
<1>1. /\ h[p].pc = "commit" /\ row \in Row /\ row.req = r /\ ledger' = ledger \cup {row}
      /\ row.id \in TxId /\ \A x \in ledger : x.id # row.id
      /\ reversedBy' = IF r.op = "reverse" THEN [reversedBy EXCEPT ![r.target] = row.id]
                                           ELSE reversedBy
  BY OpenRow DEF Publishes, Commit, UncommittedRowsAreFresh
<1>2. row \notin ledger
  BY <1>1
<1>3. reversedBy[row.id] = None
  <2> SUFFICES ASSUME reversedBy[row.id] # None
               PROVE  FALSE
    OBVIOUS
  <2>1. PICK x \in ledger : x.reverses = row.id
    BY <1>1 DEF ReversalsPaired
  <2>2. None \notin TxId
    BY LedgerAssumption
  <2>3. x.req.op = "reverse"
    BY <1>1, <2>1, <2>2 DEF RowsArePosted, PostedFor
  <2>4. QED
    BY <1>1, <2>1, <2>3 DEF ReversalsPaired
<1>4. CASE r.op # "reverse"
  <2>1. LiveRows' = LiveRows \cup {row}
    BY <1>1, <1>3, <1>4 DEF LiveRows
  <2>2. QED
    BY <1>1, <1>2, <2>1
<1>5. CASE r.op = "reverse"
  <2>1. PICK o \in ledger : /\ o.id = r.target /\ row.amount = o.amount
                            /\ row.entries = Flip(o.entries)
                            /\ o.req.op # "reverse" /\ reversedBy[o.id] = None
    BY <1>1, <1>5 DEF UncommittedReversals
  <2>2. row.id # None /\ o.id \in TxId
    BY <1>1, LedgerAssumption DEF TypeOK, Row
  <2>3. \A x \in ledger : x.id = o.id => x = o
    BY DEF OneEffectPerKey
  <2>4. \A x \in ledger : reversedBy'[x.id] = IF x = o THEN row.id ELSE reversedBy[x.id]
    <3>1. \A x \in ledger : x.id \in TxId
      BY DEF TypeOK, Row
    <3>2. QED
      BY <1>1, <1>5, <2>1, <2>2, <2>3, <3>1 DEF TypeOK
  <2>5. LiveRows' = LiveRows \ {o}
    BY <1>1, <1>5, <2>1, <2>2, <2>4 DEF LiveRows
  <2>6. o \in LiveRows
    BY <2>1 DEF LiveRows
  <2>7. QED
    BY <1>1, <1>2, <2>1, <2>5, <2>6
<1>6. QED
  BY <1>4, <1>5

LEMMA CancelCommit ==
  ASSUME IInv, RowsArePosted, ReversalsCancel, NEW p \in Handler, Publishes(p)
  PROVE  ReversalsCancel'
<1> DEFINE row == h[p].row
<1>1. /\ row \in Row /\ row \notin ledger /\ ledger' = ledger \cup {row}
      /\ \/ LiveRows' = LiveRows \cup {row}
         \/ \E o \in LiveRows : /\ LiveRows' = LiveRows \ {o}
                                /\ row.amount = o.amount /\ row.entries = Flip(o.entries)
  BY CommitLive
<1> HIDE DEF row
<1>2. IsFiniteSet(ledger) /\ ledger \subseteq Row /\ LiveRows \subseteq ledger
  BY DEF ReversalsCancel, IInv, TypeOK, LiveRows
<1>3. IsFiniteSet(ledger') /\ IsFiniteSet(LiveRows)
  BY <1>1, <1>2, FS_AddElement, FS_Subset
<1>4. ASSUME NEW a \in Account
      PROVE  SumFunctionOnSet(Effects(a)', ledger') = SumFunctionOnSet(Effects(a)', LiveRows')
  <2> DEFINE f == [x \in ledger' |-> Effect(x, a)]
  <2>1. /\ \A x \in ledger' : f[x] = Effect(x, a) /\ f[x] \in Int
        /\ \A x \in ledger : f[x] = Effects(a)[x]
    BY <1>1, <1>2, EffectType DEF Effects
  <2>2. Effects(a)' = f
    BY DEF Effects, Effect
  <2> HIDE DEF f
  <2>3. SumFunctionOnSet(f, ledger) = SumFunctionOnSet(Effects(a), ledger)
    BY <1>1, <1>2, <2>1, SumSame
  <2>4. SumFunctionOnSet(f, LiveRows) = SumFunctionOnSet(Effects(a), LiveRows)
    BY <1>1, <1>2, <1>3, <2>1, SumSame
  <2>5. SumFunctionOnSet(f, ledger) = SumFunctionOnSet(f, LiveRows)
    BY <2>3, <2>4 DEF ReversalsCancel
  <2>6. SumFunctionOnSet(f, ledger') = SumFunctionOnSet(f, ledger) + f[row]
    BY <1>1, <1>2, <2>1, SumAdd
  <2>7. CASE LiveRows' = LiveRows \cup {row}
    <3>1. SumFunctionOnSet(f, LiveRows \cup {row}) = SumFunctionOnSet(f, LiveRows) + f[row]
      BY <1>1, <1>2, <1>3, <2>1, SumAdd
    <3>2. QED
      BY <2>2, <2>5, <2>6, <2>7, <3>1
  <2>8. ASSUME NEW o \in LiveRows, LiveRows' = LiveRows \ {o},
               row.amount = o.amount, row.entries = Flip(o.entries)
        PROVE  SumFunctionOnSet(Effects(a)', ledger') = SumFunctionOnSet(Effects(a)', LiveRows')
    <3>1. SumFunctionOnSet(f, LiveRows) = f[o] + SumFunctionOnSet(f, LiveRows \ {o})
      BY <1>1, <1>2, <1>3, <2>1, SumRemove
    <3>2. f[row] + f[o] = 0 /\ f[row] \in Int /\ f[o] \in Int
      BY <1>1, <1>2, <2>1, <2>8, FlipCancels
    <3>3. SumFunctionOnSet(f, LiveRows \ {o}) \in Int
      <4>1. IsFiniteSet(LiveRows \ {o})
        BY <1>3, FS_Difference
      <4>2. QED
        BY <1>1, <1>2, <2>1, <4>1, SumInt
    <3>4. SumFunctionOnSet(f, ledger') = SumFunctionOnSet(f, LiveRows \ {o})
      BY <2>5, <2>6, <3>1, <3>2, <3>3
    <3>5. QED
      BY <2>2, <2>8, <3>4
  <2>9. QED
    BY <1>1, <2>7, <2>8
<1>5. QED
  BY <1>3, <1>4 DEF ReversalsCancel

LEMMA CancelStep ==
  ASSUME IInv, RowsArePosted, ReversalsCancel, SomeKind
  PROVE  ReversalsCancel'
<1>1. CASE UNCHANGED store
  <2>1. UNCHANGED <<ledger, LiveRows>> /\ \A a \in Account : Effects(a)' = Effects(a)
    BY <1>1 DEF store, LiveRows, IsReversal, Effects, Effect
  <2>2. QED
    BY <2>1 DEF ReversalsCancel
<1>2. QED
  BY <1>1, CancelCommit DEF SomeKind, Quiet, WritesSecond, InsertsRow

(* Rows of a transfer take from one account what they give another. *)
LEMMA TransferCancels ==
  ASSUME NEW x \in Row, PostedFor(x), x.req.op = "transfer"
  PROVE  SumFunctionOnSet([a \in Account |-> Effect(x, a)], Account) = 0
<1> DEFINE src == x.req.account
           dst == x.req.dest
           f == [a \in Account |-> Effect(x, a)]
<1>1. /\ src \in Account /\ dst \in Account /\ src # dst /\ x.amount \in Int
      /\ x.entries = EntriesOf(x.req)
  BY DEF PostedFor, FollowsItsType, CreateOps, IsReversal, Row
<1>2. x.entries = {[account |-> src, direction |-> "debit"], [account |-> dst, direction |-> "credit"]}
  BY <1>1 DEF EntriesOf, One
<1>3. ASSUME NEW a \in Account
      PROVE  f[a] = IF a = src THEN 0 - x.amount ELSE IF a = dst THEN x.amount ELSE 0
  <2>1. [account |-> a, direction |-> "credit"] \in x.entries <=> a = dst
    BY <1>2
  <2>2. [account |-> a, direction |-> "debit"] \in x.entries <=> a = src
    BY <1>2
  <2>3. QED
    BY <1>1, <2>1, <2>2 DEF Effect
<1> HIDE DEF src, dst, f
<1>4. IsFiniteSet(Account) /\ IsFiniteSet(Account \ {src})
      /\ IsFiniteSet((Account \ {src}) \ {dst})
  BY LedgerAssumption, FS_Difference
<1>5. \A a \in Account : f[a] \in Int
  BY <1>1, <1>3
<1>6. SumFunctionOnSet(f, Account) = f[src] + SumFunctionOnSet(f, Account \ {src})
  BY <1>1, <1>4, <1>5, SumRemove
<1>7. SumFunctionOnSet(f, Account \ {src})
        = f[dst] + SumFunctionOnSet(f, (Account \ {src}) \ {dst})
  BY <1>1, <1>4, <1>5, SumRemove
<1>8. SumFunctionOnSet(f, (Account \ {src}) \ {dst}) = 0
  BY <1>3, <1>4, SumZero
<1>9. f[src] = 0 - x.amount /\ f[dst] = x.amount
  BY <1>1, <1>3
<1>10. SumFunctionOnSet(f, Account) = 0
  BY <1>1, <1>6, <1>7, <1>8, <1>9
<1>11. QED
  BY <1>10 DEF f

(* The balances of all accounts, row by row. *)
LEMMA BalancesAddUp ==
  ASSUME IInv, RowsArePosted, ReversalsCancel
  PROVE  BalanceOfLiveRows
<1> DEFINE total == [x \in ledger |-> SumFunctionOnSet([a \in Account |-> Effect(x, a)], Account)]
           live == [a \in Account |-> SumFunctionOnSet(Effects(a), LiveRows)]
           balance == [a \in Account |-> Balance(a)]
           NotTransfers == {x \in LiveRows : x.req.op # "transfer"}
<1>1. /\ IsFiniteSet(Account) /\ InitialBalance \in [Account -> Int]
      /\ ledger \subseteq Row /\ LiveRows \subseteq ledger /\ IsFiniteSet(LiveRows)
  BY LedgerAssumption, FS_Subset DEF IInv, TypeOK, LiveRows, ReversalsCancel
<1>2. \A a \in Account :
        Balance(a) = InitialBalance[a] + SumFunctionOnSet(Effects(a), LiveRows)
  BY DEF ReversalsCancel, Balance
<1>3. \A a \in Account : live[a] \in Int
  <2> SUFFICES ASSUME NEW a \in Account
               PROVE  SumFunctionOnSet(Effects(a), LiveRows) \in Int
    OBVIOUS
  <2>1. \A x \in LiveRows : Effects(a)[x] \in Int
    BY <1>1, EffectType DEF Effects
  <2>2. QED
    BY <1>1, <2>1, SumInt
<1>4. SumFunctionOnSet(balance, Account)
        = SumFunctionOnSet(InitialBalance, Account) + SumFunctionOnSet(live, Account)
  <2>1. \A a \in Account : /\ InitialBalance[a] \in Int /\ live[a] \in Int
                           /\ balance[a] = InitialBalance[a] + live[a]
    BY <1>1, <1>2, <1>3
  <2> HIDE DEF balance, live
  <2>2. QED
    BY <1>1, <2>1, SumPlus
<1>5. \A x \in ledger : total[x] \in Int
  <2> SUFFICES ASSUME NEW x \in ledger
               PROVE  SumFunctionOnSet([a \in Account |-> Effect(x, a)], Account) \in Int
    OBVIOUS
  <2> DEFINE f == [a \in Account |-> Effect(x, a)]
  <2>1. \A a \in Account : f[a] \in Int
    BY <1>1, EffectType
  <2> HIDE DEF f
  <2>2. SumFunctionOnSet(f, Account) \in Int
    BY <1>1, <2>1, SumInt
  <2>3. QED
    BY <2>2 DEF f
<1>6. SumFunctionOnSet(live, Account) = SumFunctionOnSet(total, LiveRows)
  <2> DEFINE f == [x \in LiveRows |-> [a \in Account |-> Effect(x, a)]]
             column(a) == [x \in LiveRows |-> f[x][a]]
             row == [x \in LiveRows |-> SumFunctionOnSet(f[x], Account)]
  <2>1. \A x \in LiveRows : \A a \in Account : f[x][a] \in Int
    BY <1>1, EffectType
  <2>2. \A x \in LiveRows : row[x] = total[x]
    BY <1>1
  <2>3. ASSUME NEW a \in Account
        PROVE  SumFunctionOnSet(column(a), LiveRows) = live[a]
    <3>1. \A x \in LiveRows : column(a)[x] \in Int /\ column(a)[x] = Effects(a)[x]
      BY <1>1, <2>1 DEF Effects
    <3> HIDE DEF column
    <3>2. SumFunctionOnSet(column(a), LiveRows) = SumFunctionOnSet(Effects(a), LiveRows)
      BY <1>1, <3>1, SumSame
    <3>3. QED
      BY <3>2
  <2> HIDE DEF f
  <2>4. SumFunctionOnSet([a \in Account |-> SumFunctionOnSet(column(a), LiveRows)], Account)
          = SumFunctionOnSet(row, LiveRows)
    BY <1>1, <2>1, SumSwap
  <2>5. [a \in Account |-> SumFunctionOnSet(column(a), LiveRows)] = live
    BY <2>3
  <2>6. SumFunctionOnSet(row, LiveRows) = SumFunctionOnSet(total, LiveRows)
    <3>1. \A x \in LiveRows : row[x] = total[x] /\ row[x] \in Int
      BY <1>1, <1>5, <2>2
    <3> HIDE DEF row, total
    <3>2. QED
      BY <1>1, <3>1, SumSame
  <2>7. QED
    BY <2>4, <2>5, <2>6
<1>7. SumFunctionOnSet(total, LiveRows) = SumFunctionOnSet(total, NotTransfers)
  <2>1. \A x \in LiveRows \ NotTransfers : total[x] = 0
    BY <1>1, TransferCancels DEF RowsArePosted
  <2>2. \A x \in LiveRows : total[x] \in Int
    BY <1>1, <1>5
  <2> HIDE DEF total
  <2>3. QED
    BY <1>1, <2>1, <2>2, SumNeglect
<1>8. QED
  BY <1>2, <1>4, <1>6, <1>7 DEF BalanceOfLiveRows

(* Rows and balances along with the inductive invariant. *)
THEOREM RowsAndBalances == Spec => [](RowsArePosted /\ ReversalsCancel)
<1>1. Init => RowsArePosted /\ ReversalsCancel
  <2> SUFFICES ASSUME Init
               PROVE  RowsArePosted /\ ReversalsCancel
    OBVIOUS
  <2>1. RowsArePosted
    BY DEF Init, Idle, RowsArePosted, Open
  <2>2. ledger = {} /\ LiveRows = {} /\ IsFiniteSet(ledger)
    BY FS_EmptySet DEF Init, LiveRows
  <2>3. QED
    BY <2>1, <2>2 DEF ReversalsCancel
<1>2. IInv /\ RowsArePosted /\ ReversalsCancel /\ [Next]_vars
        => (RowsArePosted /\ ReversalsCancel)'
  BY RowsStep, CancelStep, StepKinds DEF IInv
<1>3. QED
  BY <1>1, <1>2, Inductive, PTL DEF Spec

(* Whatever is archived, refused, retried or reversed meanwhile, a posted  *)
(* row obeys the rules Create checks for its type (transactions.go:76-140):*)
(* the category is of its kind, a transfer moves one currency between two  *)
(* accounts, an adjustment has a direction, and every amount is positive.  *)
THEOREM RowsObey == Spec => []RowsFollowTheirType
<1>1. TypeOK /\ RowsArePosted => RowsFollowTheirType
  <2> SUFFICES ASSUME TypeOK, RowsArePosted, NEW x \in ledger
               PROVE  /\ x.req.op # "reversal" /\ x.amount > 0
                      /\ x.req.category \in Category \cup {None}
                      /\ \A e \in x.entries : e.account \in Account
                      /\ x.req.op \in {"income", "expense"} =>
                           x.req.category \in Category /\ KindOf[x.req.category] = x.req.op
                      /\ x.req.op = "transfer" =>
                           /\ Cardinality({e.account : e \in x.entries}) = 2
                           /\ \A e, f \in x.entries : CurrencyOf[e.account] = CurrencyOf[f.account]
                      /\ x.req.op = "adjustment" => x.req.reason # None
    BY DEF RowsFollowTheirType
  <2>1. PostedFor(x) /\ x \in Row
    BY DEF RowsArePosted, TypeOK
  <2>2. CASE x.req.op = "transfer"
    <3> DEFINE src == x.req.account
               dst == x.req.dest
    <3>1. /\ src # dst /\ CurrencyOf[src] = CurrencyOf[dst]
          /\ x.entries = {[account |-> src, direction |-> "debit"],
                          [account |-> dst, direction |-> "credit"]}
      BY <2>1, <2>2 DEF PostedFor, FollowsItsType, CreateOps, IsReversal, EntriesOf, One
    <3>2. {e.account : e \in x.entries} = {src, dst}
      BY <3>1
    <3>3. Cardinality({src, dst}) = 2
      <4>1. IsFiniteSet({src}) /\ Cardinality({src}) = 1 /\ dst \notin {src}
        BY <3>1, FS_Singleton
      <4>2. {src, dst} = {src} \cup {dst}
        OBVIOUS
      <4>3. QED
        BY <4>1, <4>2, FS_AddElement
    <3>4. \A e \in x.entries : CurrencyOf[e.account] = CurrencyOf[src]
      BY <3>1
    <3>5. QED
      BY <2>1, <2>2, <3>2, <3>3, <3>4 DEF PostedFor, Row, Entry
  <2>3. CASE x.req.op # "transfer"
    BY <2>1, <2>3 DEF PostedFor, FollowsItsType, CreateOps, Row, Entry
  <2>4. QED
    BY <2>2, <2>3
<1>2. IInv => TypeOK
  BY DEF IInv
<1>3. QED
  BY <1>1, <1>2, RowsAndBalances, Inductive, PTL

(* The balance AccountBalance sums from the entries is that of the         *)
(* transactions in force: a reversed one and its reversal add nothing to   *)
(* any account, and a transfer adds nothing to all of them together.       *)
THEOREM Balanced == Spec => []BalanceOfLiveRows
BY BalancesAddUp, RowsAndBalances, Inductive, PTL

-----------------------------------------------------------------------------
(* Refinement *)

(* A commit is the one step in which AtomicLedger posts the row. *)
LEMMA PublishImplements ==
  ASSUME IInv, NEW p \in Handler, Publishes(p)
  PROVE  Atomic!Next
<1> DEFINE r == h[p].req
           row == h[p].row
<1>1. /\ Open(p) /\ Linked(p) /\ row \in Row /\ row.req = r
      /\ UNCHANGED acks
      /\ ledger' = ledger \cup {row}
      /\ reversedBy' = IF r.op = "reverse" THEN [reversedBy EXCEPT ![r.target] = row.id]
                                           ELSE reversedBy
      /\ occurrences' = IF r.op = "pay"
                        THEN occurrences \cup {[bill |-> r.bill, due |-> r.due, tx |-> row.id]}
                        ELSE occurrences
      /\ contributions' = IF r.op = "contribute"
                          THEN contributions \cup
                                 {[goal |-> r.goal, amount |-> r.amount, tx |-> row.id]}
                          ELSE contributions
  BY DEF Publishes, Commit, Open, Linked, IInv, UncommittedRowsAreFresh
<1>2. Atomic!Add(row) /\ row \in ledger'
  BY <1>1 DEF IInv, UncommittedRowsAreFresh, Atomic!Add, Atomic!Fresh, SameKey
<1>3. CASE r.op \notin {"reverse", "pay", "contribute"}
  BY <1>1, <1>2, <1>3 DEF Atomic!Next, Atomic!Post
<1>4. CASE r.op = "reverse"
  <2>1. PICK o \in ledger : /\ o.id = r.target /\ row.amount = o.amount
                            /\ row.entries = Flip(o.entries)
                            /\ ~IsReversal(o) /\ reversedBy[o.id] = None
    BY <1>1, <1>4 DEF IInv, UncommittedReversals
  <2>2. row.reverses = o.id
    BY <1>1, <1>4, <2>1 DEF IInv, UncommittedReversals
  <2>3. Atomic!Reverse(row)
    BY <1>1, <1>2, <1>4, <2>1, <2>2 DEF Atomic!Reverse, IsReversal
  <2>4. QED
    BY <1>2, <2>3 DEF Atomic!Next
<1>5. CASE r.op = "pay"
  <2>1. ~\E o \in occurrences : o.bill = r.bill /\ o.due = r.due
    BY <1>1, <1>5 DEF IInv, UncommittedRecords, SamePeriod
  <2>2. Atomic!Pay(row)
    BY <1>1, <1>2, <1>5, <2>1 DEF Atomic!Pay
  <2>3. QED
    BY <1>2, <2>2 DEF Atomic!Next
<1>6. CASE r.op = "contribute"
  <2>1. row.amount = r.amount
    BY <1>1, <1>6 DEF IInv, UncommittedRecords
  <2>2. Atomic!Contribute(row)
    BY <1>1, <1>2, <1>6, <2>1 DEF Atomic!Contribute
  <2>3. QED
    BY <1>2, <2>2 DEF Atomic!Next
<1>7. QED
  BY <1>3, <1>4, <1>5, <1>6

LEMMA StepImplements ==
  ASSUME IInv, [Next]_vars
  PROVE  [Atomic!Next]_(Atomic!vars)
<1> USE DEF store, Atomic!vars
<1>1. SomeKind
  BY StepKinds DEF IInv
<1>2. CASE UNCHANGED <<store, h, acks>>
  BY <1>2
<1>3. ASSUME NEW p \in Handler, Quiet(p)
      PROVE  [Atomic!Next]_(Atomic!vars)
  <2>1. CASE UNCHANGED acks
    BY <1>3, <2>1 DEF Quiet
  <2>2. ASSUME NEW x \in ledger, acks' = acks \cup {[req |-> x.req, id |-> x.id]}
        PROVE  Atomic!Acknowledge(x)
    BY <1>3, <2>2 DEF Quiet, Atomic!Acknowledge
  <2>3. QED
    BY <1>3, <2>1, <2>2 DEF Quiet, Atomic!Next
<1>4. ASSUME NEW p \in Handler,
             WritesSecond(p) \/ \E row \in Row : InsertsRow(p, row)
      PROVE  UNCHANGED Atomic!vars
  BY <1>4 DEF WritesSecond, InsertsRow
<1>5. ASSUME NEW p \in Handler, Publishes(p)
      PROVE  Atomic!Next
  BY <1>5, PublishImplements
<1>6. QED
  BY <1>1, <1>2, <1>3, <1>4, <1>5 DEF SomeKind

(* Statements, locks, failures and retries only decide which of the steps  *)
(* of AtomicLedger happen, and when.                                       *)
THEOREM Implements == Spec => ImplementsAtomicLedger
<1>1. Init => Atomic!Init
  BY DEF Init, Atomic!Init
<1>2. IInv /\ [Next]_vars => [Atomic!Next]_(Atomic!vars)
  BY StepImplements
<1>3. QED
  BY <1>1, <1>2, Inductive, PTL DEF Spec, Atomic!Spec, ImplementsAtomicLedger
=============================================================================
