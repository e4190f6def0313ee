---------------------------- MODULE AtomicLedger ----------------------------
(***************************************************************************)
(* What the ledger promises to its clients, with no handlers, no locks and *)
(* no transactions in progress: every posting happens in one step, with    *)
(* its companion record or link, at most once per idempotency key, and is  *)
(* never changed or taken back.  Ledger implements it with the same five   *)
(* variables.                                                              *)
(***************************************************************************)
EXTENDS Integers

CONSTANTS
  TxId, None,
  SameKey(_, _),      \* two payloads carry the same operation and key
  Flip(_)             \* the offsetting entries

VARIABLES ledger, reversedBy, occurrences, contributions, acks

vars == <<ledger, reversedBy, occurrences, contributions, acks>>

Init ==
  /\ ledger = {}
  /\ reversedBy = [t \in TxId |-> None]
  /\ occurrences = {}
  /\ contributions = {}
  /\ acks = {}

(* A row no posted row shares its id or its key with. *)
Fresh(x) == \A y \in ledger : x.id # y.id /\ ~SameKey(x.req, y.req)

Add(x) == Fresh(x) /\ ledger' = ledger \cup {x}

(* Income, expense, transfer, adjustment. *)
Post(x) ==
  /\ x.req.op \notin {"reverse", "pay", "contribute"}
  /\ Add(x)
  /\ UNCHANGED <<reversedBy, occurrences, contributions, acks>>

(* Only a transaction in force is reversed, by the rows that offset it. *)
Reverse(x) ==
  /\ x.req.op = "reverse"
  /\ \E o \in ledger : /\ o.id = x.req.target /\ o.req.op # "reverse"
                       /\ reversedBy[o.id] = None
                       /\ x.reverses = o.id /\ x.amount = o.amount
                       /\ x.entries = Flip(o.entries)
  /\ Add(x)
  /\ reversedBy' = [reversedBy EXCEPT ![x.reverses] = x.id]
  /\ UNCHANGED <<occurrences, contributions, acks>>

(* Only a period that is not paid is paid. *)
Pay(x) ==
  /\ x.req.op = "pay"
  /\ ~\E o \in occurrences : o.bill = x.req.bill /\ o.due = x.req.due
  /\ Add(x)
  /\ occurrences' = occurrences \cup {[bill |-> x.req.bill, due |-> x.req.due, tx |-> x.id]}
  /\ UNCHANGED <<reversedBy, contributions, acks>>

Contribute(x) ==
  /\ x.req.op = "contribute"
  /\ Add(x)
  /\ contributions' = contributions \cup
                        {[goal |-> x.req.goal, amount |-> x.amount, tx |-> x.id]}
  /\ UNCHANGED <<reversedBy, occurrences, acks>>

(* A client is told the result of its own request only. *)
Acknowledge(x) ==
  /\ x \in ledger
  /\ acks' = acks \cup {[req |-> x.req, id |-> x.id]}
  /\ UNCHANGED <<ledger, reversedBy, occurrences, contributions>>

(* The row is whatever the step adds: which rows clients may ask for is    *)
(* not this module's concern.                                              *)
Next ==
  \/ \E x \in ledger' : Post(x) \/ Reverse(x) \/ Pay(x) \/ Contribute(x)
  \/ \E x \in ledger : Acknowledge(x)

Spec == Init /\ [][Next]_vars
=============================================================================
