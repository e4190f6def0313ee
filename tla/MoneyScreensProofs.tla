------------------------- MODULE MoneyScreensProofs -------------------------
(* Proofs about MoneyScreens, for any accounts, number of mutations and    *)
(* faults.                                                                 *)
EXTENDS MoneyScreens, SumTheorems, TLAPS

-----------------------------------------------------------------------------
(* The inductive invariant. *)

Posting == {"create", "contribute"}

(* Keys are taken in order. *)
NoGap ==
  \A j, k \in Key : j < k /\ request[k].op # None => request[j].op # None

(* What a mutation with key k is. *)
Sound(k) ==
  LET r == request[k] IN
  /\ r.op = None <=> r.status = None
  /\ r.intent # 0 <=> r.op \in Posting
  /\ r.intent <= k
  /\ r.op \in Posting => r.target = 0
  /\ r.op = "reverse" =>
       r.target \in Key /\ request[r.target].op \notin {None, "reverse"}
  /\ r.status = "conflict" =>
       r.op = "reverse" /\ ReversedBy(r.target, applied) # {}
  /\ r.status \in {None, "sent", "failed"} => k \notin applied

(* A submission that was followed by another of the same intent had failed *)
(* or was lost, or is the first of two taps.                               *)
RepeatsExplained ==
  \A j, k \in Key :
    /\ j < k /\ request[j].intent # 0 /\ request[j].intent = request[k].intent
    => \/ request[j].status \in {"failed", "lost"}
       \/ request[j + 1].intent = request[j].intent /\ request[j + 1].twin

(* While an amount stands in the field, what was submitted since it was    *)
(* entered is of it, is known to the open screen, and its latest is not    *)
(* saved.                                                                  *)
ScreenOp == IF screen = "transactions" THEN "create" ELSE "contribute"
AmountStands ==
  amount # 0 =>
    /\ \A j \in Key : j < amount => request[j].op # None
    /\ \A k \in Key :
         k >= amount /\ request[k].op \in Posting =>
           /\ request[k].intent = amount /\ request[k].op = ScreenOp /\ k \in mounted
           /\ \/ request[k].status # "saved"
              \/ \E l \in Key : k < l /\ request[l].intent = amount

IInv ==
  /\ TypeOK /\ NoGap /\ (\A k \in Key : Sound(k)) /\ RepeatsExplained /\ AmountStands
  /\ screen = "elsewhere" => amount = 0

-----------------------------------------------------------------------------
(* Lemmas on the state. *)

(* Before the next key all are taken, and none from there on. *)
LEMMA NextKeyIsNext ==
  ASSUME TypeOK, NoGap
  PROVE  /\ NextKey \in Nat \ {0}
         /\ \A k \in Key : k < NextKey <=> request[k].op # None
<1> DEFINE U == {k \in Key : request[k].op # None}
<1>1. \A i, j \in 1 .. MaxKeys : i < j /\ j \in U => i \in U
  BY DEF NoGap, Key
<1>2. U = 1 .. Cardinality(U) /\ Cardinality(U) \in Nat
  <2>1. U \in SUBSET (1 .. MaxKeys) /\ MaxKeys \in Nat
    BY MoneyScreensAssumption DEF Key
  <2> HIDE DEF U
  <2>2. QED
    BY <1>1, <2>1, InitialSegment
<1>3. NextKey = 1 + Cardinality(U)
  BY DEF NextKey
<1>4. ASSUME NEW k \in Key
      PROVE  k < NextKey <=> k \in U
  <2> HIDE DEF U
  <2>1. k \in Nat \ {0}
    BY DEF Key
  <2>2. QED
    BY <1>2, <1>3, <2>1
<1>5. QED
  BY <1>2, <1>3, <1>4

(* The mutation a component shows is the latest of its own. *)
LEMMA CurrentIsLatest ==
  ASSUME NEW op, NEW target, NEW k \in mounted, TypeOK,
         request[k].op = op, request[k].target = target
  PROVE  /\ Current(op, target) \in mounted /\ Current(op, target) \in Key
         /\ k <= Current(op, target)
         /\ request[Current(op, target)].op = op
         /\ Current(op, target) # 0
<1> DEFINE mine == {j \in mounted : request[j].op = op /\ request[j].target = target}
<1>1. mine \in SUBSET (0 .. MaxKeys) /\ mine # {} /\ mine \subseteq Key /\ MaxKeys \in Nat
  BY MoneyScreensAssumption DEF TypeOK, Key
<1>2. PICK m \in mine : \A j \in mine : j <= m
  <2> HIDE DEF mine
  <2>1. QED
    BY <1>1, GreatestNat
<1>3. Current(op, target) = Max(mine)
  BY <1>1 DEF Current
<1>4. Max(mine) \in mine /\ \A j \in mine : j <= Max(mine)
  <2>1. \A j \in mine : m >= j
    BY <1>1, <1>2 DEF Key
  <2>2. Max(mine) \in mine /\ \A j \in mine : Max(mine) >= j
    BY <1>2, <2>1 DEF Max
  <2>3. QED
    BY <1>1, <2>2 DEF Key
<1>5. QED
  BY <1>1, <1>3, <1>4 DEF Key

(* One mutation or two are sent, with the next keys. *)
LEMMA MutateSends ==
  ASSUME TypeOK, NoGap, NEW r \in Request, Mutate(r)
  PROVE  \E n \in {1, 2} :
           /\ NextKey + n - 1 \in Key
           /\ \A k \in Key :
                \/ k \notin NextKey .. NextKey + n - 1 /\ request'[k] = request[k]
                \/ /\ k \in NextKey .. NextKey + n - 1 /\ request'[k] \in Request
                   /\ request'[k].op = r.op /\ request'[k].status = "sent"
                   /\ request'[k].intent = r.intent /\ request'[k].target = r.target
                   /\ request'[k].twin <=> k # NextKey
           /\ request' \in [Key -> Request]
           /\ mounted' = mounted \cup (NextKey .. NextKey + n - 1)
           /\ mounted' \subseteq Key
           /\ UNCHANGED <<screen, amount, server, cache>>
<1> DEFINE Sent(n, keys) ==
             /\ keys \subseteq Key
             /\ request' = [k \in Key |->
                  IF k \in keys THEN [r EXCEPT !.status = "sent", !.twin = k # NextKey]
                  ELSE request[k]]
             /\ mounted' = mounted \cup keys
             /\ UNCHANGED <<screen, amount, server, cache>>
<1>1. \E n \in {1} \cup IF "twice" \in Fault THEN {2} ELSE {} :
        Sent(n, NextKey .. NextKey + n - 1)
  BY Zenon DEF Mutate
<1>2. PICK n \in {1, 2} : Sent(n, NextKey .. NextKey + n - 1)
  <2> HIDE DEF Sent
  <2>1. QED
    BY <1>1, Zenon
<1>3. NextKey + n - 1 \in Key
  <2>1. NextKey .. NextKey + n - 1 \subseteq Key
    BY <1>2
  <2>2. NextKey \in Nat
    BY NextKeyIsNext
  <2> HIDE DEF Sent
  <2>3. QED
    BY <2>1, <2>2
<1>4. ASSUME NEW k \in Key, k \in NextKey .. NextKey + n - 1
      PROVE  /\ request'[k] \in Request
             /\ request'[k].op = r.op /\ request'[k].status = "sent"
             /\ request'[k].intent = r.intent /\ request'[k].target = r.target
             /\ request'[k].twin <=> k # NextKey
  <2> DEFINE second == k # NextKey
  <2>1. request'[k] = [r EXCEPT !.status = "sent", !.twin = second]
    BY <1>2, <1>4
  <2>2. second \in BOOLEAN
    OBVIOUS
  <2> HIDE DEF second
  <2>3. /\ request'[k] \in Request
        /\ request'[k].op = r.op /\ request'[k].status = "sent"
        /\ request'[k].intent = r.intent /\ request'[k].target = r.target
        /\ request'[k].twin = second
    BY <2>1, <2>2 DEF Request, Status
  <2>4. QED
    BY <2>3 DEF second
<1>5. \A k \in Key : k \notin NextKey .. NextKey + n - 1 => request'[k] = request[k]
  BY <1>2
<1>6. request' \in [Key -> Request]
  BY <1>2, <1>4, <1>5 DEF TypeOK
<1>7. QED
  BY <1>2, <1>3, <1>4, <1>5, <1>6 DEF TypeOK

(* Every amount submitted is that of a key taken, at most. *)
LEMMA AmountAtMostNext ==
  ASSUME IInv
  PROVE  amount <= NextKey
<1>1. NextKey \in Nat \ {0} /\ amount \in 0 .. MaxKeys
      /\ \A k \in Key : k < NextKey <=> request[k].op # None
  BY NextKeyIsNext DEF IInv, TypeOK
<1>2. ASSUME NextKey < amount
      PROVE  FALSE
  <2>1. NextKey \in Key /\ amount # 0
    BY <1>1, <1>2, MoneyScreensAssumption DEF Key
  <2>2. request[NextKey].op # None
    BY <1>2, <2>1 DEF IInv, AmountStands
  <2>3. QED
    BY <1>1, <2>1, <2>2
<1>3. QED
  BY <1>1, <1>2, MoneyScreensAssumption

(* When the form may be submitted, what was submitted of the same amount   *)
(* had failed or was lost, or is the first of two taps.                    *)
LEMMA ResubmitExplained ==
  ASSUME IInv, amount # 0, ~Pending(ScreenOp, 0),
         NEW j \in Key, request[j].intent = amount
  PROVE  \/ request[j].status \in {"failed", "lost"}
         \/ /\ j + 1 \in Key /\ request[j + 1].op # None
            /\ request[j + 1].intent = amount /\ request[j + 1].twin
<1> DEFINE c == Current(ScreenOp, 0)
<1>1. ASSUME NEW l \in Key, request[l].intent = amount
      PROVE  /\ l >= amount /\ request[l].op \in Posting
             /\ request[l].op = ScreenOp /\ request[l].target = 0 /\ l \in mounted
  BY <1>1 DEF IInv, Sound, AmountStands
<1>2. \A l \in Key : request[l].intent = amount =>
        c \in mounted /\ c \in Key /\ l <= c /\ request[c].op = ScreenOp /\ c # 0
  <2> HIDE DEF c
  <2> SUFFICES ASSUME NEW l \in Key, request[l].intent = amount
               PROVE  c \in mounted /\ c \in Key /\ l <= c /\ request[c].op = ScreenOp /\ c # 0
    OBVIOUS
  <2>1. request[l].op = ScreenOp /\ request[l].target = 0 /\ l \in mounted
    BY <1>1
  <2>2. QED
    BY <2>1, CurrentIsLatest DEF IInv, c
<1>3. c \in mounted /\ c \in Key /\ j <= c /\ request[c].op = ScreenOp /\ c # 0
  BY <1>2
<1>4. request[c].status \notin {"sent", "done"}
  BY <1>3 DEF Pending, InFlight
<1> HIDE DEF c
<1>5. c \in Nat /\ j \in Nat /\ amount \in Nat
  BY <1>3 DEF Key, IInv, TypeOK
<1>6. request[c].intent = amount /\ request[c].op \in Posting
  <2>1. c >= amount
    BY <1>1, <1>3, <1>5
  <2>2. request[c].op \in Posting
    BY <1>3 DEF ScreenOp, Posting
  <2>3. QED
    BY <1>3, <2>1, <2>2 DEF IInv, AmountStands
<1>7. request[c].status # "saved"
  <2>1. c >= amount
    BY <1>1, <1>3, <1>6
  <2>2. ASSUME NEW l \in Key, c < l, request[l].intent = amount
        PROVE  FALSE
    <3>1. l <= c
      BY <1>2, <2>2
    <3>2. QED
      BY <1>5, <2>2, <3>1 DEF Key
  <2>3. QED
    BY <1>3, <1>6, <2>1, <2>2 DEF IInv, AmountStands
<1>8. request[c].status \in {"failed", "lost"}
  <2>1. request[c].status \in Status \cup {None}
    BY <1>3 DEF IInv, TypeOK, Request
  <2>2. request[c].op \in {"create", "contribute"} /\ request[c].op # None
    BY <1>6, MoneyScreensAssumption DEF Posting, Op
  <2>3. request[c].status # None /\ request[c].status # "conflict"
    BY <1>3, <2>2 DEF IInv, Sound
  <2>4. QED
    BY <1>4, <1>7, <2>1, <2>3 DEF Status
<1>9. CASE j = c
  BY <1>8, <1>9
<1>10. CASE j < c
  <2>1. \/ request[j].status \in {"failed", "lost"}
        \/ request[j + 1].intent = request[j].intent /\ request[j + 1].twin
    BY <1>3, <1>6, <1>10 DEF IInv, RepeatsExplained
  <2>2. j + 1 \in Key
    BY <1>3, <1>10, MoneyScreensAssumption DEF Key
  <2>3. request[c].op # None
    BY <1>6, MoneyScreensAssumption DEF Posting, Op
  <2>4. request[j + 1].op # None
    BY <1>3, <1>5, <1>10, <2>2, <2>3 DEF IInv, NoGap
  <2>5. QED
    BY <2>1, <2>2, <2>4
<1>11. QED
  BY <1>3, <1>5, <1>9, <1>10

(* A mutation of any kind that the screens offer. *)
LEMMA MutationStep ==
  ASSUME IInv, NEW r \in Request, Mutate(r), r.op # None,
         r.intent # 0 <=> r.op \in Posting,
         r.op \in Posting =>
           r.target = 0 /\ r.intent = amount /\ r.op = ScreenOp /\ ~Pending(ScreenOp, 0),
         r.op = "reverse" =>
           r.target \in Key /\ request[r.target].op \notin {None, "reverse"}
  PROVE  IInv'
<1> DEFINE N == NextKey
<1>1. PICK n \in {1, 2} :
           /\ NextKey + n - 1 \in Key
           /\ \A k \in Key :
                \/ k \notin NextKey .. NextKey + n - 1 /\ request'[k] = request[k]
                \/ /\ k \in NextKey .. NextKey + n - 1 /\ request'[k] \in Request
                   /\ request'[k].op = r.op /\ request'[k].status = "sent"
                   /\ request'[k].intent = r.intent /\ request'[k].target = r.target
                   /\ request'[k].twin <=> k # NextKey
           /\ request' \in [Key -> Request]
           /\ mounted' = mounted \cup (NextKey .. NextKey + n - 1)
           /\ mounted' \subseteq Key
           /\ UNCHANGED <<screen, amount, server, cache>>
  BY MutateSends DEF IInv
<1> DEFINE New(k) == k \in NextKey .. NextKey + n - 1
<1>2. /\ N \in Nat \ {0} /\ amount <= N /\ amount \in Nat
      /\ \A k \in Key : k \in Nat /\ (k < N <=> request[k].op # None)
  BY NextKeyIsNext, AmountAtMostNext DEF IInv, TypeOK, Key
<1>3. UNCHANGED <<screen, amount, applied, opened, accounts, data, failed, fetch>>
  BY <1>1 DEF server, cache
<1>4. \A k \in Key :
        /\ New(k) \/ request'[k] = request[k]
        /\ New(k) => /\ request'[k].op = r.op /\ request'[k].status = "sent"
                     /\ request'[k].intent = r.intent /\ request'[k].target = r.target
                     /\ request'[k].twin <=> k # N
                     /\ k \in mounted'
        /\ k < N => ~New(k)
        /\ New(k) => k >= N /\ (k = N \/ k = N + 1)
  BY <1>1, <1>2
<1>5. \A j, k \in Key : j < k /\ New(k) => j < N \/ (j = N /\ New(j) /\ k = N + 1 /\ New(j + 1))
  BY <1>1, <1>2
<1>6. \A k \in Key : request'[k].op # None <=> k < N \/ New(k)
  BY <1>2, <1>4
<1> HIDE DEF New, N
<1>7. TypeOK'
  BY <1>1, <1>3 DEF IInv, TypeOK
<1>8. NoGap'
  BY <1>2, <1>5, <1>6 DEF NoGap
<1>9. ASSUME NEW k \in Key, ~New(k)
      PROVE  Sound(k)'
  <2>1. request'[k] = request[k] /\ Sound(k)
    BY <1>4, <1>9 DEF IInv
  <2>2. request[k].op = "reverse" =>
          /\ request'[request[k].target].op \notin {None, "reverse"}
          /\ request[k].target \in Key
    <3>1. SUFFICES ASSUME request[k].op = "reverse"
                   PROVE  /\ request'[request[k].target].op \notin {None, "reverse"}
                          /\ request[k].target \in Key
      OBVIOUS
    <3>2. request[k].target \in Key /\ request[request[k].target].op \notin {None, "reverse"}
      BY <2>1, <3>1 DEF Sound
    <3>3. request'[request[k].target] = request[request[k].target]
      BY <1>2, <1>4, <3>2
    <3>4. QED
      BY <3>2, <3>3
  <2>3. request[k].status = "conflict" => ReversedBy(request[k].target, applied)' # {}
    <3>1. SUFFICES ASSUME request[k].status = "conflict"
                   PROVE  \E q \in applied' :
                            request'[q].op = "reverse" /\ request'[q].target = request[k].target
      BY <2>1 DEF ReversedBy
    <3>2. PICK q \in applied : request[q].op = "reverse" /\ request[q].target = request[k].target
      BY <2>1, <3>1 DEF Sound, ReversedBy
    <3>3. q \in Key /\ request[q].op # None
      BY <3>2, MoneyScreensAssumption DEF IInv, TypeOK, Op
    <3>4. request'[q] = request[q]
      BY <1>2, <1>4, <3>3
    <3>5. QED
      BY <1>3, <3>2, <3>4
  <2>4. QED
    BY <1>3, <2>1, <2>2, <2>3 DEF Sound
<1>10. ASSUME NEW k \in Key, New(k)
       PROVE  Sound(k)'
  <2>1. /\ request'[k].op = r.op /\ request'[k].status = "sent"
        /\ request'[k].intent = r.intent /\ request'[k].target = r.target /\ k >= N
    BY <1>4, <1>10
  <2>2. r.intent <= k
    <3>1. r.intent = 0 \/ r.intent = amount
      OBVIOUS
    <3>2. QED
      BY <1>2, <2>1, <3>1
  <2>3. "sent" # None
    BY MoneyScreensAssumption DEF Status
  <2>4. r.op = "reverse" => request'[r.target] = request[r.target]
    BY <1>2, <1>4
  <2>5. k \notin applied
    BY <1>2, <2>1 DEF IInv, Sound
  <2>6. QED
    BY <1>3, <2>1, <2>2, <2>3, <2>4, <2>5 DEF Sound
<1>11. RepeatsExplained'
  <2> SUFFICES ASSUME NEW j \in Key, NEW k \in Key, j < k,
                      request'[j].intent # 0, request'[j].intent = request'[k].intent
               PROVE  \/ request'[j].status \in {"failed", "lost"}
                      \/ request'[j + 1].intent = request'[j].intent /\ request'[j + 1].twin
    BY DEF RepeatsExplained
  <2>1. j < N \/ New(j)
    <3>1. request[j].op = None => request[j].intent = 0
      BY MoneyScreensAssumption DEF IInv, Sound, Posting, Op
    <3>2. QED
      BY <1>2, <1>4, <3>1
  <2>2. CASE New(k) /\ New(j)
    <3>1. j = N /\ New(j + 1) /\ k = j + 1
      BY <1>2, <1>4, <1>5, <2>2
    <3>2. QED
      BY <1>2, <1>4, <2>2, <3>1
  <2>3. CASE New(k) /\ ~New(j)
    <3>1. request'[j] = request[j] /\ request'[k].intent = amount /\ amount # 0
          /\ ~Pending(ScreenOp, 0)
      BY <1>4, <2>3
    <3>2. \/ request[j].status \in {"failed", "lost"}
          \/ /\ j + 1 \in Key /\ request[j + 1].op # None
             /\ request[j + 1].intent = amount /\ request[j + 1].twin
      BY <3>1, ResubmitExplained
    <3>3. j + 1 \in Key /\ request[j + 1].op # None => request'[j + 1] = request[j + 1]
      BY <1>2, <1>4
    <3>4. QED
      BY <3>1, <3>2, <3>3
  <2>4. CASE ~New(k)
    <3>1. request'[k] = request[k] /\ k < N
      <4>1. request[k].op = None => request[k].intent = 0
        BY MoneyScreensAssumption DEF IInv, Sound, Posting, Op
      <4>2. QED
        BY <1>2, <1>4, <2>4, <4>1
    <3>2. j + 1 \in Key /\ j < N /\ j + 1 < N
      BY <1>2, <3>1, MoneyScreensAssumption DEF Key
    <3>3. request'[j] = request[j] /\ request'[j + 1] = request[j + 1]
      BY <1>4, <3>2
    <3>4. QED
      BY <3>1, <3>3 DEF IInv, RepeatsExplained
  <2>5. QED
    BY <2>2, <2>3, <2>4
<1>12. AmountStands'
  <2> SUFFICES ASSUME amount # 0
               PROVE  /\ \A j \in Key : j < amount => request'[j].op # None
                      /\ \A k \in Key :
                           k >= amount /\ request'[k].op \in Posting =>
                             /\ request'[k].intent = amount /\ request'[k].op = ScreenOp
                             /\ k \in mounted'
                             /\ \/ request'[k].status # "saved"
                                \/ \E l \in Key : k < l /\ request'[l].intent = amount
    BY <1>3 DEF AmountStands, ScreenOp
  <2>1. ASSUME NEW j \in Key, j < amount
        PROVE  request'[j].op # None
    BY <1>2, <1>6, <2>1
  <2>2. ASSUME NEW k \in Key, k >= amount, request'[k].op \in Posting, ~New(k)
        PROVE  /\ request'[k].intent = amount /\ request'[k].op = ScreenOp
               /\ k \in mounted'
               /\ \/ request'[k].status # "saved"
                  \/ \E l \in Key : k < l /\ request'[l].intent = amount
    <3>1. request'[k] = request[k]
      BY <1>4, <2>2
    <3>2. \/ request[k].status # "saved"
          \/ \E l \in Key : k < l /\ request[l].intent = amount
      BY <2>2, <3>1 DEF IInv, AmountStands
    <3>3. \A l \in Key : request[l].intent = amount => request'[l] = request[l]
      <4>1. \A l \in Key : request[l].op = None => request[l].intent = 0
        BY MoneyScreensAssumption DEF IInv, Sound, Posting, Op
      <4>2. QED
        BY <1>2, <1>4, <4>1
    <3>4. request[k].intent = amount /\ request[k].op = ScreenOp /\ k \in mounted
      BY <2>2, <3>1 DEF IInv, AmountStands
    <3>5. QED
      BY <1>1, <3>1, <3>2, <3>3, <3>4
  <2>3. ASSUME NEW k \in Key, request'[k].op \in Posting, New(k)
        PROVE  /\ request'[k].intent = amount /\ request'[k].op = ScreenOp
               /\ k \in mounted' /\ request'[k].status # "saved"
    BY <1>4, <2>3
  <2>4. QED
    BY <2>1, <2>2, <2>3
<1>13. QED
  BY <1>3, <1>7, <1>8, <1>9, <1>10, <1>11, <1>12 DEF IInv

(* The screens offer no other. *)
LEMMA OfferedStep ==
  ASSUME IInv, AddAccount \/ Submit \/ Reverse \/ Contribute
  PROVE  IInv'
<1> USE MoneyScreensAssumption DEF Unused, Request, Op, Posting
<1>1. amount \in 0 .. MaxKeys /\ 0 \in 0 .. MaxKeys
  BY DEF IInv, TypeOK
<1>2. CASE AddAccount
  <2> DEFINE r == [Unused EXCEPT !.op = "account"]
  <2>1. /\ r \in Request /\ Mutate(r)
        /\ r.op = "account" /\ r.intent = 0 /\ r.target = 0
    BY <1>1, <1>2 DEF AddAccount
  <2> HIDE DEF r
  <2>2. QED
    BY <2>1, MutationStep
<1>3. CASE Submit
  <2> DEFINE r == [Unused EXCEPT !.op = "create", !.intent = amount]
  <2>1. PICK f \in Form : "submit" \in TransactionsScreen(f)
    BY <1>3 DEF Submit
  <2>2. screen = "transactions" /\ CanSubmit(f)
    BY <2>1 DEF TransactionsScreen
  <2>3. ScreenOp = "create" /\ amount # 0 /\ ~Pending(ScreenOp, 0)
    BY <2>2 DEF ScreenOp, CanSubmit
  <2>4. /\ r \in Request /\ Mutate(r)
        /\ r.op = "create" /\ r.intent = amount /\ r.target = 0
    BY <1>1, <1>3 DEF Submit
  <2> HIDE DEF r
  <2>5. QED
    BY <2>3, <2>4, MutationStep
<1>4. CASE Reverse
  <2>1. PICK k \in History :
          CanReverse(k) /\ Mutate([Unused EXCEPT !.op = "reverse", !.target = k])
    BY <1>4 DEF Reverse
  <2> DEFINE r == [Unused EXCEPT !.op = "reverse", !.target = k]
  <2>2. k \in Key /\ request[k].op \in {"create", "contribute"}
    BY <2>1 DEF History, CanReverse, IInv, TypeOK
  <2>3. /\ r \in Request /\ Mutate(r)
        /\ r.op = "reverse" /\ r.intent = 0 /\ r.target = k
    <3>1. k \in 0 .. MaxKeys
      BY <2>2 DEF Key
    <3>2. QED
      BY <1>1, <2>1, <3>1
  <2> HIDE DEF r
  <2>4. QED
    BY <2>2, <2>3, MutationStep
<1>5. CASE Contribute
  <2> DEFINE r == [Unused EXCEPT !.op = "contribute", !.intent = amount]
  <2>1. PICK a \in Accounts : "save" \in GoalsScreen(a)
    BY <1>5 DEF Contribute
  <2>2. screen = "goals" /\ CanSave(a)
    BY <2>1 DEF GoalsScreen
  <2>3. ScreenOp = "contribute" /\ amount # 0 /\ ~Pending(ScreenOp, 0)
    BY <2>2 DEF ScreenOp, CanSave
  <2>4. /\ r \in Request /\ Mutate(r)
        /\ r.op = "contribute" /\ r.intent = amount /\ r.target = 0
    BY <1>1, <1>5 DEF Contribute
  <2> HIDE DEF r
  <2>5. QED
    BY <2>3, <2>4, MutationStep
<1>6. QED
  BY <1>2, <1>3, <1>4, <1>5

(* A mutation goes on, or is applied although it was given up. *)
LEMMA ProgressStep ==
  ASSUME IInv, NEW k \in Key, NEW s \in Status,
         /\ request' \in [Key -> Request]
         /\ \A j \in Key \ {k} : request'[j] = request[j]
         /\ request'[k].status = s /\ request'[k].op = request[k].op
         /\ request'[k].intent = request[k].intent /\ request'[k].target = request[k].target
         /\ request'[k].twin = request[k].twin,
         \/ request[k].status = "lost" /\ s = "lost"
         \/ request[k].status \in {"sent", "done"},
         applied' \in {applied, applied \cup {k}},
         s \in {"sent", "failed"} => k \notin applied',
         s = "conflict" =>
           request[k].op = "reverse" /\ ReversedBy(request[k].target, applied) # {},
         UNCHANGED <<screen, mounted>>,
         opened' \subseteq Account, accounts' \in {None} \cup SUBSET Account,
         data' \in {None} \cup SUBSET Key, failed' \in BOOLEAN,
         fetch' \in {NoFetch, Asked} \cup {Answered(keys) : keys \in SUBSET Key},
         \/ amount' = 0
         \/ /\ amount' = amount
            /\ s = "saved" /\ request[k].op \in Posting => k # Current(request[k].op, 0)
  PROVE  IInv'
<1>1. TypeOK'
  BY MoneyScreensAssumption DEF IInv, TypeOK
<1>2. \A j \in Key : /\ request'[j].op = request[j].op
                     /\ request'[j].intent = request[j].intent
                     /\ request'[j].target = request[j].target
                     /\ request'[j].twin = request[j].twin
                     /\ request[j].status \in {"failed", "lost"} => request'[j] = request[j]
                     /\ request'[j] = request[j] \/ j = k
  <2>1. request[k] \in Request /\ request'[k] \in Request
    BY DEF IInv, TypeOK
  <2>2. request[k].status = s => request'[k] = request[k]
    BY <2>1 DEF Request
  <2>3. QED
    BY <2>2
<1>3. \A j \in Key : ReversedBy(j, applied) \subseteq ReversedBy(j, applied)'
  BY <1>2 DEF ReversedBy, IInv, TypeOK
<1>4. NoGap'
  BY <1>2 DEF IInv, NoGap
<1>5. ASSUME NEW j \in Key
      PROVE  Sound(j)'
  <2>1. request'[j].op = "reverse" =>
          /\ request'[j].target \in Key
          /\ request'[request'[j].target].op \notin {None, "reverse"}
    BY <1>2 DEF IInv, Sound
  <2>2. request'[j].op = None <=> request'[j].status = None
    BY <1>2, MoneyScreensAssumption DEF IInv, Sound, Status
  <2>3. request'[j].status = "conflict" =>
          request'[j].op = "reverse" /\ ReversedBy(request[j].target, applied)' # {}
    <3>1. SUFFICES ASSUME request'[j].status = "conflict"
                   PROVE  request'[j].op = "reverse" /\ ReversedBy(request[j].target, applied)' # {}
      OBVIOUS
    <3>2. request[j].op = "reverse" /\ ReversedBy(request[j].target, applied) # {}
      BY <1>2, <3>1 DEF IInv, Sound
    <3>3. request[j].target \in Key
      BY <3>2 DEF IInv, Sound
    <3>4. ReversedBy(request[j].target, applied)' # {}
      <4>1. PICK q \in applied : request[q].op = "reverse" /\ request[q].target = request[j].target
        BY <3>2 DEF ReversedBy
      <4>2. q \in Key /\ q \in applied'
        BY <4>1 DEF IInv, TypeOK
      <4>3. request'[q].op = "reverse" /\ request'[q].target = request'[j].target
        BY <1>2, <4>1, <4>2
      <4>4. QED
        BY <1>2, <4>2, <4>3 DEF ReversedBy
    <3>6. QED
      BY <1>2, <3>2, <3>4
  <2>4. request'[j].status \in {None, "sent", "failed"} => j \notin applied'
    BY <1>2, MoneyScreensAssumption DEF IInv, Sound, Status
  <2>5. QED
    BY <1>2, <2>1, <2>2, <2>3, <2>4 DEF IInv, Sound
<1>6. RepeatsExplained'
  <2> SUFFICES ASSUME NEW i \in Key, NEW j \in Key, i < j,
                      request'[i].intent # 0, request'[i].intent = request'[j].intent
               PROVE  \/ request'[i].status \in {"failed", "lost"}
                      \/ request'[i + 1].intent = request'[i].intent /\ request'[i + 1].twin
    BY DEF RepeatsExplained
  <2>1. \/ request[i].status \in {"failed", "lost"}
        \/ request[i + 1].intent = request[i].intent /\ request[i + 1].twin
    BY <1>2 DEF IInv, RepeatsExplained
  <2>2. i + 1 \in Key
    BY MoneyScreensAssumption DEF Key
  <2>3. QED
    BY <1>2, <2>1, <2>2
<1>7. AmountStands'
  <2>1. CASE amount' = 0
    BY <2>1 DEF AmountStands
  <2>2. CASE /\ amount' = amount /\ amount # 0
             /\ s = "saved" /\ request[k].op \in Posting => k # Current(request[k].op, 0)
    <3>1. ASSUME NEW j \in Key, j < amount
          PROVE  request'[j].op # None
      BY <1>2, <2>2, <3>1 DEF IInv, AmountStands
    <3>2. ASSUME NEW j \in Key, j >= amount, request'[j].op \in Posting
          PROVE  /\ request'[j].intent = amount /\ request'[j].op = ScreenOp /\ j \in mounted
                 /\ \/ request'[j].status # "saved"
                    \/ \E l \in Key : j < l /\ request'[l].intent = amount
      <4>1. /\ request[j].intent = amount /\ request[j].op = ScreenOp /\ j \in mounted
            /\ \/ request[j].status # "saved"
               \/ \E l \in Key : j < l /\ request[l].intent = amount
        BY <1>2, <2>2, <3>2 DEF IInv, AmountStands
      <4>2. CASE j # k \/ s # "saved"
        BY <1>2, <4>1, <4>2
      <4>3. CASE j = k /\ s = "saved"
        <5> DEFINE c == Current(request[k].op, 0)
        <5>1. request[k].target = 0
          BY <1>2, <3>2, <4>3 DEF IInv, Sound
        <5>2. c \in mounted /\ c \in Key /\ k <= c /\ request[c].op = request[k].op
          BY <4>1, <4>3, <5>1, CurrentIsLatest DEF IInv
        <5>3. k # c
          BY <1>2, <2>2, <3>2, <4>3
        <5> HIDE DEF c
        <5>4. k < c /\ c >= amount
          BY <3>2, <4>3, <5>2, <5>3 DEF IInv, TypeOK, Key
        <5>5. request[c].intent = amount
          BY <1>2, <2>2, <3>2, <4>3, <5>2, <5>4 DEF IInv, AmountStands
        <5>6. QED
          BY <1>2, <4>1, <4>3, <5>2, <5>4, <5>5
      <4>4. QED
        BY <4>2, <4>3
    <3>3. QED
      BY <2>2, <3>1, <3>2 DEF AmountStands, ScreenOp
  <2>3. QED
    BY <2>1, <2>2
<1>8. QED
  BY <1>1, <1>4, <1>5, <1>6, <1>7 DEF IInv

LEMMA RequestStep ==
  ASSUME IInv, NEW k \in Key,
         Serve(k) \/ Refuse(k) \/ Acknowledge(k) \/ Fail(k) \/ Lose(k)
  PROVE  IInv'
<1>1. ASSUME NEW s \in Status, request' = [request EXCEPT ![k].status = s]
      PROVE  /\ request' \in [Key -> Request]
             /\ \A j \in Key \ {k} : request'[j] = request[j]
             /\ request'[k].status = s /\ request'[k].op = request[k].op
             /\ request'[k].intent = request[k].intent /\ request'[k].target = request[k].target
             /\ request'[k].twin = request[k].twin
  <2>1. request[k] \in Request /\ request \in [Key -> Request]
    BY DEF IInv, TypeOK
  <2>2. request' = [request EXCEPT ![k] = [request[k] EXCEPT !.status = s]]
    BY <1>1
  <2>3. [request[k] EXCEPT !.status = s] \in Request
    BY <2>1 DEF Request
  <2>4. QED
    BY <2>1, <2>2, <2>3 DEF Request
<1>2. request = [request EXCEPT ![k].status = request[k].status]
  BY DEF IInv, TypeOK, Request
<1>3. /\ opened \subseteq Account /\ accounts \in {None} \cup SUBSET Account
      /\ data \in {None} \cup SUBSET Key /\ failed \in BOOLEAN
      /\ fetch \in {NoFetch, Asked} \cup {Answered(keys) : keys \in SUBSET Key}
  BY DEF IInv, TypeOK
<1> USE DEF server, cache
<1>4. CASE Serve(k) /\ request[k].status = "sent"
  <2>1. request' = [request EXCEPT ![k].status = "done"] /\ "done" \in Status
    BY <1>4 DEF Serve, Status
  <2>2. /\ applied' = applied \cup {k} /\ UNCHANGED <<screen, amount, mounted, cache>>
        /\ opened' \subseteq Account
    BY <1>3, <1>4 DEF Serve
  <2>3. QED
    BY <1>1, <1>3, <1>4, <2>1, <2>2, ProgressStep
<1>5. CASE Serve(k) /\ request[k].status # "sent"
  <2>1. request' = [request EXCEPT ![k].status = "lost"] /\ "lost" \in Status
        /\ request[k].status = "lost"
    BY <1>2, <1>5 DEF Serve, Status
  <2>2. /\ applied' = applied \cup {k} /\ UNCHANGED <<screen, amount, mounted, cache>>
        /\ opened' \subseteq Account
    BY <1>3, <1>5 DEF Serve
  <2>3. QED
    BY <1>1, <1>3, <1>5, <2>1, <2>2, ProgressStep
<1>6. CASE Refuse(k)
  <2>1. request' = [request EXCEPT ![k].status = "conflict"] /\ "conflict" \in Status
        /\ request[k].status = "sent" /\ request[k].op = "reverse"
    BY <1>6 DEF Refuse, End, Status
  <2>2. UNCHANGED <<screen, amount, mounted, applied, opened, cache>>
    BY <1>6 DEF Refuse
  <2>3. ReversedBy(request[k].target, applied) # {}
    BY <1>6, <2>1 DEF Refuse, Reversible, IInv, Sound
  <2>4. QED
    BY <1>1, <1>3, <2>1, <2>2, <2>3, ProgressStep
<1>7. CASE Acknowledge(k)
  <2>1. request' = [request EXCEPT ![k].status = "saved"] /\ "saved" \in Status
        /\ request[k].status = "done"
    BY <1>7 DEF Acknowledge, End, Status
  <2>2. /\ UNCHANGED <<screen, accounts, mounted, applied, opened, data, failed>>
        /\ fetch' \in {fetch, Asked}
        /\ \/ amount' = 0
           \/ /\ amount' = amount
              /\ request[k].op \in Posting => k # Current(request[k].op, 0)
    BY <1>7 DEF Acknowledge, Invalidate, AfterSuccess, Posting
  <2>3. QED
    BY <1>1, <1>3, <2>1, <2>2, ProgressStep
<1>8. CASE Fail(k)
  <2>1. request' = [request EXCEPT ![k].status = "failed"] /\ "failed" \in Status
        /\ request[k].status = "sent"
    BY <1>8 DEF Fail, End, Status
  <2>2. UNCHANGED <<screen, amount, mounted, applied, opened, cache>>
    BY <1>8 DEF Fail
  <2>3. k \notin applied
    BY <2>1 DEF IInv, Sound
  <2>4. QED
    BY <1>1, <1>3, <2>1, <2>2, <2>3, ProgressStep
<1>9. CASE Lose(k)
  <2>1. request' = [request EXCEPT ![k].status = "lost"] /\ "lost" \in Status
        /\ request[k].status \in {"sent", "done"}
    BY <1>9 DEF Lose, InFlight, End, Status
  <2>2. UNCHANGED <<screen, amount, mounted, applied, opened, cache>>
    BY <1>9 DEF Lose
  <2>3. QED
    BY <1>1, <1>3, <2>1, <2>2, ProgressStep
<1>10. QED
  BY <1>4, <1>5, <1>6, <1>7, <1>8, <1>9

(* What the screens and the query do leaves the mutations as they are. *)
LEMMA ScreenStep ==
  ASSUME IInv, EditAmount \/ Go \/ ServeFetch \/ Deliver \/ FailFetch \/ LoadAccounts
  PROVE  IInv'
<1>1. UNCHANGED <<request, applied, opened>>
  BY DEF EditAmount, Go, ServeFetch, Deliver, FailFetch, LoadAccounts, server
<1>2. /\ screen' \in {"transactions", "goals", "elsewhere"}
      /\ mounted' \subseteq Key /\ accounts' \in {None} \cup SUBSET Account
      /\ amount' \in 0 .. MaxKeys
  BY <1>1, MoneyScreensAssumption DEF IInv, TypeOK, cache,
     EditAmount, Go, ServeFetch, Deliver, FailFetch, LoadAccounts
<1>3. data' \in {None} \cup SUBSET Key /\ failed' \in BOOLEAN
  <2>1. CASE Deliver
    <3>1. PICK keys \in SUBSET Key : fetch = Answered(keys)
      BY <2>1 DEF Deliver, IInv, TypeOK, NoFetch, Asked
    <3>2. QED
      BY <2>1, <3>1 DEF Deliver, Answered
  <2>2. CASE ~Deliver
    BY <2>2 DEF IInv, TypeOK, cache, EditAmount, Go, ServeFetch, FailFetch, LoadAccounts
  <2>3. QED
    BY <2>1, <2>2
<1>4. fetch' \in {NoFetch, Asked} \cup {Answered(keys) : keys \in SUBSET Key}
  <2>1. fetch' \in {fetch, NoFetch, Asked, Answered(applied)}
    BY DEF EditAmount, Go, Mount, ServeFetch, Deliver, FailFetch, LoadAccounts, cache
  <2>2. QED
    BY <2>1 DEF IInv, TypeOK
<1>5. TypeOK'
  BY <1>1, <1>2, <1>3, <1>4 DEF IInv, TypeOK
<1>6. AmountStands' /\ (screen' = "elsewhere" => amount' = 0)
  <2>1. CASE EditAmount
    <3>1. amount' \in {0, NextKey} /\ UNCHANGED <<screen, mounted, request>>
      BY <2>1 DEF EditAmount
    <3>2. screen # "elsewhere"
      BY <2>1 DEF EditAmount, TransactionsScreen, GoalsScreen
    <3>3. \A k \in Key : k \in Nat /\ (k < NextKey <=> request[k].op # None)
      BY NextKeyIsNext DEF IInv, Key
    <3>4. None \notin Posting /\ NextKey \in Nat
      BY NextKeyIsNext, MoneyScreensAssumption DEF IInv, Posting, Op
    <3>5. AmountStands'
      BY <3>1, <3>3, <3>4 DEF AmountStands
    <3>6. QED
      BY <3>1, <3>2, <3>5
  <2>2. CASE Go
    BY <2>2 DEF Go, AmountStands
  <2>3. CASE ServeFetch \/ Deliver \/ FailFetch \/ LoadAccounts
    <3>1. /\ UNCHANGED <<screen, amount, request>>
          /\ \A k \in mounted : request[k].op \in Posting => k \in mounted'
      BY <2>3 DEF ServeFetch, Deliver, FailFetch, LoadAccounts, Posting
    <3>2. QED
      BY <3>1 DEF IInv, AmountStands, ScreenOp
  <2>4. QED
    BY <2>1, <2>2, <2>3
<1>7. (\A k \in Key : Sound(k)') /\ NoGap' /\ RepeatsExplained'
  BY <1>1 DEF IInv, Sound, NoGap, RepeatsExplained, ReversedBy
<1>8. QED
  BY <1>5, <1>6, <1>7 DEF IInv

LEMMA InitInvariant == Init => IInv
<1> SUFFICES ASSUME Init
             PROVE  IInv
  OBVIOUS
<1>1. /\ Unused \in Request /\ Unused.op = None /\ Unused.status = None
      /\ Unused.intent = 0 /\ Unused.target = 0
  BY MoneyScreensAssumption DEF Unused, Request
<1>2. \A k \in Key : request[k] = Unused /\ k \in Nat \ {0}
  BY DEF Init, Key
<1>3. TypeOK
  <2>1. request \in [Key -> Request]
    BY <1>1 DEF Init
  <2>2. opened \subseteq Account /\ amount \in 0 .. MaxKeys
    BY MoneyScreensAssumption DEF Init
  <2>3. QED
    BY <2>1, <2>2 DEF Init, TypeOK
<1>4. None \notin Posting \cup Op \cup Status
  BY MoneyScreensAssumption DEF Posting, Op
<1>5. QED
  BY <1>1, <1>2, <1>3, <1>4
     DEF Init, IInv, NoGap, Sound, RepeatsExplained, AmountStands, Op, Posting, Status

(* The invariant is inductive. *)
LEMMA InvariantStep ==
  ASSUME IInv, [Next]_vars
  PROVE  IInv'
<1>1. CASE UNCHANGED vars
  BY <1>1 DEF IInv, TypeOK, NoGap, Sound, ReversedBy, RepeatsExplained, AmountStands, ScreenOp,
     vars, server, cache
<1>2. CASE Next
  BY <1>2, OfferedStep, RequestStep, ScreenStep DEF Next
<1>3. QED
  BY <1>1, <1>2

-----------------------------------------------------------------------------
(* Theorems.                                                               *)

(* The inductive invariant holds: mutations take their keys in order, a    *)
(* form is submitted again only after its last submission failed or was    *)
(* lost, and only what stands in the history as not a reversal is reversed *)
(* (transactions.tsx:86, goals.tsx:26, TransactionListItem.tsx:44).        *)
THEOREM ScreensInductive == Spec => []IInv
BY InitInvariant, InvariantStep, PTL DEF Spec

(* Every variable keeps its type. *)
THEOREM ScreensTyped == Spec => []TypeOK
<1>1. IInv => TypeOK
  BY DEF IInv
<1>2. QED
  BY <1>1, ScreensInductive, PTL

(* A conflict is shown only for a row that a reversal has taken back       *)
(* (TransactionListItem.tsx:44).                                           *)
THEOREM ConflictsAreReversals == Spec => []ConflictMeansReversed
<1>1. IInv => ConflictMeansReversed
  BY DEF IInv, Sound, ConflictMeansReversed
<1>2. QED
  BY <1>1, ScreensInductive, PTL

(* What was submitted of one amount and took effect: but for the latest,   *)
(* each was lost, or is the first of two taps.                             *)
LEMMA RepeatsCounted == IInv => RecordedOncePerAnswer
<1> SUFFICES ASSUME IInv, NEW i \in Key
             PROVE  LET posts == {k \in Key : request[k].intent = i} IN
                    Cardinality(posts \cap applied)
                      <= 1 + Cardinality({k \in posts : request[k].status = "lost"})
                           + Cardinality({k \in posts : request[k].twin})
  BY DEF RecordedOncePerAnswer
<1> DEFINE posts == {k \in Key : request[k].intent = i}
           A == posts \cap applied
           L == {k \in posts : request[k].status = "lost"}
           T == {k \in posts : request[k].twin}
           P == {k \in posts : k + 1 \in T}
<1>1. IsFiniteSet(posts) /\ posts \in SUBSET (0 .. MaxKeys) /\ MaxKeys \in Nat
  <2>1. IsFiniteSet(Key) /\ MaxKeys \in Nat
    BY MoneyScreensAssumption, FS_Interval DEF Key
  <2>2. posts \subseteq Key /\ Key \subseteq 0 .. MaxKeys
    BY DEF Key
  <2> HIDE DEF posts
  <2>3. QED
    BY <2>1, <2>2, FS_Subset
<1>2. /\ IsFiniteSet(A) /\ IsFiniteSet(L) /\ IsFiniteSet(T) /\ IsFiniteSet(P)
      /\ Cardinality(A) \in Nat /\ Cardinality(L) \in Nat
      /\ Cardinality(T) \in Nat /\ Cardinality(P) \in Nat
  <2>1. A \subseteq posts /\ L \subseteq posts /\ T \subseteq posts /\ P \subseteq posts
    OBVIOUS
  <2> HIDE DEF A, L, T, P, posts
  <2>2. QED
    BY <1>1, <2>1, FS_Subset, FS_CardinalityType
<1>3. Cardinality(P) <= Cardinality(T)
  <2> DEFINE f == [k \in P |-> k + 1]
  <2>1. f \in [P -> T] /\ \A j, k \in P : f[j] = f[k] => j = k
    BY DEF Key
  <2>2. f \in Injection(P, T)
    BY <2>1 DEF Injection, IsInjective
  <2> HIDE DEF f, P, T
  <2>3. QED
    BY <1>2, <2>2, FS_Injection
<1>4. CASE A = {}
  <2>1. Cardinality(A) = 0
    BY <1>4, FS_EmptySet
  <2> HIDE DEF A, L, T
  <2>2. Cardinality(A) <= 1 + Cardinality(L) + Cardinality(T)
    BY <1>2, <2>1
  <2>3. QED
    BY <2>2 DEF A, L, T
<1>5. CASE A # {}
  <2>1. PICK m \in posts : \A k \in posts : k <= m
    <3>1. posts # {}
      BY <1>5
    <3> HIDE DEF posts
    <3>2. QED
      BY <1>1, <3>1, GreatestNat
  <2>2. A \ {m} \subseteq L \cup P
    <3> SUFFICES ASSUME NEW k \in A, k # m
                 PROVE  k \in L \cup P
      OBVIOUS
    <3>1. k \in Key /\ m \in Key /\ k < m
      BY <2>1 DEF Key
    <3>2. \/ request[k].status \in {"failed", "lost"}
          \/ request[k + 1].intent = i /\ request[k + 1].twin
      BY <2>1, <3>1 DEF IInv, RepeatsExplained, Key
    <3>3. request[k].status # "failed"
      BY <3>1 DEF IInv, Sound
    <3>4. k + 1 \in Key
      BY <3>1, MoneyScreensAssumption DEF Key
    <3>5. QED
      BY <3>2, <3>3, <3>4
  <2> HIDE DEF A, L, T, P, posts
  <2>3. Cardinality(A) <= 1 + Cardinality(A \ {m})
        /\ IsFiniteSet(A \ {m}) /\ Cardinality(A \ {m}) \in Nat
    <3>1. /\ IsFiniteSet(A \ {m})
          /\ Cardinality(A \ {m}) = IF m \in A THEN Cardinality(A) - 1 ELSE Cardinality(A)
      BY <1>2, FS_RemoveElement
    <3>2. Cardinality(A \ {m}) \in Nat
      BY <3>1, FS_CardinalityType
    <3>3. QED
      BY <1>2, <3>1, <3>2
  <2>4. /\ IsFiniteSet(L \cup P)
        /\ Cardinality(L \cup P) <= Cardinality(L) + Cardinality(P)
        /\ Cardinality(L \cup P) \in Nat
    <3>1. IsFiniteSet(L \cap P)
      BY <1>2, FS_Subset
    <3>2. /\ IsFiniteSet(L \cup P)
          /\ Cardinality(L \cup P)
               = Cardinality(L) + Cardinality(P) - Cardinality(L \cap P)
      BY <1>2, FS_Union
    <3>3. Cardinality(L \cap P) \in Nat /\ Cardinality(L \cup P) \in Nat
      BY <3>1, <3>2, FS_CardinalityType
    <3>4. QED
      BY <1>2, <3>2, <3>3
  <2>5. Cardinality(A \ {m}) <= Cardinality(L \cup P)
    BY <2>2, <2>4, FS_Subset
  <2>6. Cardinality(A) <= 1 + Cardinality(L) + Cardinality(T)
    BY <1>2, <1>3, <2>3, <2>4, <2>5
  <2>7. QED
    BY <2>6 DEF A, L, T, posts
<1>6. QED
  BY <1>4, <1>5

(* What the user entered once is recorded once, and once more at most for  *)
(* every lost answer and every second tap, for any number of mutations and *)
(* in whatever order they arrive (transactions.tsx:105,                    *)
(* useContributeToGoal.ts:9).                                              *)
THEOREM RecordedOnce == Spec => []RecordedOncePerAnswer
BY ScreensInductive, RepeatsCounted, PTL
=============================================================================
