--------------------------- MODULE SessionsProofs ---------------------------
(* Proofs about Sessions, for any number of handlers, sessions and users. *)
EXTENDS Sessions, TLAPS

-----------------------------------------------------------------------------
(* The four ways a step treats refresh_sessions *)

Founds(s, u, at) ==
  /\ s \in SessionId /\ u \in User /\ at \in Time
  /\ ~Exists(s)
  /\ sessions' = [sessions EXCEPT ![s] = NewRow(u, s, at)]

Exchanges(s, t, at) ==
  /\ s \in SessionId /\ t \in SessionId /\ at \in Time
  /\ Live(s)
  /\ at < sessions[s].expires
  /\ ~Exists(t)
  /\ sessions' = [sessions EXCEPT
       ![s].revokedAt = at, ![s].replacedBy = t,
       ![t] = NewRow(sessions[s].user, sessions[s].family, at)]

Revokes(S, at) == S \subseteq SessionId /\ at \in Time /\ RevokeRows(S, at)

StoreStep ==
  \/ UNCHANGED sessions
  \/ \E s \in SessionId, u \in User, at \in Time : Founds(s, u, at)
  \/ \E s, t \in SessionId, at \in Time : Exchanges(s, t, at)
  \/ \E S \in SUBSET SessionId, at \in Time : Revokes(S, at)

SessionsType == sessions \in [SessionId -> Row \cup {None}]

LEMMA NoneIsNoRow ==
  /\ None \notin Row /\ None \notin SessionId /\ None \notin Nat
  /\ None \notin Password /\ None \notin Result /\ None \notin Request
BY SessionsAssumption

LEMMA RowOfSession ==
  ASSUME SessionsType, NEW s \in SessionId
  PROVE  /\ Exists(s) <=> sessions[s] # None
         /\ Exists(s) <=> sessions[s] \in Row
         /\ Live(s) => Exists(s)
BY NoneIsNoRow DEF SessionsType, Exists, Live

LEMMA NewRowType ==
  ASSUME NEW u \in User, NEW f \in SessionId, NEW at \in Time
  PROVE  /\ NewRow(u, f, at) \in Row
         /\ NewRow(u, f, at).revokedAt = None
         /\ NewRow(u, f, at).replacedBy = None
         /\ NewRow(u, f, at).user = u
         /\ NewRow(u, f, at).family = f
         /\ NewRow(u, f, at).expires = at + TTL
BY SessionsAssumption DEF NewRow, Row, Time

(* What each kind of step does to every row. *)
LEMMA FoundsRows ==
  ASSUME SessionsType, NEW s \in SessionId, NEW u \in User, NEW at \in Time,
         Founds(s, u, at)
  PROVE  /\ SessionsType'
         /\ sessions'[s] = NewRow(u, s, at)
         /\ \A r \in SessionId \ {s} : sessions'[r] = sessions[r]
BY NewRowType DEF Founds, SessionsType

LEMMA ExchangesRows ==
  ASSUME SessionsType, NEW s \in SessionId, NEW t \in SessionId, NEW at \in Time,
         Exchanges(s, t, at)
  PROVE  /\ SessionsType'
         /\ s # t
         /\ sessions'[t] = NewRow(sessions[s].user, sessions[s].family, at)
         /\ sessions'[s] \in Row
         /\ sessions'[s].user = sessions[s].user
         /\ sessions'[s].family = sessions[s].family
         /\ sessions'[s].expires = sessions[s].expires
         /\ sessions'[s].revokedAt = at
         /\ sessions'[s].replacedBy = t
         /\ \A r \in SessionId \ {s, t} : sessions'[r] = sessions[r]
<1>1. sessions[s] \in Row /\ s # t
  BY RowOfSession DEF Exchanges
<1>2. sessions[s].user \in User /\ sessions[s].family \in SessionId
  BY <1>1 DEF Row
<1>3. NewRow(sessions[s].user, sessions[s].family, at) \in Row
  BY <1>2, NewRowType
<1> DEFINE old == [sessions[s] EXCEPT !.revokedAt = at, !.replacedBy = t]
<1>4. /\ old \in Row
      /\ old.user = sessions[s].user /\ old.family = sessions[s].family
      /\ old.expires = sessions[s].expires /\ old.revokedAt = at /\ old.replacedBy = t
  <2>1. at \in Nat \cup {None}
    BY SessionsAssumption DEF Time
  <2>2. QED
    BY <1>1, <2>1 DEF Row
<1>5. sessions' = [r \in SessionId |->
        IF r = t THEN NewRow(sessions[s].user, sessions[s].family, at)
        ELSE IF r = s THEN old ELSE sessions[r]]
  BY <1>1 DEF Exchanges, SessionsType
<1>6. SessionsType'
  BY <1>3, <1>4, <1>5 DEF SessionsType
<1>7. QED
  BY <1>1, <1>4, <1>5, <1>6

LEMMA RevokesRows ==
  ASSUME SessionsType, NEW S \in SUBSET SessionId, NEW at \in Time, Revokes(S, at)
  PROVE  /\ SessionsType'
         /\ \A r \in SessionId :
              /\ ~(r \in S /\ Live(r)) => sessions'[r] = sessions[r]
              /\ r \in S /\ Live(r) =>
                   /\ sessions'[r] \in Row
                   /\ sessions'[r].user = sessions[r].user
                   /\ sessions'[r].family = sessions[r].family
                   /\ sessions'[r].expires = sessions[r].expires
                   /\ sessions'[r].replacedBy = sessions[r].replacedBy
                   /\ sessions'[r].revokedAt = at
<1>1. \A r \in SessionId : r \in S /\ Live(r) =>
        /\ [sessions[r] EXCEPT !.revokedAt = at] \in Row
        /\ [sessions[r] EXCEPT !.revokedAt = at].user = sessions[r].user
        /\ [sessions[r] EXCEPT !.revokedAt = at].family = sessions[r].family
        /\ [sessions[r] EXCEPT !.revokedAt = at].expires = sessions[r].expires
        /\ [sessions[r] EXCEPT !.revokedAt = at].replacedBy = sessions[r].replacedBy
        /\ [sessions[r] EXCEPT !.revokedAt = at].revokedAt = at
  BY RowOfSession, SessionsAssumption DEF Row, Time
<1>2. \A r \in SessionId : sessions'[r] = IF r \in S /\ Live(r)
                                THEN [sessions[r] EXCEPT !.revokedAt = at] ELSE sessions[r]
  BY DEF Revokes, RevokeRows
<1>3. SessionsType'
  BY <1>1, <1>2 DEF SessionsType, Revokes, RevokeRows
<1>4. QED
  BY <1>1, <1>2, <1>3

-----------------------------------------------------------------------------
(* What every kind of step keeps *)

Stays(r) ==
  /\ Exists(r)'
  /\ sessions'[r].user = sessions[r].user
  /\ sessions'[r].family = sessions[r].family
  /\ sessions'[r].expires = sessions[r].expires
  /\ ~Live(r) => sessions'[r] = sessions[r]

(* No row disappears or is rewritten, and only a live one changes. *)
LEMMA RowsStay ==
  ASSUME SessionsType, StoreStep
  PROVE  SessionsType' /\ \A r \in SessionId : Exists(r) => Stays(r)
<1> USE DEF Stays, Exists
<1>1. CASE UNCHANGED sessions
  BY <1>1 DEF SessionsType
<1>2. ASSUME NEW s \in SessionId, NEW u \in User, NEW at \in Time, Founds(s, u, at)
      PROVE  SessionsType' /\ \A r \in SessionId : Exists(r) => Stays(r)
  BY <1>2, FoundsRows DEF Founds
<1>3. ASSUME NEW s \in SessionId, NEW t \in SessionId, NEW at \in Time,
             Exchanges(s, t, at)
      PROVE  SessionsType' /\ \A r \in SessionId : Exists(r) => Stays(r)
  <2>1. Live(s) /\ ~Exists(t)
    BY <1>3 DEF Exchanges
  <2>2. QED
    BY <1>3, <2>1, ExchangesRows, NoneIsNoRow
<1>4. ASSUME NEW S \in SUBSET SessionId, NEW at \in Time, Revokes(S, at)
      PROVE  SessionsType' /\ \A r \in SessionId : Exists(r) => Stays(r)
  BY <1>4, RevokesRows, NoneIsNoRow
<1>5. QED
  BY <1>1, <1>2, <1>3, <1>4 DEF StoreStep

Chained == OneLivePerFamily /\ FamilyIsChain /\ ExchangedWhileValid

LEMMA FoundsKeepsChains ==
  ASSUME SessionsType, Chained, NEW s \in SessionId, NEW u \in User, NEW at \in Time,
         Founds(s, u, at)
  PROVE  Chained'
<1>1. /\ sessions'[s] = NewRow(u, s, at)
      /\ \A r \in SessionId \ {s} : sessions'[r] = sessions[r]
  BY FoundsRows
<1>2. /\ NewRow(u, s, at) \in Row
      /\ NewRow(u, s, at).revokedAt = None
      /\ NewRow(u, s, at).replacedBy = None
      /\ NewRow(u, s, at).family = s
  BY NewRowType
<1>3. ~Exists(s)
  BY DEF Founds
<1>4. \A r \in SessionId : Exists(r) => sessions[r].family # s /\ sessions[r].replacedBy # s
  BY <1>3 DEF Chained, FamilyIsChain, Replaces
<1>5. \A r \in SessionId :
        /\ r # s => (Exists(r)' <=> Exists(r)) /\ (Live(r)' <=> Live(r))
        /\ Exists(s)' /\ Live(s)'
  BY <1>1, <1>2, NoneIsNoRow DEF Exists, Live
<1>6. \A r, t \in SessionId :
        Replaces(t, r)' <=> r # s /\ Replaces(t, r)
  BY <1>1, <1>2, <1>3, <1>5, NoneIsNoRow DEF Replaces
<1>7. OneLivePerFamily'
  BY <1>1, <1>2, <1>4, <1>5, RowOfSession DEF Chained, OneLivePerFamily
<1>8. FamilyIsChain'
  <2>1. ASSUME NEW t \in SessionId, Exists(t)'
        PROVE  /\ Exists(sessions[t].family)'
               /\ (sessions[t].family = t)' <=> \A r \in SessionId : ~Replaces(t, r)'
    <3>1. CASE t = s
      <4>1. \A r \in SessionId : ~Replaces(t, r)'
        BY <1>4, <1>6, <3>1 DEF Replaces
      <4>2. QED
        BY <1>1, <1>2, <1>5, <3>1, <4>1
    <3>2. CASE t # s
      <4>1. Exists(t) /\ sessions'[t] = sessions[t]
        BY <1>1, <1>5, <2>1, <3>2
      <4>2. Exists(sessions[t].family) /\ sessions[t].family \in SessionId
        BY <4>1, RowOfSession DEF Chained, FamilyIsChain, Row
      <4>3. Exists(sessions[t].family)'
        BY <1>5, <4>1, <4>2
      <4>4. sessions[t].family = t <=> \A r \in SessionId : ~Replaces(t, r)
        BY <4>1 DEF Chained, FamilyIsChain
      <4>5. (\A r \in SessionId : ~Replaces(t, r)') <=> \A r \in SessionId : ~Replaces(t, r)
        BY <1>3, <1>6 DEF Replaces
      <4>6. QED
        BY <4>1, <4>3, <4>4, <4>5
    <3>3. QED
      BY <3>1, <3>2
  <2>2. ASSUME NEW r \in SessionId, NEW t \in SessionId, Replaces(t, r)'
        PROVE  /\ Exists(t)' /\ ~Live(r)'
               /\ (sessions[t].family = sessions[r].family)'
               /\ (sessions[t].user = sessions[r].user)'
               /\ \A q \in SessionId : Replaces(t, q)' => q = r
    <3>1. r # s /\ Replaces(t, r) /\ t # s
      BY <1>4, <1>6, <2>2 DEF Replaces
    <3>2. QED
      BY <1>1, <1>5, <1>6, <3>1 DEF Chained, FamilyIsChain
  <2>3. QED
    BY <2>1, <2>2 DEF FamilyIsChain
<1>9. ExchangedWhileValid'
  <2>1. SUFFICES ASSUME NEW r \in SessionId, NEW t \in SessionId, Replaces(t, r)'
                 PROVE  /\ (sessions[r].revokedAt < sessions[r].expires)'
                        /\ (Exists(t) => sessions[t].expires = sessions[r].revokedAt + TTL)'
    BY DEF ExchangedWhileValid
  <2>2. r # s /\ Replaces(t, r) /\ t # s
    BY <1>4, <1>6, <2>1 DEF Replaces
  <2>3. QED
    BY <1>1, <1>5, <2>2 DEF Chained, ExchangedWhileValid
<1>10. QED
  BY <1>7, <1>8, <1>9 DEF Chained

LEMMA ExchangesKeepsChains ==
  ASSUME SessionsType, Chained, NEW s \in SessionId, NEW t \in SessionId, NEW at \in Time,
         Exchanges(s, t, at)
  PROVE  Chained'
<1>1. /\ Live(s) /\ ~Exists(t) /\ at < sessions[s].expires
      /\ Exists(s) /\ sessions[s] \in Row
  BY RowOfSession DEF Exchanges
<1>2. /\ s # t
      /\ sessions'[t] = NewRow(sessions[s].user, sessions[s].family, at)
      /\ sessions'[s] \in Row
      /\ sessions'[s].user = sessions[s].user
      /\ sessions'[s].family = sessions[s].family
      /\ sessions'[s].expires = sessions[s].expires
      /\ sessions'[s].revokedAt = at
      /\ sessions'[s].replacedBy = t
      /\ \A r \in SessionId \ {s, t} : sessions'[r] = sessions[r]
  BY ExchangesRows
<1>3. /\ sessions'[t] \in Row
      /\ sessions'[t].revokedAt = None
      /\ sessions'[t].replacedBy = None
      /\ sessions'[t].user = sessions[s].user
      /\ sessions'[t].family = sessions[s].family
      /\ sessions'[t].expires = at + TTL
  BY <1>1, <1>2, NewRowType DEF Row
<1>4. at # None
  BY SessionsAssumption DEF Time
<1>5. \A r \in SessionId : Exists(r) => sessions[r].family # t /\ sessions[r].replacedBy # t
  BY <1>1 DEF Chained, FamilyIsChain, Replaces
<1>6. \A r \in SessionId :
        /\ Exists(r)' <=> Exists(r) \/ r = t
        /\ Live(r)' <=> (Live(r) /\ r # s) \/ r = t
  BY <1>1, <1>2, <1>3, <1>4, NoneIsNoRow DEF Exists, Live
<1>7. sessions[s].replacedBy = None
  <2>1. \A r \in SessionId : ~Replaces(r, s)
    BY <1>1 DEF Chained, FamilyIsChain
  <2>2. sessions[s].replacedBy \in SessionId \cup {None}
    BY <1>1 DEF Row
  <2>3. QED
    BY <1>1, <2>1, <2>2 DEF Replaces
<1>8. \A q, r \in SessionId :
        Replaces(q, r)' <=> (r = s /\ q = t) \/ Replaces(q, r)
  BY <1>1, <1>2, <1>3, <1>6, <1>7, NoneIsNoRow DEF Replaces
<1>9. \A q, r \in SessionId : Replaces(q, r) => Exists(q) /\ Exists(r) /\ q # t /\ r # t /\ r # s
  BY <1>1, <1>7, NoneIsNoRow DEF Chained, FamilyIsChain, Replaces
<1>10. OneLivePerFamily'
  <2>1. SUFFICES ASSUME NEW q \in SessionId, NEW r \in SessionId,
                        Live(q)', Live(r)', (sessions[q].family = sessions[r].family)'
                 PROVE  q = r
    BY DEF OneLivePerFamily
  <2>2. q # s /\ r # s
    BY <1>2, <1>6, <2>1
  <2>3. CASE q # t /\ r # t
    BY <1>2, <1>6, <2>1, <2>2, <2>3 DEF Chained, OneLivePerFamily
  <2>4. CASE q = t /\ r # t
    BY <1>1, <1>2, <1>3, <1>6, <2>1, <2>2, <2>4 DEF Chained, OneLivePerFamily
  <2>5. CASE q # t /\ r = t
    BY <1>1, <1>2, <1>3, <1>6, <2>1, <2>2, <2>5 DEF Chained, OneLivePerFamily
  <2>6. QED
    BY <2>3, <2>4, <2>5
<1>11. FamilyIsChain'
  <2>1. ASSUME NEW q \in SessionId, Exists(q)'
        PROVE  /\ Exists(sessions[q].family)'
               /\ (sessions[q].family = q)' <=> \A r \in SessionId : ~Replaces(q, r)'
    <3>1. CASE q = t
      <4>1. Exists(sessions[s].family) /\ sessions[s].family \in SessionId /\ sessions[s].family # t
        BY <1>1, <1>5 DEF Chained, FamilyIsChain, Row
      <4>2. Exists(sessions[q].family)' /\ (sessions[q].family # q)'
        BY <1>3, <1>6, <3>1, <4>1
      <4>3. Replaces(q, s)'
        BY <1>8, <3>1
      <4>4. QED
        BY <4>2, <4>3
    <3>2. CASE q # t
      <4>1. Exists(q) /\ sessions'[q].family = sessions[q].family
        BY <1>2, <1>6, <2>1, <3>2
      <4>2. Exists(sessions[q].family) /\ sessions[q].family \in SessionId
        BY <4>1, RowOfSession DEF Chained, FamilyIsChain, Row
      <4>3. Exists(sessions[q].family)'
        BY <1>6, <4>1, <4>2
      <4>4. sessions[q].family = q <=> \A r \in SessionId : ~Replaces(q, r)
        BY <4>1 DEF Chained, FamilyIsChain
      <4>5. (\A r \in SessionId : ~Replaces(q, r)') <=> \A r \in SessionId : ~Replaces(q, r)
        BY <1>8, <3>2
      <4>6. QED
        BY <4>1, <4>3, <4>4, <4>5
    <3>3. QED
      BY <3>1, <3>2
  <2>2. ASSUME NEW r \in SessionId, NEW q \in SessionId, Replaces(q, r)'
        PROVE  /\ Exists(q)' /\ ~Live(r)'
               /\ (sessions[q].family = sessions[r].family)'
               /\ (sessions[q].user = sessions[r].user)'
               /\ \A x \in SessionId : Replaces(q, x)' => x = r
    <3>1. CASE r = s /\ q = t
      BY <1>2, <1>3, <1>6, <1>8, <1>9, <3>1
    <3>2. CASE Replaces(q, r)
      <4>1. /\ Exists(q) /\ ~Live(r) /\ q # t /\ r # t /\ r # s
            /\ sessions[q].family = sessions[r].family
            /\ sessions[q].user = sessions[r].user
            /\ \A x \in SessionId : Replaces(q, x) => x = r
        BY <1>9, <3>2 DEF Chained, FamilyIsChain
      <4>2. QED
        BY <1>2, <1>6, <1>8, <4>1
    <3>3. QED
      BY <1>8, <2>2, <3>1, <3>2
  <2>3. QED
    BY <2>1, <2>2 DEF FamilyIsChain
<1>12. ExchangedWhileValid'
  <2>1. SUFFICES ASSUME NEW r \in SessionId, NEW q \in SessionId, Replaces(q, r)'
                 PROVE  /\ (sessions[r].revokedAt < sessions[r].expires)'
                        /\ (Exists(q) => sessions[q].expires = sessions[r].revokedAt + TTL)'
    BY DEF ExchangedWhileValid
  <2>2. CASE r = s /\ q = t
    BY <1>1, <1>2, <1>3, <2>2
  <2>3. CASE Replaces(q, r)
    <3>1. /\ sessions[r].revokedAt < sessions[r].expires
          /\ sessions[q].expires = sessions[r].revokedAt + TTL
      BY <1>9, <2>3 DEF Chained, ExchangedWhileValid
    <3>2. QED
      BY <1>2, <1>9, <2>3, <3>1
  <2>4. QED
    BY <1>8, <2>1, <2>2, <2>3
<1>13. QED
  BY <1>10, <1>11, <1>12 DEF Chained

LEMMA RevokesKeepsChains ==
  ASSUME SessionsType, Chained, NEW S \in SUBSET SessionId, NEW at \in Time,
         Revokes(S, at)
  PROVE  Chained'
<1>1. at # None
  BY SessionsAssumption DEF Time
<1>2. \A r \in SessionId :
        /\ ~Live(r) => sessions'[r] = sessions[r]
        /\ Exists(r)' <=> Exists(r)
        /\ Live(r)' => Live(r)
        /\ Exists(r) =>
             /\ sessions'[r].user = sessions[r].user
             /\ sessions'[r].family = sessions[r].family
             /\ sessions'[r].expires = sessions[r].expires
             /\ sessions'[r].replacedBy = sessions[r].replacedBy
  BY <1>1, RevokesRows, NoneIsNoRow DEF Exists, Live
<1>3. \A q, r \in SessionId : Replaces(q, r)' <=> Replaces(q, r)
  BY <1>2 DEF Replaces
<1>4. \A r \in SessionId : Exists(r) => sessions[r].family \in SessionId
  BY RowOfSession DEF Row
<1>5. OneLivePerFamily'
  BY <1>2, RowOfSession DEF Chained, OneLivePerFamily
<1>6. FamilyIsChain'
  <2>1. ASSUME NEW q \in SessionId, Exists(q)'
        PROVE  /\ Exists(sessions[q].family)'
               /\ (sessions[q].family = q)' <=> \A r \in SessionId : ~Replaces(q, r)'
    BY <1>2, <1>3, <1>4, <2>1 DEF Chained, FamilyIsChain
  <2>2. ASSUME NEW r \in SessionId, NEW q \in SessionId, Replaces(q, r)'
        PROVE  /\ Exists(q)' /\ ~Live(r)'
               /\ (sessions[q].family = sessions[r].family)'
               /\ (sessions[q].user = sessions[r].user)'
               /\ \A x \in SessionId : Replaces(q, x)' => x = r
    <3>1. /\ Exists(q) /\ Exists(r) /\ ~Live(r)
          /\ sessions[q].family = sessions[r].family
          /\ sessions[q].user = sessions[r].user
          /\ \A x \in SessionId : Replaces(q, x) => x = r
      BY <1>3, <2>2 DEF Chained, FamilyIsChain, Replaces
    <3>2. QED
      BY <1>2, <1>3, <3>1
  <2>3. QED
    BY <2>1, <2>2 DEF FamilyIsChain
<1>7. ExchangedWhileValid'
  <2>1. SUFFICES ASSUME NEW r \in SessionId, NEW q \in SessionId, Replaces(q, r)'
                 PROVE  /\ (sessions[r].revokedAt < sessions[r].expires)'
                        /\ (Exists(q) => sessions[q].expires = sessions[r].revokedAt + TTL)'
    BY DEF ExchangedWhileValid
  <2>2. Replaces(q, r) /\ Exists(q) /\ ~Live(r)
    BY <1>3, <2>1 DEF Chained, FamilyIsChain
  <2>3. QED
    BY <1>2, <2>2 DEF Chained, ExchangedWhileValid
<1>8. QED
  BY <1>5, <1>6, <1>7 DEF Chained

(* The chains survive every step. *)
LEMMA ChainStep ==
  ASSUME SessionsType, Chained, StoreStep
  PROVE  Chained'
<1>1. CASE UNCHANGED sessions
  BY <1>1 DEF Chained, OneLivePerFamily, FamilyIsChain, ExchangedWhileValid,
              Replaces, Live, Exists
<1>2. QED
  BY <1>1, FoundsKeepsChains, ExchangesKeepsChains, RevokesKeepsChains DEF StoreStep

-----------------------------------------------------------------------------
(* Every step of the handlers is one of the four kinds *)

LEMMA HandlerFields ==
  ASSUME TypeOK, NEW p \in Handler
  PROVE  /\ h[p] \in HandlerType
         /\ h[p].now \in Time
         /\ h[p].now # None
         /\ h[p].snapshot \in SUBSET SessionId
         /\ h[p].new \in SessionId \cup {None}
BY SessionsAssumption DEF TypeOK, HandlerType, Time

LEMMA StepStores ==
  ASSUME TypeOK, LockedIsLive, NewIsOwn, Established, [Next]_vars
  PROVE  StoreStep
<1>1. CASE UNCHANGED sessions
  BY <1>1 DEF StoreStep
<1>2. ASSUME NEW p \in Handler, NEW result \in Commits, CommitRegister(p, result)
      PROVE  StoreStep
  <2>1. h[p].new \in SessionId /\ h[p].req.user \in User /\ h[p].new # None
    BY <1>2, NoneIsNoRow DEF CommitRegister, TypeOK
  <2>2. ~Exists(h[p].new)
    BY <1>2, <2>1 DEF CommitRegister, NewIsOwn
  <2>3. Founds(h[p].new, h[p].req.user, h[p].now)
    BY <1>2, <2>1, <2>2, HandlerFields DEF CommitRegister, Founds
  <2>4. QED
    BY <2>1, <2>3, HandlerFields DEF StoreStep
<1>3. ASSUME NEW p \in Handler, NEW result \in Commits, Login(p, result)
      PROVE  StoreStep
  <2>1. h[p].req.user \in User /\ now \in Time
    BY <1>3 DEF Login, TypeOK
  <2>2. ASSUME NEW s \in FreshIds, sessions' = [sessions EXCEPT ![s] = NewRow(h[p].req.user, s, now)]
        PROVE  StoreStep
    BY <2>1, <2>2 DEF StoreStep, Founds, FreshIds
  <2>3. QED
    BY <1>1, <1>3, <2>2 DEF Login
<1>4. ASSUME NEW p \in Handler, NEW result \in Commits, CommitRotation(p, result)
      PROVE  StoreStep
  <2>1. /\ h[p].pc = "locked" /\ h[p].new \in SessionId /\ h[p].req.token \in SessionId
        /\ h[p].new # None
    BY <1>4, NoneIsNoRow DEF CommitRotation, TypeOK
  <2>2. /\ ~Exists(h[p].new) /\ Live(h[p].req.token)
        /\ h[p].now < sessions[h[p].req.token].expires
    BY <2>1 DEF NewIsOwn, LockedIsLive, Established
  <2>3. Exchanges(h[p].req.token, h[p].new, h[p].now)
    BY <1>4, <2>1, <2>2, HandlerFields DEF CommitRotation, Exchanges
  <2>4. QED
    BY <2>1, <2>3, HandlerFields DEF StoreStep
<1>5. ASSUME NEW p \in Handler, NEW result \in Commits, Apply(p, result)
      PROVE  StoreStep
  <2>1. Revokes(h[p].snapshot, h[p].now)
    BY <1>5, HandlerFields DEF Apply, Revokes
  <2>2. QED
    BY <2>1, HandlerFields DEF StoreStep
<1>6. QED
  BY <1>1, <1>2, <1>3, <1>4, <1>5
     DEF Next, Work, vars, store, Receive, Register, Audit, Read, Lock, Snapshot, Fail,
         Reply, LoseReply, Tick

-----------------------------------------------------------------------------
(* Type correctness *)

LEMMA AnswerType ==
  ASSUME TypeOK, NEW p \in Handler, NEW result \in Result, Answer(p, result)
  PROVE  /\ h' \in [Handler -> HandlerType]
         /\ \A q \in Handler \ {p} : h'[q] = h[q]
         /\ h'[p].pc = "reply" /\ h'[p].result = result
         /\ h'[p].new = h[p].new /\ h'[p].snapshot = h[p].snapshot
         /\ h'[p].req = h[p].req /\ h'[p].now = h[p].now
BY DEF TypeOK, Answer, HandlerType, Pc

(* The part of TypeOK that is about one handler. *)
HandlerOK(p) ==
  /\ h[p].pc # "idle" => h[p].req \in Request
  /\ h[p].pc \in {"register", "registered", "login", "audit"}
       => h[p].req.user \in User /\ h[p].req.password \in Password
  /\ h[p].pc \in {"rotate", "locked"} => h[p].req.token \in SessionId
  /\ h[p].pc \in {"registered", "locked", "audit"} => h[p].new \in SessionId
  /\ h[p].new # None =>
       \/ h[p].pc \in {"registered", "locked", "audit"}
       \/ h[p].pc = "reply" /\ h[p].result = "ok"

LEMMA ResultOfFail ==
  ASSUME NEW p \in Handler
  PROVE  FailResult(p) \in Result
BY DEF FailResult, Result

(* Of a step of handler p, the type of h follows from that of h'[p]. *)
LEMMA OneHandler ==
  ASSUME TypeOK, NEW p \in Handler,
         h' \in [Handler -> HandlerType],
         \A q \in Handler \ {p} : h'[q] = h[q],
         HandlerOK(p)'
  PROVE  /\ h' \in [Handler -> HandlerType]
         /\ \A q \in Handler : HandlerOK(q)'
BY DEF TypeOK, HandlerOK

LEMMA HandlersStayOK ==
  ASSUME TypeOK, Established, NEW p \in Handler, Work(p)
  PROVE  h' \in [Handler -> HandlerType] /\ \A q \in Handler : HandlerOK(q)'
<1> USE DEF Pc, Result
<1>0. h[p] \in HandlerType /\ h \in [Handler -> HandlerType] /\ HandlerOK(p)
  BY DEF TypeOK, HandlerOK
<1>1. CASE Register(p)
  <2>1. CASE Answer(p, "conflict")
    BY <1>0, <1>1, <2>1, AnswerType, OneHandler DEF Register, HandlerOK
  <2>2. ASSUME NEW s \in FreshIds, h' = [h EXCEPT ![p].pc = "registered", ![p].new = s]
        PROVE  h' \in [Handler -> HandlerType] /\ \A q \in Handler : HandlerOK(q)'
    <3>1. h' \in [Handler -> HandlerType]
      BY <1>0, <2>2 DEF HandlerType, FreshIds
    <3>2. HandlerOK(p)'
      BY <1>0, <1>1, <2>2 DEF HandlerOK, Register, FreshIds, HandlerType
    <3>3. QED
      BY <2>2, <3>1, <3>2, <1>0, OneHandler
  <2>3. QED
    BY <1>1, <2>1, <2>2 DEF Register
<1>2. CASE Audit(p)
  BY <1>0, <1>2, AnswerType, OneHandler DEF Audit, HandlerOK
<1>3. CASE Read(p)
  <2>1. CASE Answer(p, FailResult(p)) \/ Answer(p, "unauthorized")
    BY <1>0, <1>3, <2>1, ResultOfFail, AnswerType, OneHandler DEF Read, HandlerOK
  <2>2. CASE h' = [h EXCEPT ![p].pc = "revoke"]
    <3>1. h' \in [Handler -> HandlerType] /\ HandlerOK(p)'
      BY <1>0, <1>3, <2>2 DEF HandlerType, HandlerOK, Read
    <3>2. QED
      BY <1>0, <2>2, <3>1, OneHandler
  <2>3. CASE Live(h[p].req.token) /\ h' = [h EXCEPT ![p].pc = "rotate"]
    <3>1. h[p].req \in Request /\ h[p].req.token # None
      BY <1>0, <1>3, <2>3 DEF HandlerOK, Read, Live, Exists
    <3>2. h[p].req.token \in SessionId
      BY <3>1 DEF Request
    <3>3. h' \in [Handler -> HandlerType] /\ HandlerOK(p)'
      BY <1>0, <1>3, <2>3, <3>2 DEF HandlerType, HandlerOK, Read
    <3>4. QED
      BY <1>0, <2>3, <3>3, OneHandler
  <2>4. QED
    BY <1>3, <2>1, <2>2, <2>3 DEF Read
<1>4. CASE Lock(p)
  <2>1. CASE Answer(p, "conflict")
    BY <1>0, <1>4, <2>1, AnswerType, OneHandler DEF Lock, HandlerOK
  <2>2. ASSUME NEW t \in FreshIds, h' = [h EXCEPT ![p].pc = "locked", ![p].new = t]
        PROVE  h' \in [Handler -> HandlerType] /\ \A q \in Handler : HandlerOK(q)'
    <3>1. h' \in [Handler -> HandlerType]
      BY <1>0, <2>2 DEF HandlerType, FreshIds
    <3>2. HandlerOK(p)'
      BY <1>0, <1>4, <2>2 DEF HandlerOK, Lock, FreshIds, HandlerType
    <3>3. QED
      BY <2>2, <3>1, <3>2, <1>0, OneHandler
  <2>3. QED
    BY <1>4, <2>1, <2>2 DEF Lock
<1>5. CASE Snapshot(p)
  <2> DEFINE at == IF h[p].req.kind = "refresh" THEN h[p].now ELSE now
  <2>1. at \in Time
    BY <1>0 DEF TypeOK, HandlerType
  <2>2. Selected(h[p].req) \in SUBSET SessionId
    <3>1. h[p].req \in Request
      BY <1>0, <1>5 DEF Snapshot, HandlerOK
    <3>2. h[p].req.kind = "logout" => h[p].req.token \in SessionId
      BY <1>5, <3>1 DEF Established, Snapshot, Exists, Request
    <3>3. QED
      BY <3>2 DEF Selected, FamilyRows
  <2>3. h' \in [Handler -> HandlerType]
    BY <1>0, <1>5, <2>1, <2>2 DEF HandlerType, Snapshot
  <2>4. HandlerOK(p)'
    BY <1>0, <1>5 DEF HandlerOK, Snapshot, HandlerType
  <2>5. QED
    BY <1>0, <1>5, <2>3, <2>4, OneHandler DEF Snapshot
<1>6. ASSUME NEW result \in Commits, CommitRegister(p, result) \/ CommitRotation(p, result)
      PROVE  h' \in [Handler -> HandlerType] /\ \A q \in Handler : HandlerOK(q)'
  <2>1. h' = [h EXCEPT ![p].pc = "reply", ![p].result = result,
                       ![p].new = IF result = "ok" THEN h[p].new ELSE None]
    BY <1>6 DEF CommitRegister, CommitRotation
  <2>2. h' \in [Handler -> HandlerType]
    BY <1>0, <2>1 DEF HandlerType, Commits
  <2>3. HandlerOK(p)'
    BY <1>0, <1>6, <2>1 DEF HandlerOK, HandlerType, Commits, CommitRegister, CommitRotation
  <2>4. QED
    BY <1>0, <2>1, <2>2, <2>3, OneHandler
<1>7. ASSUME NEW result \in Commits, Login(p, result)
      PROVE  h' \in [Handler -> HandlerType] /\ \A q \in Handler : HandlerOK(q)'
  <2>1. CASE Answer(p, "credentials")
    BY <1>0, <1>7, <2>1, AnswerType, OneHandler DEF Login, HandlerOK
  <2>2. ASSUME NEW s \in FreshIds,
               h' = [h EXCEPT ![p].pc = "audit", ![p].new = s]
        PROVE  h' \in [Handler -> HandlerType] /\ \A q \in Handler : HandlerOK(q)'
    <3>1. h' \in [Handler -> HandlerType] /\ HandlerOK(p)'
      BY <1>0, <1>7, <2>2 DEF HandlerType, HandlerOK, FreshIds, Login
    <3>2. QED
      BY <1>0, <2>2, <3>1, OneHandler
  <2>3. CASE h' = [h EXCEPT ![p].pc = "reply", ![p].result = result]
    <3>1. h' \in [Handler -> HandlerType] /\ HandlerOK(p)'
      BY <1>0, <1>7, <2>3 DEF HandlerType, HandlerOK, Login, Commits
    <3>2. QED
      BY <1>0, <2>3, <3>1, OneHandler
  <2>4. QED
    BY <1>7, <2>1, <2>2, <2>3 DEF Login
<1>8. ASSUME NEW result \in Commits, Apply(p, result)
      PROVE  h' \in [Handler -> HandlerType] /\ \A q \in Handler : HandlerOK(q)'
  BY <1>0, <1>8, AnswerType, OneHandler DEF Apply, HandlerOK, Commits
<1>9. QED
  BY <1>1, <1>2, <1>3, <1>4, <1>5, <1>6, <1>7, <1>8 DEF Work

LEMMA TypeStep ==
  ASSUME TypeOK, LockedIsLive, NewIsOwn, Established, [Next]_vars
  PROVE  TypeOK'
<1>1. sessions' \in [SessionId -> Row \cup {None}]
  BY StepStores, RowsStay DEF TypeOK, SessionsType
<1>2. h' \in [Handler -> HandlerType] /\ \A q \in Handler : HandlerOK(q)'
  <2>0. h \in [Handler -> HandlerType] /\ \A q \in Handler : HandlerOK(q)
    BY DEF TypeOK, HandlerOK
  <2>1. CASE UNCHANGED h
    BY <2>0, <2>1 DEF HandlerOK
  <2>2. ASSUME NEW p \in Handler, Work(p)
        PROVE  h' \in [Handler -> HandlerType] /\ \A q \in Handler : HandlerOK(q)'
    BY <2>2, HandlersStayOK
  <2>3. ASSUME NEW p \in Handler, NEW r \in Request, Receive(p, r)
        PROVE  h' \in [Handler -> HandlerType] /\ \A q \in Handler : HandlerOK(q)'
    <3>1. FirstStep(r.kind) \in {"register", "login", "revoke", "read"}
      BY DEF FirstStep
    <3>2. FirstStep(r.kind) \in {"register", "login"} => r.kind \in {"register", "login"}
      BY DEF FirstStep
    <3>3. FirstStep(r.kind) \in {"register", "login"} => r.user \in User /\ r.password \in Password
      BY <2>3, <3>2 DEF Receive, Sendable, Request
    <3>4. h' \in [Handler -> HandlerType] /\ HandlerOK(p)'
      BY <2>0, <2>3, <3>1, <3>3 DEF Receive, Idle, HandlerType, HandlerOK, Pc, TypeOK
    <3>5. QED
      BY <2>0, <2>3, <3>4, OneHandler DEF Receive
  <2>4. ASSUME NEW p \in Handler, Fail(p)
        PROVE  h' \in [Handler -> HandlerType] /\ \A q \in Handler : HandlerOK(q)'
    <3> DEFINE result == FailResult(p)
    <3>1. result \in Result /\ h[p].pc # "idle"
      BY <2>4, ResultOfFail DEF Fail
    <3>2. h' = [h EXCEPT ![p].pc = "reply", ![p].result = result,
                         ![p].snapshot = {}, ![p].new = None]
      BY <2>4 DEF Fail
    <3> HIDE DEF result
    <3>3. /\ h'[p] = [h[p] EXCEPT !.pc = "reply", !.result = result, !.snapshot = {},
                                  !.new = None]
          /\ \A q \in Handler \ {p} : h'[q] = h[q]
          /\ h' = [h EXCEPT ![p] = h'[p]]
      BY <2>0, <3>2
    <3>4. /\ h'[p] \in HandlerType
          /\ h'[p].pc = "reply" /\ h'[p].new = None /\ h'[p].req = h[p].req
      <4>1. h[p] \in HandlerType
        BY <2>0
      <4>2. QED
        BY <3>1, <3>3, <4>1 DEF HandlerType, Pc
    <3>5. h' \in [Handler -> HandlerType]
      BY <2>0, <3>3, <3>4
    <3>6. HandlerOK(p)'
      BY <2>0, <3>1, <3>4 DEF HandlerOK
    <3>7. QED
      BY <2>0, <3>3, <3>5, <3>6, OneHandler
  <2>5. ASSUME NEW p \in Handler, h' = [h EXCEPT ![p] = Idle]
        PROVE  h' \in [Handler -> HandlerType] /\ \A q \in Handler : HandlerOK(q)'
    <3>1. Idle \in HandlerType
      BY SessionsAssumption DEF Idle, HandlerType, Pc, Time
    <3>2. h' \in [Handler -> HandlerType] /\ HandlerOK(p)'
      BY <2>0, <2>5, <3>1 DEF Idle, HandlerOK
    <3>3. QED
      BY <2>0, <2>5, <3>2, OneHandler
  <2>6. QED
    BY <2>1, <2>2, <2>3, <2>4, <2>5 DEF Next, Reply, LoseReply, Tick, vars
<1>3. users' \in [User -> Password \cup {None}] /\ audits' \in [User -> Nat]
  <2>1. CASE UNCHANGED <<users, audits>>
    BY <2>1 DEF TypeOK
  <2>2. ASSUME NEW p \in Handler, NEW result \in Commits, CommitRegister(p, result)
        PROVE  users' \in [User -> Password \cup {None}] /\ audits' \in [User -> Nat]
    BY <2>2 DEF CommitRegister, TypeOK
  <2>3. ASSUME NEW p \in Handler, Audit(p)
        PROVE  users' \in [User -> Password \cup {None}] /\ audits' \in [User -> Nat]
    BY <2>3 DEF Audit, TypeOK
  <2>4. QED
    BY <2>1, <2>2, <2>3
       DEF Next, Work, vars, store, Receive, Register, Login, Read, Lock, CommitRotation,
           Snapshot, Apply, Fail, Reply, LoseReply, Tick
<1>4. now' \in Time
  <2>1. CASE now' = now
    BY <2>1 DEF TypeOK
  <2>2. CASE Tick
    BY <2>2, SessionsAssumption DEF Tick, TypeOK, Time
  <2>3. QED
    BY <2>1, <2>2
       DEF Next, Work, vars, store, Receive, Register, CommitRegister, Login, Audit, Read,
           Lock, CommitRotation, Snapshot, Apply, Fail, Reply, LoseReply
<1>5. known' \subseteq SessionId
  <2>1. CASE known' = known
    BY <2>1 DEF TypeOK
  <2>2. ASSUME NEW p \in Handler, Reply(p)
        PROVE  known' \subseteq SessionId
    BY <2>2, HandlerFields DEF Reply, TypeOK
  <2>3. QED
    BY <2>1, <2>2
       DEF Next, Work, vars, store, Receive, Register, CommitRegister, Login, Audit, Read,
           Lock, CommitRotation, Snapshot, Apply, Fail, LoseReply, Tick
<1>6. QED
  BY <1>1, <1>2, <1>3, <1>4, <1>5 DEF TypeOK, HandlerOK

-----------------------------------------------------------------------------
(* The handlers between two statements *)

(* A step moves one handler at most; only Register and Lock take hold of   *)
(* anything, an id nobody has.                                             *)
LEMMA Moves ==
  ASSUME TypeOK, [Next]_vars
  PROVE  \/ UNCHANGED h
         \/ \E p \in Handler :
              /\ \A q \in Handler \ {p} : h'[q] = h[q]
              /\ \/ h'[p].pc \notin {"locked", "registered"}
                 \/ /\ Lock(p) /\ h'[p].pc = "locked" /\ h'[p].req = h[p].req
                    /\ Live(h[p].req.token) /\ h'[p].new \in FreshIds
                 \/ /\ Register(p) /\ h'[p].pc = "registered" /\ h'[p].req = h[p].req
                    /\ users[h[p].req.user] = None /\ h'[p].new \in FreshIds
<1> DEFINE Moved(p) ==
      /\ \A q \in Handler \ {p} : h'[q] = h[q]
      /\ \/ h'[p].pc \notin {"locked", "registered"}
         \/ /\ Lock(p) /\ h'[p].pc = "locked" /\ h'[p].req = h[p].req
            /\ Live(h[p].req.token) /\ h'[p].new \in FreshIds
         \/ /\ Register(p) /\ h'[p].pc = "registered" /\ h'[p].req = h[p].req
            /\ users[h[p].req.user] = None /\ h'[p].new \in FreshIds
<1>0. h \in [Handler -> HandlerType]
  BY DEF TypeOK
<1>1. ASSUME NEW p \in Handler, NEW result, Answer(p, result)
      PROVE  Moved(p)
  BY <1>0, <1>1 DEF Answer, HandlerType
<1>2. ASSUME NEW p \in Handler, Register(p)
      PROVE  Moved(p)
  <2>1. CASE Answer(p, "conflict")
    BY <1>1, <2>1
  <2>2. ASSUME NEW s \in FreshIds, users[h[p].req.user] = None,
               h' = [h EXCEPT ![p].pc = "registered", ![p].new = s]
        PROVE  Moved(p)
    BY <1>0, <1>2, <2>2 DEF HandlerType
  <2>3. QED
    BY <1>2, <2>1, <2>2 DEF Register
<1>3. ASSUME NEW p \in Handler, Lock(p)
      PROVE  Moved(p)
  <2>1. CASE Answer(p, "conflict")
    BY <1>1, <2>1
  <2>2. ASSUME NEW t \in FreshIds, Live(h[p].req.token),
               h' = [h EXCEPT ![p].pc = "locked", ![p].new = t]
        PROVE  Moved(p)
    BY <1>0, <1>3, <2>2 DEF HandlerType
  <2>3. QED
    BY <1>3, <2>1, <2>2 DEF Lock
<1>4. ASSUME NEW p \in Handler, Read(p)
      PROVE  Moved(p)
  <2>1. CASE h' = [h EXCEPT ![p].pc = "revoke"] \/ h' = [h EXCEPT ![p].pc = "rotate"]
    BY <1>0, <2>1 DEF HandlerType
  <2>2. QED
    BY <1>1, <1>4, <2>1 DEF Read
<1>5. ASSUME NEW p \in Handler, NEW result \in Commits,
             CommitRegister(p, result) \/ CommitRotation(p, result)
      PROVE  Moved(p)
  BY <1>0, <1>5 DEF CommitRegister, CommitRotation, HandlerType
<1>6. ASSUME NEW p \in Handler, NEW result \in Commits, Login(p, result)
      PROVE  Moved(p)
  <2>1. CASE Answer(p, "credentials")
    BY <1>1, <2>1
  <2>2. ASSUME NEW s, h' = [h EXCEPT ![p].pc = "audit", ![p].new = s]
        PROVE  Moved(p)
    BY <1>0, <2>2 DEF HandlerType
  <2>3. CASE h' = [h EXCEPT ![p].pc = "reply", ![p].result = result]
    BY <1>0, <2>3 DEF HandlerType
  <2>4. QED
    BY <1>6, <2>1, <2>2, <2>3 DEF Login
<1>7. ASSUME NEW p \in Handler, Audit(p) \/ \E result \in Commits : Apply(p, result)
      PROVE  Moved(p)
  BY <1>1, <1>7 DEF Audit, Apply
<1>8. ASSUME NEW p \in Handler, Snapshot(p) \/ Fail(p)
      PROVE  Moved(p)
  <2>1. CASE Snapshot(p)
    BY <1>0, <2>1 DEF Snapshot, HandlerType
  <2>2. CASE Fail(p)
    BY <1>0, <2>2 DEF Fail, HandlerType
  <2>3. QED
    BY <1>8, <2>1, <2>2
<1>9. ASSUME NEW p \in Handler, Reply(p) \/ LoseReply(p) \/ \E r \in Request : Receive(p, r)
      PROVE  Moved(p)
  <2>1. CASE h' = [h EXCEPT ![p] = Idle]
    BY <1>0, <2>1 DEF Idle
  <2>2. ASSUME NEW r \in Request, Receive(p, r)
        PROVE  Moved(p)
    <3>1. FirstStep(r.kind) \notin {"locked", "registered"}
      BY DEF FirstStep
    <3>2. h'[p].pc = FirstStep(r.kind) /\ \A q \in Handler \ {p} : h'[q] = h[q]
      BY <1>0, <2>2 DEF Receive, Idle
    <3>3. QED
      BY <3>1, <3>2
  <2>3. QED
    BY <1>9, <2>1, <2>2 DEF Reply, LoseReply
<1>10. QED
  <2>1. CASE \E p \in Handler : Moved(p)
    BY <2>1
  <2> HIDE DEF Moved
  <2>2. CASE UNCHANGED h
    BY <2>2
  <2>3. QED
    BY <1>2, <1>3, <1>4, <1>5, <1>6, <1>7, <1>8, <1>9, <2>1, <2>2
       DEF Next, Work, Tick, vars

(* A row that stays locked stays live: a rotation of it is the holder's,   *)
(* and a revocation waits.                                                 *)
LEMMA LockProtects ==
  ASSUME TypeOK, LockedIsLive, NewIsOwn, Established, [Next]_vars,
         NEW q \in Handler, h[q].pc = "locked", h'[q] = h[q],
         NEW s \in SessionId, s = h[q].req.token
  PROVE  Live(s)'
<1>1. Live(s) /\ Exists(s)
  BY DEF LockedIsLive, Live
<1>2. CASE sessions' = sessions
  BY <1>1, <1>2 DEF Live, Exists
<1>3. ASSUME NEW p \in Handler, NEW result \in Commits, CommitRotation(p, result)
      PROVE  Live(s)'
  <2>1. h[p].pc = "locked" /\ h'[p].pc = "reply"
    BY <1>3 DEF CommitRotation, TypeOK, HandlerType
  <2>2. p # q
    BY <2>1
  <2>3. h[p].req.token # s
    BY <2>1, <2>2 DEF LockedIsLive, Locks
  <2>4. h[p].new # s
    BY <1>1, <2>1, NoneIsNoRow DEF NewIsOwn, TypeOK
  <2>5. sessions'[s] = sessions[s]
    BY <1>1, <1>3, <2>3, <2>4 DEF CommitRotation, TypeOK
  <2>6. QED
    BY <1>1, <2>5 DEF Live, Exists
<1>4. ASSUME NEW p \in Handler, NEW result \in Commits, Apply(p, result)
      PROVE  Live(s)'
  <2>1. s \notin h[p].snapshot
    BY <1>4 DEF Apply, Locks
  <2>2. sessions'[s] = sessions[s]
    BY <1>1, <1>4, <2>1 DEF Apply, RevokeRows
  <2>3. QED
    BY <1>1, <2>2 DEF Live, Exists
<1>5. ASSUME NEW p \in Handler, NEW result \in Commits,
             CommitRegister(p, result) \/ Login(p, result)
      PROVE  Live(s)'
  <2>1. ASSUME NEW r, ~Exists(r), NEW row, sessions' = [sessions EXCEPT ![r] = row]
        PROVE  Live(s)'
    BY <1>1, <2>1 DEF Live, Exists, TypeOK
  <2>2. CASE CommitRegister(p, result)
    <3>1. ~Exists(h[p].new)
      BY <2>2, NoneIsNoRow DEF CommitRegister, NewIsOwn, TypeOK
    <3>2. QED
      BY <2>1, <2>2, <3>1 DEF CommitRegister
  <2>3. CASE Login(p, result)
    BY <1>2, <2>1, <2>3 DEF Login, FreshIds
  <2>4. QED
    BY <1>5, <2>2, <2>3
<1>6. QED
  BY <1>2, <1>3, <1>4, <1>5
     DEF Next, Work, vars, store, Receive, Register, Audit, Read, Lock, Snapshot, Fail,
         Reply, LoseReply, Tick

LEMMA LockStep ==
  ASSUME TypeOK, LockedIsLive, NewIsOwn, Established, [Next]_vars
  PROVE  LockedIsLive'
<1> SUFFICES ASSUME NEW q \in Handler, h'[q].pc = "locked",
                    NEW s, s = h'[q].req.token
             PROVE  Live(s)' /\ \A r \in Handler : h'[r].pc = "locked" /\ h'[r].req.token = s => r = q
  BY DEF LockedIsLive, Locks
<1>0. \A r \in Handler : h[r].pc = "locked" => h[r].req.token \in SessionId
  BY DEF TypeOK
<1>1. ASSUME \A r \in Handler : h'[r].pc = "locked" => h'[r] = h[r]
      PROVE  Live(s)' /\ \A r \in Handler : h'[r].pc = "locked" /\ h'[r].req.token = s => r = q
  <2>1. h'[q] = h[q] /\ h[q].pc = "locked" /\ s \in SessionId
    BY <1>0, <1>1
  <2>2. Live(s)'
    BY <2>1, LockProtects
  <2>3. QED
    BY <1>1, <2>1, <2>2 DEF LockedIsLive, Locks
<1>2. ASSUME NEW p \in Handler,
             \A r \in Handler \ {p} : h'[r] = h[r],
             Lock(p), h'[p].req = h[p].req, Live(h[p].req.token)
      PROVE  Live(s)' /\ \A r \in Handler : h'[r].pc = "locked" /\ h'[r].req.token = s => r = q
  <2>1. sessions' = sessions /\ \A r \in Handler : ~Locks(r, h[p].req.token)
    BY <1>2 DEF Lock, store
  <2>2. CASE q = p
    BY <1>2, <2>1, <2>2 DEF Locks, Live, Exists
  <2>3. CASE q # p
    <3>1. h[q].pc = "locked" /\ h[q].req.token = s /\ h'[q] = h[q] /\ s \in SessionId
      BY <1>0, <1>2, <2>3
    <3>2. Live(s)'
      BY <3>1, LockProtects
    <3>3. QED
      BY <1>2, <2>1, <3>1, <3>2 DEF Locks, LockedIsLive
  <2>4. QED
    BY <2>2, <2>3
<1>3. QED
  BY <1>1, <1>2, Moves

KnownExist == \A s \in known : Exists(s)

(* A step that inserts nothing and takes no id.                            *)
LEMMA NewKept ==
  ASSUME TypeOK, NewIsOwn, NEW p \in Handler,
         \A q \in Handler \ {p} : h'[q] = h[q],
         h'[p].new \in {h[p].new, None},
         h'[p].new # None =>
           (h'[p].pc \in {"registered", "locked"} <=> h[p].pc \in {"registered", "locked"}),
         \A s \in SessionId : Exists(s)' <=> Exists(s),
         \/ known' = known
         \/ known' = known \cup ({h[p].new} \ {None}) /\ h'[p].new = None
  PROVE  NewIsOwn'
<1>1. \A q \in Handler : h[q].new \in SessionId \cup {None}
  BY HandlerFields
<1>2. SUFFICES ASSUME NEW q \in Handler, NEW s, s = h'[q].new, s # None
               PROVE  /\ Exists(s)' <=> h'[q].pc \notin {"registered", "locked"}
                      /\ s \notin known'
                      /\ \A r \in Handler : h'[r].new = s => r = q
  BY DEF NewIsOwn
<1>3. h[q].new = s /\ s \in SessionId
  BY <1>1, <1>2
<1>4. Exists(s)' <=> h'[q].pc \notin {"registered", "locked"}
  BY <1>2, <1>3 DEF NewIsOwn
<1>5. \A r \in Handler : h'[r].new = s => r = q
  BY <1>2, <1>3 DEF NewIsOwn
<1>6. s \notin known'
  BY <1>2, <1>3 DEF NewIsOwn
<1>7. QED
  BY <1>4, <1>5, <1>6

(* A step that takes the id t, or inserts the session t, or both. *)
LEMMA NewTaken ==
  ASSUME TypeOK, NewIsOwn, NEW p \in Handler, NEW t \in SessionId,
         t \notin known,
         \A q \in Handler \ {p} : h'[q] = h[q] /\ h[q].new # t,
         h'[p].new \in {t, None},
         \A s \in SessionId \ {t} : Exists(s)' <=> Exists(s),
         h'[p].new = t => (Exists(t)' <=> h'[p].pc \notin {"registered", "locked"}),
         known' = known
  PROVE  NewIsOwn'
<1>1. \A q \in Handler : h[q].new \in SessionId \cup {None}
  BY HandlerFields
<1>2. SUFFICES ASSUME NEW q \in Handler, NEW s, s = h'[q].new, s # None
               PROVE  /\ Exists(s)' <=> h'[q].pc \notin {"registered", "locked"}
                      /\ s \notin known'
                      /\ \A r \in Handler : h'[r].new = s => r = q
  BY DEF NewIsOwn
<1>3. CASE q = p
  BY <1>2, <1>3
<1>4. CASE q # p
  <2>1. h[q].new = s /\ s \in SessionId \ {t} /\ h'[q] = h[q]
    BY <1>1, <1>2, <1>4
  <2>2. \A r \in Handler : h'[r].new = s => r = q
    BY <1>2, <2>1 DEF NewIsOwn
  <2>3. Exists(s)' <=> h'[q].pc \notin {"registered", "locked"}
    BY <1>2, <2>1 DEF NewIsOwn
  <2>4. QED
    BY <1>2, <2>1, <2>2, <2>3 DEF NewIsOwn
<1>5. QED
  BY <1>3, <1>4

LEMMA FreshIsNew ==
  ASSUME KnownExist, NEW t \in FreshIds
  PROVE  t \in SessionId /\ t \notin known /\ ~Exists(t) /\ \A q \in Handler : h[q].new # t
BY DEF FreshIds, KnownExist

LEMMA NewStep ==
  ASSUME TypeOK, LockedIsLive, NewIsOwn, Established, KnownExist, [Next]_vars
  PROVE  NewIsOwn'
<1> DEFINE SameRows == \A s \in SessionId : Exists(s)' <=> Exists(s)
<1>0. h \in [Handler -> HandlerType]
  BY DEF TypeOK
<1>1. sessions' = sessions => SameRows
  BY DEF Exists
<1> HIDE DEF SameRows
<1>2. ASSUME NEW p \in Handler, NEW result, Answer(p, result), SameRows, known' = known,
             h[p].pc \notin {"registered", "locked"}
      PROVE  NewIsOwn'
  <2>1. /\ \A q \in Handler \ {p} : h'[q] = h[q]
        /\ h'[p].new = h[p].new /\ h'[p].pc = "reply"
    BY <1>0, <1>2 DEF Answer, HandlerType
  <2>2. QED
    BY <1>2, <2>1, NewKept DEF SameRows
<1>3. ASSUME NEW p \in Handler, NEW t \in FreshIds, NEW pc \in {"registered", "locked"},
             h' = [h EXCEPT ![p].pc = pc, ![p].new = t], SameRows, known' = known
      PROVE  NewIsOwn'
  <2>1. /\ \A q \in Handler \ {p} : h'[q] = h[q]
        /\ h'[p].new = t /\ h'[p].pc = pc
    BY <1>0, <1>3 DEF HandlerType
  <2>2. /\ t \in SessionId /\ t \notin known /\ \A q \in Handler : h[q].new # t
        /\ ~Exists(t)
    BY <1>3, FreshIsNew
  <2>3. ~Exists(t)' /\ \A s \in SessionId \ {t} : Exists(s)' <=> Exists(s)
    BY <1>3, <2>2 DEF SameRows
  <2>4. Exists(t)' <=> h'[p].pc \notin {"registered", "locked"}
    BY <2>1, <2>3
  <2>5. \A q \in Handler \ {p} : h'[q] = h[q] /\ h[q].new # t
    BY <2>1, <2>2
  <2>6. QED
    BY <1>3, <2>1, <2>2, <2>3, <2>4, <2>5, NewTaken
<1>4. ASSUME NEW p \in Handler, NEW result \in Commits,
             CommitRegister(p, result) \/ CommitRotation(p, result)
      PROVE  NewIsOwn'
  <2>1. /\ h[p].pc \in {"registered", "locked"} /\ h[p].new \in SessionId
        /\ \A q \in Handler \ {p} : h'[q] = h[q]
        /\ h'[p].new \in {h[p].new, None} /\ h'[p].pc = "reply"
        /\ known' = known
    BY <1>0, <1>4 DEF CommitRegister, CommitRotation, TypeOK, HandlerType
  <2>2. PICK t \in SessionId : t = h[p].new
    BY <2>1
  <2>3. ~Exists(t) /\ t \notin known /\ \A q \in Handler \ {p} : h[q].new # t
    BY <2>1, <2>2, NoneIsNoRow DEF NewIsOwn
  <2>4. Exists(t)' /\ \A r \in SessionId \ {t} : Exists(r)' <=> Exists(r)
    <3>1. PICK at \in Time : at = h[p].now
      BY HandlerFields
    <3>2. CASE CommitRegister(p, result)
      <4>1. PICK u \in User : u = h[p].req.user
        BY <3>2 DEF CommitRegister, TypeOK
      <4>2. Founds(t, u, at)
        BY <2>2, <2>3, <3>1, <3>2, <4>1 DEF CommitRegister, Founds
      <4>3. QED
        BY <4>2, FoundsRows, NewRowType, NoneIsNoRow DEF Exists, TypeOK, SessionsType
    <3>3. CASE CommitRotation(p, result)
      <4>1. PICK s \in SessionId : s = h[p].req.token
        BY <3>3 DEF CommitRotation, TypeOK
      <4>2. Live(s) /\ Exists(s) /\ at < sessions[s].expires
        BY <3>1, <3>3, <4>1 DEF CommitRotation, LockedIsLive, Established, Live
      <4>3. Exchanges(s, t, at)
        BY <2>2, <2>3, <3>1, <3>3, <4>1, <4>2 DEF CommitRotation, Exchanges
      <4>4. SessionsType /\ sessions[s] \in Row
        BY <4>2, RowOfSession DEF TypeOK, SessionsType
      <4>5. sessions[s].user \in User /\ sessions[s].family \in SessionId
        BY <4>4 DEF Row
      <4>6. /\ sessions'[s] \in Row
            /\ sessions'[t] = NewRow(sessions[s].user, sessions[s].family, at)
            /\ \A r \in SessionId \ {s, t} : sessions'[r] = sessions[r]
        BY <4>3, <4>4, ExchangesRows
      <4>7. sessions'[t] \in Row
        BY <4>5, <4>6, NewRowType
      <4>8. QED
        BY <4>2, <4>6, <4>7, NoneIsNoRow DEF Exists
    <3>4. QED
      BY <1>4, <3>2, <3>3
  <2>5. QED
    BY <2>1, <2>2, <2>3, <2>4, NewTaken
<1>5. ASSUME NEW p \in Handler, NEW result \in Commits, Login(p, result)
      PROVE  NewIsOwn'
  <2>1. CASE Answer(p, "credentials") /\ UNCHANGED sessions
    BY <1>1, <1>2, <1>5, <2>1 DEF Login
  <2>2. ASSUME NEW s \in FreshIds,
               sessions' = [sessions EXCEPT ![s] = NewRow(h[p].req.user, s, now)],
               h' = IF result = "ok"
                    THEN [h EXCEPT ![p].pc = "audit", ![p].new = s]
                    ELSE [h EXCEPT ![p].pc = "reply", ![p].result = result]
        PROVE  NewIsOwn'
    <3>1. h[p].new = None /\ h[p].req.user \in User /\ now \in Time
      BY <1>5 DEF Login, TypeOK
    <3>2. /\ \A q \in Handler \ {p} : h'[q] = h[q]
          /\ h'[p].new \in {s, None} /\ h'[p].pc \in {"audit", "reply"}
      BY <1>0, <2>2, <3>1 DEF HandlerType
    <3>3. s \in SessionId /\ s # None
      BY NoneIsNoRow DEF FreshIds
    <3>4. NewRow(h[p].req.user, s, now) \in Row
      BY <3>1, <3>3, NewRowType
    <3>5. Exists(s)' /\ \A r \in SessionId \ {s} : Exists(r)' <=> Exists(r)
      BY <2>2, <3>3, <3>4, NoneIsNoRow DEF TypeOK, Exists
    <3>6. QED
      BY <1>5, <3>2, <3>3, <3>5, FreshIsNew, NewTaken DEF Login
  <2>3. QED
    BY <1>5, <2>1, <2>2 DEF Login
<1>6. ASSUME NEW p \in Handler, NEW result \in Commits, Apply(p, result)
      PROVE  NewIsOwn'
  <2>1. Revokes(h[p].snapshot, h[p].now) /\ h[p].snapshot \in SUBSET SessionId /\ h[p].now \in Time
    BY <1>6, HandlerFields DEF Apply, Revokes
  <2>2. SameRows
    BY <2>1, RevokesRows, NoneIsNoRow DEF SameRows, Exists, Live, TypeOK, SessionsType
  <2>3. QED
    BY <1>2, <1>6, <2>2 DEF Apply
<1>7. ASSUME NEW p \in Handler, Register(p) \/ Lock(p)
      PROVE  NewIsOwn'
  BY <1>1, <1>2, <1>3, <1>7 DEF Register, Lock, store
<1>8. ASSUME NEW p \in Handler, Read(p) \/ Audit(p)
      PROVE  NewIsOwn'
  <2>1. ASSUME NEW pc \in {"revoke", "rotate"}, h' = [h EXCEPT ![p].pc = pc], Read(p)
        PROVE  NewIsOwn'
    <3>1. /\ \A q \in Handler \ {p} : h'[q] = h[q]
          /\ h'[p].new = h[p].new /\ h'[p].pc = pc
      BY <1>0, <2>1 DEF HandlerType
    <3>2. SameRows /\ known' = known /\ h[p].pc = "read"
      BY <1>1, <2>1 DEF Read, store
    <3>3. QED
      BY <3>1, <3>2, NewKept DEF SameRows
  <2>2. CASE Read(p)
    BY <1>1, <1>2, <2>1, <2>2 DEF Read, store
  <2>3. CASE Audit(p)
    BY <1>1, <1>2, <2>3 DEF Audit
  <2>4. QED
    BY <1>8, <2>2, <2>3
<1>9. ASSUME NEW p \in Handler,
             Snapshot(p) \/ Fail(p) \/ Reply(p) \/ LoseReply(p) \/ \E r \in Request : Receive(p, r)
      PROVE  NewIsOwn'
  <2>1. SameRows
    BY <1>1, <1>9 DEF Snapshot, Fail, Reply, LoseReply, Receive, store
  <2>2. CASE Snapshot(p)
    <3>1. /\ \A q \in Handler \ {p} : h'[q] = h[q]
          /\ h'[p].new = h[p].new /\ h'[p].pc = "apply" /\ h[p].pc = "revoke" /\ known' = known
      BY <1>0, <2>2 DEF Snapshot, HandlerType
    <3>2. QED
      BY <2>1, <3>1, NewKept DEF SameRows
  <2>3. CASE Fail(p) \/ Reply(p) \/ LoseReply(p) \/ \E r \in Request : Receive(p, r)
    <3>1. /\ \A q \in Handler \ {p} : h'[q] = h[q]
          /\ h'[p].new = None
          /\ known' = known \/ known' = known \cup ({h[p].new} \ {None})
      <4>1. CASE Fail(p)
        BY <1>0, <4>1 DEF Fail, HandlerType
      <4>2. CASE Reply(p) \/ LoseReply(p)
        BY <1>0, <4>2 DEF Reply, LoseReply, Idle
      <4>3. CASE \E r \in Request : Receive(p, r)
        BY <1>0, <4>3 DEF Receive, Idle
      <4>4. QED
        BY <2>3, <4>1, <4>2, <4>3
    <3>2. QED
      BY <2>1, <3>1, NewKept DEF SameRows
  <2>4. QED
    BY <1>9, <2>2, <2>3
<1>10. CASE UNCHANGED vars \/ Tick
  BY <1>10 DEF vars, store, Tick, NewIsOwn, Exists
<1>11. QED
  BY <1>4, <1>5, <1>6, <1>7, <1>8, <1>9, <1>10 DEF Next, Work

LEMMA KnownStep ==
  ASSUME TypeOK, LockedIsLive, NewIsOwn, Established, KnownExist, [Next]_vars
  PROVE  KnownExist'
<1>1. \A s \in SessionId : Exists(s) => Exists(s)'
  BY StepStores, RowsStay DEF TypeOK, SessionsType, Stays
<1>2. known' = known \/ \E p \in Handler :
        /\ h[p].pc = "reply" /\ known' = known \cup ({h[p].new} \ {None})
  BY DEF Next, Work, vars, store, Receive, Register, CommitRegister, Login, Audit, Read,
         Lock, CommitRotation, Snapshot, Apply, Fail, Reply, LoseReply, Tick
<1>3. \A p \in Handler : h[p].pc = "reply" /\ h[p].new # None =>
        h[p].new \in SessionId /\ Exists(h[p].new)
  BY HandlerFields DEF NewIsOwn
<1>4. \A s \in known' : s \in SessionId /\ Exists(s)
  BY <1>2, <1>3 DEF KnownExist, TypeOK
<1>5. QED
  BY <1>1, <1>4 DEF KnownExist

(* Users are registered once, by the handler that holds the address. *)
LEMMA UsersStep ==
  ASSUME TypeOK, OneRegistration, [Next]_vars, NEW u \in User
  PROVE  /\ users[u] # None => users'[u] = users[u]
         /\ users'[u] # users[u] => \E p \in Handler :
              h[p].pc = "registered" /\ h[p].req.user = u /\ h'[p].pc = "reply"
<1>1. ASSUME NEW p \in Handler, NEW result \in Commits, CommitRegister(p, result)
      PROVE  /\ users[u] # None => users'[u] = users[u]
             /\ users'[u] # users[u] => \E q \in Handler :
                  h[q].pc = "registered" /\ h[q].req.user = u /\ h'[q].pc = "reply"
  <2>1. h[p].pc = "registered" /\ h'[p].pc = "reply" /\ h[p].req.user \in User
    BY <1>1 DEF CommitRegister, TypeOK, HandlerType
  <2>2. users[h[p].req.user] = None
    BY <2>1 DEF OneRegistration
  <2>3. u # h[p].req.user => users'[u] = users[u]
    BY <1>1 DEF CommitRegister, TypeOK
  <2>4. QED
    BY <2>1, <2>2, <2>3
<1>2. QED
  BY <1>1 DEF Next, Work, vars, store, Receive, Register, Login, Audit, Read, Lock,
              CommitRotation, Snapshot, Apply, Fail, Reply, LoseReply, Tick

LEMMA RegistrationStep ==
  ASSUME TypeOK, OneRegistration, [Next]_vars
  PROVE  OneRegistration'
<1> SUFFICES ASSUME NEW p \in Handler, NEW q \in Handler, NEW u,
                    h'[p].pc = "registered", h'[q].pc = "registered",
                    h'[p].req.user = u, h'[q].req.user = u
             PROVE  p = q /\ users'[u] = None
  BY DEF OneRegistration
<1>0. \A r \in Handler : h[r].pc \in {"register", "registered"} => h[r].req.user \in User
  BY DEF TypeOK
<1>1. CASE \A r \in Handler : h'[r].pc = "registered" => h'[r] = h[r]
  <2>1. p = q /\ users[u] = None /\ u \in User
    BY <1>0, <1>1 DEF OneRegistration
  <2>2. \A r \in Handler : h[r].pc = "registered" /\ h[r].req.user = u => h'[r].pc = "registered"
    BY <1>1 DEF OneRegistration
  <2>3. QED
    BY <2>1, <2>2, UsersStep
<1>2. ASSUME NEW r \in Handler, \A x \in Handler \ {r} : h'[x] = h[x],
             Register(r), h'[r].req = h[r].req, users[h[r].req.user] = None
      PROVE  p = q /\ users'[u] = None
  <2>1. /\ users' = users
        /\ \A x \in Handler : ~(h[x].pc = "registered" /\ h[x].req.user = h[r].req.user)
    BY <1>2 DEF Register, store
  <2>2. QED
    BY <1>2, <2>1 DEF OneRegistration
<1>3. QED
  BY <1>1, <1>2, Moves

(* What one handler has established, and what its answer stands for. *)
EstablishedAt(p) ==
  /\ h[p].pc = "audit" => users[h[p].req.user] # None
  /\ h[p].pc \in {"rotate", "locked"} =>
       Exists(h[p].req.token) /\ h[p].now < sessions[h[p].req.token].expires
  /\ h[p].pc = "revoke" /\ h[p].req.kind # "logoutAll" => Exists(h[p].req.token)
  /\ h[p].pc \notin {"apply", "reply"} => h[p].snapshot = {}
  /\ \A s \in h[p].snapshot : Exists(s)
  /\ h[p].pc = "reply" => \A s \in h[p].snapshot : ~Live(s)

LEMMA EstablishedIs ==
  Established /\ RevocationReaches <=> \A p \in Handler : EstablishedAt(p)
BY DEF Established, RevocationReaches, EstablishedAt

(* It outlasts the steps of the others. *)
LEMMA EstablishedStays ==
  ASSUME TypeOK, StoreStep, NEW p \in Handler, EstablishedAt(p), h'[p] = h[p],
         \A u \in User : users[u] # None => users'[u] = users[u]
  PROVE  EstablishedAt(p)'
<1>1. \A s \in SessionId : Exists(s) => Stays(s)
  BY RowsStay DEF TypeOK, SessionsType
<1>2. \A s \in SessionId : Exists(s) => Exists(s)' /\ sessions'[s].expires = sessions[s].expires
  BY <1>1 DEF Stays
<1>3. \A s \in SessionId : Exists(s) /\ ~Live(s) => ~Live(s)'
  BY <1>1 DEF Stays, Live, Exists
<1>4. h[p].snapshot \in SUBSET SessionId
  BY HandlerFields
<1>5. h[p].pc \in {"rotate", "locked"} => h[p].req.token \in SessionId
  BY DEF TypeOK
<1>6. h[p].pc = "revoke" /\ Exists(h[p].req.token) => h[p].req.token \in SessionId
  BY DEF TypeOK, Exists, Request
<1>7. h[p].pc = "audit" => h[p].req.user \in User
  BY DEF TypeOK
<1>8. QED
  <2> DEFINE x == h[p]
  <2>1. x.pc = "audit" => users'[x.req.user] # None
    BY <1>7 DEF EstablishedAt
  <2>2. x.pc \in {"rotate", "locked"} =>
          Exists(x.req.token)' /\ x.now < sessions'[x.req.token].expires
    BY <1>2, <1>5 DEF EstablishedAt, Exists
  <2>3. x.pc = "revoke" /\ x.req.kind # "logoutAll" => Exists(x.req.token)'
    BY <1>2, <1>6 DEF EstablishedAt, Exists
  <2>4. \A s \in x.snapshot : Exists(s)'
    BY <1>2, <1>4 DEF EstablishedAt
  <2>5. x.pc = "reply" => \A s \in x.snapshot : ~Live(s)'
    BY <1>3, <1>4 DEF EstablishedAt
  <2>6. QED
    BY <2>1, <2>2, <2>3, <2>4, <2>5 DEF EstablishedAt

LEMMA AnswerEstablished ==
  ASSUME TypeOK, NEW p \in Handler, NEW result, Answer(p, result),
         h[p].pc \notin {"apply", "reply"}, EstablishedAt(p)
  PROVE  EstablishedAt(p)'
<1>1. h'[p].pc = "reply" /\ h'[p].snapshot = h[p].snapshot
  BY DEF Answer, TypeOK, HandlerType
<1>2. QED
  BY <1>1 DEF EstablishedAt

LEMMA SelectedExist ==
  ASSUME TypeOK, NEW p \in Handler, h[p].pc = "revoke", EstablishedAt(p)
  PROVE  \A s \in Selected(h[p].req) : s \in SessionId /\ Exists(s)
<1>1. h[p].req \in Request
  BY DEF TypeOK
<1>2. h[p].req.kind = "logout" => h[p].req.token \in SessionId /\ Exists(h[p].req.token)
  BY <1>1 DEF EstablishedAt, Exists, Request
<1>3. QED
  BY <1>2 DEF Selected, FamilyRows

LEMMA EstablishedMoves ==
  ASSUME TypeOK, LockedIsLive, NewIsOwn, Established, RevocationReaches,
         NEW p \in Handler, Work(p)
  PROVE  EstablishedAt(p)'
<1>0. h \in [Handler -> HandlerType] /\ EstablishedAt(p)
  BY EstablishedIs DEF TypeOK
<1>1. CASE Register(p)
  <2>1. ASSUME NEW s, h' = [h EXCEPT ![p].pc = "registered", ![p].new = s]
        PROVE  EstablishedAt(p)'
    <3>1. h'[p].pc = "registered" /\ h'[p].snapshot = {}
      BY <1>0, <1>1, <2>1 DEF EstablishedAt, Register, HandlerType
    <3>2. QED
      BY <3>1 DEF EstablishedAt
  <2>2. QED
    BY <1>0, <1>1, <2>1, AnswerEstablished DEF Register
<1>2. CASE Audit(p)
  BY <1>0, <1>2, AnswerEstablished DEF Audit
<1>3. CASE Read(p)
  <2>1. ASSUME Exists(h[p].req.token), h' = [h EXCEPT ![p].pc = "revoke"]
        PROVE  EstablishedAt(p)'
    <3>1. /\ h'[p].pc = "revoke" /\ h'[p].snapshot = {} /\ h'[p].req = h[p].req
          /\ sessions' = sessions
      BY <1>0, <1>3, <2>1 DEF EstablishedAt, Read, HandlerType, store
    <3>2. Exists(h[p].req.token)'
      BY <2>1, <3>1 DEF Exists
    <3>3. QED
      BY <3>1, <3>2 DEF EstablishedAt
  <2>2. ASSUME Live(h[p].req.token), sessions[h[p].req.token].expires > h[p].now,
               h' = [h EXCEPT ![p].pc = "rotate"]
        PROVE  EstablishedAt(p)'
    <3>1. /\ h'[p].pc = "rotate" /\ h'[p].snapshot = {} /\ h'[p].req = h[p].req
          /\ h'[p].now = h[p].now /\ sessions' = sessions
      BY <1>0, <1>3, <2>2 DEF EstablishedAt, Read, HandlerType, store
    <3>2. Exists(h[p].req.token) /\ h[p].req.token \in SessionId
      BY <1>3, <2>2 DEF Live, Exists, Read, TypeOK, Request
    <3>3. sessions[h[p].req.token].expires \in Nat /\ h[p].now \in Nat
      BY <3>2, RowOfSession, HandlerFields, SessionsAssumption
         DEF TypeOK, SessionsType, Row, Time
    <3>4. Exists(h[p].req.token)' /\ h'[p].now < sessions'[h'[p].req.token].expires
      BY <2>2, <3>1, <3>2, <3>3 DEF Exists
    <3>5. QED
      BY <3>1, <3>4 DEF EstablishedAt
  <2>3. QED
    BY <1>0, <1>3, <2>1, <2>2, AnswerEstablished DEF Read
<1>4. CASE Lock(p)
  <2>1. ASSUME NEW t, h' = [h EXCEPT ![p].pc = "locked", ![p].new = t]
        PROVE  EstablishedAt(p)'
    <3>0. h[p].pc = "rotate" /\ sessions' = sessions
      BY <1>4 DEF Lock, store
    <3>1. /\ h'[p].pc = "locked" /\ h'[p].snapshot = h[p].snapshot /\ h'[p].req = h[p].req
          /\ h'[p].now = h[p].now
      BY <1>0, <2>1 DEF HandlerType
    <3>2. /\ Exists(h[p].req.token) /\ h[p].now < sessions[h[p].req.token].expires
          /\ h[p].snapshot = {}
      BY <1>0, <3>0 DEF EstablishedAt
    <3>3. QED
      BY <3>0, <3>1, <3>2 DEF EstablishedAt, Exists
  <2>2. QED
    BY <1>0, <1>4, <2>1, AnswerEstablished DEF Lock
<1>5. CASE Snapshot(p)
  <2>1. /\ h'[p].pc = "apply" /\ h'[p].snapshot = Selected(h[p].req)
        /\ sessions' = sessions
    BY <1>0, <1>5 DEF Snapshot, HandlerType, store
  <2>2. \A s \in Selected(h[p].req) : Exists(s)
    BY <1>0, <1>5, SelectedExist DEF Snapshot
  <2>3. QED
    BY <2>1, <2>2 DEF EstablishedAt, Exists
<1>6. ASSUME NEW result \in Commits, CommitRegister(p, result) \/ CommitRotation(p, result)
      PROVE  EstablishedAt(p)'
  <2>1. h'[p].pc = "reply" /\ h'[p].snapshot = {}
    BY <1>0, <1>6 DEF EstablishedAt, CommitRegister, CommitRotation, HandlerType
  <2>2. QED
    BY <2>1 DEF EstablishedAt
<1>7. ASSUME NEW result \in Commits, Login(p, result)
      PROVE  EstablishedAt(p)'
  <2>1. CASE Answer(p, "credentials")
    BY <1>0, <1>7, <2>1, AnswerEstablished DEF Login
  <2>2. ASSUME NEW s, users[h[p].req.user] = h[p].req.password,
               h' = IF result = "ok"
                    THEN [h EXCEPT ![p].pc = "audit", ![p].new = s]
                    ELSE [h EXCEPT ![p].pc = "reply", ![p].result = result]
        PROVE  EstablishedAt(p)'
    <3>0. h[p].pc = "login" /\ users' = users /\ h[p].snapshot = {}
      BY <1>0, <1>7 DEF Login, EstablishedAt
    <3>1. /\ h'[p].pc \in {"audit", "reply"} /\ h'[p].snapshot = h[p].snapshot
          /\ h'[p].req = h[p].req
      BY <1>0, <2>2 DEF HandlerType
    <3>2. h[p].req.password \in Password
      BY <3>0 DEF TypeOK
    <3>3. users[h[p].req.user] # None
      BY <2>2, <3>2, NoneIsNoRow
    <3>4. QED
      BY <3>0, <3>1, <3>3 DEF EstablishedAt
  <2>3. QED
    BY <1>7, <2>1, <2>2 DEF Login
<1>8. ASSUME NEW result \in Commits, Apply(p, result)
      PROVE  EstablishedAt(p)'
  <2>1. PICK S \in SUBSET SessionId : S = h[p].snapshot
    BY HandlerFields
  <2>2. PICK at \in Time : at = h[p].now
    BY HandlerFields
  <2>3. Revokes(S, at)
    BY <1>8, <2>1, <2>2 DEF Apply, Revokes
  <2>4. h'[p].pc = "reply" /\ h'[p].snapshot = S
    BY <1>0, <1>8, <2>1 DEF Apply, Answer, HandlerType
  <2>5. \A s \in S : Exists(s)
    BY <1>0, <2>1 DEF EstablishedAt
  <2>6. at # None
    BY <2>2, HandlerFields
  <2>7. \A s \in S : Exists(s)' /\ ~Live(s)'
    BY <2>3, <2>5, <2>6, RevokesRows, NoneIsNoRow DEF Exists, Live, TypeOK, SessionsType
  <2>8. QED
    BY <2>4, <2>7 DEF EstablishedAt
<1>9. QED
  BY <1>1, <1>2, <1>3, <1>4, <1>5, <1>6, <1>7, <1>8 DEF Work

LEMMA EstablishedStep ==
  ASSUME TypeOK, LockedIsLive, NewIsOwn, Established, RevocationReaches, OneRegistration,
         [Next]_vars
  PROVE  Established' /\ RevocationReaches'
<1> SUFFICES ASSUME NEW q \in Handler
             PROVE  EstablishedAt(q)'
  BY DEF Established, RevocationReaches, EstablishedAt
<1>0. h \in [Handler -> HandlerType] /\ EstablishedAt(q)
  BY EstablishedIs DEF TypeOK
<1>1. CASE h'[q] = h[q]
  BY <1>0, <1>1, StepStores, UsersStep, EstablishedStays
<1>2. CASE Work(q)
  BY <1>2, EstablishedMoves
<1>3. CASE Fail(q)
  <2>1. h'[q].pc = "reply" /\ h'[q].snapshot = {}
    BY <1>0, <1>3 DEF Fail, HandlerType
  <2>2. QED
    BY <2>1 DEF EstablishedAt
<1>4. CASE Reply(q) \/ LoseReply(q)
  <2>1. h'[q] = Idle
    BY <1>0, <1>4 DEF Reply, LoseReply
  <2>2. QED
    BY <2>1 DEF EstablishedAt, Idle
<1>5. ASSUME NEW r \in Request, Receive(q, r)
      PROVE  EstablishedAt(q)'
  <2>1. h'[q].pc = FirstStep(r.kind) /\ h'[q].req = r /\ h'[q].snapshot = {}
    BY <1>0, <1>5 DEF Receive, Idle
  <2>2. /\ FirstStep(r.kind) \in {"register", "login", "revoke", "read"}
        /\ FirstStep(r.kind) = "revoke" => r.kind = "logoutAll"
    BY DEF FirstStep
  <2>3. QED
    BY <2>1, <2>2 DEF EstablishedAt
<1>6. QED
  <2>1. ASSUME NEW p \in Handler, p # q,
               Work(p) \/ Fail(p) \/ Reply(p) \/ LoseReply(p) \/ \E r \in Request : Receive(p, r)
        PROVE  h'[q] = h[q]
    <3>1. CASE Work(p)
      <4>1. \A result : Answer(p, result) => h'[q] = h[q]
        BY <1>0, <2>1 DEF Answer
      <4>2. QED
        BY <1>0, <2>1, <3>1, <4>1
           DEF Work, Register, CommitRegister, Login, Audit, Read, Lock, CommitRotation,
               Snapshot, Apply
    <3>2. CASE Fail(p) \/ Reply(p) \/ LoseReply(p) \/ \E r \in Request : Receive(p, r)
      BY <1>0, <2>1, <3>2 DEF Fail, Reply, LoseReply, Receive
    <3>3. QED
      BY <2>1, <3>1, <3>2
  <2>2. QED
    BY <1>1, <1>2, <1>3, <1>4, <1>5, <2>1 DEF Next, Tick, vars

-----------------------------------------------------------------------------
(* Registration *)

WholeUser(u) ==
  /\ users[u] # None =>
       audits[u] > 0 /\ \E s \in SessionId : Exists(s) /\ sessions[s].user = u
  /\ users[u] = None =>
       audits[u] = 0 /\ \A s \in SessionId : ~(Exists(s) /\ sessions[s].user = u)

(* A step that registers nobody, writes events of registered users only    *)
(* and inserts sessions of registered users only.                          *)
LEMMA WholeStays ==
  ASSUME TypeOK, StoreStep, NEW u \in User, WholeUser(u), users' = users,
         audits'[u] = audits[u] \/ (users[u] # None /\ audits'[u] = audits[u] + 1),
         \A s \in SessionId : Exists(s)' /\ sessions'[s].user = u =>
           (Exists(s) /\ sessions[s].user = u) \/ users[u] # None
  PROVE  WholeUser(u)'
<1>1. \A s \in SessionId : Exists(s) => Exists(s)' /\ sessions'[s].user = sessions[s].user
  BY RowsStay DEF TypeOK, SessionsType, Stays
<1>2. audits[u] \in Nat
  BY DEF TypeOK
<1>3. CASE users[u] # None
  <2>1. audits'[u] > 0
    BY <1>2, <1>3 DEF WholeUser
  <2>2. PICK s \in SessionId : Exists(s) /\ sessions[s].user = u
    BY <1>3 DEF WholeUser
  <2>3. Exists(s)' /\ sessions'[s].user = u
    BY <1>1, <2>2
  <2>4. QED
    BY <1>3, <2>1, <2>3 DEF WholeUser
<1>4. CASE users[u] = None
  BY <1>4 DEF WholeUser
<1>5. QED
  BY <1>3, <1>4

LEMMA RegisteredStep ==
  ASSUME TypeOK, LockedIsLive, NewIsOwn, Established, OneRegistration, RegisteredWhole,
         [Next]_vars
  PROVE  RegisteredWhole'
<1> SUFFICES ASSUME NEW u \in User
             PROVE  WholeUser(u)'
  BY DEF RegisteredWhole, WholeUser
<1>0. WholeUser(u) /\ StoreStep /\ SessionsType
  BY StepStores DEF RegisteredWhole, WholeUser, TypeOK, SessionsType
<1>1. CASE UNCHANGED store
  BY <1>1 DEF store, RegisteredWhole, WholeUser, Exists
<1>2. ASSUME NEW p \in Handler, NEW result \in Commits, CommitRegister(p, result)
      PROVE  WholeUser(u)'
  <2>1. PICK v \in User : v = h[p].req.user
    BY <1>2 DEF CommitRegister, TypeOK
  <2>2. PICK s \in SessionId : s = h[p].new
    BY <1>2 DEF CommitRegister, TypeOK
  <2>3. PICK at \in Time : at = h[p].now
    BY HandlerFields
  <2>4. h[p].pc = "registered" /\ h[p].req.password \in Password
    BY <1>2 DEF CommitRegister, TypeOK
  <2>5. ~Exists(s) /\ users[v] = None
    BY <2>1, <2>2, <2>4, NoneIsNoRow DEF NewIsOwn, OneRegistration
  <2>6. Founds(s, v, at)
    BY <1>2, <2>1, <2>2, <2>3, <2>5 DEF CommitRegister, Founds
  <2>7. /\ sessions'[s] = NewRow(v, s, at) /\ NewRow(v, s, at) \in Row
        /\ NewRow(v, s, at).user = v
        /\ \A r \in SessionId \ {s} : sessions'[r] = sessions[r]
    BY <1>0, <2>6, FoundsRows, NewRowType
  <2>8. CASE u = v
    <3>1. users'[u] # None /\ audits'[u] = audits[u] + 1 /\ audits[u] \in Nat
      BY <1>2, <2>1, <2>4, <2>8, NoneIsNoRow DEF CommitRegister, TypeOK
    <3>2. Exists(s)' /\ sessions'[s].user = u
      BY <2>7, <2>8, NoneIsNoRow DEF Exists
    <3>3. QED
      BY <3>1, <3>2 DEF WholeUser
  <2>9. CASE u # v
    <3>1. users'[u] = users[u] /\ audits'[u] = audits[u]
      BY <1>2, <2>1, <2>9 DEF CommitRegister, TypeOK
    <3>2. \A r \in SessionId : (Exists(r)' /\ sessions'[r].user = u)
                                 <=> (Exists(r) /\ sessions[r].user = u)
      BY <2>5, <2>7, <2>9 DEF Exists
    <3>3. QED
      BY <1>0, <3>1, <3>2 DEF WholeUser
  <2>10. QED
    BY <2>8, <2>9
<1>3. ASSUME NEW p \in Handler, NEW result \in Commits, Login(p, result)
      PROVE  WholeUser(u)'
  <2>1. users' = users /\ audits' = audits /\ h[p].pc = "login"
    BY <1>3 DEF Login
  <2>2. CASE UNCHANGED sessions
    BY <1>1, <2>1, <2>2 DEF store
  <2>3. ASSUME NEW s \in FreshIds, users[h[p].req.user] = h[p].req.password,
               sessions' = [sessions EXCEPT ![s] = NewRow(h[p].req.user, s, now)]
        PROVE  WholeUser(u)'
    <3>1. h[p].req.user \in User /\ h[p].req.password \in Password /\ s \in SessionId
      BY <2>1 DEF TypeOK, FreshIds
    <3>2. users[h[p].req.user] # None
      BY <2>3, <3>1, NoneIsNoRow
    <3>3. /\ sessions'[s].user = h[p].req.user
          /\ \A r \in SessionId \ {s} : sessions'[r] = sessions[r]
      BY <2>3, <3>1 DEF TypeOK, NewRow
    <3>4. \A r \in SessionId : Exists(r)' /\ sessions'[r].user = u =>
            (Exists(r) /\ sessions[r].user = u) \/ users[u] # None
      BY <3>2, <3>3 DEF Exists
    <3>5. audits'[u] = audits[u]
      BY <2>1
    <3>6. QED
      BY <1>0, <2>1, <3>4, <3>5, WholeStays
  <2>4. QED
    BY <1>3, <2>2, <2>3 DEF Login
<1>4. ASSUME NEW p \in Handler, NEW result \in Commits, CommitRotation(p, result)
      PROVE  WholeUser(u)'
  <2>1. PICK s \in SessionId, t \in SessionId, at \in Time :
          s = h[p].req.token /\ t = h[p].new /\ at = h[p].now
    BY <1>4, HandlerFields DEF CommitRotation, TypeOK
  <2>2. users' = users /\ audits' = audits /\ h[p].pc = "locked"
    BY <1>4 DEF CommitRotation
  <2>3. Live(s) /\ Exists(s) /\ at < sessions[s].expires /\ ~Exists(t)
    BY <2>1, <2>2, NoneIsNoRow DEF LockedIsLive, Established, NewIsOwn, Live
  <2>4. Exchanges(s, t, at)
    BY <1>4, <2>1, <2>3 DEF CommitRotation, Exchanges
  <2>5. sessions[s] \in Row
    BY <1>0, <2>3, RowOfSession
  <2>6. sessions'[t].user = sessions[s].user
    BY <1>0, <2>4, <2>5, ExchangesRows, NewRowType DEF Row
  <2>7. /\ sessions'[s].user = sessions[s].user
        /\ \A r \in SessionId \ {s, t} : sessions'[r] = sessions[r]
    BY <1>0, <2>4, ExchangesRows
  <2>8. Exists(s) /\ sessions[s].user = u => users[u] # None
    BY <1>0, <2>1 DEF WholeUser
  <2>9. \A r \in SessionId : Exists(r)' /\ sessions'[r].user = u =>
          (Exists(r) /\ sessions[r].user = u) \/ users[u] # None
    BY <2>3, <2>6, <2>7, <2>8 DEF Exists
  <2>10. audits'[u] = audits[u]
    BY <2>2
  <2>11. QED
    BY <1>0, <2>2, <2>9, <2>10, WholeStays
<1>5. ASSUME NEW p \in Handler, NEW result \in Commits, Apply(p, result)
      PROVE  WholeUser(u)'
  <2>1. PICK S \in SUBSET SessionId, at \in Time : S = h[p].snapshot /\ at = h[p].now
    BY HandlerFields
  <2>2. Revokes(S, at) /\ users' = users /\ audits' = audits
    BY <1>5, <2>1 DEF Apply, Revokes
  <2>3. \A r \in SessionId : Exists(r)' /\ sessions'[r].user = u =>
          Exists(r) /\ sessions[r].user = u
    BY <1>0, <2>2, RevokesRows DEF Live, Exists
  <2>4. audits'[u] = audits[u]
    BY <2>2
  <2>5. QED
    BY <1>0, <2>2, <2>3, <2>4, WholeStays
<1>6. ASSUME NEW p \in Handler, Audit(p)
      PROVE  WholeUser(u)'
  <2>1. users[h[p].req.user] # None /\ h[p].req.user \in User
    BY <1>6 DEF Audit, Established, TypeOK
  <2>2. audits'[u] = audits[u] \/ (users[u] # None /\ audits'[u] = audits[u] + 1)
    <3>1. PICK v \in User : v = h[p].req.user
      BY <2>1
    <3>2. audits' = audits \/ audits' = [audits EXCEPT ![v] = @ + 1]
      BY <1>6, <3>1 DEF Audit
    <3>3. QED
      BY <2>1, <3>1, <3>2 DEF TypeOK
  <2>3. users' = users /\ sessions' = sessions
    BY <1>6 DEF Audit
  <2>4. QED
    BY <1>0, <2>2, <2>3, WholeStays DEF Exists
<1>7. QED
  BY <1>1, <1>2, <1>3, <1>4, <1>5, <1>6
     DEF Next, Work, vars, store, Receive, Register, Read, Lock, Snapshot, Fail, Reply,
         LoseReply, Tick

-----------------------------------------------------------------------------
(* The theorems *)

LEMMA InitInv == Init => IInv
<1> SUFFICES ASSUME Init PROVE IInv
  OBVIOUS
<1>1. TypeOK
  <2>1. Idle \in HandlerType
    BY SessionsAssumption DEF Idle, HandlerType, Pc, Time
  <2>2. now \in Time
    BY SessionsAssumption DEF Init, Time
  <2>3. QED
    BY <2>1, <2>2 DEF Init, TypeOK, Idle
<1>2. \A s \in SessionId : ~Exists(s) /\ ~Live(s)
  BY DEF Init, Exists, Live
<1>3. OneLivePerFamily /\ FamilyIsChain /\ ExchangedWhileValid
  BY <1>2 DEF OneLivePerFamily, FamilyIsChain, ExchangedWhileValid, Replaces
<1>4. LockedIsLive /\ NewIsOwn /\ OneRegistration /\ Established /\ RevocationReaches
  BY DEF Init, Idle, LockedIsLive, NewIsOwn, OneRegistration, Established, RevocationReaches
<1>5. PairsAreSessions /\ RegisteredWhole
  BY <1>2 DEF Init, Idle, PairsAreSessions, RegisteredWhole
<1>6. QED
  BY <1>1, <1>3, <1>4, <1>5 DEF IInv

LEMMA StepInv == IInv /\ [Next]_vars => IInv'
<1> SUFFICES ASSUME IInv, [Next]_vars PROVE IInv'
  OBVIOUS
<1> USE DEF IInv
<1>1. KnownExist
  BY DEF PairsAreSessions, KnownExist
<1>2. TypeOK' /\ LockedIsLive' /\ NewIsOwn' /\ KnownExist'
  BY <1>1, TypeStep, LockStep, NewStep, KnownStep
<1>3. OneLivePerFamily' /\ FamilyIsChain' /\ ExchangedWhileValid'
  BY StepStores, ChainStep DEF Chained, TypeOK, SessionsType
<1>4. OneRegistration' /\ Established' /\ RevocationReaches' /\ RegisteredWhole'
  BY RegistrationStep, EstablishedStep, RegisteredStep
<1>5. PairsAreSessions'
  BY <1>2 DEF NewIsOwn, KnownExist, PairsAreSessions
<1>6. QED
  BY <1>2, <1>3, <1>4, <1>5

(* The inductive invariant holds of every behaviour of the handlers. *)
THEOREM SessionsInductive == Spec => []IInv
BY InitInv, StepInv, PTL DEF Spec

(* Variables and handlers have their types. *)
THEOREM SessionsTyped == Spec => []TypeOK
BY SessionsInductive, PTL DEF IInv

(* Rotation keeps its promise: a family has one usable token at most. *)
THEOREM OneLive == Spec => []OneLivePerFamily
BY SessionsInductive, PTL DEF IInv

(* A family is a chain from its founder on, in which every other session   *)
(* has replaced exactly one, which is revoked (store.go:107-133).          *)
THEOREM Chains == Spec => []FamilyIsChain
BY SessionsInductive, PTL DEF IInv

(* What is exchanged had not expired, and what replaces it lives for TTL   *)
(* from then, whatever ran between the look-up of a refresh and its        *)
(* rotation.                                                               *)
THEOREM ExchangedInTime == Spec => []ExchangedWhileValid
BY SessionsInductive, PTL DEF IInv

(* A pair that is answered is a session, and only one client's. *)
THEOREM Pairs == Spec => []PairsAreSessions
BY SessionsInductive, PTL DEF IInv

(* A revocation that is answered has reached the rows it saw. *)
THEOREM Reaches == Spec => []RevocationReaches
BY SessionsInductive, PTL DEF IInv

(* A registration is all or nothing. *)
THEOREM Whole == Spec => []RegisteredWhole
BY SessionsInductive, PTL DEF IInv

-----------------------------------------------------------------------------
(* The store's steps as steps of SessionFamilies *)

Usable == [f \in SessionId |-> LiveIn(f)]
Issued == {s \in SessionId : Exists(s)}

LEMMA FoundsBegins ==
  ASSUME SessionsType, Chained, NEW s \in SessionId, NEW u \in User, NEW at \in Time,
         Founds(s, u, at)
  PROVE  Families!Begin(s)
<1>1. /\ sessions'[s] = NewRow(u, s, at)
      /\ \A r \in SessionId \ {s} : sessions'[r] = sessions[r]
  BY FoundsRows
<1>2. /\ NewRow(u, s, at) \in Row
      /\ NewRow(u, s, at).revokedAt = None
      /\ NewRow(u, s, at).family = s
  BY NewRowType
<1>3. ~Exists(s)
  BY DEF Founds
<1>4. \A r \in SessionId : Exists(r) => sessions[r].family # s
  BY <1>3 DEF Chained, FamilyIsChain
<1>5. Exists(s)' /\ Live(s)' /\ (sessions[s].family = s)'
  BY <1>1, <1>2, NoneIsNoRow DEF Exists, Live
<1>6. \A r \in SessionId \ {s} :
        /\ Exists(r)' <=> Exists(r)
        /\ Live(r)' <=> Live(r)
        /\ sessions'[r].family = sessions[r].family
  BY <1>1 DEF Exists, Live
<1>7. LiveIn(s)' = {s}
  BY <1>4, <1>5, <1>6, RowOfSession DEF LiveIn
<1>8. \A f \in SessionId \ {s} : LiveIn(f)' = LiveIn(f)
  <2>1. ~Live(s)
    BY <1>3 DEF Live
  <2>2. QED
    BY <1>5, <1>6, <2>1 DEF LiveIn
<1>9. Issued' = Issued \cup {s} /\ s \notin Issued
  BY <1>3, <1>5, <1>6 DEF Issued
<1>10. Usable' = [Usable EXCEPT ![s] = {s}]
  BY <1>7, <1>8 DEF Usable
<1>11. QED
  BY <1>9, <1>10 DEF Families!Begin, Usable, Issued

LEMMA ExchangesExchanges ==
  ASSUME SessionsType, Chained, NEW s \in SessionId, NEW t \in SessionId, NEW at \in Time,
         Exchanges(s, t, at)
  PROVE  \E f \in SessionId : Families!Exchange(f, s, t)
<1>1. Live(s) /\ Exists(s) /\ ~Exists(t) /\ ~Live(t) /\ sessions[s] \in Row
  BY RowOfSession DEF Exchanges, Live
<1>2. PICK f \in SessionId : f = sessions[s].family
  BY <1>1 DEF Row
<1>3. /\ s # t
      /\ sessions'[t] = NewRow(sessions[s].user, sessions[s].family, at)
      /\ sessions'[s] \in Row
      /\ sessions'[s].revokedAt = at
      /\ \A r \in SessionId \ {s, t} : sessions'[r] = sessions[r]
  BY ExchangesRows
<1>4. /\ sessions'[t] \in Row
      /\ sessions'[t].revokedAt = None
      /\ sessions'[t].family = f
  BY <1>1, <1>2, <1>3, NewRowType DEF Row
<1>5. at # None
  BY SessionsAssumption DEF Time
<1>6. Exists(t)' /\ Live(t)' /\ Exists(s)' /\ ~Live(s)'
  BY <1>3, <1>4, <1>5, NoneIsNoRow DEF Exists, Live
<1>7. \A r \in SessionId \ {s, t} :
        /\ Exists(r)' <=> Exists(r)
        /\ Live(r)' <=> Live(r)
        /\ sessions'[r].family = sessions[r].family
  BY <1>3 DEF Exists, Live
<1>8. LiveIn(f) = {s}
  BY <1>1, <1>2 DEF LiveIn, Chained, OneLivePerFamily
<1>9. LiveIn(f)' = {t}
  BY <1>4, <1>6, <1>7, <1>8 DEF LiveIn
<1>10. \A g \in SessionId \ {f} : LiveIn(g)' = LiveIn(g)
  BY <1>1, <1>2, <1>4, <1>6, <1>7 DEF LiveIn
<1>11. Issued' = Issued \cup {t} /\ t \notin Issued
  BY <1>1, <1>6, <1>7 DEF Issued
<1>12. Usable' = [Usable EXCEPT ![f] = {t}] /\ Usable[f] = {s}
  BY <1>8, <1>9, <1>10 DEF Usable
<1>13. QED
  BY <1>11, <1>12 DEF Families!Exchange, Usable, Issued

LEMMA RevokesEnds ==
  ASSUME SessionsType, Chained, NEW S \in SUBSET SessionId, NEW at \in Time, Revokes(S, at)
  PROVE  \E F \in SUBSET SessionId : Families!End(F)
<1> DEFINE F == {f \in SessionId : \E s \in S : Live(s) /\ sessions[s].family = f}
<1>1. at # None
  BY SessionsAssumption DEF Time
<1>2. \A r \in SessionId :
        /\ ~(r \in S /\ Live(r)) => sessions'[r] = sessions[r]
        /\ r \in S /\ Live(r) =>
             /\ sessions'[r] \in Row
             /\ sessions'[r].family = sessions[r].family
             /\ sessions'[r].revokedAt = at
  BY RevokesRows
<1>3. \A r \in SessionId :
        /\ Exists(r)' <=> Exists(r)
        /\ Live(r)' <=> Live(r) /\ r \notin S
        /\ sessions'[r].family = sessions[r].family
  BY <1>1, <1>2, NoneIsNoRow DEF Exists, Live
<1>4. \A f \in F : LiveIn(f)' = {}
  BY <1>3 DEF LiveIn, Chained, OneLivePerFamily
<1>5. \A f \in SessionId \ F : LiveIn(f)' = LiveIn(f)
  BY <1>3 DEF LiveIn
<1>6. Issued' = Issued
  BY <1>3 DEF Issued
<1>7. Usable' = [f \in SessionId |-> IF f \in F THEN {} ELSE Usable[f]]
  BY <1>4, <1>5 DEF Usable
<1>8. Families!End(F)
  BY <1>6, <1>7 DEF Families!End, Usable, Issued
<1>9. QED
  BY <1>8

LEMMA FamiliesStep ==
  IInv /\ [Next]_vars => [Families!Next]_<<Usable, Issued>>
<1> SUFFICES ASSUME IInv, [Next]_vars
             PROVE  [Families!Next]_<<Usable, Issued>>
  OBVIOUS
<1>1. SessionsType /\ Chained /\ StoreStep
  BY StepStores DEF IInv, TypeOK, SessionsType, Chained
<1>2. CASE UNCHANGED sessions
  BY <1>2 DEF Usable, Issued, LiveIn, Live, Exists
<1>3. CASE \E s \in SessionId, u \in User, at \in Time : Founds(s, u, at)
  BY <1>1, <1>3, FoundsBegins DEF Families!Next
<1>4. CASE \E s, t \in SessionId, at \in Time : Exchanges(s, t, at)
  BY <1>1, <1>4, ExchangesExchanges DEF Families!Next
<1>5. CASE \E S \in SUBSET SessionId, at \in Time : Revokes(S, at)
  BY <1>1, <1>5, RevokesEnds DEF Families!Next
<1>6. QED
  BY <1>1, <1>2, <1>3, <1>4, <1>5 DEF StoreStep

(* What is settled in refresh_sessions stays: a revoked row is final. *)
THEOREM Settles == Spec => Settled
<1>1. IInv /\ [Next]_vars =>
        [\A s \in SessionId : Exists(s) =>
           /\ sessions'[s] # None
           /\ sessions'[s].user = sessions[s].user
           /\ sessions'[s].family = sessions[s].family
           /\ sessions'[s].expires = sessions[s].expires
           /\ ~Live(s) => sessions'[s] = sessions[s]]_vars
  <2> SUFFICES ASSUME IInv, [Next]_vars
               PROVE  \A s \in SessionId : Exists(s) => Stays(s)
    BY DEF Stays, Exists
  <2>1. SessionsType /\ StoreStep
    BY StepStores DEF IInv, TypeOK, SessionsType
  <2>2. QED
    BY <2>1, RowsStay
<1>2. QED
  BY <1>1, SessionsInductive, PTL DEF Spec, Settled

(* The handlers implement SessionFamilies: for the sessions they hold,     *)
(* rotation, reuse and logout are exchanges and ends of families.          *)
THEOREM Implements == Spec => ImplementsFamilies
<1>1. Init => Families!Init
  BY DEF Init, Families!Init, LiveIn, Live, Exists
<1>2. QED
  BY <1>1, FamiliesStep, SessionsInductive, PTL
     DEF Spec, ImplementsFamilies, Families!Spec, Usable, Issued
=============================================================================
