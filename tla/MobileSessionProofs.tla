------------------------ MODULE MobileSessionProofs ------------------------
(* Proofs about MobileSession, for any number of calls and any faults.     *)
EXTENDS MobileSession, SumTheorems, TLAPS

-----------------------------------------------------------------------------
(* The inductive invariant. *)

(* A call that has read the stored token and may write it back. *)
Reader(e) == e.refreshing \/ (e.kind = "hydrate" /\ e.pc # "read")

(* Where a call may hold the pair of an answer. *)
Shaped(e) ==
  /\ e.pc \notin {"answered", "save", "saved"} => e.got = None
  /\ e.pc = "answered" /\ e.answer # "ok" => e.got = None
  /\ e.got # None => Reader(e) \/ e.kind \in {"login", "register"}
  /\ e.pc = "save" => e.got # None
  /\ Reader(e) /\ e.pc = "answered" /\ e.answer = "ok" => e.got # None
  /\ e.pc = "rotating" => Reader(e)
  /\ e.pc = "read" => e.kind \in {"hydrate", "logout"} /\ ~e.refreshing
  /\ e.pc = "reread" => ~e.refreshing
  /\ e.pc \in {"read", "reread"} => e.answer = "none"

(* While a session is owed no call logs out or clears what is stored, and  *)
(* no refresh is refused.                                                  *)
Harmless(e) ==
  /\ e.kind \notin {"logout", "logoutAll"} /\ e.pc \notin {"clear", "cleared"}
  /\ e.kind = "hydrate" => ~e.refreshing /\ e.pc # "reread"
  /\ Reader(e) => e.answer # "unauthorized"

(* One call at most has read the stored token; the token it presents is    *)
(* live and in no other answer; every answered pair is live; so is what is *)
(* stored, or what will be.                                                *)
SessionKept ==
  owes = "session" =>
    /\ \A c \in Call :
         /\ Harmless(call[c])
         /\ call[c].got # None => call[c].got \in live
         /\ Reader(call[c]) =>
              /\ \A d \in Call \ {c} : ~Reader(call[d])
              /\ call[c].pc \in {"server", "rotating"} =>
                   /\ Presented(call[c]) \in live
                   /\ \A d \in Call : call[d].got # Presented(call[c])
    /\ \/ stored \in live
       \/ \E c \in Call :
            /\ Reader(call[c]) /\ call[c].got \in live
            /\ call[c].pc \in {"answered", "save"}

(* While the user signs out that is the only call, and it leaves nothing   *)
(* stored; afterwards there is none but a hydration, which has not read.   *)
Leaving ==
  owes = "leaving" =>
    \A c \in Call : call[c] # Idle =>
      /\ Alone(c) /\ call[c].kind \in {"logout", "logoutAll"}
      /\ call[c].pc = "cleared" => stored = None
Silent ==
  owes = "silence" =>
    /\ stored = None /\ access = None
    /\ \A c \in Call :
         \/ call[c] = Idle
         \/ call[c].kind = "hydrate" /\ call[c].pc = "read" /\ ~call[c].refreshing

IInv ==
  /\ TypeOK /\ (\A c \in Call : Shaped(call[c])) /\ SessionKept /\ Leaving /\ Silent

-----------------------------------------------------------------------------
(* Tokens. *)

(* What is held is finite, and less than there is. *)
LEMMA HeldFinite ==
  ASSUME TypeOK
  PROVE  IsFiniteSet(Held) /\ ~(Token \subseteq Held)
         /\ \A f : Token # {f[t] : t \in Held \ {None}}
<1> DEFINE S == Call \X (1 .. 4)
           Carried(s) == IF s[2] = 1 THEN call[s[1]].body ELSE
                         IF s[2] = 2 THEN call[s[1]].sent ELSE
                         IF s[2] = 3 THEN call[s[1]].bearer ELSE call[s[1]].got
           T == UNION {{call[c].body, call[c].sent, call[c].bearer, call[c].got} : c \in Call}
           g == [s \in S |-> Carried(s)]
<1>1. IsFiniteSet(S) /\ Cardinality(S) = 4 * Cardinality(Call) /\ Cardinality(Call) \in Nat
  <2>1. IsFiniteSet(1 .. 4) /\ Cardinality(1 .. 4) = 4
    <3>1. 1 \in Int /\ 4 \in Int /\ ~(1 > 4) /\ 4 - 1 + 1 = 4
      OBVIOUS
    <3>2. QED
      BY <3>1, FS_Interval
  <2>2. IsFiniteSet(Call) /\ Cardinality(Call) \in Nat
    BY MobileSessionAssumption, FS_CardinalityType
  <2>3. IsFiniteSet(S) /\ Cardinality(S) = Cardinality(Call) * Cardinality(1 .. 4)
    BY <2>1, <2>2, FS_Product
  <2> HIDE DEF S
  <2>4. QED
    BY <2>1, <2>2, <2>3
<1>2. \A t \in T : \E s \in S : g[s] = t
  <2> SUFFICES ASSUME NEW t \in T
               PROVE  \E s \in S : Carried(s) = t
    BY Zenon
  <2>1. PICK c \in Call : t \in {call[c].body, call[c].sent, call[c].bearer, call[c].got}
    OBVIOUS
  <2>2. <<c, 1>> \in S /\ <<c, 2>> \in S /\ <<c, 3>> \in S /\ <<c, 4>> \in S
    OBVIOUS
  <2>3. /\ Carried(<<c, 1>>) = call[c].body /\ Carried(<<c, 2>>) = call[c].sent
        /\ Carried(<<c, 3>>) = call[c].bearer /\ Carried(<<c, 4>>) = call[c].got
    OBVIOUS
  <2> HIDE DEF Carried, S
  <2>4. QED
    BY <2>1, <2>2, <2>3
<1>3. \A s \in S : g[s] \in T
  OBVIOUS
<1>4. g \in Surjection(S, T)
  <2>1. g \in [S -> T]
    BY <1>3
  <2> HIDE DEF g, T, S
  <2>2. QED
    BY <1>2, <2>1 DEF Surjection
<1>5. IsFiniteSet(T) /\ Cardinality(T) <= 4 * Cardinality(Call) /\ Cardinality(T) \in Nat
  <2> HIDE DEF S, T, g
  <2>1. QED
    BY <1>1, <1>4, FS_Surjection, FS_CardinalityType
<1>6. Held = (T \cup {stored}) \cup {access}
  BY DEF Held
<1>7. IsFiniteSet(Held) /\ Cardinality(Held) <= 4 * Cardinality(Call) + 2
      /\ Cardinality(Held) \in Nat
  <2> HIDE DEF T
  <2> DEFINE U == T \cup {stored}
  <2>1. IsFiniteSet(U) /\ Cardinality(U) <= Cardinality(T) + 1 /\ Cardinality(U) \in Nat
    BY <1>5, FS_AddElement, FS_CardinalityType
  <2> HIDE DEF U
  <2>2. /\ IsFiniteSet(U \cup {access}) /\ Cardinality(U \cup {access}) <= Cardinality(U) + 1
        /\ Cardinality(U \cup {access}) \in Nat
    <3>1. /\ IsFiniteSet(U \cup {access})
          /\ Cardinality(U \cup {access})
               = IF access \in U THEN Cardinality(U) ELSE Cardinality(U) + 1
      BY <2>1, FS_AddElement
    <3>2. QED
      BY <2>1, <3>1
  <2>3. Held = U \cup {access}
    BY <1>6 DEF U
  <2>4. QED
    BY <1>1, <1>5, <2>1, <2>2, <2>3
<1> HIDE DEF T, g, S
<1>8. ASSUME IsFiniteSet(Token), Cardinality(Token) <= Cardinality(Held)
      PROVE  FALSE
  <2>1. Cardinality(Token) > 4 * Cardinality(Call) + 2 /\ Cardinality(Token) \in Nat
    BY <1>8, MobileSessionAssumption, FS_CardinalityType
  <2>2. QED
    BY <1>1, <1>7, <1>8, <2>1
<1>9. ~(Token \subseteq Held)
  BY <1>7, <1>8, FS_Subset
<1>10. ASSUME NEW f, Token = {f[t] : t \in Held \ {None}}
       PROVE  FALSE
  <2> DEFINE H == Held \ {None}
             h == [t \in H |-> f[t]]
  <2>1. IsFiniteSet(H) /\ Cardinality(H) <= Cardinality(Held) /\ Cardinality(H) \in Nat
    BY <1>7, FS_Subset, FS_CardinalityType
  <2>2. h \in Surjection(H, Token)
    BY <1>10 DEF Surjection
  <2> HIDE DEF H, h
  <2>3. IsFiniteSet(Token) /\ Cardinality(Token) <= Cardinality(H)
    BY <2>1, <2>2, FS_Surjection
  <2>4. Cardinality(Token) \in Nat
    BY <2>3, FS_CardinalityType
  <2>5. QED
    BY <1>7, <1>8, <2>1, <2>3, <2>4
<1>11. QED
  BY <1>7, <1>9, <1>10

LEMMA FreshTokens ==
  ASSUME TypeOK
  PROVE  Fresh \in Token /\ Fresh \notin Held /\ NoFamily \in Token /\ FreshFamily \in Token
<1>1. \E t \in Token : t \notin Held
  BY HeldFinite
<1>2. \E f \in Token : \A t \in Held \ {None} : family[t] # f
  <2>1. \A t \in Held \ {None} : family[t] \in Token
    <3>1. Held \subseteq Token \cup {None}
      BY DEF Held, TypeOK, Entry, Holder
    <3>2. QED
      BY <3>1 DEF TypeOK
  <2>2. Token # {family[t] : t \in Held \ {None}}
    BY HeldFinite
  <2>3. QED
    BY <2>1, <2>2
<1>3. QED
  BY <1>1, <1>2 DEF Fresh, NoFamily, FreshFamily

-----------------------------------------------------------------------------
(* Steps of one call. *)

(* Once signed out, no call is past reading. *)
LEMMA NotSilent ==
  ASSUME IInv, NEW c \in Call, call[c].pc \notin {"idle", "read"}
  PROVE  owes # "silence" /\ call[c] # Idle
BY DEF IInv, Silent, Idle

(* The steps of a call under way leave the signing out as it is, when they *)
(* clear what is stored before they say so.                                *)
LEMMA Continues ==
  ASSUME IInv, NEW c \in Call, call[c].pc \notin {"idle", "read"},
         \A d \in Call \ {c} : call'[d] = call[d],
         call'[c] = Idle \/ call'[c].kind = call[c].kind,
         call'[c].pc = "cleared" => stored' = None,
         owes' = "leaving" => owes = "leaving", owes' # "silence"
  PROVE  Leaving' /\ Silent'
<1>1. Silent'
  BY DEF Silent
<1>2. ASSUME owes' = "leaving", NEW d \in Call, call'[d] # Idle
      PROVE  /\ Alone(d)' /\ call'[d].kind \in {"logout", "logoutAll"}
             /\ call'[d].pc = "cleared" => stored' = None
  <2>1. Alone(c) /\ call[c].kind \in {"logout", "logoutAll"}
    BY <1>2, NotSilent DEF IInv, Leaving
  <2>2. d = c
    BY <1>2, <2>1 DEF Alone
  <2>3. QED
    BY <1>2, <2>1, <2>2 DEF Alone
<1>3. QED
  BY <1>1, <1>2 DEF Leaving

(* A step of one call keeps what a session needs, when its own call does   *)
(* and the tokens of the others stay live.                                 *)
LEMMA SessionStep ==
  ASSUME IInv, NEW c \in Call, \A d \in Call \ {c} : call'[d] = call[d],
         owes' = "session" =>
           /\ owes = "session"
           /\ Harmless(call'[c])
           /\ \A d \in Call \ {c} : call[d].got # None => call[d].got \in live'
           /\ call'[c].got # None => call'[c].got \in live'
           /\ Reader(call'[c]) => Reader(call[c]) \/ \A d \in Call \ {c} : ~Reader(call[d])
           /\ Reader(call'[c]) /\ call'[c].pc \in {"server", "rotating"} =>
                /\ Presented(call'[c]) \in live'
                /\ call'[c].got # Presented(call'[c])
                /\ \A d \in Call \ {c} : call[d].got # Presented(call'[c])
           /\ \A d \in Call \ {c} :
                Reader(call[d]) /\ call[d].pc \in {"server", "rotating"} =>
                  Presented(call[d]) \in live' /\ call'[c].got # Presented(call[d])
           /\ \/ stored' \in live'
              \/ /\ Reader(call'[c]) /\ call'[c].got \in live'
                 /\ call'[c].pc \in {"answered", "save"}
              \/ \E d \in Call \ {c} :
                   /\ Reader(call[d]) /\ call[d].got \in live'
                   /\ call[d].pc \in {"answered", "save"}
  PROVE  SessionKept'
<1> SUFFICES ASSUME owes' = "session"
             PROVE  SessionKept'
  BY DEF SessionKept
<1>1. ASSUME NEW d \in Call
      PROVE  /\ Harmless(call'[d])
             /\ call'[d].got # None => call'[d].got \in live'
             /\ Reader(call'[d]) =>
                  /\ \A b \in Call \ {d} : ~Reader(call'[b])
                  /\ call'[d].pc \in {"server", "rotating"} =>
                       /\ Presented(call'[d]) \in live'
                       /\ \A b \in Call : call'[b].got # Presented(call'[d])
  <2>1. CASE d = c
    BY <2>1 DEF IInv, SessionKept
  <2>2. CASE d # c
    BY <2>2 DEF IInv, SessionKept
  <2>3. QED
    BY <2>1, <2>2
<1>2. \/ stored' \in live'
      \/ \E d \in Call :
           /\ Reader(call'[d]) /\ call'[d].got \in live'
           /\ call'[d].pc \in {"answered", "save"}
  OBVIOUS
<1>3. QED
  BY <1>1, <1>2 DEF SessionKept, Reader, Harmless, Presented

(* The steps that leave the store and the server as they are. *)
LEMMA QuietStep ==
  ASSUME IInv, NEW c \in Call, \A d \in Call \ {c} : call'[d] = call[d],
         UNCHANGED <<stored, live>>,
         call'[c].got \in {call[c].got, None},
         owes' = "session" =>
           /\ owes = "session"
           /\ Harmless(call'[c])
           /\ Reader(call'[c]) => Reader(call[c])
           /\ Reader(call'[c]) /\ call'[c].pc \in {"server", "rotating"} =>
                call[c].pc \in {"server", "rotating"} /\ Presented(call'[c]) = Presented(call[c])
           /\ Reader(call[c]) /\ call[c].got # None /\ call[c].pc \in {"answered", "save"} =>
                /\ Reader(call'[c]) /\ call'[c].got = call[c].got
                /\ call'[c].pc \in {"answered", "save"}
  PROVE  SessionKept'
<1> SUFFICES ASSUME owes' = "session"
             PROVE  SessionKept'
  BY DEF SessionKept
<1>1. None \notin live
  BY MobileSessionAssumption DEF IInv, TypeOK
<1>2. \A d \in Call : Reader(call[d]) /\ call[d].pc \in {"server", "rotating"} =>
        Presented(call[d]) # None
  BY <1>1 DEF IInv, SessionKept
<1>3. \/ stored \in live
      \/ /\ Reader(call'[c]) /\ call'[c].got \in live
         /\ call'[c].pc \in {"answered", "save"}
      \/ \E d \in Call \ {c} :
           /\ Reader(call[d]) /\ call[d].got \in live
           /\ call[d].pc \in {"answered", "save"}
  BY <1>1 DEF IInv, SessionKept
<1>4. /\ \A d \in Call : call[d].got # None => call[d].got \in live
      /\ \A d \in Call : Reader(call[d]) =>
           /\ \A b \in Call \ {d} : ~Reader(call[b])
           /\ call[d].pc \in {"server", "rotating"} =>
                /\ Presented(call[d]) \in live
                /\ \A b \in Call : call[b].got # Presented(call[d])
  BY DEF IInv, SessionKept
<1>5. QED
  BY <1>1, <1>2, <1>3, <1>4, SessionStep

(* The other calls keep their shape. *)
LEMMA ShapedStep ==
  ASSUME IInv, NEW c \in Call, \A d \in Call \ {c} : call'[d] = call[d], Shaped(call'[c])
  PROVE  \A d \in Call : Shaped(call[d])'
<1>1. \A d \in Call : Shaped(call'[d])
  BY DEF IInv
<1>2. QED
  BY <1>1 DEF Shaped, Reader

(* What a step does to the entry of its call. *)
LEMMA UpdatedEntry ==
  ASSUME TypeOK, NEW c \in Call, NEW e \in Entry, call' = [call EXCEPT ![c] = e]
  PROVE  /\ call' \in [Call -> Entry] /\ call'[c] = e
         /\ \A d \in Call \ {c} : call'[d] = call[d]
BY DEF TypeOK

(* What an answer leaves of a call. *)
LEMMA AnswersEntry ==
  ASSUME TypeOK, NEW c \in Call, NEW a \in Answer, NEW g \in Holder, Answers(c, a, g)
  PROVE  /\ call' \in [Call -> Entry]
         /\ \A d \in Call \ {c} : call'[d] = call[d]
         /\ call'[c].kind = call[c].kind /\ call'[c].refreshing = call[c].refreshing
         /\ call'[c].body = call[c].body /\ call'[c].sent = call[c].sent
         /\ call'[c].pc = "answered" /\ call'[c].got = g /\ call'[c].answer = a
<1> DEFINE e == [call[c] EXCEPT !.pc = "answered", !.answer = a, !.got = g, !.bearer = None]
<1>1. call' = [call EXCEPT ![c] = e]
  BY DEF Answers, TypeOK
<1>2. /\ e \in Entry
      /\ e.kind = call[c].kind /\ e.refreshing = call[c].refreshing
      /\ e.body = call[c].body /\ e.sent = call[c].sent
      /\ e.pc = "answered" /\ e.got = g /\ e.answer = a
  BY DEF TypeOK, Entry, Pc, Holder
<1> HIDE DEF e
<1>3. QED
  BY <1>1, <1>2 DEF TypeOK

LEMMA NoneIsNoKind ==
  None \notin Token \cup {"query", "login", "register", "logout", "logoutAll", "hydrate"}
BY MobileSessionAssumption

-----------------------------------------------------------------------------
(* The server's steps. *)

LEMMA LookUpStep ==
  ASSUME IInv, NEW c \in Call, LookUp(c)
  PROVE  IInv'
<1>1. /\ call' \in [Call -> Entry]
      /\ \A d \in Call \ {c} : call'[d] = call[d]
      /\ call'[c].kind = call[c].kind /\ call'[c].refreshing = call[c].refreshing
      /\ call'[c].body = call[c].body /\ call'[c].sent = call[c].sent
      /\ \/ /\ Presented(call[c]) \in live /\ live' = live
            /\ call'[c].pc = "rotating" /\ call'[c].got = call[c].got
            /\ call'[c].answer = call[c].answer
         \/ /\ Presented(call[c]) \notin live /\ live' \subseteq live
            /\ call'[c].pc = "answered" /\ call'[c].got = None
            /\ call'[c].answer = "unauthorized"
  <2> DEFINE t == Presented(call[c])
  <2>1. CASE t \in live
    <3>1. call' = [call EXCEPT ![c].pc = "rotating"] /\ live' = live
      BY <2>1 DEF LookUp, server
    <3> HIDE DEF t
    <3>2. QED
      BY <2>1, <3>1 DEF t, IInv, TypeOK, Entry, Pc
  <2>2. CASE t \notin live
    <3>1. Answers(c, "unauthorized", None) /\ live' \subseteq live
      BY <2>2 DEF LookUp
    <3>2. /\ call' \in [Call -> Entry]
          /\ \A d \in Call \ {c} : call'[d] = call[d]
          /\ call'[c].kind = call[c].kind /\ call'[c].refreshing = call[c].refreshing
          /\ call'[c].body = call[c].body /\ call'[c].sent = call[c].sent
          /\ call'[c].pc = "answered" /\ call'[c].got = None
          /\ call'[c].answer = "unauthorized"
      BY <3>1, AnswersEntry DEF IInv, Answer, Holder
    <3>3. QED
      BY <2>2, <3>1, <3>2
  <2>3. QED
    BY <2>1, <2>2
<1>2. call[c].pc = "server" /\ Reader(call[c]) /\ call[c].got = None
  BY DEF LookUp, IsRefresh, Reader, IInv, Shaped
<1>3. UNCHANGED <<stored, access, hydrating, route, made, exchanged, family, lapsed, owes>>
  BY DEF LookUp, client, server
<1>4. TypeOK'
  BY <1>1, <1>3 DEF IInv, TypeOK
<1>5. \A d \in Call : Shaped(call[d])'
  <2>1. Shaped(call'[c])
    BY <1>1, <1>2 DEF Shaped, Reader
  <2>2. QED
    BY <1>1, <2>1, ShapedStep
<1>6. Leaving' /\ Silent'
  BY <1>1, <1>2, <1>3, NotSilent, Continues
<1>7. SessionKept'
  <2>1. owes = "session" => Presented(call[c]) \in live /\ Harmless(call[c])
    BY <1>2 DEF IInv, SessionKept
  <2>2. Presented(call'[c]) = Presented(call[c])
    BY <1>1 DEF Presented
  <2>3. owes = "session" => Harmless(call'[c])
    BY <1>1, <1>2, <2>1 DEF Harmless, Reader
  <2>4. CASE owes = "session"
    BY <1>1, <1>2, <1>3, <2>1, <2>2, <2>3, <2>4, QuietStep
  <2>5. CASE owes # "session"
    BY <1>3, <2>5 DEF SessionKept
  <2>6. QED
    BY <2>4, <2>5
<1>8. QED
  BY <1>4, <1>5, <1>6, <1>7 DEF IInv

LEMMA RotateStep ==
  ASSUME IInv, NEW c \in Call, Rotate(c)
  PROVE  IInv'
<1> DEFINE t == Presented(call[c])
<1>1. /\ call' \in [Call -> Entry]
      /\ \A d \in Call \ {c} : call'[d] = call[d]
      /\ call'[c].kind = call[c].kind /\ call'[c].refreshing = call[c].refreshing
      /\ call'[c].pc = "answered"
      /\ \/ t \in live /\ call'[c].got = Fresh /\ call'[c].answer = "ok"
         \/ t \notin live /\ call'[c].got = None /\ call'[c].answer = "error"
  BY FreshTokens DEF Rotate, Answers, IInv, TypeOK, Entry, Pc, Answer, Holder
<1>2. call[c].pc = "rotating" /\ Reader(call[c]) /\ call[c].got = None
  BY DEF Rotate, IInv, Shaped
<1>3. UNCHANGED <<stored, access, hydrating, route, made, owes>>
  BY DEF Rotate, client
<1>4. /\ t \in live => live' = ((live \cap Held) \ {t}) \cup {Fresh}
      /\ live' \subseteq Token /\ exchanged' \subseteq Token /\ lapsed' \subseteq Token
      /\ family' \in [Token -> Token]
  <2>1. t \in Token \cup {None}
    BY DEF IInv, TypeOK, Entry, Holder, Presented
  <2> HIDE DEF t
  <2>2. CASE t \in live
    <3>1. Issue(Fresh, family[t], t)
      BY <2>2 DEF Rotate, t
    <3>2. family[t] \in Token
      BY <2>2 DEF IInv, TypeOK
    <3>3. /\ live' \subseteq Token /\ exchanged' \subseteq Token /\ lapsed' \subseteq Token
          /\ family' \in [Token -> Token]
      BY <2>1, <3>1, <3>2, FreshTokens DEF Issue, IInv, TypeOK
    <3>4. QED
      BY <3>1, <3>3 DEF Issue
  <2>3. CASE t \notin live
    BY <2>3 DEF Rotate, t, server, IInv, TypeOK
  <2>4. QED
    BY <2>2, <2>3
<1>5. TypeOK'
  BY <1>1, <1>3, <1>4 DEF IInv, TypeOK
<1>6. \A d \in Call : Shaped(call[d])'
  <2>1. Shaped(call'[c])
    BY <1>1, <1>2, FreshTokens, NoneIsNoKind DEF Shaped, Reader, IInv
  <2>2. QED
    BY <1>1, <2>1, ShapedStep
<1>7. Leaving' /\ Silent'
  BY <1>1, <1>2, <1>3, NotSilent, Continues
<1>8. SessionKept'
  <2> SUFFICES ASSUME owes = "session"
               PROVE  SessionKept'
    BY <1>3 DEF SessionKept
  <2>1. t \in live /\ Harmless(call[c])
        /\ \A d \in Call \ {c} : ~Reader(call[d]) /\ call[d].got # t
    BY <1>2 DEF IInv, SessionKept
  <2>2. \A d \in Call \ {c} : call[d].got # None => call[d].got \in live /\ call[d].got \in Held
    BY DEF IInv, SessionKept, Held
  <2>3. call'[c].got \in live' /\ Reader(call'[c]) /\ Harmless(call'[c])
    BY <1>1, <1>2, <1>4, <2>1 DEF Reader, Harmless
  <2> HIDE DEF t
  <2>4. \A d \in Call \ {c} : call[d].got # None => call[d].got \in live'
    BY <1>4, <2>1, <2>2
  <2>5. QED
    BY <1>1, <1>2, <1>3, <2>1, <2>3, <2>4, SessionStep
<1>9. QED
  BY <1>5, <1>6, <1>7, <1>8 DEF IInv

LEMMA FoundStep ==
  ASSUME IInv, NEW c \in Call, Found(c)
  PROVE  IInv'
<1>1. /\ call' \in [Call -> Entry]
      /\ \A d \in Call \ {c} : call'[d] = call[d]
      /\ call'[c].kind = call[c].kind /\ call'[c].refreshing = call[c].refreshing
      /\ call'[c].pc = "answered"
      /\ \/ call'[c].got = Fresh /\ call'[c].answer = "ok" /\ Issue(Fresh, FreshFamily, None)
         \/ /\ call'[c].got = None /\ call'[c].answer \in {"unauthorized", "error"}
            /\ UNCHANGED server
  BY FreshTokens DEF Found, Answers, IInv, TypeOK, Entry, Pc, Answer, Holder
<1>2. /\ call[c].pc = "server" /\ ~call[c].refreshing /\ call[c].kind \in {"login", "register"}
      /\ ~Reader(call[c])
  BY DEF Found, Reader
<1>3. UNCHANGED <<stored, access, hydrating, route, made, owes>>
  BY DEF Found, client
<1>4. /\ live' = live \/ live' = (live \cap Held) \cup {Fresh}
      /\ live' \subseteq Token /\ exchanged' \subseteq Token /\ lapsed' \subseteq Token
      /\ family' \in [Token -> Token]
  <2>1. CASE Issue(Fresh, FreshFamily, None)
    <3>1. None \notin live
      BY NoneIsNoKind DEF IInv, TypeOK
    <3>2. QED
      BY <2>1, <3>1, FreshTokens DEF Issue, IInv, TypeOK
  <2>2. CASE UNCHANGED server
    BY <2>2 DEF server, IInv, TypeOK
  <2>3. QED
    BY <1>1, <2>1, <2>2
<1>5. TypeOK'
  BY <1>1, <1>3, <1>4 DEF IInv, TypeOK
<1>6. \A d \in Call : Shaped(call[d])'
  <2>1. Shaped(call'[c])
    BY <1>1, <1>2, FreshTokens, NoneIsNoKind DEF Shaped, Reader, IInv
  <2>2. QED
    BY <1>1, <2>1, ShapedStep
<1>7. Leaving' /\ Silent'
  BY <1>1, <1>2, <1>3, NotSilent, Continues
<1>8. SessionKept'
  <2> SUFFICES ASSUME owes = "session"
               PROVE  SessionKept'
    BY <1>3 DEF SessionKept
  <2>1. \A t \in Held : t \in live => t \in live' /\ t # Fresh
    BY <1>4, FreshTokens DEF IInv
  <2>2. /\ stored \in Held /\ \A d \in Call : call[d].got \in Held /\ Presented(call[d]) \in Held
    BY DEF Held, Presented
  <2>3. ~Reader(call'[c]) /\ Harmless(call'[c])
    BY <1>1, <1>2 DEF Reader, Harmless, IInv, SessionKept
  <2>4. call'[c].got # None => call'[c].got = Fresh /\ Fresh \in live'
    BY <1>1 DEF Issue
  <2>5. None \notin live
    BY NoneIsNoKind DEF IInv, TypeOK
  <2>6. \A d \in Call \ {c} : Reader(call[d]) /\ call[d].pc \in {"server", "rotating"} =>
          Presented(call[d]) \in live' /\ call'[c].got # Presented(call[d])
    <3>1. \A d \in Call \ {c} : Reader(call[d]) /\ call[d].pc \in {"server", "rotating"} =>
            Presented(call[d]) \in live
      BY DEF IInv, SessionKept
    <3>2. QED
      BY <2>1, <2>2, <2>4, <2>5, <3>1
  <2>7. \A d \in Call \ {c} : call[d].got # None => call[d].got \in live'
    <3>1. \A d \in Call \ {c} : call[d].got # None => call[d].got \in live
      BY DEF IInv, SessionKept
    <3>2. QED
      BY <2>1, <2>2, <3>1
  <2>8. \/ stored' \in live'
        \/ \E d \in Call \ {c} : /\ Reader(call[d]) /\ call[d].got \in live'
                                 /\ call[d].pc \in {"answered", "save"}
    <3>1. \/ stored \in live
          \/ \E d \in Call \ {c} : /\ Reader(call[d]) /\ call[d].got \in live
                                   /\ call[d].pc \in {"answered", "save"}
      BY <1>2 DEF IInv, SessionKept
    <3>2. QED
      BY <1>3, <2>1, <2>2, <3>1
  <2>9. QED
    BY <1>1, <1>3, <2>3, <2>4, <2>6, <2>7, <2>8, SessionStep
<1>9. QED
  BY <1>5, <1>6, <1>7, <1>8 DEF IInv

(* An answer without a token pair. *)
LEMMA AnsweredStep ==
  ASSUME IInv, NEW c \in Call, NEW a \in Answer, Answers(c, a, None),
         call[c].pc \in {"server", "rotating", "answered"},
         Reader(call[c]) => a \notin {"ok", "unauthorized"},
         UNCHANGED <<client, made, exchanged, family, lapsed>>, live' \subseteq live,
         owes' \in {owes, "nothing"},
         owes' = "session" =>
           live' = live /\ call[c].got = None /\ call[c].kind \notin {"logout", "logoutAll"}
  PROVE  IInv'
<1>1. /\ call' \in [Call -> Entry]
      /\ \A d \in Call \ {c} : call'[d] = call[d]
      /\ call'[c].kind = call[c].kind /\ call'[c].refreshing = call[c].refreshing
      /\ call'[c].pc = "answered" /\ call'[c].got = None /\ call'[c].answer = a
  BY AnswersEntry DEF IInv, Holder
<1>2. TypeOK'
  BY <1>1 DEF IInv, TypeOK, client, Owed
<1>3. \A d \in Call : Shaped(call[d])'
  <2>1. Shaped(call'[c])
    BY <1>1 DEF Shaped, Reader
  <2>2. QED
    BY <1>1, <2>1, ShapedStep
<1>4. Leaving' /\ Silent'
  BY <1>1, NotSilent, Continues
<1>5. SessionKept'
  <2>1. owes' = "session" => Harmless(call'[c])
    BY <1>1 DEF Harmless, Reader, IInv, SessionKept
  <2>2. Reader(call'[c]) => Reader(call[c])
    BY <1>1 DEF Reader
  <2>3. CASE owes' = "session"
    BY <1>1, <2>1, <2>2, <2>3, QuietStep DEF client
  <2>4. CASE owes' # "session"
    BY <2>4 DEF SessionKept
  <2>5. QED
    BY <2>3, <2>4
<1>6. QED
  BY <1>2, <1>3, <1>4, <1>5 DEF IInv

LEMMA ServerStep ==
  ASSUME IInv, NEW c \in Call, Revoke(c) \/ Secured(c) \/ ServerError(c) \/ Lose(c)
  PROVE  IInv'
<1> USE DEF server, Answer
<1>1. owes = "session" => Harmless(call[c])
  BY DEF IInv, SessionKept
<1>2. CASE Revoke(c)
  <2>1. /\ Answers(c, "ok", None) /\ live' \subseteq live
        /\ call[c].pc = "server" /\ ~Reader(call[c]) /\ call[c].kind = "logout"
    BY <1>2 DEF Revoke, Reader
  <2>2. UNCHANGED <<client, made, exchanged, family, lapsed, owes>>
    BY <1>2 DEF Revoke
  <2>3. QED
    BY <1>1, <2>1, <2>2, AnsweredStep DEF Harmless
<1>3. CASE Secured(c)
  <2>1. /\ call[c].pc = "server" /\ ~Reader(call[c]) /\ call[c].kind \in {"query", "logoutAll"}
        /\ live' \subseteq live /\ (call[c].kind = "query" => live' = live)
    BY <1>3 DEF Secured, Reader
  <2>2. PICK a \in {"ok", "unauthorized"} : Answers(c, a, None)
    BY <1>3 DEF Secured
  <2>3. UNCHANGED <<client, made, exchanged, family, lapsed, owes>>
    BY <1>3 DEF Secured
  <2>4. call[c].got = None
    BY <2>1 DEF IInv, Shaped
  <2>5. QED
    BY <1>1, <2>1, <2>2, <2>3, <2>4, AnsweredStep DEF Harmless
<1>4. CASE ServerError(c)
  <2>1. Answers(c, "error", None) /\ call[c].pc \in {"server", "rotating"}
    BY <1>4 DEF ServerError
  <2>2. UNCHANGED <<client, made, live, exchanged, family, lapsed, owes>>
    BY <1>4 DEF ServerError
  <2>3. call[c].got = None
    BY <2>1 DEF IInv, Shaped
  <2>4. QED
    BY <1>1, <2>1, <2>2, <2>3, AnsweredStep DEF Harmless
<1>5. CASE Lose(c)
  <2>1. Answers(c, "none", None) /\ call[c].pc \in {"server", "rotating", "answered"}
        /\ UNCHANGED <<client, made, live, exchanged, family, lapsed>>
    BY <1>5 DEF Lose
  <2>2. owes' \in {owes, "nothing"} /\ (owes' = "session" => call[c].got = None /\ owes = "session")
    BY <1>5 DEF Lose
  <2>3. QED
    BY <1>1, <2>1, <2>2, AnsweredStep DEF Harmless
<1>6. QED
  BY <1>2, <1>3, <1>4, <1>5

-----------------------------------------------------------------------------
(* The client's steps. *)

LEMMA IdleEntry ==
  /\ Idle \in Entry /\ Shaped(Idle) /\ ~Reader(Idle) /\ Harmless(Idle)
  /\ Idle.got = None /\ Idle.pc = "idle" /\ Idle.kind = None
BY NoneIsNoKind DEF Idle, Entry, Holder, Pc, Answer, Shaped, Reader, Harmless

(* When no other call overlaps, none has read the stored token or carries  *)
(* a pair.                                                                 *)
LEMMA NoOverlap ==
  ASSUME IInv, NEW c \in Call, ~Overlaps(c)
  PROVE  \A d \in Call \ {c} : ~Reader(call[d]) /\ call[d].got = None
BY DEF Overlaps, Reader, IInv, Shaped

LEMMA ReadStoredStep ==
  ASSUME IInv, NEW c \in Call, ReadStored(c)
  PROVE  IInv'
<1>1. /\ call[c].pc = "read" /\ call[c].kind \in {"hydrate", "logout"}
      /\ ~call[c].refreshing /\ call[c].got = None /\ ~Reader(call[c])
  BY DEF ReadStored, IInv, Shaped, Reader
<1>2. /\ call' \in [Call -> Entry]
      /\ \A d \in Call \ {c} : call'[d] = call[d]
      /\ \/ /\ stored # None /\ call'[c].pc = "server" /\ call'[c].kind = call[c].kind
            /\ ~call'[c].refreshing /\ call'[c].body = stored
            /\ call'[c].got = None /\ call'[c].answer = call[c].answer
         \/ stored = None /\ call[c].kind = "hydrate" /\ call'[c] = Idle
         \/ /\ stored = None /\ call[c].kind = "logout" /\ call'[c].pc = "clear"
            /\ call'[c].kind = "logout" /\ ~call'[c].refreshing
            /\ call'[c].got = None /\ call'[c].answer = call[c].answer
  <2>1. CASE stored # None
    <3>1. call' = [call EXCEPT ![c].pc = "server", ![c].body = stored, ![c].bearer = access]
      BY <2>1 DEF ReadStored
    <3> DEFINE e == [call[c] EXCEPT !.pc = "server", !.body = stored, !.bearer = access]
    <3>2. call' = [call EXCEPT ![c] = e]
      BY <3>1 DEF IInv, TypeOK
    <3>3. /\ e \in Entry /\ e.pc = "server" /\ e.body = stored
          /\ e.kind = call[c].kind /\ e.refreshing = call[c].refreshing
          /\ e.got = call[c].got /\ e.answer = call[c].answer
      BY DEF IInv, TypeOK, Entry, Pc, Holder
    <3> HIDE DEF e
    <3>4. QED
      BY <1>1, <2>1, <3>2, <3>3, UpdatedEntry DEF IInv
  <2>2. CASE stored = None /\ call[c].kind = "hydrate"
    <3>1. call' = [call EXCEPT ![c] = Idle]
      BY <2>2 DEF ReadStored
    <3>2. QED
      BY <2>2, <3>1, IdleEntry DEF IInv, TypeOK
  <2>3. CASE stored = None /\ call[c].kind # "hydrate"
    <3>1. call' = [call EXCEPT ![c].pc = "clear"]
      BY <2>3 DEF ReadStored
    <3>2. QED
      BY <1>1, <2>3, <3>1 DEF IInv, TypeOK, Entry, Pc
  <2>4. QED
    BY <2>1, <2>2, <2>3
<1>3. /\ UNCHANGED <<made, stored, access, route, live, exchanged, family, lapsed>>
      /\ hydrating' \in {hydrating, FALSE}
      /\ owes' \in {owes, "nothing"} /\ (owes' = "session" => owes = "session" /\ ~Overlaps(c))
  BY DEF ReadStored, server, Excuse
<1>4. TypeOK'
  BY <1>2, <1>3 DEF IInv, TypeOK, Owed
<1>5. \A d \in Call : Shaped(call[d])'
  <2>1. Shaped(call'[c])
    <3>1. CASE call'[c] = Idle
      BY <3>1, IdleEntry
    <3>2. CASE call'[c] # Idle
      BY <1>1, <1>2, <3>2 DEF Shaped, Reader
    <3>3. QED
      BY <3>1, <3>2
  <2>2. QED
    BY <1>2, <2>1, ShapedStep
<1>6. Leaving'
  <2> SUFFICES ASSUME owes' = "leaving", NEW d \in Call, call'[d] # Idle
               PROVE  /\ Alone(d)' /\ call'[d].kind \in {"logout", "logoutAll"}
                      /\ call'[d].pc = "cleared" => stored' = None
    BY DEF Leaving
  <2>1. call[c] # Idle /\ owes = "leaving"
    BY <1>1, <1>3, IdleEntry
  <2>2. Alone(c) /\ call[c].kind \in {"logout", "logoutAll"}
    BY <2>1 DEF IInv, Leaving
  <2>3. d = c
    BY <1>2, <2>2 DEF Alone
  <2>4. QED
    BY <1>1, <1>2, <2>2, <2>3 DEF Alone
<1>7. Silent'
  <2>1. owes = "silence" => stored = None /\ call[c].kind = "hydrate"
    BY <1>1, IdleEntry DEF IInv, Silent
  <2>2. QED
    BY <1>2, <1>3, <2>1 DEF IInv, Silent
<1>8. SessionKept'
  <2> SUFFICES ASSUME owes' = "session"
               PROVE  SessionKept'
    BY DEF SessionKept
  <2>1. owes = "session" /\ Harmless(call[c]) /\ call[c].kind = "hydrate"
    BY <1>1, <1>3 DEF IInv, SessionKept, Harmless
  <2>2. \A d \in Call \ {c} : ~Reader(call[d]) /\ call[d].got = None
    BY <1>3, NoOverlap
  <2>3. stored \in live /\ None \notin live
    BY <1>1, <2>1, <2>2, NoneIsNoKind DEF IInv, SessionKept, TypeOK
  <2>4. /\ call'[c].pc = "server" /\ call'[c].kind = "hydrate" /\ ~call'[c].refreshing
        /\ call'[c].body = stored /\ call'[c].got = None /\ call'[c].answer = call[c].answer
    BY <1>2, <2>1, <2>3
  <2>5. Harmless(call'[c]) /\ Presented(call'[c]) = stored
    BY <1>1, <2>4 DEF Harmless, Presented, IInv, Shaped
  <2>6. QED
    BY <1>2, <1>3, <2>1, <2>2, <2>3, <2>4, <2>5, SessionStep
<1>9. QED
  BY <1>4, <1>5, <1>6, <1>7, <1>8 DEF IInv

(* A step of a call under way that leaves the stored token alone. *)
LEMMA ClientStep ==
  ASSUME IInv, NEW c \in Call, NEW e \in Entry, call' = [call EXCEPT ![c] = e],
         call[c].pc \notin {"idle", "read"}, Shaped(e),
         e = Idle \/ e.kind = call[c].kind, e.pc # "cleared",
         UNCHANGED <<stored, route, made, live, exchanged, family, lapsed>>,
         access' \in Holder, hydrating' \in BOOLEAN,
         owes' \in {owes, "nothing"}, e.got \in {call[c].got, None},
         owes' = "session" =>
           /\ Harmless(e)
           /\ Reader(e) => Reader(call[c]) /\ e.pc \notin {"server", "rotating"}
           /\ Reader(call[c]) /\ call[c].got # None /\ call[c].pc \in {"answered", "save"} =>
                Reader(e) /\ e.got = call[c].got /\ e.pc \in {"answered", "save"}
  PROVE  IInv'
<1>1. /\ call' \in [Call -> Entry] /\ call'[c] = e
      /\ \A d \in Call \ {c} : call'[d] = call[d]
  BY UpdatedEntry DEF IInv
<1>2. TypeOK'
  BY <1>1 DEF IInv, TypeOK, Owed
<1>3. \A d \in Call : Shaped(call[d])'
  BY <1>1, ShapedStep
<1>4. Leaving' /\ Silent'
  BY <1>1, NotSilent, Continues
<1>5. SessionKept'
  <2>1. CASE owes' = "session"
    BY <1>1, <2>1, QuietStep
  <2>2. CASE owes' # "session"
    BY <2>2 DEF SessionKept
  <2>3. QED
    BY <2>1, <2>2
<1>6. QED
  BY <1>2, <1>3, <1>4, <1>5 DEF IInv

LEMMA InterceptStep ==
  ASSUME IInv, NEW c \in Call, Intercept(c)
  PROVE  IInv'
<1> DEFINE e == [call[c] EXCEPT !.pc = "reread", !.answer = "none"]
<1>1. call' = [call EXCEPT ![c] = e]
  BY DEF Intercept, IInv, TypeOK
<1>2. /\ e \in Entry /\ e.pc = "reread" /\ e.answer = "none"
      /\ e.kind = call[c].kind /\ e.refreshing = call[c].refreshing /\ e.got = call[c].got
  BY DEF IInv, TypeOK, Entry, Pc, Answer
<1>3. /\ call[c].pc = "answered" /\ ~call[c].refreshing
      /\ call[c].answer = "unauthorized" /\ call[c].got = None
  BY DEF Intercept, IInv, Shaped
<1> HIDE DEF e
<1>4. Shaped(e)
  BY <1>2, <1>3 DEF Shaped, Reader
<1>5. owes = "session" => Harmless(e) /\ ~Reader(e)
  BY <1>2, <1>3 DEF IInv, SessionKept, Harmless, Reader
<1>6. UNCHANGED <<stored, access, hydrating, route, made, live, exchanged, family, lapsed, owes>>
  BY DEF Intercept, client, server
<1>7. access' \in Holder /\ hydrating' \in BOOLEAN
  BY <1>6 DEF IInv, TypeOK
<1>8. QED
  BY <1>1, <1>2, <1>3, <1>4, <1>5, <1>6, <1>7, ClientStep

LEMMA RefreshedStep ==
  ASSUME IInv, NEW c \in Call, Refreshed(c)
  PROVE  IInv'
<1> DEFINE e == [call[c] EXCEPT !.sent = None,
                   !.pc = IF call[c].answer = "ok" THEN "save" ELSE "clear"]
<1>1. call' = [call EXCEPT ![c] = e]
  BY DEF Refreshed, IInv, TypeOK
<1>2. /\ e \in Entry /\ e.kind = call[c].kind /\ e.refreshing = call[c].refreshing
      /\ e.got = call[c].got /\ e.answer = call[c].answer
      /\ e.pc = IF call[c].answer = "ok" THEN "save" ELSE "clear"
  BY DEF IInv, TypeOK, Entry, Pc, Holder
<1>3. /\ call[c].pc = "answered" /\ call[c].refreshing /\ Reader(call[c])
      /\ call[c].answer \in Answer
      /\ call[c].answer = "ok" => call[c].got # None
  BY DEF Refreshed, IInv, Shaped, Reader, TypeOK, Entry
<1> HIDE DEF e
<1>4. Shaped(e)
  BY <1>2, <1>3 DEF Shaped, Reader, IInv
<1>5. /\ UNCHANGED <<stored, access, hydrating, route, made, live, exchanged, family, lapsed>>
      /\ owes' \in {owes, "nothing"}
      /\ owes' = "session" => owes = "session" /\ call[c].answer \notin {"none", "error"}
  BY DEF Refreshed, client, server, Excuse
<1>6. owes' = "session" => Harmless(e) /\ Reader(e) /\ e.pc = "save"
  BY <1>2, <1>3, <1>5 DEF IInv, SessionKept, Harmless, Reader, Answer
<1>7. access' \in Holder /\ hydrating' \in BOOLEAN
  BY <1>5 DEF IInv, TypeOK
<1>8. QED
  BY <1>1, <1>2, <1>3, <1>4, <1>5, <1>6, <1>7, ClientStep

LEMMA SettleStep ==
  ASSUME IInv, NEW c \in Call, Settle(c) \/ SettleLogout(c) \/ SettleHydrate(c)
  PROVE  IInv'
<1>1. call[c].pc = "answered" /\ ~call[c].refreshing /\ call[c] \in Entry /\ Shaped(call[c])
  BY DEF Settle, SettleLogout, SettleHydrate, IInv, TypeOK
<1>2. /\ UNCHANGED <<stored, access, route, made, live, exchanged, family, lapsed>>
      /\ hydrating' \in BOOLEAN /\ access' \in Holder
      /\ owes' \in {owes, "nothing"}
  BY DEF Settle, SettleLogout, SettleHydrate, client, server, Excuse, IInv, TypeOK
<1>3. owes = "session" => Harmless(call[c])
  BY DEF IInv, SessionKept
<1>4. CASE call' = [call EXCEPT ![c] = Idle]
             /\ (owes' = "session" /\ Reader(call[c]) => call[c].got = None)
  BY <1>1, <1>2, <1>4, IdleEntry, ClientStep
<1>5. CASE Settle(c) /\ call[c].got # None
  <2> DEFINE e == [call[c] EXCEPT !.pc = "save"]
  <2>1. call' = [call EXCEPT ![c] = e] /\ UNCHANGED owes
    BY <1>5 DEF Settle, IInv, TypeOK
  <2>2. /\ e \in Entry /\ e.kind = call[c].kind /\ e.refreshing = call[c].refreshing
        /\ e.got = call[c].got /\ e.answer = call[c].answer /\ e.pc = "save"
    BY <1>1 DEF Entry, Pc
  <2>3. call[c].kind \in {"query", "login", "register"}
    BY <1>5 DEF Settle
  <2> HIDE DEF e
  <2>4. Shaped(e) /\ ~Reader(e) /\ ~Reader(call[c])
    BY <1>1, <1>5, <2>2, <2>3 DEF Shaped, Reader
  <2>5. owes' = "session" => Harmless(e)
    BY <1>1, <1>2, <1>3, <2>2, <2>3, <2>4 DEF Harmless
  <2>6. QED
    BY <1>1, <1>2, <2>1, <2>2, <2>4, <2>5, ClientStep
<1>6. CASE SettleLogout(c)
  <2> DEFINE e == [call[c] EXCEPT !.pc = "clear", !.body = None]
  <2>1. call' = [call EXCEPT ![c] = e] /\ UNCHANGED owes
    BY <1>6 DEF SettleLogout, IInv, TypeOK
  <2>2. /\ e \in Entry /\ e.kind = call[c].kind /\ e.refreshing = call[c].refreshing
        /\ e.got = call[c].got /\ e.answer = call[c].answer /\ e.pc = "clear"
    BY <1>1 DEF Entry, Pc, Holder
  <2>3. call[c].kind \in {"logout", "logoutAll"}
    BY <1>6 DEF SettleLogout
  <2> HIDE DEF e
  <2>4. Shaped(e)
    BY <1>1, <2>2, <2>3 DEF Shaped, Reader
  <2>5. owes' # "session"
    BY <1>3, <2>1, <2>3 DEF Harmless
  <2>6. QED
    BY <1>1, <1>2, <2>1, <2>2, <2>4, <2>5, ClientStep
<1>7. CASE SettleHydrate(c) /\ ~call[c].cancelled /\ call[c].answer # "none"
  <2> DEFINE e == [call[c] EXCEPT !.body = None,
                     !.pc = IF call[c].answer = "ok" THEN "save" ELSE "clear"]
  <2>1. call' = [call EXCEPT ![c] = e]
    BY <1>7 DEF SettleHydrate, IInv, TypeOK
  <2>2. /\ e \in Entry /\ e.kind = call[c].kind /\ e.refreshing = call[c].refreshing
        /\ e.got = call[c].got /\ e.answer = call[c].answer
        /\ e.pc = IF call[c].answer = "ok" THEN "save" ELSE "clear"
    BY <1>1 DEF Entry, Pc, Holder
  <2>3. /\ call[c].kind = "hydrate" /\ Reader(call[c]) /\ call[c].answer \in Answer
        /\ owes' = "session" => owes = "session" /\ call[c].answer # "error"
    BY <1>1, <1>7 DEF SettleHydrate, Reader, Excuse, Entry
  <2> HIDE DEF e
  <2>4. Shaped(e) /\ Reader(e)
    BY <1>1, <2>2, <2>3 DEF Shaped, Reader
  <2>5. owes' = "session" => Harmless(e) /\ e.pc = "save"
    BY <1>1, <1>3, <1>7, <2>2, <2>3 DEF Harmless, Answer
  <2>6. QED
    BY <1>1, <1>2, <2>1, <2>2, <2>3, <2>4, <2>5, ClientStep
<1>8. QED
  <2>1. Settle(c) => ~Reader(call[c])
    BY <1>1 DEF Settle, Reader
  <2>2. Settle(c) /\ call[c].got = None => call' = [call EXCEPT ![c] = Idle]
    BY DEF Settle
  <2>3. SettleHydrate(c) =>
          \/ call' = [call EXCEPT ![c] = Idle] /\ (owes' = "session" => call[c].got = None)
          \/ call' = [call EXCEPT ![c] = Idle] /\ call[c].answer = "none" /\ UNCHANGED owes
          \/ ~call[c].cancelled /\ call[c].answer # "none"
    BY DEF SettleHydrate, Excuse
  <2>4. call[c].answer = "none" => call[c].got = None
    BY <1>1 DEF Shaped
  <2>5. QED
    BY <1>4, <1>5, <1>6, <1>7, <2>1, <2>2, <2>3, <2>4

LEMMA RereadStep ==
  ASSUME IInv, NEW c \in Call, Reread(c)
  PROVE  IInv'
<1> DEFINE e == [call[c] EXCEPT !.refreshing = TRUE, !.sent = stored,
                                !.pc = IF stored = None THEN "clear" ELSE "server"]
<1>1. call' = [call EXCEPT ![c] = e]
  BY DEF Reread, IInv, TypeOK
<1>2. /\ e \in Entry /\ e.kind = call[c].kind /\ e.refreshing = TRUE /\ e.sent = stored
      /\ e.got = call[c].got /\ e.answer = call[c].answer
      /\ e.pc = IF stored = None THEN "clear" ELSE "server"
  BY DEF IInv, TypeOK, Entry, Pc, Holder
<1>3. /\ call[c].pc = "reread" /\ ~call[c].refreshing /\ call[c].got = None
      /\ call[c].answer = "none"
  BY DEF Reread, IInv, Shaped
<1> HIDE DEF e
<1>4. /\ call' \in [Call -> Entry] /\ call'[c] = e
      /\ \A d \in Call \ {c} : call'[d] = call[d]
  BY <1>1, <1>2, UpdatedEntry DEF IInv
<1>5. /\ UNCHANGED <<stored, access, hydrating, route, made, live, exchanged, family, lapsed>>
      /\ owes' \in {owes, "nothing"} /\ (owes' = "session" => owes = "session" /\ ~Overlaps(c))
  BY DEF Reread, client, server, Excuse
<1>6. TypeOK'
  BY <1>4, <1>5 DEF IInv, TypeOK, Owed
<1>7. \A d \in Call : Shaped(call[d])'
  <2>1. Shaped(e)
    BY <1>2, <1>3 DEF Shaped, Reader
  <2>2. QED
    BY <1>4, <2>1, ShapedStep
<1>8. Leaving' /\ Silent'
  <2>1. e.pc # "cleared"
    BY <1>2
  <2>2. QED
    BY <1>2, <1>3, <1>4, <1>5, <2>1, NotSilent, Continues
<1>9. SessionKept'
  <2> SUFFICES ASSUME owes' = "session"
               PROVE  SessionKept'
    BY DEF SessionKept
  <2>1. owes = "session" /\ Harmless(call[c]) /\ call[c].kind # "hydrate" /\ ~Reader(call[c])
    BY <1>3, <1>5 DEF IInv, SessionKept, Harmless, Reader
  <2>2. \A d \in Call \ {c} : ~Reader(call[d]) /\ call[d].got = None
    BY <1>5, NoOverlap
  <2>3. stored \in live /\ None \notin live
    BY <2>1, <2>2, NoneIsNoKind DEF IInv, SessionKept, TypeOK
  <2>4. e.pc = "server" /\ Harmless(e) /\ Presented(e) = stored /\ e.got = None
    BY <1>2, <1>3, <2>1, <2>3 DEF Harmless, Presented
  <2>5. QED
    BY <1>4, <1>5, <2>1, <2>2, <2>3, <2>4, SessionStep
<1>10. QED
  BY <1>6, <1>7, <1>8, <1>9 DEF IInv

LEMMA SaveStep ==
  ASSUME IInv, NEW c \in Call, Save(c)
  PROVE  IInv'
<1> DEFINE e == [call[c] EXCEPT !.pc = "saved"]
<1>1. call' = [call EXCEPT ![c] = e]
  BY DEF Save, IInv, TypeOK
<1>2. /\ e \in Entry /\ e.kind = call[c].kind /\ e.refreshing = call[c].refreshing
      /\ e.got = call[c].got /\ e.answer = call[c].answer /\ e.pc = "saved"
  BY DEF IInv, TypeOK, Entry, Pc
<1>3. call[c].pc = "save" /\ call[c].got # None /\ call[c].got \in Holder
  BY DEF Save, IInv, Shaped, TypeOK, Entry
<1> HIDE DEF e
<1>4. /\ call' \in [Call -> Entry] /\ call'[c] = e
      /\ \A d \in Call \ {c} : call'[d] = call[d]
  BY <1>1, <1>2, UpdatedEntry DEF IInv
<1>5. /\ UNCHANGED <<access, hydrating, route, made, live, exchanged, family, lapsed>>
      /\ stored' = call[c].got
      /\ \/ owes' = owes
         \/ /\ owes' = "session" /\ call[c].kind \in {"login", "register"}
            /\ ~call[c].refreshing /\ Alone(c) /\ call[c].got \in live
  BY DEF Save, server
<1>6. TypeOK'
  BY <1>3, <1>4, <1>5 DEF IInv, TypeOK, Owed
<1>7. \A d \in Call : Shaped(call[d])'
  <2>1. Shaped(e)
    BY <1>2, <1>3 DEF Shaped, Reader, IInv
  <2>2. QED
    BY <1>4, <2>1, ShapedStep
<1>8. Leaving' /\ Silent'
  BY <1>2, <1>3, <1>4, <1>5, NotSilent, Continues
<1>9. SessionKept'
  <2>1. CASE owes = "session"
    <3>1. /\ Harmless(call[c]) /\ call[c].got \in live
          /\ \A d \in Call \ {c} :
               /\ call[d].got # None => call[d].got \in live
               /\ Reader(call[d]) /\ call[d].pc \in {"server", "rotating"} =>
                    Presented(call[d]) \in live /\ call[c].got # Presented(call[d])
      BY <1>3, <2>1 DEF IInv, SessionKept
    <3>2. Harmless(e) /\ (Reader(e) => Reader(call[c]))
      BY <1>2, <1>3, <3>1 DEF Harmless, Reader
    <3>3. QED
      BY <1>2, <1>4, <1>5, <2>1, <3>1, <3>2, SessionStep
  <2>2. CASE owes # "session" /\ owes' = "session"
    <3>1. /\ call[c].kind \in {"login", "register"}
          /\ ~call[c].refreshing /\ Alone(c) /\ call[c].got \in live
      BY <1>5, <2>2
    <3>2. ~Reader(e) /\ Harmless(e)
      BY <1>2, <3>1 DEF Reader, Harmless
    <3>3. \A d \in Call : ~Reader(call'[d]) /\ Harmless(call'[d])
                          /\ (call'[d].got # None => call'[d].got \in live')
      BY <1>2, <1>4, <1>5, <3>1, <3>2, IdleEntry DEF Alone
    <3>4. stored' \in live'
      BY <1>5, <3>1
    <3>5. QED
      BY <3>3, <3>4 DEF SessionKept, Reader, Harmless
  <2>3. CASE owes' # "session"
    BY <2>3 DEF SessionKept
  <2>4. QED
    BY <2>1, <2>2, <2>3
<1>10. QED
  BY <1>6, <1>7, <1>8, <1>9 DEF IInv

LEMMA SetSessionStep ==
  ASSUME IInv, NEW c \in Call, SetSession(c)
  PROVE  IInv'
<1> DEFINE e == IF call[c].refreshing
                THEN [call[c] EXCEPT !.pc = "server", !.refreshing = FALSE,
                        !.retried = TRUE, !.bearer = call[c].got, !.got = None,
                        !.answer = "none"]
                ELSE Idle
<1>1. call' = [call EXCEPT ![c] = e] /\ call[c].pc = "saved"
  BY DEF SetSession
<1>2. e \in Entry /\ e.got = None /\ e.pc \in {"server", "idle"}
      /\ \/ e = Idle
         \/ /\ call[c].refreshing /\ e.kind = call[c].kind /\ ~e.refreshing
            /\ e.answer = "none" /\ e.pc = "server"
  BY IdleEntry DEF IInv, TypeOK, Entry, Pc, Holder, Answer
<1> HIDE DEF e
<1>3. Shaped(e)
  <2>1. CASE e = Idle
    BY <2>1, IdleEntry
  <2>2. CASE e # Idle
    BY <1>2, <2>2 DEF Shaped, Reader
  <2>3. QED
    BY <2>1, <2>2
<1>4. owes = "session" => Harmless(e) /\ ~Reader(e)
  <2>1. owes = "session" => Harmless(call[c])
    BY DEF IInv, SessionKept
  <2>2. CASE e = Idle
    BY <2>2, IdleEntry
  <2>3. CASE e # Idle
    BY <1>2, <2>1, <2>3 DEF Harmless, Reader
  <2>4. QED
    BY <2>2, <2>3
<1>5. /\ UNCHANGED <<stored, route, made, live, exchanged, family, lapsed, owes>>
      /\ access' \in Holder
  BY DEF SetSession, server, IInv, TypeOK, Entry
<1>6. hydrating' \in BOOLEAN
  <2>1. hydrating' = (hydrating /\ (call[c].kind # "hydrate" \/ call[c].refreshing))
    BY DEF SetSession
  <2>2. QED
    BY <2>1, Zenon
<1>7. QED
  BY <1>1, <1>2, <1>3, <1>4, <1>5, <1>6, ClientStep

LEMMA ClearStep ==
  ASSUME IInv, NEW c \in Call, Clear(c)
  PROVE  IInv'
<1> DEFINE e == [call[c] EXCEPT !.pc = "cleared"]
<1>1. call' = [call EXCEPT ![c] = e]
  BY DEF Clear, IInv, TypeOK
<1>2. /\ e \in Entry /\ e.kind = call[c].kind /\ e.refreshing = call[c].refreshing
      /\ e.got = call[c].got /\ e.answer = call[c].answer /\ e.pc = "cleared"
  BY DEF IInv, TypeOK, Entry, Pc
<1>3. call[c].pc = "clear" /\ call[c].got = None
  BY DEF Clear, IInv, Shaped
<1> HIDE DEF e
<1>4. /\ call' \in [Call -> Entry] /\ call'[c] = e
      /\ \A d \in Call \ {c} : call'[d] = call[d]
  BY <1>1, <1>2, UpdatedEntry DEF IInv
<1>5. /\ UNCHANGED <<access, hydrating, route, made, live, exchanged, family, lapsed, owes>>
      /\ stored' = None
  BY DEF Clear, server
<1>6. TypeOK'
  BY <1>4, <1>5 DEF IInv, TypeOK, Holder
<1>7. \A d \in Call : Shaped(call[d])'
  <2>1. Shaped(e)
    BY <1>2, <1>3 DEF Shaped
  <2>2. QED
    BY <1>4, <2>1, ShapedStep
<1>8. Leaving' /\ Silent'
  BY <1>2, <1>3, <1>4, <1>5, NotSilent, Continues
<1>9. SessionKept'
  BY <1>3, <1>5 DEF IInv, SessionKept, Harmless
<1>10. QED
  BY <1>6, <1>7, <1>8, <1>9 DEF IInv

LEMMA ClearSessionStep ==
  ASSUME IInv, NEW c \in Call, ClearSession(c)
  PROVE  IInv'
<1> DEFINE e == IF call[c].refreshing
                THEN [call[c] EXCEPT !.pc = "answered", !.refreshing = FALSE,
                        !.retried = TRUE, !.answer = "unauthorized"]
                ELSE Idle
<1>1. call' = [call EXCEPT ![c] = e] /\ call[c].pc = "cleared" /\ call[c].got = None
  BY DEF ClearSession, IInv, Shaped
<1>2. e \in Entry /\ e.got = None /\ e.pc \in {"answered", "idle"}
      /\ \/ e = Idle
         \/ /\ call[c].refreshing /\ e.kind = call[c].kind /\ ~e.refreshing
            /\ e.answer = "unauthorized" /\ e.pc = "answered"
  BY <1>1, IdleEntry DEF IInv, TypeOK, Entry, Pc, Answer
<1>3. ~call[c].refreshing => e = Idle
  OBVIOUS
<1> HIDE DEF e
<1>4. /\ call' \in [Call -> Entry] /\ call'[c] = e
      /\ \A d \in Call \ {c} : call'[d] = call[d]
  BY <1>1, <1>2, UpdatedEntry DEF IInv
<1>5. /\ UNCHANGED <<stored, route, made, live, exchanged, family, lapsed>>
      /\ access' \in {access, None}
      /\ \/ owes' = owes
         \/ /\ owes' = "silence" /\ owes = "leaving" /\ ~call[c].refreshing
            /\ call[c].kind \in {"logout", "logoutAll"} /\ access' = None
  BY DEF ClearSession, server
<1>6. hydrating' \in BOOLEAN
  <2>1. hydrating' = (hydrating /\ (call[c].kind # "hydrate" \/ call[c].refreshing))
    BY DEF ClearSession
  <2>2. QED
    BY <2>1, Zenon
<1>7. TypeOK'
  BY <1>4, <1>5, <1>6 DEF IInv, TypeOK, Holder, Owed
<1>8. \A d \in Call : Shaped(call[d])'
  <2>1. Shaped(e)
    <3>1. CASE e = Idle
      BY <3>1, IdleEntry
    <3>2. CASE e # Idle
      BY <1>2, <3>2 DEF Shaped, Reader
    <3>3. QED
      BY <3>1, <3>2
  <2>2. QED
    BY <1>4, <2>1, ShapedStep
<1>9. Leaving' /\ Silent'
  <2>1. CASE owes' = owes
    BY <1>1, <1>2, <1>4, <2>1, NotSilent, Continues
  <2>2. CASE owes' # owes
    <3>1. call[c] # Idle /\ owes = "leaving"
      BY <1>1, <1>5, <2>2, NotSilent
    <3>2. Alone(c) /\ stored = None
      BY <1>1, <3>1 DEF IInv, Leaving
    <3>3. \A d \in Call : call'[d] = Idle
      BY <1>3, <1>4, <1>5, <2>2, <3>2 DEF Alone
    <3>4. QED
      BY <1>5, <2>2, <3>2, <3>3 DEF Leaving, Silent
  <2>3. QED
    BY <2>1, <2>2
<1>10. SessionKept'
  BY <1>1, <1>5 DEF IInv, SessionKept, Harmless
<1>11. QED
  BY <1>7, <1>8, <1>9, <1>10 DEF IInv

-----------------------------------------------------------------------------
(* Starting a call. *)

(* What a hydration starts with. *)
LEMMA HydrationEntry ==
  ASSUME "hydrate" \in Kind
  PROVE  LET h == [Idle EXCEPT !.kind = "hydrate", !.pc = "read"]
         IN  /\ h \in Entry /\ h.kind = "hydrate" /\ h.pc = "read" /\ ~h.refreshing
             /\ h.got = None /\ h.answer = "none"
BY DEF Idle, Entry, Pc, Holder, Answer

LEMMA StartStep ==
  ASSUME IInv, NEW c \in Call, call[c] = Idle, NEW e \in Entry,
         ~e.refreshing, e.got = None, e.answer = "none", e.pc \in {"read", "server"},
         call' = [call EXCEPT ![c] = e],
         e.pc = "read" => e.kind \in {"hydrate", "logout"}, e.pc = "server" => e.kind # "hydrate",
         UNCHANGED <<stored, access, hydrating, live, exchanged, family, lapsed>>,
         route' \in {"index", "group"}, made' \in 0 .. MaxCalls, owes' \in Owed,
         owes' = "session" => owes = "session" /\ e.kind \notin {"logout", "logoutAll"},
         owes' = "leaving" => Alone(c) /\ e.kind \in {"logout", "logoutAll"},
         owes' = "silence" => owes = "silence" /\ e.kind = "hydrate" /\ e.pc = "read"
  PROVE  IInv'
<1>1. /\ call' \in [Call -> Entry] /\ call'[c] = e
      /\ \A d \in Call \ {c} : call'[d] = call[d]
  BY UpdatedEntry DEF IInv
<1>2. TypeOK'
  BY <1>1 DEF IInv, TypeOK
<1>3. \A d \in Call : Shaped(call[d])'
  <2>1. Shaped(e)
    BY DEF Shaped, Reader
  <2>2. QED
    BY <1>1, <2>1, ShapedStep
<1>4. Leaving'
  BY <1>1, IdleEntry DEF Leaving, Alone
<1>5. Silent'
  BY <1>1 DEF IInv, Silent
<1>6. SessionKept'
  <2>1. CASE owes' = "session"
    <3>1. ~Reader(e) /\ Harmless(e) /\ ~Reader(call[c])
      BY <2>1, IdleEntry DEF Reader, Harmless
    <3>2. QED
      BY <1>1, <2>1, <3>1, QuietStep
  <2>2. CASE owes' # "session"
    BY <2>2 DEF SessionKept
  <2>3. QED
    BY <2>1, <2>2
<1>7. QED
  BY <1>2, <1>3, <1>4, <1>5, <1>6 DEF IInv

(* Begin, with what each screen does. *)
LEMMA CallStep ==
  ASSUME IInv, NEW c \in Call,
         Query(c) \/ Login(c) \/ Register(c) \/ Logout(c) \/ LogoutAll(c) \/ OpenIndex(c)
  PROVE  IInv'
<1>1. None \in Holder /\ access \in Holder /\ made \in 0 .. MaxCalls /\ owes \in Owed
      /\ route \in {"index", "group"}
  BY DEF IInv, TypeOK, Holder
<1>2. Another => made' \in 0 .. MaxCalls
  BY <1>1, MobileSessionAssumption DEF Another
<1>3. ASSUME NEW kind, NEW pc \in {"read", "server"}, Begin(c, kind, pc),
             pc = "read" => kind \in {"hydrate", "logout"}, pc = "server" => kind # "hydrate",
             owes' \in Owed,
             owes' = "session" => owes = "session" /\ kind \notin {"logout", "logoutAll"},
             owes' = "leaving" => Alone(c) /\ kind \in {"logout", "logoutAll"},
             owes' # "silence"
      PROVE  IInv'
  <2> DEFINE b == IF pc = "server" THEN access ELSE None
  <2>1. /\ kind \in Kind /\ call[c] = Idle /\ b \in Holder /\ made' \in 0 .. MaxCalls
        /\ UNCHANGED <<stored, access, hydrating, route, live, exchanged, family, lapsed>>
        /\ call' = [call EXCEPT ![c] = [Idle EXCEPT !.kind = kind, !.pc = pc, !.bearer = b]]
    BY <1>1, <1>2, <1>3 DEF Begin, client, server
  <2> HIDE DEF b
  <2> DEFINE e == [Idle EXCEPT !.kind = kind, !.pc = pc, !.bearer = b]
  <2>2. /\ e \in Entry /\ e.kind = kind /\ e.pc = pc /\ ~e.refreshing
        /\ e.got = None /\ e.answer = "none"
    BY <1>3, <2>1 DEF Idle, Entry, Pc, Holder, Answer
  <2>3. call' = [call EXCEPT ![c] = e]
    BY <2>1
  <2> HIDE DEF e
  <2>4. QED
    BY <1>1, <1>3, <2>1, <2>2, <2>3, StartStep
<1>4. AppGroup => owes # "silence"
  BY DEF AppGroup, IInv, Silent
<1> USE DEF Owed
<1>5. CASE Query(c)
  <2>1. Begin(c, "query", "server") /\ owes' \in {owes, "nothing"} /\ owes' \notin {"leaving", "silence"}
    BY <1>4, <1>5 DEF Query, Disturbs
  <2>2. QED
    BY <1>1, <1>3, <2>1
<1>6. CASE Login(c)
  <2>1. Begin(c, "login", "server") /\ owes' \in {owes, "nothing"} /\ owes' \notin {"leaving", "silence"}
    BY <1>6 DEF Login, Disturbs
  <2>2. QED
    BY <1>1, <1>3, <2>1
<1>7. CASE Register(c)
  <2>1. Begin(c, "register", "server") /\ owes' \in {owes, "nothing"} /\ owes' \notin {"leaving", "silence"}
    BY <1>7 DEF Register, Disturbs
  <2>2. QED
    BY <1>1, <1>3, <2>1
<1>8. CASE Logout(c)
  <2>1. Begin(c, "logout", "read") /\ owes' = IF Alone(c) THEN "leaving" ELSE "nothing"
    BY <1>8 DEF Logout
  <2>2. QED
    BY <1>1, <1>3, <2>1
<1>9. CASE LogoutAll(c)
  <2>1. Begin(c, "logoutAll", "server") /\ owes' = IF Alone(c) THEN "leaving" ELSE "nothing"
    BY <1>9 DEF LogoutAll
  <2>2. QED
    BY <1>1, <1>3, <2>1
<1>10. CASE OpenIndex(c)
  <2>1. /\ "hydrate" \in Kind /\ call[c] = Idle /\ made' \in 0 .. MaxCalls
        /\ UNCHANGED <<stored, access, hydrating, live, exchanged, family, lapsed>>
        /\ route' = "index" /\ owes' \in {owes, "nothing"} /\ owes' # "leaving"
        /\ call' = [call EXCEPT ![c] = [Idle EXCEPT !.kind = "hydrate", !.pc = "read"]]
    BY <1>2, <1>10 DEF OpenIndex, server, Disturbs
  <2> DEFINE h == [Idle EXCEPT !.kind = "hydrate", !.pc = "read"]
  <2>2. /\ h \in Entry /\ h.kind = "hydrate" /\ h.pc = "read" /\ ~h.refreshing
        /\ h.got = None /\ h.answer = "none"
    BY <2>1, HydrationEntry
  <2>3. call' = [call EXCEPT ![c] = h]
    BY <2>1
  <2> HIDE DEF h
  <2>4. QED
    BY <1>1, <2>1, <2>2, <2>3, StartStep
<1>11. QED
  BY <1>5, <1>6, <1>7, <1>8, <1>9, <1>10

-----------------------------------------------------------------------------
(* The screens and the environment. *)

(* A hydration is cancelled; nothing else changes for it. *)
LEMMA LeaveIndexStep ==
  ASSUME IInv, LeaveIndex
  PROVE  IInv'
<1>1. ASSUME NEW c \in Call
      PROVE  /\ call'[c] \in Entry
             /\ call'[c].kind = call[c].kind /\ call'[c].refreshing = call[c].refreshing
             /\ call'[c].pc = call[c].pc /\ call'[c].got = call[c].got
             /\ call'[c].answer = call[c].answer
             /\ call'[c].sent = call[c].sent /\ call'[c].body = call[c].body
             /\ (call[c].kind # "hydrate" => call'[c] = call[c])
  BY DEF IInv, TypeOK, LeaveIndex, Entry
<1>2. call' \in [Call -> Entry]
  BY <1>1 DEF LeaveIndex
<1>3. UNCHANGED <<made, stored, access, hydrating, live, exchanged, family, lapsed, owes>>
      /\ route' = "group"
  BY DEF LeaveIndex, server
<1>4. TypeOK'
  BY <1>2, <1>3 DEF IInv, TypeOK
<1>5. \A c \in Call : Shaped(call[c])'
  BY <1>1 DEF IInv, Shaped, Reader
<1>6. SessionKept'
  <2>1. \A c \in Call : /\ Reader(call'[c]) <=> Reader(call[c])
                        /\ Presented(call'[c]) = Presented(call[c])
                        /\ Harmless(call'[c]) <=> Harmless(call[c])
    BY <1>1 DEF Reader, Presented, Harmless
  <2> SUFFICES ASSUME owes = "session"
               PROVE  SessionKept'
    BY <1>3 DEF SessionKept
  <2>2. ASSUME NEW c \in Call
        PROVE  /\ Harmless(call'[c])
               /\ call'[c].got # None => call'[c].got \in live
               /\ Reader(call'[c]) =>
                    /\ \A d \in Call \ {c} : ~Reader(call'[d])
                    /\ call'[c].pc \in {"server", "rotating"} =>
                         /\ Presented(call'[c]) \in live
                         /\ \A d \in Call : call'[d].got # Presented(call'[c])
    BY <1>1, <2>1 DEF IInv, SessionKept
  <2>3. \/ stored \in live
        \/ \E c \in Call : /\ Reader(call'[c]) /\ call'[c].got \in live
                           /\ call'[c].pc \in {"answered", "save"}
    BY <1>1, <2>1 DEF IInv, SessionKept
  <2>4. QED
    BY <1>3, <2>2, <2>3 DEF SessionKept, Reader, Presented, Harmless
<1>7. Leaving'
  <2> SUFFICES ASSUME owes = "leaving", NEW c \in Call, call'[c] # Idle
               PROVE  /\ Alone(c)' /\ call'[c].kind \in {"logout", "logoutAll"}
                      /\ call'[c].pc = "cleared" => stored' = None
    BY <1>3 DEF Leaving
  <2>1. \A d \in Call : call[d] = Idle => call'[d] = Idle
    BY <1>1, IdleEntry, NoneIsNoKind
  <2>2. Alone(c) /\ call[c].kind \in {"logout", "logoutAll"}
        /\ (call[c].pc = "cleared" => stored = None)
    BY <2>1 DEF IInv, Leaving
  <2>3. QED
    BY <1>1, <1>3, <2>1, <2>2 DEF Alone
<1>8. Silent'
  <2>1. \A d \in Call : call[d] = Idle => call'[d] = Idle
    BY <1>1, IdleEntry, NoneIsNoKind
  <2>2. QED
    BY <1>1, <1>3, <2>1 DEF IInv, Silent
<1>9. QED
  BY <1>4, <1>5, <1>6, <1>7, <1>8 DEF IInv

LEMMA EnvironmentStep ==
  ASSUME IInv, Lapse \/ EndElsewhere
  PROVE  IInv'
<1>1. /\ UNCHANGED <<stored, access, hydrating, route, made, call, exchanged, family>>
      /\ lapsed' \subseteq Token /\ live' \subseteq live
      /\ owes' \in {owes, "nothing"} /\ (owes' = "session" => live' = live)
  <2>1. CASE Lapse
    BY <2>1 DEF Lapse, client, IInv, TypeOK, Entry, Holder
  <2>2. CASE EndElsewhere
    BY <2>2 DEF EndElsewhere, Excuse, client, IInv, TypeOK
  <2>3. QED
    BY <2>1, <2>2
<1>2. TypeOK'
  BY <1>1 DEF IInv, TypeOK, Owed
<1>3. QED
  BY <1>1, <1>2 DEF IInv, Shaped, SessionKept, Leaving, Silent, Reader, Harmless, Presented, Alone

(* Nothing of the calls is left but a hydration, which has not read yet. *)
LEMMA RestartStep ==
  ASSUME IInv, Restart
  PROVE  IInv'
<1> DEFINE h == [Idle EXCEPT !.kind = "hydrate", !.pc = "read"]
<1>1. "hydrate" \in Kind =>
        /\ h \in Entry /\ h.kind = "hydrate" /\ h.pc = "read" /\ ~h.refreshing
        /\ h.got = None /\ h.answer = "none"
  BY HydrationEntry
<1>2. /\ access' = None /\ hydrating' = TRUE /\ route' \in {"index", "group"}
      /\ UNCHANGED <<stored, live, exchanged, family, lapsed>>
      /\ owes' \in {owes, "nothing"} /\ owes' # "leaving"
      /\ owes' = "session" => \A c \in Call : call[c].got \in {None, stored}
  BY DEF Restart, server
<1>3. made' \in 0 .. MaxCalls
  BY MobileSessionAssumption DEF Restart, Another, IInv, TypeOK
<1>4. /\ call' = [c \in Call |-> call'[c]]
      /\ \A c \in Call : call'[c] = Idle \/ ("hydrate" \in Kind /\ call'[c] = h)
  BY DEF Restart
<1> HIDE DEF h
<1>5. \A c \in Call :
        /\ call'[c] \in Entry /\ Shaped(call'[c]) /\ ~Reader(call'[c])
        /\ Harmless(call'[c]) /\ call'[c].got = None
        /\ call'[c] = Idle \/ (/\ call'[c].kind = "hydrate" /\ call'[c].pc = "read"
                               /\ ~call'[c].refreshing)
  BY <1>1, <1>4, IdleEntry DEF Shaped, Reader, Harmless
<1>6. call' \in [Call -> Entry]
  BY <1>4, <1>5
<1>7. TypeOK'
  BY <1>2, <1>3, <1>6 DEF IInv, TypeOK, Owed, Holder
<1>8. \A c \in Call : Shaped(call[c])'
  BY <1>5 DEF Shaped, Reader
<1>9. SessionKept'
  <2> SUFFICES ASSUME owes' = "session"
               PROVE  SessionKept'
    BY DEF SessionKept
  <2>1. stored \in live
    <3>1. owes = "session" /\ \A c \in Call : call[c].got \in {None, stored}
      BY <1>2
    <3>2. None \notin live
      BY MobileSessionAssumption DEF IInv, TypeOK
    <3>3. QED
      BY <3>1, <3>2 DEF IInv, SessionKept
  <2>2. QED
    BY <1>2, <1>5, <2>1 DEF SessionKept, Reader, Harmless
<1>10. Leaving' /\ Silent'
  BY <1>2, <1>5 DEF IInv, Leaving, Silent
<1>11. QED
  BY <1>7, <1>8, <1>9, <1>10 DEF IInv

-----------------------------------------------------------------------------
(* The theorems. *)

LEMMA InitInvariant ==
  ASSUME Init
  PROVE  IInv
<1>1. TypeOK
  <2>1. NoFamily \in Token
    <3>1. Token # {}
      <4>1. ASSUME Token = {}
            PROVE  FALSE
        <5>1. IsFiniteSet(Token) /\ Cardinality(Token) = 0
          BY <4>1, FS_EmptySet
        <5>2. Cardinality(Call) \in Nat
          BY MobileSessionAssumption, FS_CardinalityType
        <5>3. QED
          BY <5>1, <5>2, MobileSessionAssumption
      <4>2. QED
        BY <4>1
    <3>2. QED
      BY <3>1 DEF NoFamily
  <2>2. QED
    BY <2>1, IdleEntry, MobileSessionAssumption DEF Init, TypeOK, Holder, Owed
<1>2. \A c \in Call : call[c] = Idle
  BY DEF Init
<1>3. QED
  BY <1>1, <1>2, IdleEntry DEF Init, IInv, SessionKept, Leaving, Silent

LEMMA NextInvariant ==
  ASSUME IInv, [Next]_vars
  PROVE  IInv'
<1>1. CASE UNCHANGED vars
  BY <1>1 DEF vars, client, server, IInv, TypeOK, Shaped, SessionKept, Leaving, Silent,
              Reader, Harmless, Presented, Alone
<1>2. ASSUME NEW c \in Call, Serve(c) \/ ServerError(c) \/ Lose(c)
      PROVE  IInv'
  BY <1>2, LookUpStep, RotateStep, FoundStep, ServerStep DEF Serve
<1>3. ASSUME NEW c \in Call, Client(c)
      PROVE  IInv'
  BY <1>3, ReadStoredStep, InterceptStep, RereadStep, RefreshedStep, SettleStep, SaveStep,
     SetSessionStep, ClearStep, ClearSessionStep DEF Client
<1>4. QED
  BY <1>1, <1>2, <1>3, CallStep, LeaveIndexStep, EnvironmentStep, RestartStep DEF Next

(* What the session of an installation rests on: while the user is owed a  *)
(* session one call at most is between reading the stored token and        *)
(* writing it back, and what it presents the server still exchanges        *)
(* (client.ts refreshSession, useHydrateSession, Save and SetSession); a   *)
(* logout under way is alone; after it nothing has read the store.         *)
THEOREM SessionInductive == Spec => []IInv
<1>1. Init => IInv
  BY InitInvariant
<1>2. IInv /\ [Next]_vars => IInv'
  BY NextInvariant
<1>3. QED
  BY <1>1, <1>2, PTL DEF Spec

(* Every variable of the app and of the server keeps its type, and what a  *)
(* call carries is a token that exists or none, although ids are reused.   *)
THEOREM SessionTyped == Spec => []TypeOK
<1>1. IInv => TypeOK
  BY DEF IInv
<1>2. QED
  BY <1>1, SessionInductive, PTL

(* The client's own steps lose no session: from a sign-in with no other    *)
(* call under way until something happens that may cost it, the stored     *)
(* token is one the server exchanges, or a call is about to store one,     *)
(* through expiries, refreshes, hydrations, navigation and restarts.       *)
THEOREM SessionIsKept == Spec => []KeepsSession
<1>1. IInv => KeepsSession
  BY DEF IInv, SessionKept, KeepsSession
<1>2. QED
  BY <1>1, SessionInductive, PTL

(* After useLogout or useLogoutAll ran with no other call under way, the   *)
(* app holds neither token until somebody signs in: no hydration, restart  *)
(* or link brings one back.                                                *)
THEOREM StaysLoggedOut == Spec => []LoggedOutStays
<1>1. IInv => LoggedOutStays
  BY DEF IInv, Silent, LoggedOutStays
<1>2. QED
  BY <1>1, SessionInductive, PTL
=============================================================================
