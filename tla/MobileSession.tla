---------------------------- MODULE MobileSession ----------------------------
(***************************************************************************)
(* The session of one installation of the mobile app: the refresh token in *)
(* secure storage, the access token in memory, and the requests in flight, *)
(* each of which may rotate or clear both.                                 *)
(*                                                                         *)
(* One action is what JavaScript runs without an await, or one step of the *)
(* server: a call reads storage, sends, is served, gets its answer, writes *)
(* storage and then the store, and other calls run between any two.  The   *)
(* server exchanges a live token for a new one, ends the family of a token *)
(* that was exchanged before, and does the look-up and the exchange of a   *)
(* refresh in two steps.  An access token is named by the refresh token it *)
(* came with; an id nobody holds any more is given out again.              *)
(***************************************************************************)
EXTENDS FiniteSets, Naturals

CONSTANTS
  Call,     \* requests the app has in flight at the same time
  Token,    \* refresh tokens
  Kind,     \* what the app does
  Fault,    \* what may go wrong
  MaxCalls, \* bound on the calls the app makes
  None

ASSUME MobileSessionAssumption ==
  /\ Kind \subseteq {"query", "login", "register", "logout", "logoutAll", "hydrate"}
  /\ Fault \subseteq {"lost", "error", "ended", "killed", "left"}
  /\ MaxCalls \in Nat
  /\ None \notin Token \cup {"query", "login", "register", "logout", "logoutAll", "hydrate"}
  \* More tokens than can be held at the same time: one is stored, one is in
  \* memory, and a call carries four.
  /\ IsFiniteSet(Call)
  /\ IsFiniteSet(Token) => Cardinality(Token) > 4 * Cardinality(Call) + 2

VARIABLES
  stored,      \* SecureStore: the refresh token
  access,      \* useAuthStore: accessToken
  hydrating,   \* useAuthStore: isHydrating
  route,       \* "index", or "group" for a screen of (app) or of (auth)
  call,        \* the requests in flight
  live,        \* server: refresh tokens it will exchange
  exchanged,   \* server: refresh tokens it has exchanged
  family,      \* server: the family of each
  lapsed,      \* access tokens that have expired
  made,        \* calls made so far
  owes         \* what the app owes the user: "session" once they signed in,
               \* until something happens that may cost it; "silence" once
               \* they signed out

client == <<stored, access, hydrating, route>>
server == <<live, exchanged, family, lapsed>>
vars == <<client, call, made, server, owes>>

(* The answers of the API: 2xx, 401, any other status, or no response. *)
Answer == {"ok", "unauthorized", "error", "none"}
Pc == {"idle", "read", "server", "rotating", "answered", "reread", "save",
       "saved", "clear", "cleared"}
Owed == {"session", "nothing", "leaving", "silence"}

Holder == Token \cup {None}
Entry ==
  [kind : Kind \cup {None}, pc : Pc,
   refreshing : BOOLEAN,    \* the interceptor's refresh, not the call itself
   body : Holder,           \* the refresh token in the call's own body
   sent : Holder,           \* the refresh token the interceptor sends
   bearer : Holder,         \* the Authorization header
   retried : BOOLEAN,       \* _retry: the interceptor is done with it
   cancelled : BOOLEAN,     \* hydrate: its screen is gone
   answer : Answer,
   got : Holder]            \* the token pair of the answer

Idle ==
  [kind |-> None, pc |-> "idle", refreshing |-> FALSE, body |-> None,
   sent |-> None, bearer |-> None, retried |-> FALSE, cancelled |-> FALSE,
   answer |-> "none", got |-> None]

Pending(kind) == \E c \in Call : call[c].kind = kind
Alone(c) == \A d \in Call \ {c} : call[d] = Idle

(* What somebody can still present.  Ids carry no meaning: one that nobody *)
(* holds stands for a token never seen before.                             *)
Held ==
  {stored, access} \cup
  UNION {{call[c].body, call[c].sent, call[c].bearer, call[c].got} : c \in Call}
NoFamily == CHOOSE f \in Token : TRUE
Fresh == CHOOSE t \in Token : t \notin Held
FreshFamily == CHOOSE f \in Token : \A t \in Held \ {None} : family[t] # f

TypeOK ==
  /\ {stored, access} \subseteq Holder
  /\ hydrating \in BOOLEAN
  /\ route \in {"index", "group"}
  /\ call \in [Call -> Entry]
  /\ {live, exchanged, lapsed} \subseteq SUBSET Token
  /\ family \in [Token -> Token]
  /\ made \in 0 .. MaxCalls
  /\ owes \in Owed

Init ==
  /\ stored = None /\ access = None /\ hydrating = TRUE
  /\ route = "group"
  /\ call = [c \in Call |-> Idle]
  /\ made = 0
  /\ live = {} /\ exchanged = {} /\ lapsed = {}
  /\ family = [t \in Token |-> NoFamily]
  /\ owes = "silence"

-----------------------------------------------------------------------------
(* Screens: what each of them lets the user do.                            *)

(* The guards of the two route groups: no access token, no (app) screen;   *)
(* with one, no (auth) screen.                                             *)
AppGroup == route = "group" /\ access # None
AuthGroup == route = "group" /\ access = None

LoginForm == [email : BOOLEAN, password : BOOLEAN]   \* filled in or not
LoginScreen(form) ==
  {"google", "register"} \cup
  (IF form.email /\ form.password /\ ~Pending("login") THEN {"login"} ELSE {})

RegisterForm ==
  [name : BOOLEAN, email : BOOLEAN, password : {"none", "short", "long"},
   repeated : BOOLEAN, consent : BOOLEAN]
RegisterScreen(form) ==
  {"google", "login"} \cup
  (IF /\ form.name /\ form.email /\ form.consent /\ ~Pending("register")
      /\ form.password = "long" /\ form.repeated
   THEN {"register"} ELSE {})

(* Logging out of all devices is confirmed first; the screen does not stop *)
(* one of the two while the other is under way.                            *)
PrivacyScreen(confirming) ==
  {"export"} \cup
  (IF Pending("logout") THEN {} ELSE {"logout"}) \cup
  (IF ~confirming THEN {"confirm"}
   ELSE {"cancel"} \cup IF Pending("logoutAll") THEN {} ELSE {"logoutAll"})

-----------------------------------------------------------------------------
(* Starting a call.                                                        *)

Another == made < MaxCalls /\ made' = made + 1

Begin(c, kind, pc) ==
  /\ kind \in Kind
  /\ Another
  /\ call[c] = Idle
  /\ call' = [call EXCEPT ![c] =
       [Idle EXCEPT !.kind = kind, !.pc = pc,
                    !.bearer = IF pc = "server" THEN access ELSE None]]
  /\ UNCHANGED <<client, server>>

(* A call that begins while another logs out, or the first after it. *)
Disturbs(states) == owes' = IF owes \in states THEN "nothing" ELSE owes

(* Any secured request of an (app) screen, the export among them. *)
Query(c) ==
  /\ AppGroup
  /\ Begin(c, "query", "server")
  /\ Disturbs({"leaving"})

Login(c) ==
  /\ AuthGroup
  /\ \E form \in LoginForm : "login" \in LoginScreen(form)
  /\ Begin(c, "login", "server")
  /\ Disturbs({"leaving", "silence"})

Register(c) ==
  /\ AuthGroup
  /\ \E form \in RegisterForm : "register" \in RegisterScreen(form)
  /\ Begin(c, "register", "server")
  /\ Disturbs({"leaving", "silence"})

Logout(c) ==
  /\ AppGroup
  /\ "logout" \in PrivacyScreen(FALSE)
  /\ Begin(c, "logout", "read")
  /\ owes' = IF Alone(c) THEN "leaving" ELSE "nothing"

LogoutAll(c) ==
  /\ AppGroup
  /\ "logoutAll" \in PrivacyScreen(TRUE)
  /\ Begin(c, "logoutAll", "server")
  /\ owes' = IF Alone(c) THEN "leaving" ELSE "nothing"

(* Index is mounted: at launch, or by a link to "/" while the app runs.    *)
(* useHydrateSession runs its effect on every mount.                       *)
OpenIndex(c) ==
  /\ route = "group"
  /\ "hydrate" \in Kind
  /\ Another
  /\ call[c] = Idle
  /\ route' = "index"
  /\ call' = [call EXCEPT ![c] = [Idle EXCEPT !.kind = "hydrate", !.pc = "read"]]
  /\ Disturbs({"leaving"})
  /\ UNCHANGED <<stored, access, hydrating, server>>

(* Index is unmounted: it redirects as soon as nothing is hydrating, and a *)
(* link may leave it earlier.  The effect's clean-up cancels.              *)
LeaveIndex ==
  /\ route = "index"
  /\ ~hydrating \/ "left" \in Fault
  /\ route' = "group"
  /\ call' = [c \in Call |->
       IF call[c].kind = "hydrate" THEN [call[c] EXCEPT !.cancelled = TRUE]
       ELSE call[c]]
  /\ UNCHANGED <<made, stored, access, hydrating, server, owes>>

-----------------------------------------------------------------------------
(* The server.                                                             *)

IsRefresh(e) == e.refreshing \/ e.kind = "hydrate"
Presented(e) == IF e.refreshing THEN e.sent ELSE e.body
Valid(token) == token # None /\ token \notin lapsed

Answers(c, answer, got) ==
  call' = [call EXCEPT ![c].pc = "answered", ![c].answer = answer,
                       ![c].got = got, ![c].bearer = None]

(* A new pair in family f, for the token t or for none.  What nobody holds *)
(* any more is forgotten.                                                  *)
Issue(n, f, t) ==
  /\ live' = ((live \cap Held) \ {t}) \cup {n}
  /\ exchanged' = ((exchanged \cup {t}) \cap Held) \ {None}
  /\ lapsed' = lapsed \cap Held
  /\ family' = [u \in Token |-> IF u = n THEN f ELSE
                                IF u \in Held THEN family[u] ELSE NoFamily]

(* GetByTokenHash and the checks after it. *)
LookUp(c) ==
  LET t == Presented(call[c]) IN
  /\ call[c].pc = "server" /\ IsRefresh(call[c])
  /\ IF t \in live
     THEN call' = [call EXCEPT ![c].pc = "rotating"] /\ UNCHANGED server
     ELSE /\ Answers(c, "unauthorized", None)
          /\ live' = IF t \in exchanged
                     THEN {u \in live : family[u] # family[t]} ELSE live
          /\ UNCHANGED <<exchanged, family, lapsed>>
  /\ UNCHANGED <<made, client, owes>>

(* Rotate: a conflict if another refresh came between. *)
Rotate(c) ==
  LET t == Presented(call[c])
      n == Fresh IN
  /\ call[c].pc = "rotating"
  /\ IF t \in live
     THEN /\ Answers(c, "ok", n)
          /\ Issue(n, family[t], t)
     ELSE Answers(c, "error", None) /\ UNCHANGED server
  /\ UNCHANGED <<made, client, owes>>

(* Register and Login found a family; wrong credentials stay wrong. *)
Found(c) ==
  LET n == Fresh IN
  /\ call[c].pc = "server" /\ ~call[c].refreshing
  /\ call[c].kind \in {"login", "register"}
  /\ \/ /\ ~call[c].retried
        /\ Answers(c, "ok", n)
        /\ Issue(n, FreshFamily, None)
     \/ /\ Answers(c, IF call[c].kind = "login" THEN "unauthorized" ELSE "error", None)
        /\ UNCHANGED server
  /\ UNCHANGED <<made, client, owes>>

(* Logout needs no access token and revokes the one session presented. *)
Revoke(c) ==
  /\ call[c].pc = "server" /\ ~call[c].refreshing
  /\ call[c].kind = "logout"
  /\ Answers(c, "ok", None)
  /\ live' = live \ {call[c].body}
  /\ UNCHANGED <<made, client, exchanged, family, lapsed, owes>>

(* requireAuth, and the secured route behind it. *)
Secured(c) ==
  /\ call[c].pc = "server" /\ ~call[c].refreshing
  /\ call[c].kind \in {"query", "logoutAll"}
  /\ IF Valid(call[c].bearer)
     THEN /\ Answers(c, "ok", None)
          /\ live' = IF call[c].kind = "logoutAll" THEN {} ELSE live
     ELSE Answers(c, "unauthorized", None) /\ UNCHANGED live
  /\ UNCHANGED <<made, client, exchanged, family, lapsed, owes>>

Serve(c) == LookUp(c) \/ Rotate(c) \/ Found(c) \/ Revoke(c) \/ Secured(c)

(* A status that is neither success nor 401: an outage, a rate limit. *)
ServerError(c) ==
  /\ "error" \in Fault
  /\ call[c].pc \in {"server", "rotating"}
  /\ Answers(c, "error", None)
  /\ UNCHANGED <<made, client, server, owes>>

(* The request or its answer is lost, or the app gives up on it. *)
Lose(c) ==
  /\ "lost" \in Fault
  /\ call[c].pc \in {"server", "rotating", "answered"}
  /\ call[c].pc = "answered" => call[c].answer # "none"
  /\ Answers(c, "none", None)
  /\ owes' = IF owes = "session" /\ call[c].got # None THEN "nothing" ELSE owes
  /\ UNCHANGED <<made, client, server>>

-----------------------------------------------------------------------------
(* The client's side of a call.                                            *)

(* Another call is between reading the stored token and writing it back. *)
Overlaps(c) ==
  \E d \in Call \ {c} :
     \/ call[d].refreshing
     \/ call[d].kind \in {"login", "register"}
     \/ call[d].kind = "hydrate" /\ call[d].pc # "read"
Excuse == owes' = IF owes = "session" THEN "nothing" ELSE owes

(* Faulty variant of ReadStored: isHydrating stays true without a token. *)
ReadStoredOnly(c) ==
  /\ call[c].pc = "read"
  /\ call' = [call EXCEPT ![c] =
       IF stored # None
       THEN [@ EXCEPT !.pc = "server", !.body = stored, !.bearer = access]
       ELSE IF call[c].kind = "hydrate" THEN Idle ELSE [@ EXCEPT !.pc = "clear"]]
  /\ IF Overlaps(c) THEN Excuse ELSE UNCHANGED owes
  /\ UNCHANGED <<made, client, server>>

(* getRefreshToken of useHydrateSession and of useLogout. *)
ReadStored(c) ==
  /\ call[c].pc = "read"
  /\ IF stored # None
     THEN /\ call' = [call EXCEPT ![c].pc = "server", ![c].body = stored,
                                  ![c].bearer = access]
          /\ UNCHANGED hydrating
     ELSE IF call[c].kind = "hydrate"
     THEN /\ call' = [call EXCEPT ![c] = Idle]
          /\ hydrating' = FALSE
     ELSE /\ call' = [call EXCEPT ![c].pc = "clear"]
          /\ UNCHANGED hydrating
  /\ IF Overlaps(c) THEN Excuse ELSE UNCHANGED owes
  /\ UNCHANGED <<made, stored, access, route, server>>

(* The response interceptor: a first 401 is followed by a refresh. *)
Intercept(c) ==
  /\ call[c].pc = "answered" /\ ~call[c].refreshing
  /\ call[c].answer = "unauthorized" /\ ~call[c].retried
  /\ call' = [call EXCEPT ![c].pc = "reread", ![c].answer = "none"]
  /\ UNCHANGED <<made, client, server, owes>>

(* refreshSession: getRefreshToken and the request, past the interceptor. *)
Reread(c) ==
  /\ call[c].pc = "reread"
  /\ call' = [call EXCEPT ![c].refreshing = TRUE, ![c].sent = stored,
                          ![c].pc = IF stored = None THEN "clear" ELSE "server"]
  /\ IF Overlaps(c) THEN Excuse ELSE UNCHANGED owes
  /\ UNCHANGED <<made, client, server>>

(* Faulty variant of Refreshed: the new refresh token is not saved. *)
RefreshedInMemory(c) ==
  /\ call[c].pc = "answered" /\ call[c].refreshing
  /\ call' = [call EXCEPT ![c].sent = None,
                ![c].pc = IF call[c].answer = "ok" THEN "saved" ELSE "clear"]
  /\ IF call[c].answer \in {"none", "error"} THEN Excuse ELSE UNCHANGED owes
  /\ UNCHANGED <<made, client, server>>

(* refreshSession: any failure at all means null. *)
Refreshed(c) ==
  /\ call[c].pc = "answered" /\ call[c].refreshing
  /\ call' = [call EXCEPT ![c].sent = None,
                ![c].pc = IF call[c].answer = "ok" THEN "save" ELSE "clear"]
  /\ IF call[c].answer \in {"none", "error"} THEN Excuse ELSE UNCHANGED owes
  /\ UNCHANGED <<made, client, server>>

(* The call's own promise settles: useQuery, useLogin, useRegister. *)
Settle(c) ==
  /\ call[c].pc = "answered" /\ ~call[c].refreshing
  /\ call[c].kind \in {"query", "login", "register"}
  /\ call[c].answer # "unauthorized" \/ call[c].retried
  /\ call' = IF call[c].got # None THEN [call EXCEPT ![c].pc = "save"]
             ELSE [call EXCEPT ![c] = Idle]
  /\ UNCHANGED <<made, client, server, owes>>

(* useLogout, useLogoutAll: best effort, cleared whatever the answer. *)
SettleLogout(c) ==
  /\ call[c].pc = "answered" /\ ~call[c].refreshing
  /\ call[c].kind \in {"logout", "logoutAll"}
  /\ call[c].answer # "unauthorized" \/ call[c].retried
  /\ call' = [call EXCEPT ![c].pc = "clear", ![c].body = None]
  /\ UNCHANGED <<made, client, server, owes>>

(* useHydrateSession after its request: a cancelled one returns at once,   *)
(* no response keeps the token, any response but success clears it.        *)
SettleHydrate(c) ==
  /\ call[c].pc = "answered" /\ ~call[c].refreshing
  /\ call[c].kind = "hydrate"
  /\ call[c].answer # "unauthorized" \/ call[c].retried
  /\ \/ /\ call[c].cancelled
        /\ call' = [call EXCEPT ![c] = Idle]
        /\ IF call[c].got # None THEN Excuse ELSE UNCHANGED owes
        /\ UNCHANGED hydrating
     \/ /\ ~call[c].cancelled /\ call[c].answer = "none"
        /\ call' = [call EXCEPT ![c] = Idle]
        /\ hydrating' = FALSE
        /\ UNCHANGED owes
     \/ /\ ~call[c].cancelled /\ call[c].answer # "none"
        /\ call' = [call EXCEPT ![c].body = None,
                      ![c].pc = IF call[c].answer = "ok" THEN "save" ELSE "clear"]
        /\ IF call[c].answer = "error" THEN Excuse ELSE UNCHANGED owes
        /\ UNCHANGED hydrating
  /\ UNCHANGED <<made, stored, access, route, server>>

(* saveRefreshToken.  A login with no other call under way is where the    *)
(* user is owed a session.                                                 *)
Save(c) ==
  /\ call[c].pc = "save"
  /\ stored' = call[c].got
  /\ call' = [call EXCEPT ![c].pc = "saved"]
  /\ owes' = IF /\ call[c].kind \in {"login", "register"} /\ ~call[c].refreshing
                /\ Alone(c) /\ call[c].got \in live
             THEN "session" ELSE owes
  /\ UNCHANGED <<made, access, hydrating, route, server>>

(* Faulty variant of SetSession: the retry is not marked. *)
SetSessionUnmarked(c) ==
  /\ call[c].pc = "saved"
  /\ access' = call[c].got
  /\ call' = [call EXCEPT ![c] =
       IF call[c].refreshing
       THEN [call[c] EXCEPT !.pc = "server", !.refreshing = FALSE,
               !.bearer = call[c].got, !.got = None, !.answer = "none"]
       ELSE Idle]
  /\ hydrating' = (hydrating /\ (call[c].kind # "hydrate" \/ call[c].refreshing))
  /\ UNCHANGED <<made, stored, route, server, owes>>

(* setSession, and after a refresh the retry with the new access token,    *)
(* after a hydration setHydrating(false).                                  *)
SetSession(c) ==
  /\ call[c].pc = "saved"
  /\ access' = call[c].got
  /\ call' = [call EXCEPT ![c] =
       IF call[c].refreshing
       THEN [call[c] EXCEPT !.pc = "server", !.refreshing = FALSE,
               !.retried = TRUE, !.bearer = call[c].got, !.got = None,
               !.answer = "none"]
       ELSE Idle]
  /\ hydrating' = (hydrating /\ (call[c].kind # "hydrate" \/ call[c].refreshing))
  /\ UNCHANGED <<made, stored, route, server, owes>>

(* Faulty variants of Clear: an empty token instead of none; a logout that *)
(* only clears the store.                                                  *)
ClearToEmpty(c) ==
  /\ call[c].pc = "clear"
  /\ stored' = ""
  /\ call' = [call EXCEPT ![c].pc = "cleared"]
  /\ UNCHANGED <<made, access, hydrating, route, server, owes>>

ClearUnlessLogout(c) ==
  /\ call[c].pc = "clear"
  /\ stored' = IF call[c].kind = "logout" THEN stored ELSE None
  /\ call' = [call EXCEPT ![c].pc = "cleared"]
  /\ UNCHANGED <<made, access, hydrating, route, server, owes>>

(* clearRefreshToken *)
Clear(c) ==
  /\ call[c].pc = "clear"
  /\ stored' = None
  /\ call' = [call EXCEPT ![c].pc = "cleared"]
  /\ UNCHANGED <<made, access, hydrating, route, server, owes>>

(* What follows it: the interceptor and the logouts clear the session, the *)
(* interceptor rejects with the 401, a hydration ends.                     *)
ClearSession(c) ==
  LET e == call[c] IN
  /\ e.pc = "cleared"
  /\ access' = IF e.refreshing \/ e.kind # "hydrate" THEN None ELSE access
  /\ call' = [call EXCEPT ![c] =
       IF e.refreshing
       THEN [e EXCEPT !.pc = "answered", !.refreshing = FALSE, !.retried = TRUE,
                      !.answer = "unauthorized"]
       ELSE Idle]
  /\ hydrating' = (hydrating /\ (e.kind # "hydrate" \/ e.refreshing))
  /\ owes' = IF e.kind \in {"logout", "logoutAll"} /\ ~e.refreshing /\ owes = "leaving"
             THEN "silence" ELSE owes
  /\ UNCHANGED <<made, stored, route, server>>

Client(c) ==
  \/ ReadStored(c) \/ Intercept(c) \/ Reread(c) \/ Refreshed(c)
  \/ Settle(c) \/ SettleLogout(c) \/ SettleHydrate(c)
  \/ Save(c) \/ SetSession(c) \/ Clear(c) \/ ClearSession(c)

-----------------------------------------------------------------------------
(* The environment.                                                        *)

(* An access token expires. *)
Lapse ==
  /\ \E t \in ({access} \cup {call[c].bearer : c \in Call}) \ (lapsed \cup {None}) :
       lapsed' = lapsed \cup {t}
  /\ UNCHANGED <<made, client, call, live, exchanged, family, owes>>

(* A family ends without this app: it expires, or another device logs out  *)
(* of all devices.                                                         *)
EndElsewhere ==
  /\ "ended" \in Fault
  /\ \E t \in live : live' = {u \in live : family[u] # family[t]}
  /\ Excuse
  /\ UNCHANGED <<made, client, call, exchanged, family, lapsed>>

(* The app is killed and launched again, at "/" or at a link. *)
Restart ==
  /\ "killed" \in Fault
  /\ access' = None /\ hydrating' = TRUE
  /\ UNCHANGED stored
  /\ \/ /\ route' = "group"
        /\ call' = [c \in Call |-> Idle]
        /\ UNCHANGED made
     \/ /\ "hydrate" \in Kind
        /\ Another
        /\ route' = "index"
        /\ \E c \in Call : call' =
             [d \in Call |-> IF d = c THEN [Idle EXCEPT !.kind = "hydrate", !.pc = "read"]
                             ELSE Idle]
  /\ owes' = IF \/ owes = "leaving"
                \/ owes = "session" /\ \E c \in Call : call[c].got \notin {None, stored}
             THEN "nothing" ELSE owes
  /\ UNCHANGED server

Next ==
  \/ \E c \in Call :
       \/ Query(c) \/ Login(c) \/ Register(c) \/ Logout(c) \/ LogoutAll(c) \/ OpenIndex(c)
       \/ Serve(c) \/ ServerError(c) \/ Lose(c)
       \/ Client(c)
  \/ LeaveIndex \/ Lapse \/ EndElsewhere \/ Restart

Spec == Init /\ [][Next]_vars

(* The JavaScript runtime runs what is ready, the platform's HTTP stack    *)
(* answers or gives up, Index redirects once nothing is hydrating.         *)
Fairness ==
  /\ \A c \in Call : WF_vars(Client(c)) /\ WF_vars(Serve(c))
  /\ WF_vars(LeaveIndex /\ ~hydrating)

FairSpec == Spec /\ Fairness

-----------------------------------------------------------------------------
(* Properties.                                                             *)

(* Once the user has signed in, the app holds a token the server will      *)
(* exchange, or is about to store one: the client's own steps lose no      *)
(* session.  What may cost it (owes): two calls that read and write the    *)
(* stored token at once, a refresh whose answer is lost or is an error, a  *)
(* new sign-in or a logout, a family ended elsewhere.                      *)
KeepsSession ==
  owes = "session" =>
    \/ stored \in live
    \/ \E c \in Call : call[c].got \in live /\ call[c].pc \in {"answered", "save"}

(* After a logout that no other call overlapped the app holds no token,    *)
(* whatever is opened, killed or launched, until somebody signs in.        *)
LoggedOutStays == owes = "silence" => stored = None /\ access = None

(* The spinner of Index goes away: hydration ends, on every path.          *)
HydrationEnds == route = "index" ~> route = "group"

(* Every call settles: one refresh and one retry, never a loop.            *)
CallsSettle == \A c \in Call : call[c] # Idle ~> call[c] = Idle
=============================================================================
