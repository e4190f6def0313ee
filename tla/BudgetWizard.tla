----------------------------- MODULE BudgetWizard -----------------------------
(***************************************************************************)
(* Making this month's budget: the wizard of app/(app)/(tabs)/budgets.tsx, *)
(* the suggestion it may ask for, the draft and the activation it posts,   *)
(* what the API checks, and the query that shows the result.               *)
(*                                                                         *)
(* Every budget is for the current month, so any two of them overlap.  A   *)
(* budget is known by the submission that made it; another device may have *)
(* made one too.  What is put aside (savings and buffer) is one amount.    *)
(* What the fields hold is chosen when it is used: the user can go back    *)
(* and enter anything until then.  What a suggestion allocates has no      *)
(* field, so it stays, and is kept.                                        *)
(***************************************************************************)
EXTENDS FiniteSets, FiniteSetsExt, Functions, Integers

CONSTANTS
  Category,   \* expense categories
  Suggested,  \* the key of a suggested allocation, which is no category's
  MaxMoney,   \* bound on an amount
  MaxSubmits, \* bound on the submissions
  Fault       \* what may go wrong

ASSUME BudgetWizardAssumption ==
  /\ IsFiniteSet(Category) /\ Suggested \notin Category
  /\ MaxMoney \in Nat /\ MaxSubmits \in Nat
  /\ Fault \subseteq {"lost", "error", "twice"}

VARIABLES
  screen,     \* the screen that is open
  step,       \* wizard: the step it shows
  suggestion, \* wizard: what a suggestion allocated, to keys without a field
  asked,      \* wizard: it waits for a suggestion
  latest,     \* wizard: its latest submission, or 0
  submission, \* the submissions
  budget,     \* server: what became of each
  other,      \* server: another device has activated a budget
  archived,   \* server: archived categories
  active,     \* query cache: the active budget
  fetch       \* query cache: the fetch in flight

wizard == <<step, suggestion, asked, latest>>
server == <<budget, other, archived>>
query == <<active, fetch>>
vars == <<screen, wizard, submission, server, query>>

Money == 0 .. MaxMoney
Submit == 1 .. MaxSubmits

(* What is allocated: amounts by key. *)
Allocations(keys) == UNION {[ks -> Money] : ks \in SUBSET keys}
None == [k \in {} |-> 0]

SumAllocations(allocations) == SumFunction(allocations)

ComputeUnallocated(income, aside, allocations) ==
  income - aside - SumAllocations(allocations)

(* A submission: the draft is posted, made, checked and activated.  Once   *)
(* the phone has given up, what it had yet to send may have been sent or   *)
(* not.  The draft allocates to some keys, and is within its income or not *)
(* (validateBudget); it is kept as long as something comes of it.          *)
InFlight == {"create", "created", "checked", "activated"}
Ended == {"saved", "failed", "conflict"}
Draft == [keys : SUBSET (Category \cup {Suggested}), over : BOOLEAN]
NoDraft == [keys |-> {}, over |-> FALSE]
DraftOf(income, aside, allocations) ==
  [keys |-> DOMAIN allocations, over |-> aside + SumFunction(allocations) > income]

Submission == [phase : {"unused"} \cup InFlight \cup Ended, lost : BOOLEAN, draft : Draft]
Unused == [phase |-> "unused", lost |-> FALSE, draft |-> NoDraft]

TypeOK ==
  /\ screen \in {"budgets", "elsewhere"}
  /\ step \in {"basics", "allocate", "review"}
  /\ suggestion \in Allocations({Suggested}) /\ asked \in BOOLEAN
  /\ latest \in {0} \cup Submit
  /\ submission \in [Submit -> Submission]
  /\ budget \in [Submit -> {"none", "draft", "active"}]
  /\ \A i \in Submit :
       /\ submission[i].phase \in {"unused", "create"} => budget[i] = "none"
       /\ submission[i].phase \in {"created", "checked", "conflict"} => budget[i] = "draft"
       /\ submission[i].phase \in {"activated", "saved"} <=> budget[i] = "active"
  /\ other \in BOOLEAN /\ archived \subseteq Category
  /\ active \in {"unknown", "none", "some", "failed"}
  /\ fetch \in {"no", "asked", "none", "some"}

Init ==
  /\ screen = "elsewhere"
  /\ step = "basics" /\ suggestion = None /\ asked = FALSE /\ latest = 0
  /\ submission = [i \in Submit |-> Unused]
  /\ budget = [i \in Submit |-> "none"] /\ other = FALSE /\ archived = {}
  /\ active = "unknown" /\ fetch = "no"

-----------------------------------------------------------------------------
(* The screen shows a spinner, a message, the active budget or the wizard. *)
BudgetsScreen ==
  CASE active = "unknown" -> "loading"
    [] active = "failed" -> "error"
    [] active = "some" -> "budget"
    [] active = "none" -> "wizard"

AtStep(s) == screen = "budgets" /\ BudgetsScreen = "wizard" /\ step = s

Pending(i) == submission[i].phase \in InFlight /\ ~submission[i].lost

(* The wizard is taken off the screen, with all it knew. *)
Unmount == step' = "basics" /\ suggestion' = None /\ asked' = FALSE /\ latest' = 0

(* The app ends and is started again. *)
Restart ==
  /\ screen' = "elsewhere" /\ Unmount
  /\ submission' = [i \in Submit |-> [submission[i] EXCEPT !.lost = @ \/ Pending(i)]]
  /\ active' = "unknown" /\ fetch' = "no"

-----------------------------------------------------------------------------
(* The wizard.                                                             *)

(* handleGetRecommendation *)
GetRecommendation ==
  /\ AtStep("basics")
  /\ ~asked /\ asked' = TRUE
  /\ UNCHANGED <<screen, step, suggestion, latest, submission, server, query>>

(* Generate: at least what was asked for is put aside, as far as it goes,  *)
(* and the rest is allocated to keys of its own; onSuccess writes it over  *)
(* what was entered, in whatever step.  If the buffer alone exceeds the    *)
(* income the allocations are null, and adding them up ends the app.       *)
Recommend ==
  /\ asked
  /\ \E income \in Money \ {0}, buffer, savings \in Money :
       \/ /\ buffer <= income
          /\ \E saved \in Min({savings, income - buffer}) .. income - buffer :
               suggestion' = [k \in {Suggested} |-> income - buffer - saved]
          /\ asked' = FALSE
          /\ UNCHANGED <<screen, step, latest, submission, query>>
       \/ buffer > income /\ Restart
  /\ UNCHANGED server

FailRecommend ==
  /\ "error" \in Fault
  /\ asked /\ asked' = FALSE
  /\ UNCHANGED <<screen, step, suggestion, latest, submission, server, query>>

(* "Lanjut" and "Kembali". *)
Lanjut ==
  /\ \/ AtStep("basics") /\ step' = "allocate"
     \/ AtStep("allocate") /\ step' \in {"basics", "review"}
     \/ AtStep("review") /\ step' = "allocate"
  /\ UNCHANGED <<screen, suggestion, asked, latest, submission, server, query>>

(* useMutation shows the latest. *)
IsPending == latest # 0 /\ Pending(latest)

(* The state "allocations": what is entered is written over what a         *)
(* suggestion allocated.                                                   *)
AllocationsWith(entered) ==
  [k \in DOMAIN entered \cup DOMAIN suggestion |->
     IF k \in DOMAIN entered THEN entered[k] ELSE suggestion[k]]

CanSubmit(income, aside, allocations) ==
  /\ AtStep("review")
  /\ ComputeUnallocated(income, aside, allocations) >= 0
  /\ ~IsPending

(* handleSubmit; twice if the button is tapped again before it is drawn    *)
(* disabled.                                                               *)
HandleSubmit ==
  LET used == Cardinality({i \in Submit : submission[i].phase # "unused"}) IN
  \E income \in Money \ {0}, aside \in Money, entered \in Allocations(Category) :
  \E n \in {1} \cup (IF "twice" \in Fault THEN {2} ELSE {}) :
    /\ CanSubmit(income, aside, AllocationsWith(entered))
    /\ used + n <= MaxSubmits
    /\ submission' = [i \in Submit |->
         IF i \in used + 1 .. used + n
         THEN [phase |-> "create", lost |-> FALSE,
               draft |-> DraftOf(income, aside, AllocationsWith(entered))]
         ELSE submission[i]]
    /\ latest' = used + n
    /\ UNCHANGED <<screen, step, suggestion, asked, server, query>>

-----------------------------------------------------------------------------
(* The server.                                                             *)

Goes(i, from, to) ==
  /\ submission[i].phase = from
  /\ submission' = [submission EXCEPT
       ![i].phase = to,
       ![i].draft = IF to = "failed" THEN NoDraft ELSE @]

(* Faulty variant of Valid: a category that is not found is let pass. *)
ValidIfFound(draft) == draft.keys \cap archived = {} /\ ~draft.over

(* What CreateDraft and Activate check. *)
Valid(draft) == draft.keys \subseteq Category \ archived /\ ~draft.over

(* CreateDraft *)
CreateDraft(i) ==
  /\ \/ /\ Valid(submission[i].draft)
        /\ Goes(i, "create", "created")
        /\ budget' = [budget EXCEPT ![i] = "draft"]
     \/ /\ ~Valid(submission[i].draft)
        /\ Goes(i, "create", "failed")
        /\ UNCHANGED budget
  /\ UNCHANGED <<screen, wizard, other, archived, query>>

(* The draft has arrived and its activation is posted; Activate reads the  *)
(* draft and its categories,                                               *)
CheckDraft(i) ==
  /\ Goes(i, "created", IF Valid(submission[i].draft) THEN "checked" ELSE "failed")
  /\ UNCHANGED <<screen, wizard, server, query>>

ActiveOnServer == other \/ \E i \in Submit : budget[i] = "active"

(* budget_periods_no_overlapping_active *)
Overlaps == ActiveOnServer

(* Faulty variant of ActivateBudget: the row is updated whatever overlaps. *)
ActivateRegardless(i) ==
  /\ Goes(i, "checked", IF Overlaps THEN "conflict" ELSE "activated")
  /\ budget' = [budget EXCEPT ![i] = "active"]
  /\ UNCHANGED <<screen, wizard, other, archived, query>>

(* and makes it active in a statement of its own. *)
ActivateBudget(i) ==
  /\ \/ ~Overlaps /\ Goes(i, "checked", "activated")
        /\ budget' = [budget EXCEPT ![i] = "active"]
     \/ Overlaps /\ Goes(i, "checked", "conflict") /\ UNCHANGED budget
  /\ UNCHANGED <<screen, wizard, other, archived, query>>

(* Faulty variant of Invalidated: the dashboard is refreshed instead. *)
InvalidatedDashboard == fetch

(* The active budget is invalidated, which begins again a fetch that is in *)
(* flight; nothing that depends on the budget is.                          *)
Invalidated == IF screen = "budgets" THEN "asked" ELSE fetch

(* onSuccess *)
Saved(i) ==
  /\ ~submission[i].lost
  /\ Goes(i, "activated", "saved")
  /\ fetch' = Invalidated
  /\ UNCHANGED <<screen, wizard, server, active>>

(* The phone gives up; what it sent may still arrive. *)
Lose(i) ==
  /\ "lost" \in Fault
  /\ Pending(i)
  /\ submission' = [submission EXCEPT ![i].lost = TRUE]
  /\ UNCHANGED <<screen, wizard, server, query>>

-----------------------------------------------------------------------------
(* The query.                                                              *)

(* GET /v1/budgets/active: 404 means none. *)
ServeActive ==
  /\ fetch = "asked"
  /\ fetch' = IF ActiveOnServer THEN "some" ELSE "none"
  /\ UNCHANGED <<screen, wizard, submission, server, active>>

DeliverActive ==
  /\ fetch \in {"some", "none"}
  /\ active' = fetch /\ fetch' = "no"
  /\ IF active' # "none" THEN Unmount ELSE UNCHANGED wizard
  /\ UNCHANGED <<screen, submission, server>>

FailActive ==
  /\ "error" \in Fault
  /\ fetch # "no"
  /\ active' = "failed" /\ fetch' = "no"
  /\ Unmount
  /\ UNCHANGED <<screen, submission, server>>

(* Screens outside the tabs replace them. *)
Go ==
  /\ screen' \in {"budgets", "elsewhere"} \ {screen}
  /\ fetch' = IF screen' = "budgets" /\ fetch = "no" THEN "asked" ELSE fetch
  /\ Unmount
  /\ UNCHANGED <<submission, server, active>>

(* Another device. *)
OtherDevice ==
  /\ \/ ~ActiveOnServer /\ other' = TRUE /\ UNCHANGED archived
     \/ \E c \in Category \ archived : archived' = archived \cup {c} /\ UNCHANGED other
  /\ UNCHANGED <<screen, wizard, submission, budget, query>>

Next ==
  \/ GetRecommendation \/ Recommend \/ FailRecommend \/ Lanjut \/ HandleSubmit
  \/ \E i \in Submit :
       \/ CreateDraft(i) \/ CheckDraft(i) \/ ActivateBudget(i)
       \/ Saved(i) \/ Lose(i)
  \/ ServeActive \/ DeliverActive \/ FailActive \/ Go \/ OtherDevice

Spec == Init /\ [][Next]_vars

(* The server answers, and the runtime goes on with what it answered. *)
Fairness ==
  /\ \A i \in Submit :
       /\ WF_vars(CreateDraft(i)) /\ WF_vars(CheckDraft(i) /\ ~submission[i].lost)
       /\ WF_vars(ActivateBudget(i)) /\ WF_vars(Saved(i))
  /\ WF_vars(ServeActive) /\ WF_vars(DeliverActive)

FairSpec == Spec /\ Fairness

-----------------------------------------------------------------------------
(* A suggestion may come in any step and allocates what no field shows     *)
(* (budgets.tsx:118); it is submitted with the rest.  Nothing submitted    *)
(* spends more than its income all the same (budgets.tsx:236), and nothing *)
(* the server has stored holds what the user could not see                 *)
(* (budgets.go:45, 66).                                                    *)
StoredAsShown ==
  \A i \in Submit :
    /\ ~submission[i].draft.over
    /\ budget[i] # "none" => submission[i].draft.keys \subseteq Category

(* A month has one active budget, whichever devices, taps, lost answers    *)
(* and late requests made it (00001_core.sql:121), within its income and   *)
(* made of what the wizard showed.                                         *)
OneActiveBudget ==
  /\ Cardinality({i \in Submit : budget[i] = "active"}) + (IF other THEN 1 ELSE 0) <= 1
  /\ StoredAsShown

(* A budget that became active replaces the wizard, unless its answer is   *)
(* lost, the screen is left, or the refresh fails                          *)
(* (useCreateAndActivateBudget.ts:29).                                     *)
ActiveIsShown ==
  \A i \in Submit :
    submission[i].phase = "activated"
      ~> (BudgetsScreen \in {"budget", "error"} \/ screen # "budgets" \/ submission[i].lost)
=============================================================================
