------------------------- MODULE BudgetWizardProofs -------------------------
(* Proofs about BudgetWizard, for any categories, amounts, number of       *)
(* submissions and faults.                                                 *)
EXTENDS BudgetWizard, SumTheorems, TLAPS

-----------------------------------------------------------------------------
(* Lemmas on what is allocated and on the drafts made of it. *)

(* Allocations are to some of the keys. *)
LEMMA AllocationsType ==
  ASSUME NEW keys, NEW a
  PROVE  a \in Allocations(keys) <=> DOMAIN a \subseteq keys /\ a \in [DOMAIN a -> Money]
BY DEF Allocations

(* What is entered and a suggestion together allocate. *)
LEMMA TogetherType ==
  ASSUME suggestion \in Allocations({Suggested}), NEW entered \in Allocations(Category)
  PROVE  AllocationsWith(entered) \in Allocations(Category \cup {Suggested})
<1> DEFINE a == AllocationsWith(entered)
<1>1. /\ DOMAIN entered \subseteq Category /\ entered \in [DOMAIN entered -> Money]
      /\ DOMAIN suggestion \subseteq {Suggested} /\ suggestion \in [DOMAIN suggestion -> Money]
  BY AllocationsType
<1>2. DOMAIN a = DOMAIN entered \cup DOMAIN suggestion /\ a \in [DOMAIN a -> Money]
  BY <1>1 DEF AllocationsWith
<1> HIDE DEF a
<1>3. QED
  BY <1>1, <1>2, AllocationsType DEF a

(* It adds up to a number. *)
LEMMA SumAllocationsInt ==
  ASSUME NEW a \in Allocations(Category \cup {Suggested})
  PROVE  SumAllocations(a) \in Int
<1>1. IsFiniteSet(Category \cup {Suggested})
  BY BudgetWizardAssumption, FS_AddElement
<1>2. IsFiniteSet(DOMAIN a) /\ \A k \in DOMAIN a : a[k] \in Int
  BY <1>1, AllocationsType, FS_Subset, BudgetWizardAssumption DEF Money
<1>3. QED
  BY <1>2, SumInt DEF SumAllocations, SumFunction

(* A draft that the wizard lets go is within its income. *)
LEMMA SubmittedDraft ==
  ASSUME NEW income \in Money, NEW aside \in Money,
         NEW a \in Allocations(Category \cup {Suggested}),
         ComputeUnallocated(income, aside, a) >= 0
  PROVE  DraftOf(income, aside, a) = [keys |-> DOMAIN a, over |-> FALSE]
<1>1. SumAllocations(a) \in Int /\ income \in Int /\ aside \in Int
  BY SumAllocationsInt, BudgetWizardAssumption DEF Money
<1>2. income - aside - SumAllocations(a) >= 0
  BY DEF ComputeUnallocated
<1>3. (aside + SumAllocations(a) > income) = FALSE
  BY <1>1, <1>2
<1>4. QED
  BY <1>3 DEF DraftOf, SumAllocations

-----------------------------------------------------------------------------
(* The invariant.                                                          *)

(* None of the drafts spends more than its income. *)
WithinIncome == \A i \in Submit : ~submission[i].draft.over

(* What the server has stored was checked: its keys are categories. *)
StoredIsChecked ==
  \A i \in Submit : budget[i] # "none" => submission[i].draft.keys \subseteq Category

(* Two budgets are not active at once, wherever they were made. *)
NoTwoActive ==
  /\ \A i, j \in Submit : budget[i] = "active" /\ budget[j] = "active" => i = j
  /\ other => \A i \in Submit : budget[i] # "active"

(* Submissions are numbered in the order they are made. *)
NoGap ==
  \A i, j \in Submit :
    i < j /\ submission[j].phase # "unused" => submission[i].phase # "unused"

IInv == TypeOK /\ WithinIncome /\ StoredIsChecked /\ NoTwoActive /\ NoGap

(* Going on to another phase keeps the type of a submission, and its draft *)
(* unless it is given up, and leaves the others alone.                     *)
LEMMA GoesKeeps ==
  ASSUME NEW i \in Submit, NEW from, NEW to \in InFlight \cup Ended,
         submission \in [Submit -> Submission], WithinIncome, NoGap, Goes(i, from, to),
         from # "unused"
  PROVE  /\ submission' \in [Submit -> Submission] /\ WithinIncome' /\ NoGap'
         /\ submission[i].phase = from /\ submission'[i].phase = to
         /\ submission'[i].draft.keys \subseteq submission[i].draft.keys
         /\ \A j \in Submit \ {i} : submission'[j] = submission[j]
<1> DEFINE e == submission[i]
           d == IF to = "failed" THEN NoDraft ELSE e.draft
<1>1. submission' = [submission EXCEPT ![i] = [e EXCEPT !.phase = to, !.draft = d]]
  BY DEF Goes
<1>2. e \in Submission /\ d \in Draft /\ ~d.over /\ d.keys \subseteq e.draft.keys
  BY DEF WithinIncome, NoDraft, Draft, Submission
<1> HIDE DEF d
<1>3. /\ [e EXCEPT !.phase = to, !.draft = d] \in Submission
      /\ [e EXCEPT !.phase = to, !.draft = d].draft = d
      /\ [e EXCEPT !.phase = to, !.draft = d].phase = to
  BY <1>2 DEF Submission
<1>4. /\ submission' \in [Submit -> Submission]
      /\ submission'[i].draft = d /\ submission'[i].phase = to
      /\ \A j \in Submit \ {i} : submission'[j] = submission[j]
  BY <1>1, <1>3
<1>5. QED
  BY <1>2, <1>4 DEF WithinIncome, NoGap, Goes, InFlight, Ended

(* A wizard that is taken off the screen is as it was at first. *)
LEMMA UnmountType ==
  ASSUME Unmount
  PROVE  /\ step' = "basics" /\ suggestion' \in Allocations({Suggested})
         /\ asked' = FALSE /\ latest' = 0
<1>1. None \in Allocations({Suggested})
  BY AllocationsType DEF None
<1>2. QED
  BY <1>1 DEF Unmount

LEMMA InitInvariant == Init => IInv
<1> SUFFICES ASSUME Init
             PROVE  IInv
  OBVIOUS
<1>1. Unused \in Submission /\ ~Unused.draft.over /\ Unused.phase = "unused"
  BY DEF Unused, NoDraft, Submission, Draft
<1>2. submission \in [Submit -> Submission] /\ \A i \in Submit : submission[i] = Unused
  BY <1>1 DEF Init
<1>3. None \in Allocations({Suggested})
  BY AllocationsType DEF None
<1>4. TypeOK
  BY <1>1, <1>2, <1>3 DEF Init, TypeOK
<1>5. QED
  BY <1>1, <1>2, <1>4 DEF Init, IInv, WithinIncome, StoredIsChecked, NoTwoActive, NoGap

(* Starting the app again loses answers, not submissions. *)
LEMMA RestartStep ==
  ASSUME IInv, Restart, UNCHANGED server
  PROVE  IInv'
<1>1. ASSUME NEW i \in Submit
      PROVE  /\ submission'[i] \in Submission
             /\ submission'[i].phase = submission[i].phase
             /\ submission'[i].draft = submission[i].draft
  <2> DEFINE lost == submission[i].lost \/ Pending(i)
  <2>1. submission[i] \in Submission /\ lost \in BOOLEAN
    BY DEF IInv, TypeOK, Submission, Pending
  <2>2. submission'[i] = [submission[i] EXCEPT !.lost = lost]
    BY DEF Restart
  <2> HIDE DEF lost
  <2>3. QED
    BY <2>1, <2>2 DEF Submission
<1>2. submission' \in [Submit -> Submission]
  BY <1>1 DEF Restart
<1>3. TypeOK'
  BY <1>1, <1>2, UnmountType DEF IInv, TypeOK, Restart, server
<1>4. QED
  BY <1>1, <1>3 DEF IInv, WithinIncome, StoredIsChecked, NoTwoActive, NoGap, server

(* What the screens and the query do leaves the submissions and the server *)
(* as they are.                                                            *)
LEMMA ClientStep ==
  ASSUME IInv,
         \/ GetRecommendation \/ FailRecommend \/ Lanjut
         \/ ServeActive \/ DeliverActive \/ FailActive \/ Go
  PROVE  IInv'
<1>1. UNCHANGED <<submission, server>>
  BY DEF GetRecommendation, FailRecommend, Lanjut, ServeActive, DeliverActive, FailActive, Go
<1>2. /\ step' \in {"basics", "allocate", "review"} /\ asked' \in BOOLEAN
      /\ suggestion' \in Allocations({Suggested}) /\ latest' \in {0} \cup Submit
  BY UnmountType DEF IInv, TypeOK, GetRecommendation, FailRecommend, Lanjut, ServeActive,
     DeliverActive, FailActive, Go, wizard
<1>3. /\ screen' \in {"budgets", "elsewhere"}
      /\ active' \in {"unknown", "none", "some", "failed"}
      /\ fetch' \in {"no", "asked", "none", "some"}
  BY DEF IInv, TypeOK, GetRecommendation, FailRecommend, Lanjut, ServeActive,
     DeliverActive, FailActive, Go, query
<1>4. QED
  BY <1>1, <1>2, <1>3 DEF IInv, TypeOK, WithinIncome, StoredIsChecked, NoTwoActive, NoGap, server

LEMMA RecommendStep ==
  ASSUME IInv, Recommend
  PROVE  IInv'
<1> SUFFICES ASSUME NEW income \in Money \ {0}, NEW buffer \in Money, NEW savings \in Money,
                    buffer <= income,
                    NEW saved \in Min({savings, income - buffer}) .. income - buffer,
                    suggestion' = [k \in {Suggested} |-> income - buffer - saved],
                    asked' = FALSE,
                    UNCHANGED <<screen, step, latest, submission, query, server>>
             PROVE  IInv'
  BY RestartStep DEF Recommend
<1>1. Min({savings, income - buffer}) \in Nat
  <2>1. savings \in Nat /\ income - buffer \in Nat
    BY BudgetWizardAssumption DEF Money
  <2>2. \E x \in {savings, income - buffer} : \A y \in {savings, income - buffer} : x <= y
    BY <2>1
  <2>3. Min({savings, income - buffer}) \in {savings, income - buffer}
    BY <2>2 DEF Min
  <2>4. QED
    BY <2>1, <2>3
<1>2. income - buffer - saved \in Money
  BY <1>1, BudgetWizardAssumption DEF Money
<1>3. suggestion' \in Allocations({Suggested})
  BY <1>2, AllocationsType
<1>4. QED
  BY <1>3 DEF IInv, TypeOK, WithinIncome, StoredIsChecked, NoTwoActive, NoGap, query, server

(* A submission takes the next numbers. *)
LEMMA SubmitStep ==
  ASSUME IInv, HandleSubmit
  PROVE  IInv'
<1> DEFINE U == {i \in Submit : submission[i].phase # "unused"}
           used == Cardinality(U)
<1>1. used \in Nat /\ U = 1 .. used
  <2>1. \A i, j \in 1 .. MaxSubmits : i < j /\ j \in U => i \in U
    BY DEF IInv, NoGap, Submit
  <2>2. U \subseteq 1 .. MaxSubmits
    BY DEF Submit
  <2>3. QED
    BY <2>1, <2>2, InitialSegment, BudgetWizardAssumption
<1> DEFINE Submitted(income, aside, entered, n) ==
             /\ CanSubmit(income, aside, AllocationsWith(entered))
             /\ used + n <= MaxSubmits
             /\ submission' = [i \in Submit |->
                  IF i \in used + 1 .. used + n
                  THEN [phase |-> "create", lost |-> FALSE,
                        draft |-> DraftOf(income, aside, AllocationsWith(entered))]
                  ELSE submission[i]]
             /\ latest' = used + n
             /\ UNCHANGED <<screen, step, suggestion, asked, server, query>>
<1>2. PICK income \in Money \ {0}, aside \in Money, entered \in Allocations(Category) :
        \E n \in {1} \cup (IF "twice" \in Fault THEN {2} ELSE {}) :
          Submitted(income, aside, entered, n)
  BY Zenon DEF HandleSubmit
<1>3. PICK n \in {1, 2} : Submitted(income, aside, entered, n)
  BY <1>2, Zenon
<1> DEFINE a == AllocationsWith(entered)
           d == DraftOf(income, aside, a)
           e == [phase |-> "create", lost |-> FALSE, draft |-> d]
<1>4. d \in Draft /\ ~d.over
  <2>1. a \in Allocations(Category \cup {Suggested})
    BY TogetherType DEF IInv, TypeOK
  <2>2. DOMAIN a \subseteq Category \cup {Suggested}
    BY <2>1, AllocationsType
  <2>3. d = [keys |-> DOMAIN a, over |-> FALSE]
    BY <1>3, <2>1, SubmittedDraft DEF CanSubmit
  <2>4. QED
    BY <2>2, <2>3 DEF Draft
<1> HIDE DEF d, U
<1>5. e \in Submission /\ ~e.draft.over
  BY <1>4 DEF Submission, InFlight
<1>6. ASSUME NEW i \in Submit
      PROVE  \/ submission'[i] = submission[i] /\ (submission[i].phase # "unused" <=> i <= used)
             \/ submission'[i] = e /\ budget[i] = "none" /\ i > used
  <2>1. i \in Int /\ (i <= used <=> submission[i].phase # "unused")
    BY <1>1 DEF U, Submit
  <2>2. CASE i \in used + 1 .. used + n
    <3>1. submission'[i] = e
      BY <1>3, <2>2 DEF d
    <3>2. submission[i].phase = "unused"
      BY <1>1, <2>1, <2>2
    <3>3. QED
      BY <1>1, <2>1, <2>2, <3>1, <3>2 DEF IInv, TypeOK
  <2>3. CASE i \notin used + 1 .. used + n
    BY <1>3, <2>1, <2>3
  <2>4. QED
    BY <2>2, <2>3
<1>7. NoGap'
  <2> SUFFICES ASSUME NEW i \in Submit, NEW j \in Submit, i < j,
                      submission'[j].phase # "unused"
               PROVE  submission'[i].phase # "unused"
    BY DEF NoGap
  <2>1. j \in 1 .. used + n
    <3>1. j \in 1 .. used \/ j \in used + 1 .. used + n
      BY <1>1, <1>3 DEF U
    <3>2. QED
      BY <1>1, <3>1
  <2>2. i \in 1 .. used \/ i \in used + 1 .. used + n
    BY <1>1, <2>1 DEF Submit
  <2>3. CASE i \in used + 1 .. used + n
    BY <1>3, <2>3
  <2>4. CASE i \in 1 .. used
    BY <1>1, <1>5, <1>6, <2>4 DEF U
  <2>5. QED
    BY <2>2, <2>3, <2>4
<1>8. submission' \in [Submit -> Submission] /\ WithinIncome'
  <2>1. \A i \in Submit : submission'[i] \in Submission /\ ~submission'[i].draft.over
    BY <1>5, <1>6 DEF IInv, TypeOK, WithinIncome
  <2>2. QED
    BY <1>3, <2>1 DEF WithinIncome
<1>9. latest' \in {0} \cup Submit
  BY <1>1, <1>3, BudgetWizardAssumption DEF Submit
<1>10. \A i \in Submit :
         /\ submission'[i].phase \in {"unused", "create"} => budget[i] = "none"
         /\ submission'[i].phase \in {"created", "checked", "conflict"} => budget[i] = "draft"
         /\ submission'[i].phase \in {"activated", "saved"} <=> budget[i] = "active"
  BY <1>6 DEF IInv, TypeOK
<1>11. StoredIsChecked'
  BY <1>3, <1>6 DEF IInv, StoredIsChecked, server
<1>12. QED
  BY <1>3, <1>7, <1>8, <1>9, <1>10, <1>11 DEF IInv, TypeOK, NoTwoActive, server, query

(* The server's and the phone's steps with one submission. *)
LEMMA SubmissionStep ==
  ASSUME IInv, NEW i \in Submit,
         \/ CreateDraft(i) \/ CheckDraft(i) \/ ActivateBudget(i) \/ Saved(i)
  PROVE  IInv'
<1> USE GoesKeeps DEF InFlight, Ended
<1>1. CASE CreateDraft(i)
  <2>1. \/ /\ Goes(i, "create", "created") /\ budget' = [budget EXCEPT ![i] = "draft"]
           /\ submission[i].draft.keys \subseteq Category
        \/ Goes(i, "create", "failed") /\ UNCHANGED budget
    BY <1>1 DEF CreateDraft, Valid
  <2>2. /\ submission' \in [Submit -> Submission] /\ WithinIncome' /\ NoGap'
        /\ submission[i].phase = "create"
        /\ \A j \in Submit \ {i} : submission'[j] = submission[j] /\ budget'[j] = budget[j]
        /\ \/ /\ submission'[i].phase = "created" /\ budget'[i] = "draft"
              /\ submission'[i].draft.keys \subseteq Category
           \/ submission'[i].phase = "failed" /\ budget'[i] = budget[i]
        /\ budget' \in [Submit -> {"none", "draft", "active"}]
    BY <2>1 DEF IInv, TypeOK
  <2>3. TypeOK'
    BY <1>1, <2>2 DEF IInv, TypeOK, CreateDraft, wizard, query
  <2>4. NoTwoActive'
    BY <1>1, <2>2 DEF IInv, TypeOK, CreateDraft, NoTwoActive
  <2>5. StoredIsChecked'
    BY <2>2 DEF IInv, TypeOK, StoredIsChecked
  <2>6. QED
    BY <2>2, <2>3, <2>4, <2>5 DEF IInv
<1>2. CASE CheckDraft(i) \/ Saved(i)
  <2>1. \/ Goes(i, "created", "checked") \/ Goes(i, "created", "failed")
        \/ Goes(i, "activated", "saved")
    BY <1>2 DEF CheckDraft, Saved
  <2>2. /\ submission' \in [Submit -> Submission] /\ WithinIncome' /\ NoGap'
        /\ \A j \in Submit \ {i} : submission'[j] = submission[j]
        /\ submission'[i].draft.keys \subseteq submission[i].draft.keys
        /\ \/ submission[i].phase = "created" /\ submission'[i].phase \in {"checked", "failed"}
           \/ submission[i].phase = "activated" /\ submission'[i].phase = "saved"
    BY <2>1 DEF IInv, TypeOK
  <2>3. fetch' \in {"no", "asked", "none", "some"}
    BY <1>2 DEF IInv, TypeOK, CheckDraft, Saved, Invalidated, query
  <2>4. UNCHANGED <<screen, step, suggestion, asked, latest, budget, other, archived, active>>
    BY <1>2 DEF CheckDraft, Saved, wizard, server, query
  <2>5. QED
    BY <2>2, <2>3, <2>4 DEF IInv, TypeOK, StoredIsChecked, NoTwoActive
<1>3. CASE ActivateBudget(i)
  <2>1. \/ /\ ~Overlaps /\ Goes(i, "checked", "activated")
           /\ budget' = [budget EXCEPT ![i] = "active"]
        \/ Goes(i, "checked", "conflict") /\ UNCHANGED budget
    BY <1>3 DEF ActivateBudget
  <2>2. /\ submission' \in [Submit -> Submission] /\ WithinIncome' /\ NoGap'
        /\ submission[i].phase = "checked"
        /\ submission'[i].draft.keys \subseteq submission[i].draft.keys
        /\ \A j \in Submit \ {i} : submission'[j] = submission[j] /\ budget'[j] = budget[j]
        /\ \/ ~Overlaps /\ submission'[i].phase = "activated" /\ budget'[i] = "active"
           \/ submission'[i].phase = "conflict" /\ budget'[i] = budget[i]
        /\ budget' \in [Submit -> {"none", "draft", "active"}]
    BY <2>1 DEF IInv, TypeOK
  <2>3. TypeOK'
    BY <1>3, <2>2 DEF IInv, TypeOK, ActivateBudget, wizard, query
  <2>4. NoTwoActive'
    BY <1>3, <2>2 DEF IInv, TypeOK, ActivateBudget, NoTwoActive, Overlaps, ActiveOnServer
  <2>5. StoredIsChecked'
    BY <2>2 DEF IInv, TypeOK, StoredIsChecked
  <2>6. QED
    BY <2>2, <2>3, <2>4, <2>5 DEF IInv
<1>4. QED
  BY <1>1, <1>2, <1>3

LEMMA LoseStep ==
  ASSUME IInv, NEW i \in Submit, Lose(i)
  PROVE  IInv'
<1>1. ASSUME NEW j \in Submit
      PROVE  /\ submission'[j] \in Submission
             /\ submission'[j].phase = submission[j].phase
             /\ submission'[j].draft = submission[j].draft
  BY DEF IInv, TypeOK, Lose, Submission
<1>2. submission' \in [Submit -> Submission]
  BY <1>1 DEF Lose, IInv, TypeOK
<1>3. QED
  BY <1>1, <1>2 DEF IInv, TypeOK, WithinIncome, StoredIsChecked, NoTwoActive, NoGap, Lose, wizard, server, query

LEMMA OtherDeviceStep ==
  ASSUME IInv, OtherDevice
  PROVE  IInv'
<1>1. UNCHANGED <<screen, wizard, submission, budget, query>>
  BY DEF OtherDevice
<1>2. archived' \subseteq Category
  BY DEF OtherDevice, IInv, TypeOK
<1>3. other' \in BOOLEAN /\ (other' => other \/ ~ActiveOnServer)
  <2>1. CASE ~ActiveOnServer /\ other' = TRUE
    BY <2>1
  <2>2. CASE UNCHANGED other
    BY <2>2, Zenon DEF IInv, TypeOK
  <2>3. QED
    BY <2>1, <2>2 DEF OtherDevice
<1>4. TypeOK'
  BY <1>1, <1>2, <1>3 DEF IInv, TypeOK, wizard, query
<1>5. QED
  BY <1>1, <1>3, <1>4 DEF IInv, WithinIncome, StoredIsChecked, NoTwoActive, NoGap, ActiveOnServer

(* The invariant is inductive. *)
LEMMA InvariantStep ==
  ASSUME IInv, [Next]_vars
  PROVE  IInv'
<1>1. CASE UNCHANGED vars
  BY <1>1 DEF IInv, TypeOK, WithinIncome, StoredIsChecked, NoTwoActive, NoGap, vars, wizard, server, query
<1>2. CASE Next
  BY <1>2, ClientStep, RecommendStep, SubmitStep, SubmissionStep, LoseStep, OtherDeviceStep
     DEF Next
<1>3. QED
  BY <1>1, <1>2

-----------------------------------------------------------------------------
(* Theorems.                                                               *)

(* The inductive invariant holds: next to the types, no draft spends more  *)
(* than its income, none that is stored has a key without a category, no   *)
(* two budgets are active, and submissions are numbered in the order they  *)
(* are made (00001_core.sql:121, budgets.tsx:236, budgets.go:45).          *)
THEOREM WizardInductive == Spec => []IInv
BY InitInvariant, InvariantStep, PTL DEF Spec

(* Every variable keeps its type, and what became of a budget follows from *)
(* the phase of its submission.                                            *)
THEOREM WizardTyped == Spec => []TypeOK
<1>1. IInv => TypeOK
  BY DEF IInv
<1>2. QED
  BY <1>1, WizardInductive, PTL

(* A month has one active budget, no draft spends more than its income and *)
(* none that is stored allocates what the wizard did not show, for any     *)
(* number of submissions, suggestions, taps, devices and lost answers      *)
(* (00001_core.sql:121, budgets.tsx:236, budgets.go:45).                   *)
THEOREM OneBudgetAMonth == Spec => []OneActiveBudget
<1>1. ASSUME IInv
      PROVE  OneActiveBudget
  <2> DEFINE A == {i \in Submit : budget[i] = "active"}
  <2>1. Cardinality(A) + (IF other THEN 1 ELSE 0) <= 1
    <3>1. CASE A = {}
      BY <3>1, FS_EmptySet
    <3>2. CASE A # {}
      <4>1. PICK i \in A : A = {i}
        BY <1>1, <3>2 DEF IInv, NoTwoActive
      <4>2. ~other
        BY <1>1, <4>1 DEF IInv, NoTwoActive
      <4>3. Cardinality(A) = 1
        BY <4>1, FS_Singleton
      <4>4. QED
        BY <4>2, <4>3
    <3>3. QED
      BY <3>1, <3>2
  <2>2. QED
    BY <1>1, <2>1 DEF OneActiveBudget, StoredAsShown, IInv, WithinIncome, StoredIsChecked
<1>2. QED
  BY <1>1, WizardInductive, PTL
=============================================================================
