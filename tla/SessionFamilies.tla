--------------------------- MODULE SessionFamilies ---------------------------
(***************************************************************************)
(* What refresh-token rotation promises.  A family starts with one usable  *)
(* token, a refresh exchanges the usable token for one never used before,  *)
(* and a family that has ended has no usable token again.                  *)
(***************************************************************************)
CONSTANT SessionId    \* a family is named by its first session

VARIABLES
  usable,   \* the usable sessions of each family
  issued    \* every session there has ever been

Init ==
  /\ usable = [f \in SessionId |-> {}]
  /\ issued = {}

Begin(f) ==
  /\ f \notin issued
  /\ usable' = [usable EXCEPT ![f] = {f}]
  /\ issued' = issued \cup {f}

Exchange(f, s, t) ==
  /\ usable[f] = {s}
  /\ t \notin issued
  /\ usable' = [usable EXCEPT ![f] = {t}]
  /\ issued' = issued \cup {t}

(* Reuse, a logout or a logout of all devices: some families end. *)
End(F) ==
  /\ usable' = [f \in SessionId |-> IF f \in F THEN {} ELSE usable[f]]
  /\ UNCHANGED issued

Next ==
  \/ \E F \in SUBSET SessionId : End(F)
  \/ \E f \in SessionId : Begin(f)
  \/ \E f, s, t \in SessionId : Exchange(f, s, t)

Spec == Init /\ [][Next]_<<usable, issued>>
=============================================================================
