---------------------------- MODULE MCBillCalendar ----------------------------
(* A small instance of BillCalendar for TLC. *)
EXTENDS BillCalendar

(* The app is used in the second and the third of four short months; a due *)
(* day of 2 is clamped in the third.                                       *)
ShortMonths == <<1, 2, 1, 1>>
AllZones == {-1, 0, 1}
EveryFault == {"lost", "error"}
=============================================================================
