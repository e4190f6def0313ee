--------------------------- MODULE MCMobileSession ---------------------------
(* A small instance of MobileSession for TLC. *)
EXTENDS MobileSession

Everything == {"query", "login", "register", "logout", "logoutAll", "hydrate"}
EveryFault == {"lost", "error", "ended", "killed", "left"}
=============================================================================
