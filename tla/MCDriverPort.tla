------------------------------ MODULE MCDriverPort -----------------------------
(* Two drivers, three tables: h1 and h2 share a driver pointer, so that an *)
(* uninstall by the pointer can meet either.                               *)
EXTENDS DriverPort, TLC

CONSTANTS h1, h2, h3, d1, d2

MCDriverOf == (h1 :> d1) @@ (h2 :> d1) @@ (h3 :> d2)
================================================================================
