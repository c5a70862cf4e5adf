---------------------------- MODULE MCAuthenticator ----------------------------
(* Two contexts over three tables of two drivers (h1 and h2 share a driver *)
(* pointer), one endpoint that can outlive a context.                      *)
EXTENDS Authenticator, TLC

CONSTANTS h1, h2, h3, d1, d2

MCDriverOf == (h1 :> d1) @@ (h2 :> d1) @@ (h3 :> d2)
================================================================================
