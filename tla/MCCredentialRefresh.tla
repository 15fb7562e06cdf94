---------------------- MODULE MCCredentialRefresh ----------------------
EXTENDS CredentialRefresh, TLC

CONSTANTS a, b, c, p, q

\* Two processes: the first makes two calls.
Two == a :> p @@ b :> q @@ c :> p
===========================================================================
