------------------------------- MODULE MCIdentity -------------------------------
(* Instance of OidcIdentity for TLC: the email of identity k changes from x to y. *)
EXTENDS OidcIdentity

CONSTANTS k, x, y

Token(s, e, v) == [sub |-> s, email |-> e, verified |-> v]
Changing == {Token(k, x, TRUE), Token(k, y, TRUE)}
================================================================================
