--------------------------- MODULE OidcIdentityInputs ---------------------------
(* What OidcIdentity is about: the identities that log in, with which tokens, and bounds. *)
EXTENDS Naturals, FiniteSets

CONSTANTS
    Subjects,       \* external identities: (issuer, subject) pairs
    Emails,
    Tokens,         \* what identities log in with: [sub, email, verified]
    NoSubject,      \* ... of a delegated login; whoever creates accounts by the API
    Logins,         \* logins that may be under way at once
    MaxRemovals,    \* bound: accounts deleted
    MaxFailures     \* bound: transactions that fail, as with an audit outage

ASSUME IdentityAssumption ==
    /\ IsFiniteSet(Emails) /\ Emails # {} /\ NoSubject \notin Subjects
    /\ Tokens # {}
    /\ Tokens \subseteq [sub : Subjects \cup {NoSubject}, email : Emails, verified : BOOLEAN]
    /\ \A t \in Tokens : t.sub = NoSubject => t.verified
    /\ MaxRemovals \in Nat /\ MaxFailures \in Nat
================================================================================
