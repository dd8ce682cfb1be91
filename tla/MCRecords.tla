-------------------------------- MODULE MCRecords -------------------------------
(* Rows that follow somebody else's, for TLC: one behaviour is of one part, the mirror of
   a master-data app or the accounts OIDC identities are mapped to.

   The fetch of the mirror's entity 1 never works, and the records belong to entity 2.  The
   email of identity k changes from x to y, unverified, while another app delegates logins
   for y. *)
EXTENDS MasterDataMirror, OidcIdentityInputs

CONSTANTS RunParts,                \* the parts this instance runs
          a, b, k, x, y

AllInTwo == [i \in Ids |-> 2]
Mixed == {[sub |-> k, email |-> x, verified |-> TRUE], [sub |-> k, email |-> y, verified |-> FALSE],
          [sub |-> NoSubject, email |-> y, verified |-> TRUE]}

VARIABLES part, exists, active, nextId, email, born, mapping, legacy, pc, token, found, removals,
          failures, overtaken

Identity == INSTANCE OidcIdentity WITH faults <- failures

identityVars == <<exists, active, nextId, email, born, mapping, legacy, pc, token, found, removals,
                  failures, overtaken>>
sumVars == <<part, vars, identityVars>>

SumInit == part \in RunParts /\ Init /\ Identity!Init

Login(l)    == part = "identity" /\ Identity!Login(l)
Begin(l, t) == part = "identity" /\ Identity!Begin(l, t)

SumNext ==
    \/ part = "mirror" /\ Next /\ UNCHANGED <<part, identityVars>>
    \/ part = "identity" /\ Identity!Next /\ UNCHANGED <<part, vars>>

(* What the parts assume themselves. *)
SumFairness ==
    /\ \A h \in Handlers : WF_vars(part = "mirror" /\ Handle(h))
    /\ WF_vars(part = "mirror" /\ Reconcile) /\ WF_vars(part = "mirror" /\ Restart)
    /\ \A l \in Logins : WF_identityVars(Login(l))
    /\ \A t \in Tokens : SF_identityVars(\E l \in Logins : Begin(l, t))

SumSpec == SumInit /\ [][SumNext]_sumVars /\ SumFairness

--------------------------------------------------------------------------------
(* The properties of the parts; the part that does not run stays as it began. *)

(* resolvePrincipal: an identity reaches the account of an email it proved to own, and the
   legacy flag is only of accounts its own login did not provision. *)
IdentitySound == Identity!MappedByVerifiedEmail /\ Identity!NotInflated

(* dropMapping: a mapping goes only while its account is away, but for the stale delete. *)
LiveMappingKept == Identity!LiveMappingKept

(* resolvePrincipal: whoever has a verified email gets in, in the end. *)
LoginsHeal == part = "identity" => Identity!LoginsHeal
================================================================================
