------------------------------- MODULE MCPipeline -------------------------------
(* Instances of NotificationPipeline for TLC: the event e is sent as v and, with another
   content, as w; the payload of t is not the one it states. *)
EXTENDS NotificationPipeline

CONSTANTS v, w, t, e, n, u

AllOfE == [y \in Envelopes |-> e]
Contents == [y \in Envelopes |-> IF y = w THEN "other" ELSE "first"]
AllN == [y \in Envelopes |-> n]
OwnedByU == [y \in Notes |-> u]
================================================================================
