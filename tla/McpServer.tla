------------------------------- MODULE McpServer -------------------------------
(***************************************************************************)
(* mcp-server: the registry of tools under their own and their prefixed    *)
(* names, the catalogue that is pushed at boot, the server made for every  *)
(* request with the tools its key's scopes admit, and calls that ask for   *)
(* input in several rounds through a sealed requestState, which the client *)
(* keeps and may send again, late, to another tool, or for another key.    *)
(*                                                                         *)
(* The SDK's codec (external) seals and verifies; it keeps nothing.        *)
(***************************************************************************)
EXTENDS Naturals, FiniteSets, Sequences

CONSTANTS
    Declared,       \* the sequences of tools an App may declare: [name, scopes, again]
    Prefixes,       \* values of MCP_TOOL_PREFIX, "none" among them
    Keys,           \* values of MCP_REQUEST_STATE_KEY, "none" and "short" among them
    Callers,        \* API keys, by sub: what scopes they hold
    Scopes,         \* caller -> scopes
    Calls,          \* requests under way at once
    MaxRounds, Ttl, MaxNow, MaxStates, MaxRestarts

VARIABLES
    prefix, secret, \* the environment of the process
    todo,           \* tools still to be registered
    toolMap,        \* name -> tool
    logicalTools,   \* as declared, in order
    pushed,         \* the catalogue the discovery service has, if any
    up, now,
    states,         \* request states clients hold
    call,
    restarts

vars == <<prefix, secret, todo, toolMap, logicalTools, pushed, up, now, states, call, restarts>>

NoCall == [at |-> "none"]

Start ==
    /\ prefix' \in Prefixes /\ secret' \in Keys
    /\ todo' \in Declared /\ toolMap' = << >> /\ logicalTools' = << >>
    /\ up' = FALSE

Init ==
    /\ prefix \in Prefixes /\ secret \in Keys
    /\ todo \in Declared /\ toolMap = << >> /\ logicalTools = << >>
    /\ up = FALSE /\ pushed = {} /\ now = 0 /\ states = {}
    /\ call = [c \in Calls |-> NoCall] /\ restarts = 0

--------------------------------------------------------------------------------
(* McpToolRegistry *)

(* A name is the prefix it has, if any, and the tool's own. *)
Own(t) == <<"none", t.name>>
Prefixed(t) == <<prefix, t.name>>
OwnOnly(t) == {Own(t)}                         \* mutant: the prefixed name is forgotten
Names(t) == {Own(t), Prefixed(t)}

RegisterTool ==
    /\ ~up /\ todo # << >>
    /\ LET t == Head(todo) IN
        /\ toolMap' = [n \in DOMAIN toolMap \cup Names(t) |-> IF n \in Names(t) THEN t ELSE toolMap[n]]
        /\ logicalTools' = Append(logicalTools, t)
    /\ todo' = Tail(todo)
    /\ UNCHANGED <<prefix, secret, pushed, up, now, states, call, restarts>>

(* The scope matcher, and the registry's own when none is bound: as RequestAuth's. *)
Admits(granted, need) ==
    <<"*", "*">> \in granted \/ \E g \in granted : g[1] = need[1] /\ g[2] \in {"*", need[2]}
ListTools(granted) ==
    {n \in DOMAIN toolMap : \A s \in toolMap[n].scopes : Admits(granted, s)}

ReadOnly(t) == t.scopes # {} /\ \A s \in t.scopes : s[2] \in {"read", "list", "get"}

CatalogSnapshot ==
    [i \in DOMAIN logicalTools |->
        [name |-> Prefixed(logicalTools[i]), scopes |-> logicalTools[i].scopes,
         readOnly |-> ReadOnly(logicalTools[i])]]

(* Bootstrap: a key that is too short stops the process; the push is tried once and may fail. *)
Listen ==
    /\ ~up /\ todo = << >> /\ secret # "short" /\ up' = TRUE
    /\ pushed' \in {pushed, {CatalogSnapshot}}
    /\ UNCHANGED <<prefix, secret, todo, toolMap, logicalTools, now, states, call, restarts>>

(* The process ends, and comes back with its environment changed or not. *)
Restart ==
    /\ restarts < MaxRestarts /\ restarts' = restarts + 1
    /\ Start
    /\ call' = [c \in Calls |-> NoCall]
    /\ UNCHANGED <<pushed, now, states>>

--------------------------------------------------------------------------------
(* The codec (external): integrity, key, method and principal, and time.  `runs` is history:
   the handler runs that led to the state. *)

Seals(c, round, runs) ==
    [by |-> c.caller, key |-> secret, round |-> round, until |-> now + Ttl, runs |-> runs]
Genuine(s, caller) == s.by = caller /\ s.key = secret /\ now < s.until

RoundLeft(s) == s.round < MaxRounds

(* handlePost: the server of this request has the tools of this key's scopes.  A state that
   does not verify, and one sent without a key configured, end the request.  `runs` is how often
   handlers ran for what is resumed. *)
Post(c, caller, name, s) ==
    /\ up /\ call[c] = NoCall
    /\ name \in ListTools(Scopes[caller])
    /\ s # {} => secret # "none" /\ \A x \in s : Genuine(x, caller) /\ RoundLeft(x)
    /\ call' = [call EXCEPT ![c] =
                [at |-> "handler", caller |-> caller, tool |-> toolMap[name], resumed |-> s]]
    /\ UNCHANGED <<prefix, secret, todo, toolMap, logicalTools, pushed, up, now, states, restarts>>

(* A state that is refused changes nothing. *)

Done(c) == call' = [call EXCEPT ![c] = NoCall]

(* The handler returns, or throws, which becomes an error result. *)
Finish(c) ==
    /\ call[c].at = "handler" /\ Done(c)
    /\ UNCHANGED <<prefix, secret, todo, toolMap, logicalTools, pushed, up, now, states, restarts>>

(* requestInput: mint or mintNextRound, which throws at the limit; without a key it throws. *)
Runs(q) == IF q.resumed = {} THEN 1 ELSE (CHOOSE s \in q.resumed : TRUE).runs + 1
NextRound(q) == IF q.resumed = {} THEN 0 ELSE (CHOOSE s \in q.resumed : TRUE).round + 1
RequestInput(c) ==
    /\ call[c].at = "handler" /\ call[c].tool.again
    /\ secret # "none" /\ NextRound(call[c]) < MaxRounds
    /\ Cardinality(states) < MaxStates
    /\ states' = states \cup {Seals(call[c], NextRound(call[c]), Runs(call[c]))}
    /\ Done(c)
    /\ UNCHANGED <<prefix, secret, todo, toolMap, logicalTools, pushed, up, now, restarts>>

Tick ==
    /\ now < MaxNow /\ now' = now + 1
    /\ UNCHANGED <<prefix, secret, todo, toolMap, logicalTools, pushed, up, states, call, restarts>>

Next ==
    \/ RegisterTool \/ Listen \/ Restart \/ Tick
    \/ \E c \in Calls :
        \/ Finish(c) \/ RequestInput(c)
        \/ \E k \in Callers, n \in DOMAIN toolMap, s \in {{}} \cup {{x} : x \in states} : Post(c, k, n, s)

Spec == Init /\ [][Next]_vars

--------------------------------------------------------------------------------
(* Properties *)

(* request-state.ts:26-28, 55-61: however states are kept, repeated, or sent to another tool
   or by another key, no chain of handler runs is longer than the rounds allow. *)
RoundsBounded ==
    /\ \A s \in states : s.runs <= MaxRounds
    /\ \A c \in Calls : call[c].at = "handler" =>
        Runs(call[c]) <= MaxRounds + 1 /\ \A s \in call[c].resumed : s.by = call[c].caller

(* mcp-tool.registry.ts:55-57, 96-109: what the catalogue of this process announces can be
   called under that name, and is that tool unless its name was declared again. *)
DeclaredAgain(n) == Cardinality({i \in DOMAIN logicalTools : logicalTools[i].name = n[2]}) > 1
CatalogTrue ==
    up => \A i \in DOMAIN CatalogSnapshot :
        LET e == CatalogSnapshot[i] IN
        /\ e.name \in DOMAIN toolMap
        /\ toolMap[e.name].scopes = e.scopes \/ DeclaredAgain(e.name)

McpRightly == RoundsBounded /\ CatalogTrue
================================================================================
