--------------------------- MODULE SchemaEvolution ---------------------------
(***************************************************************************)
(* The payload schema of an integration contract across its releases:      *)
(* validateJsonSchema and checkSchemaCompatibility of                      *)
(* @appspine/integration-contracts and the fallback comparison of          *)
(* contract-cli, for an object schema over leaf schemas.  A leaf is what   *)
(* it admits: a type, an enumeration, a pattern (the set of values that    *)
(* match), a lower and an upper bound; empty where the keyword is absent.   *)
(* minLength, minimum and minItems are compared alike and stand as "low",  *)
(* their opposites as "high".                                              *)
(***************************************************************************)
EXTENDS Integers, FiniteSets

CONSTANTS
    Keys,           \* property names
    Values,         \* numbers and strings a property may hold: [type, size]
    Schemas,        \* the object schemas authors write: [properties, required, closed]
    MaxReleases,    \* bound: releases of the contract
    MaxDocuments    \* bound: documents stored

VARIABLES
    schema,         \* the released schema
    profile,        \* the compatibility profile of the contract
    stored,         \* documents written under the released schema of their time
    releases,
    passedOver      \* history: the keys a release tightened and no finding named
vars == <<schema, profile, stored, releases, passedOver>>

Profiles == {"strict", "tolerant-reader", "provider-compatible"}
Documents == UNION {[ks -> Values] : ks \in SUBSET Keys}

\* An absent keyword; an enumeration or a pattern admits a set of values.
Absent == {}
NoBound == -1

When(condition, x) == IF condition THEN {x} ELSE {}

-----------------------------------------------------------------------------
\* validate, validateString, validateNumber on one property's value: the enum is
\* looked at first, and a value of another type gets no further.
LeafIssues(v, leaf) ==
    When(leaf.enum # Absent /\ v \notin leaf.enum, "enum")
    \cup IF leaf.type # Absent /\ v.type \notin leaf.type THEN {"type"}
         ELSE When(leaf.pattern # Absent /\ v.type = "string" /\ v \notin leaf.pattern, "pattern")
              \cup When(leaf.low # NoBound /\ v.size < leaf.low, "low")
              \cup When(leaf.high # NoBound /\ v.size > leaf.high, "high")

Declared(s) == DOMAIN s.properties

\* validateObject: required keys, declared keys by their own schema, and keys
\* no declaration covers, which a tolerant reader lets through.
Issues(doc, s, mode) ==
    {<<k, "required">> : k \in s.required \ DOMAIN doc}
    \cup (UNION {{<<k, i>> : i \in LeafIssues(doc[k], s.properties[k])}
                    : k \in DOMAIN doc \cap Declared(s)})
    \cup (IF s.closed /\ mode # "tolerant-reader"
          THEN {<<k, "additionalProperties">> : k \in DOMAIN doc \ Declared(s)} ELSE {})

-----------------------------------------------------------------------------
Finding(at, rule, breaking) == [at |-> at, rule |-> rule, breaking |-> breaking]

\* compareUpperBound: a floor that appears or rises; compareLowerBound: a
\* ceiling that appears or falls.
FloorRaised(p, n) == n # NoBound /\ (p = NoBound \/ n > p)
CeilingLowered(p, n) == n # NoBound /\ (p = NoBound \/ n < p)

\* Mutant of EnumFindings: a removed value is noticed only when none was added.
ShrunkOnly(k, p, n, prof) ==
    When(n # Absent /\ p # n /\ n \subseteq p, Finding(k, "enum value removed", TRUE))
EnumFindings(k, p, n, prof) ==
    When(p # Absent /\ n # Absent /\ ~(p \subseteq n), Finding(k, "enum value removed", TRUE))
    \cup When(p # Absent /\ n # Absent /\ ~(n \subseteq p),
              Finding(k, "enum value added", prof = "strict"))

\* compareSchema on a leaf.
LeafFindings(k, p, n, prof) ==
    IF p.type # Absent /\ n.type # Absent /\ p.type # n.type
    THEN {Finding(k, "type changed", TRUE)}
    ELSE EnumFindings(k, p.enum, n.enum, prof)
         \cup When(p.pattern # n.pattern /\ p.pattern # Absent /\ n.pattern # Absent,
                   Finding(k, "pattern changed", TRUE))
         \cup When(FloorRaised(p.low, n.low), Finding(k, "floor raised", TRUE))
         \cup When(CeilingLowered(p.high, n.high), Finding(k, "ceiling lowered", TRUE))

\* compareSchema on the object: properties removed, kept and added,
\* requiredness, additional properties.
ObjectFindings(p, n, prof) ==
    {Finding(k, "property removed", prof # "tolerant-reader" \/ k \in p.required)
        : k \in Declared(p) \ Declared(n)}
    \cup {Finding(k, "required property added", TRUE)
             : k \in (Declared(n) \ Declared(p)) \cap n.required}
    \cup (IF prof = "tolerant-reader" THEN {}
          ELSE {Finding(k, "optional property added", prof = "strict")
                   : k \in (Declared(n) \ Declared(p)) \ n.required})
    \cup {Finding(k, "requiredness relaxed", FALSE) : k \in p.required \ n.required}
    \cup {Finding(k, "requiredness tightened", TRUE)
             : k \in (n.required \ p.required) \cap Declared(p)}
    \cup When(p.closed /\ ~n.closed, Finding("$", "additional properties relaxed", FALSE))
    \cup When(~p.closed /\ n.closed,
              Finding("$", "additional properties restricted", prof # "tolerant-reader"))

\* checkSchemaCompatibility(previous, next, profile)
Findings(p, n, prof) ==
    ObjectFindings(p, n, prof)
    \cup UNION {LeafFindings(k, p.properties[k], n.properties[k], prof)
                   : k \in Declared(p) \cap Declared(n)}

\* compareSchemaPair of contract-cli when the package is not built: the object
\* itself, never its properties' schemas.
FallbackFindings(p, n, prof) ==
    {Finding(k, "required field relaxed", FALSE) : k \in p.required \ n.required}
    \cup {Finding(k, "new required field", TRUE) : k \in n.required \ p.required}
    \cup {Finding(k, "property removed", prof # "tolerant-reader" \/ k \in p.required)
             : k \in Declared(p) \ Declared(n)}
    \cup {Finding(k, "property added", k \in n.required)
             : k \in {j \in Declared(n) \ Declared(p)
                         : prof # "tolerant-reader" \/ j \in n.required}}
    \cup When(p.closed /\ ~n.closed, Finding("$", "additional properties relaxed", FALSE))
    \cup When(~p.closed /\ n.closed,
              Finding("$", "additional properties restricted", prof # "tolerant-reader"))

\* compareContracts
Compatible(findings) == \A f \in findings : ~f.breaking

\* What draws no finding that breaks although it can refuse a stored document: a
\* type, an enumeration or a pattern where there was none, a key required that
\* neither schema declares, and a declaration of a key that documents may have
\* held undeclared.
Overlooked(p, n, prof) ==
    {k \in Declared(p) \cap Declared(n) : \E w \in {"type", "enum", "pattern"} :
        p.properties[k][w] = Absent /\ n.properties[k][w] # Absent}
    \cup (n.required \ (p.required \cup Declared(p) \cup Declared(n)))
    \cup (IF p.closed /\ prof # "tolerant-reader" THEN {} ELSE Declared(n) \ Declared(p))

-----------------------------------------------------------------------------
Init ==
    /\ schema \in Schemas
    /\ profile \in Profiles
    /\ stored = {}
    /\ releases = 0
    /\ passedOver = {}

\* A provider writes a document its schema accepts; an open schema accepts keys it
\* does not declare.
Write(doc) ==
    /\ Cardinality(stored) < MaxDocuments
    /\ Issues(doc, schema, "strict") = {}
    /\ stored' = stored \cup {doc}
    /\ UNCHANGED <<schema, profile, releases, passedOver>>

\* The next schema is released under the same major version.
Release(n) ==
    /\ releases < MaxReleases
    /\ Compatible(Findings(schema, n, profile))
    /\ schema' = n
    /\ releases' = releases + 1
    /\ passedOver' = passedOver \cup Overlooked(schema, n, profile)
    /\ UNCHANGED <<profile, stored>>

Next ==
    \/ \E doc \in Documents : Write(doc)
    \/ \E n \in Schemas : Release(n)

Spec == Init /\ [][Next]_vars

-----------------------------------------------------------------------------
ReaderMode == IF profile = "tolerant-reader" THEN profile ELSE "strict"

\* Along a chain of releases the checker calls compatible, under any profile, a
\* consumer of the last one has an issue with a document written under any of
\* them only at keys some release passed over.
StoredStillRead ==
    \A doc \in stored : \A issue \in Issues(doc, schema, ReaderMode) : issue[1] \in passedOver

\* The fallback of contract-cli reaches the verdict of the shared checker.
FallbackAgrees ==
    \A n \in Schemas : Compatible(Findings(schema, n, profile))
                          <=> Compatible(FallbackFindings(schema, n, profile))
=============================================================================
