--------------------------- MODULE PluginManifest ---------------------------
(***************************************************************************)
(* Loading a capability package's appspine.plugin.json: the loader of      *)
(* @appspine/plugin-api (structure, semantics, engine ranges, digest pin), *)
(* definePlugin, which checks the runtime half against the same manifest,  *)
(* and the frozen PL0-05 fixture checker whose codes the loader promised   *)
(* to keep.  A manifest is the set of facts the rules look at: what the    *)
(* schema finds wrong with it ("broken", keyword and place) and the        *)
(* cross-field facts.  A SemVer range is the set of versions it admits.    *)
(***************************************************************************)
EXTENDS Naturals, FiniteSets

CONSTANTS
    Manifests,      \* the manifests authors write
    Definitions,    \* the runtime descriptors they export: subsets of Parts
    Hosts,          \* the hosts that load them
    Versions,       \* package versions
    MaxEdits        \* bound: edits of the package

VARIABLES
    pkg,            \* the package directory: its files
    pin,            \* the digest the App recorded, NoPin before the first load
    pinned,         \* history: the package that digest was taken from
    result,         \* the last answer of loadPluginManifest
    defined,        \* the last answer of definePlugin
    edits
vars == <<pkg, pin, pinned, result, defined, edits>>

Parts == {"backend", "config"}
NoPin == [manifest |-> {}, version |-> 0]
Host_ == {"STRATEGIES", "PRINCIPAL"}     \* the host provides these itself
Registered == Host_ \cup {"INTERACTIVE", "PRISMA", "DOMAIN_EVENTS"}
BadRange == {}                           \* what is no SemVer range admits no version

Error(code) == [code |-> code, severity |-> "error"]
Warning(code) == [code |-> code, severity |-> "warning"]
When(condition, d) == IF condition THEN {d} ELSE {}

\* The code a violated schema keyword is reported under, by the loader and by the
\* frozen checker, as far as an index of fixtures expects it.
LoaderCode(b) ==
    CASE b.keyword = "required" -> "required-field-missing"
      [] b.keyword = "additionalProperties" -> "unknown-field"
      [] b.keyword = "minProperties" -> IF b.at = "facets" THEN "empty-facets"
                                        ELSE "too-few-properties"
      [] b.keyword = "pattern" /\ b.at = "engine" -> "invalid-engine-range"
      [] OTHER -> "another loader code"
FrozenCode(b) ==
    CASE b.keyword = "required" -> "required-field-missing"
      [] b.keyword = "additionalProperties" -> "unknown-field"
      [] b.keyword = "minProperties" -> "empty-facets"
      [] b.keyword = "pattern" /\ b.at = "engine" -> "invalid-engine-range"
      [] OTHER -> "another frozen code"

Structural(m) == {Error(LoaderCode(b)) : b \in m.broken}

\* isStringArray: a list with an item that is no string is read as empty.
NoString(list) == [keyword |-> "type", at |-> list]
Strings(m, list) == IF NoString(list) \in m.broken THEN {} ELSE m[list]

\* The rules the frozen checker has, as the loader applies them, and the ones the
\* loader added to them.
KeptRules(m) ==
    When("INTERACTIVE" \in Strings(m, "provides") /\ Strings(m, "conflicts") = {},
         Error("interactive-provider-without-conflicts"))
    \cup When("self" \in Strings(m, "conflicts"), Error("self-conflict"))
    \cup When(m.replaces # {} /\ ~m.appLocal, Error("replacement-not-app-local"))
    \cup When("unmarked secret" \in m.environment, Error("secret-field-not-marked-secret"))
AddedRules(m, strict) ==
    LET provides == Strings(m, "provides")
        requires == Strings(m, "requires")
    IN When("self" \in m.replaces, Error("replaces-self"))
       \cup When(provides \cap Host_ # {}, Error("host-owned-capability-provided"))
       \cup When(provides \cap requires # {}, Error("requires-own-capability"))
       \cup When(~(provides \cup requires \subseteq Registered),
                 IF strict THEN Error("unregistered-capability")
                 ELSE Warning("unregistered-capability"))
       \cup When(m.workers = "foreign", Error("worker-namespace-mismatch"))
       \cup When(m.health = "foreign", Error("health-indicator-namespace-mismatch"))
       \cup When(m.metrics = "foreign", Error("metrics-prefix-mismatch"))
       \cup When(m.multiple /\ ~m.config, Warning("multi-instance-without-config"))
       \cup When("PRISMA" \in provides, Error("prisma-capability-provided-by-plugin"))
Semantic(m, strict) == KeptRules(m) \cup AddedRules(m, strict)

\* validateSemantics of the frozen checker: it takes the lists as they are.
FrozenRules(m) ==
    When("INTERACTIVE" \in m.provides /\ m.conflicts = {} /\ NoString("conflicts") \notin m.broken,
         "interactive-provider-without-conflicts")
    \cup When("self" \in m.conflicts, "self-conflict")
    \cup When(m.replaces # {} /\ ~m.appLocal, "replacement-not-app-local")
    \cup When("unmarked secret" \in m.environment, "secret-field-not-marked-secret")
FrozenCodes(m) == {FrozenCode(b) : b \in m.broken} \cup FrozenRules(m)

\* `worker.startsWith` and `healthIndicatorId.startsWith` on what is no string.
SemanticThrows(m) == m.workers = "no string" \/ m.health = "no string"

\* One declared range against what the host declares for it: a version, a
\* range, or nothing (frameworks only).
Against(range, host) ==
    IF range = BadRange THEN {Error("invalid-engine-range")}
    ELSE CASE host.kind = "none" -> {Warning("framework-not-declared-by-host")}
           [] host.kind = "version" ->
                 When(~(host.of \subseteq range), Error("engine-range-unsatisfied"))
           [] host.kind = "bad" -> {Error("invalid-host-engine-range")}
           [] host.kind = "range" ->
                 When(range \cap host.of = {}, Error("engine-range-no-intersection"))
Engine(m, host) == UNION {Against(m.engine[e], host[e]) : e \in DOMAIN m.engine}

\* Mutant of Digest: the manifest's own digest, which a release does not move.
ManifestDigest(p) == [manifest |-> {p.manifest}, version |-> 0]
\* The digest covers the canonical manifest, the package's name and version:
\* the name is the package's own and does not vary here.
Digest(p) == [manifest |-> {p.manifest}, version |-> p.version]

Errors(ds) == {d \in ds : d.severity = "error"}
Answer(kind, ds) == [kind |-> kind, diagnostics |-> ds, expected |-> NoPin]
Refused(ds) == Answer("refused", ds)

\* Mutant of Complaints: the rules run only on a structurally valid manifest.
StructureFirst(m, strict) ==
    IF m.broken # {} THEN Structural(m) ELSE Semantic(m, strict)
\* The rules run on a structurally broken manifest too.
Complaints(m, strict) == Structural(m) \cup Semantic(m, strict)

\* parsePluginManifest(candidate, options)
Parse(p, host, strict, expected) ==
    LET m == p.manifest
        found == Complaints(m, strict) \cup Engine(m, host)
                 \cup When(expected # NoPin /\ expected # Digest(p),
                           Error("manifest-digest-mismatch"))
    IN IF SemanticThrows(m) THEN Answer("threw", {})
       ELSE IF m.broken # {} THEN Refused(Complaints(m, strict))
       ELSE IF Errors(found) # {} THEN Refused(found)
       ELSE Answer("ok", found)

\* loadPluginManifest(packageDir, options)
Loaded(p, host, strict, expected) ==
    CASE p.packageJson = "missing" -> Refused({Error("manifest-not-readable")})
      [] p.packageJson = "not JSON" -> Refused({Error("manifest-not-json")})
      [] p.packageJson = "no version" -> Refused({Error("package-metadata-missing")})
      [] OTHER -> CASE p.file = "missing" -> Refused({Error("manifest-not-readable")})
                    [] p.file = "not JSON" -> Refused({Error("manifest-not-json")})
                    [] OTHER -> Parse(p, host, strict, expected)

\* definePlugin(definition): the parts the manifest declares and the parts the
\* descriptor ships must be the same ones.
DefinitionFaults(m, d) ==
    LET declared == (IF m.backend THEN {"backend"} ELSE {})
                    \cup (IF m.config THEN {"config"} ELSE {})
    IN IF [keyword |-> "const", at |-> "schemaVersion"] \in m.broken
       THEN {"unsupported-manifest-schema-version"}
       ELSE {<<"missing", part>> : part \in declared \ d}
            \cup {<<"undeclared", part>> : part \in d \ declared}

-----------------------------------------------------------------------------
Init ==
    /\ pkg \in [manifest : Manifests, version : Versions,
                packageJson : {"good"}, file : {"good"}]
    /\ pin = NoPin
    /\ pinned = pkg
    /\ result = Answer("none", {})
    /\ defined = {}
    /\ edits = 0

\* A new release, a hand edit of the manifest, or a damaged file.
Edit ==
    /\ edits < MaxEdits
    /\ edits' = edits + 1
    /\ \/ \E m \in Manifests : pkg' = [pkg EXCEPT !.manifest = m]
       \/ \E v \in Versions : pkg' = [pkg EXCEPT !.version = v]
       \/ \E damage \in {"missing", "not JSON", "no version"} :
             pkg' = [pkg EXCEPT !.packageJson = damage]
       \/ \E damage \in {"missing", "not JSON"} : pkg' = [pkg EXCEPT !.file = damage]
    /\ result' = Answer("none", {})
    /\ defined' = {}
    /\ UNCHANGED <<pin, pinned>>

\* The App loads the package, with its recorded digest or without; the first
\* accepted load is the one it records.
Load(host, strict, expected) ==
    LET answer == Loaded(pkg, host, strict, expected)
        records == answer.kind = "ok" /\ pin = NoPin
    IN /\ result' = [answer EXCEPT !.expected = expected]
       /\ pin' = IF records THEN Digest(pkg) ELSE pin
       /\ pinned' = IF records THEN pkg ELSE pinned
       /\ defined' = {}
       /\ UNCHANGED <<pkg, edits>>

\* The package's ./plugin entry is imported.
Define(d) ==
    /\ defined' = DefinitionFaults(pkg.manifest, d)
    /\ result' = Answer("none", {})
    /\ UNCHANGED <<pkg, pin, pinned, edits>>

Next ==
    \/ Edit
    \/ \E host \in Hosts, strict \in BOOLEAN, expected \in {pin, NoPin} :
          Load(host, strict, expected)
    \/ \E d \in Definitions : Define(d)

Spec == Init /\ [][Next]_vars

-----------------------------------------------------------------------------
\* The codes the frozen fixture index expects of its negative fixtures.
IndexCodes ==
    {"required-field-missing", "unknown-field", "invalid-engine-range", "empty-facets",
     "interactive-provider-without-conflicts", "secret-field-not-marked-secret",
     "self-conflict", "replacement-not-app-local"}
Readable == pkg.packageJson = "good" /\ pkg.file = "good"

\* The rules whose list the loader does not read, for an item that is no string.
Unread(m) ==
    When(NoString("provides") \in m.broken, "interactive-provider-without-conflicts")
    \cup When(NoString("conflicts") \in m.broken, "self-conflict")

\* The loader never accepts what the frozen checker rejects, and it reports
\* every indexed code the frozen checker reports, whatever else is wrong with
\* the manifest: a schema violation hides no business-rule violation but one of
\* a list that has an item which is no string.
FrozenCodesKept ==
    (Readable /\ result.kind \in {"ok", "refused"}) =>
        /\ (FrozenCodes(pkg.manifest) \cap IndexCodes) \ Unread(pkg.manifest)
              \subseteq {d.code : d \in result.diagnostics}
        /\ result.kind = "ok" => FrozenCodes(pkg.manifest) = {}

\* A load with the recorded digest succeeds only for the very manifest and
\* package version the digest was recorded from: neither an edit without a
\* release nor a release without an edit passes.
PinDetectsChange ==
    (result.kind = "ok" /\ result.expected # NoPin) =>
        pkg.manifest = pinned.manifest /\ pkg.version = pinned.version

\* loadPluginManifest answers with diagnostics, it does not throw: the semantic
\* rules are said to read defensively because they also see manifests that
\* already failed structural validation.
LoadAnswers == result.kind # "threw"
=============================================================================
