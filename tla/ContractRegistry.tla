--------------------------- MODULE ContractRegistry ---------------------------
(***************************************************************************)
(* The contract registry of the workspace and scripts/contract-cli.mjs:    *)
(* one capability in several versions, one binding that pins a version of  *)
(* it by digest, the lock of approved digests, the index, and the runtime  *)
(* artifacts generated into an app.  init, index --write and               *)
(* generate-runtime --apply write; validate, index --check and             *)
(* generate-runtime --check are what CI asks; everything else in a         *)
(* contract is edited by hand.  A digest is the content it covers, the     *)
(* frontmatter included.                                                   *)
(***************************************************************************)
EXTENDS Integers, FiniteSets, FiniteSetsExt

CONSTANTS
    Versions,       \* versions of the capability, as numbers
    Payloads,       \* payload schemas, the skeleton's "empty" among them
    Apps,           \* apps named as parties
    MaxEdits        \* bound: edits by hand

VARIABLES
    capability,     \* capability[v]: its directory, or Missing
    binding,        \* the binding's frontmatter
    lock,           \* approved-digests.json: whether it exists, and the digest per version
    index,          \* index.json and index.md
    runtime,        \* backend/src/generated/integration-contracts of the app
    approved,       \* history: the content each lock entry was made from
    edits
vars == <<capability, binding, lock, index, runtime, approved, edits>>

Missing == [missing |-> TRUE]
There == {v \in Versions : capability[v] # Missing}
Digest(c) == {c}
NoDigest == {}

Skeleton == [status |-> "draft", interaction |-> "command", transport |-> "http",
             owner |-> "provider-app", others |-> {"caller-app"}, payload |-> "empty",
             faulty |-> FALSE]

-----------------------------------------------------------------------------
\* validateDiscovered, the part about one capability: its parties and its
\* transport fit its interaction; "faulty" is any violated rule of
\* validateContractFrontmatter, of the headings, of the schema documents
\* (validateJsonSchemaDocument) or of the OpenAPI ones.
CapabilityFaults(c) ==
    (IF c.faulty THEN {"document"} ELSE {})
    \cup (IF c.owner = "" THEN {"provider or producer"} ELSE {})
    \cup (IF c.others = {} THEN {"callers or consumers"} ELSE {})
    \cup (IF c.transport \notin (IF c.interaction \in {"command", "query"} THEN {"http"}
                                 ELSE {"webhook", "message-broker"})
          THEN {"transport"} ELSE {})

\* Mutant of LockFaults: a digest that is there is enough.
LockPresent(v) ==
    IF lock.exists /\ capability[v].status = "approved" /\ lock.of[v] = NoDigest
    THEN {"lock is missing"} ELSE {}
\* An approved version must be locked at its digest, once there is a lock file.
LockFaults(v) ==
    IF lock.exists /\ capability[v].status = "approved" /\ lock.of[v] # Digest(capability[v])
    THEN {"lock"} ELSE {}

\* A binding: its capability exists, at the pinned digest, and its two apps are
\* parties of the capability in the right roles.
BindingFaults ==
    IF binding.version \notin There THEN {"capability_ref not found"}
    ELSE LET c == capability[binding.version]
             toOwner == c.interaction \in {"command", "query"}
         IN (IF binding.digest # Digest(c) THEN {"digest"} ELSE {})
            \cup (IF binding.interaction # c.interaction THEN {"interaction"} ELSE {})
            \cup (IF (IF toOwner THEN binding.destination ELSE binding.source) # c.owner
                  THEN {"owner"} ELSE {})
            \cup (IF (IF toOwner THEN binding.source ELSE binding.destination) \notin c.others
                  THEN {"party"} ELSE {})
            \cup (IF binding.source = binding.destination THEN {"same app"} ELSE {})

Valid ==
    /\ \A v \in There : CapabilityFaults(capability[v]) = {} /\ LockFaults(v) = {}
    /\ BindingFaults = {}

\* indexContracts: what discoverContracts finds, with the latest approved
\* version and the supported ones.
Approved == {v \in There : capability[v].status = "approved"}
IndexNow ==
    [contracts |-> {[version |-> v, status |-> capability[v].status,
                     digest |-> Digest(capability[v])] : v \in There},
     binding |-> Digest(binding),
     latest |-> IF Approved = {} THEN 0 ELSE Max(Approved),
     supported |-> {v \in There : capability[v].status \in {"approved", "deprecated"}}]
IndexFresh == Valid /\ index = IndexNow

\* Mutant of RuntimeNow: the schema of the newest version, whatever is pinned.
RuntimeNewest ==
    [digest |-> Digest(binding), ref |-> <<binding.version, binding.digest>>,
     payload |-> IF There = {} THEN "empty" ELSE capability[Max(There)].payload]
\* generateRuntime for the binding: its own manifest, and the validator of the
\* capability version it references; the binding itself has no schema to fall
\* back on when that version is gone.
RuntimeNow ==
    [digest |-> Digest(binding), ref |-> <<binding.version, binding.digest>>,
     payload |-> IF binding.version \in There THEN capability[binding.version].payload
                 ELSE "empty"]
RuntimeFresh == runtime = RuntimeNow

-----------------------------------------------------------------------------
Init ==
    /\ capability = [v \in Versions |-> IF v = 1 THEN Skeleton ELSE Missing]
    /\ binding = [version |-> 1, digest |-> NoDigest, interaction |-> "command",
                  source |-> "caller-app", destination |-> "provider-app"]
    /\ lock \in [exists : BOOLEAN, of : {[v \in Versions |-> NoDigest]}]
    /\ index = Missing
    /\ runtime = Missing
    /\ approved = [v \in Versions |-> Missing]
    /\ edits = 0

\* contract-cli init [--force]
MayInit(v, force) ==
    capability[v] # Missing =>
        capability[v].status \notin {"approved", "deprecated"} /\ force
InitContract(v, force) ==
    /\ MayInit(v, force)
    /\ capability' = [capability EXCEPT ![v] = Skeleton]
    /\ UNCHANGED <<binding, lock, index, runtime, approved, edits>>

\* contract-cli index --write
WriteIndex ==
    /\ Valid
    /\ index' = IndexNow
    /\ UNCHANGED <<capability, binding, lock, runtime, approved, edits>>

\* contract-cli generate-runtime --apply; nothing is validated first.
GenerateRuntime ==
    /\ runtime' = RuntimeNow
    /\ UNCHANGED <<capability, binding, lock, index, approved, edits>>

\* By hand: a capability's text, its approval with its lock entry or without,
\* the binding's reference.
EditCapability(v) ==
    /\ capability[v] # Missing
    /\ \/ \E p \in Payloads : capability' = [capability EXCEPT ![v].payload = p]
       \/ \E s \in {"draft", "approved", "deprecated"} :
             capability' = [capability EXCEPT ![v].status = s]
       \/ \E t \in {"http", "webhook"}, i \in {"command", "event"} :
             capability' = [capability EXCEPT ![v].transport = t, ![v].interaction = i]
       \/ capability' = [capability EXCEPT ![v].faulty = ~@]
       \/ \E a \in Apps \cup {""} : capability' = [capability EXCEPT ![v].owner = a]
    /\ UNCHANGED <<binding, lock, approved>>
Lock(v) ==
    /\ lock.exists
    /\ v \in Approved
    /\ lock' = [lock EXCEPT !.of[v] = Digest(capability[v])]
    /\ approved' = [approved EXCEPT ![v] = capability[v]]
    /\ UNCHANGED <<capability, binding>>
Rebind(v) ==
    /\ capability[v] # Missing
    /\ binding' = [binding EXCEPT !.version = v, !.digest = Digest(capability[v]),
                                  !.interaction = capability[v].interaction]
    /\ UNCHANGED <<capability, lock, approved>>
Edit ==
    /\ edits < MaxEdits
    /\ edits' = edits + 1
    /\ \E v \in Versions : EditCapability(v) \/ Lock(v) \/ Rebind(v)
    /\ UNCHANGED <<index, runtime>>

Next ==
    \/ \E v \in Versions, force \in BOOLEAN : InitContract(v, force)
    \/ WriteIndex
    \/ GenerateRuntime
    \/ Edit

Spec == Init /\ [][Next]_vars

-----------------------------------------------------------------------------
\* When validate, index --check and generate-runtime --check all pass, the
\* app's generated validator implements the schema of the very capability
\* content its binding pins, and the index says of that version what its
\* directory says.
GreenMeansPinned ==
    (IndexFresh /\ RuntimeFresh) =>
        \E c \in index.contracts :
            /\ c.version = binding.version
            /\ runtime.ref = <<c.version, c.digest>>
            /\ \A content \in c.digest : runtime.payload = content.payload

\* While validation passes, a version that is approved and was locked has the
\* content it was locked with: no edit, and no init --force, slips under the
\* lock.
LockedContentStays ==
    Valid => \A v \in Approved :
                lock.exists => approved[v] = capability[v]
=============================================================================
