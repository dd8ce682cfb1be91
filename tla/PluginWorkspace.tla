---------------------------- MODULE PluginWorkspace ----------------------------
(***************************************************************************)
(* The commands of @appspine/plugin-cli on the files of one App: the       *)
(* inventory, package.json, the installed packages and presets, the        *)
(* generated artefacts and the plugin lockfile.  A command reads at once   *)
(* and writes file by file; it may die between two writes, and the package *)
(* manager and people change the same files before and after each write.   *)
(*                                                                         *)
(* Presets and instance ids are numbers, compared as the code compares     *)
(* strings.  Diagnostics are kept as their codes, those of severity        *)
(* "error" only.  Required environment keys are taken to be set, and the   *)
(* manifests to have no dependency cycle (PluginResolver has them).        *)
(***************************************************************************)
EXTENDS Naturals, Sequences

CONSTANTS
    Packages, Presets, Instances, Versions,
    Manifest,     \* of a version of a package, see ManifestOf
    PresetDoc,    \* of a version of a preset: the entries it contributes
    Ambient,      \* AMBIENT_CAPABILITIES
    Secrets,      \* configRefs that look like a credential
    Start,        \* the inventory at the start
    Broken,       \* a file that does not parse
    None,
    MaxCommands, MaxEdits

VARIABLES
    inventory,    \* appspine.plugins.json: [plugins, presets], or Broken
    dependencies, \* package.json
    installed,    \* node_modules: package -> version, 0 when absent
    patched,      \* packages whose manifest was changed in place
    presetVersion,
    artifacts,    \* path -> contents, or None
    made,         \* history: the inputs an artefact was generated from
    lock,         \* appspine.plugin-lock.json, or None
    writes,       \* what the running command has still to write
    answer,       \* the last command and its exit code, until something else happens
    commands, edits

vars == <<inventory, dependencies, installed, patched, presetVersion, artifacts, made,
          lock, writes, answer, commands, edits>>

NoConfig == ""
Paths == {"catalog", "composition", "schema"}
Key(e) == <<e.plugin, e.instance>>
Keys(S) == {Key(e) : e \in S}

--------------------------------------------------------------------------------
(* What the files say *)

ManifestOf(p) == Manifest[p][installed[p]]
Contents(p) == [version |-> installed[p], patched |-> p \in patched]
Missing(S) == {e.plugin : e \in {f \in S : installed[f.plugin] = 0}}

(* parseInventory: one entry per instance. *)
WellFormed(file) ==
    file # Broken /\ \A e, f \in file.plugins : Key(e) = Key(f) => e = f

Found(file) == {q \in file.presets : presetVersion[q] # 0}
Offers(file) ==
    UNION {{[preset |-> q, entry |-> e] : e \in PresetDoc[q][presetVersion[q]]} : q \in Found(file)}

(* Of two presets that name one instance the first by name contributes it. *)
Contributed(file) ==
    {c \in Offers(file) :
        \A d \in Offers(file) : Key(d.entry) = Key(c.entry) => c.preset <= d.preset}
Unnamed(file) == {c \in Contributed(file) : Key(c.entry) \notin Keys(file.plugins)}
Expanded(file) == file.plugins \cup {c.entry : c \in Unnamed(file)}
PresetSummary(file) == {[package |-> q, version |-> presetVersion[q]] : q \in Found(file)}
Provenance(file) == {[key |-> Key(c.entry), preset |-> c.preset] : c \in Unnamed(file)}

PresetFaults(file) ==
    (IF Found(file) # file.presets THEN {"preset-not-found"} ELSE {})
    \cup (IF \E c, d \in Offers(file) : Key(c.entry) = Key(d.entry) /\ c.preset # d.preset
          THEN {"preset-overlap"} ELSE {})

(* checkConfigBoundary *)
BoundaryHolds(S) ==
    \A e \in {f \in S : f.configRef # NoConfig} :
        /\ e.configRef \notin Secrets
        /\ installed[e.plugin] # 0 => ManifestOf(e.plugin).configRef = e.configRef

(* The codes of the resolver; Manifest and PresetDoc decide which can arise. *)
On(S) == {e \in S : e.enabled}
Gives(S) == UNION {ManifestOf(e.plugin).provides : e \in S}
Resolves(S) ==
    /\ \A e \in On(S) : e.required \/ ManifestOf(e.plugin).policy
    /\ \A e, f \in On(S) : (e.plugin = f.plugin /\ e # f) => ManifestOf(e.plugin).multiple
    /\ \A e, f \in On(S) : e.plugin # f.plugin =>
          /\ ManifestOf(e.plugin).provides \cap ManifestOf(f.plugin).provides = {}
          /\ ManifestOf(e.plugin).owns \cap ManifestOf(f.plugin).owns = {}
    /\ \A e \in On(S) : ManifestOf(e.plugin).requires \subseteq Ambient \cup Gives(On(S) \ {e})

(* checkInventory, for the manifests of what `seen` lists: with one of them missing there
   is no graph, and nothing is reported. *)
Accepts(S, seen) == BoundaryHolds(S) /\ (Missing(seen) # {} \/ Resolves(S))

(* validateContributions: each augmented model has an owner among the plugins resolved. *)
Composes(S) ==
    \A e \in On(S) :
        ManifestOf(e.plugin).augments \subseteq UNION {ManifestOf(f.plugin).owns : f \in On(S)}

--------------------------------------------------------------------------------
(* What is generated from them *)

Graph(S) ==
    [instances |-> {[key |-> Key(e), required |-> e.required, contents |-> Contents(e.plugin)] : e \in On(S)},
     disabled |-> Keys(S \ On(S))]
Locked(S) == {[name |-> e.plugin, contents |-> Contents(e.plugin)] : e \in S}

GraphOnly(file) ==               \* mutant: no manifest but those in the resolved graph
    [entries |-> Expanded(file), presets |-> PresetSummary(file),
     resolution |-> Graph(Expanded(file)), manifests |-> {}]
SourceDigest(file) ==
    [entries |-> Expanded(file), presets |-> PresetSummary(file),
     resolution |-> Graph(Expanded(file)), manifests |-> Locked(Expanded(file))]

Inputs(file) ==                  \* history: what an artefact stands for
    <<Expanded(file), PresetSummary(file), Locked(Expanded(file))>>

Body(file, path) ==
    CASE path = "catalog" -> [entries |-> {}, from |-> Provenance(file)]
      [] path = "composition" -> [entries |-> Expanded(file), from |-> {}]
      [] path = "schema" ->
            IF Composes(Expanded(file))
            THEN [entries |-> {e.plugin : e \in On(Expanded(file))}, from |-> {}]
            ELSE [entries |-> {"COMPOSITION FAILED"}, from |-> {}]
Artifact(file, path) == [digest |-> SourceDigest(file), body |-> Body(file, path)]

Fresh(file) ==
    [packages |-> Locked(Expanded(file)), resolution |-> Graph(Expanded(file)),
     presets |-> PresetSummary(file), instances |-> Provenance(file),
     artifacts |-> [path \in Paths |-> Artifact(file, path)]]

Drifted(file) == {path \in Paths : artifacts[path] # Artifact(file, path)}

(* compareLockfile *)
LockFaults(file) ==
    LET new == Fresh(file)
        Old(n) == {x.contents : x \in {y \in lock.packages : y.name = n}}
        Names(x) == {y.name : y \in x.packages} IN
    IF lock = None THEN {"plugin-lock-missing"}
    ELSE (IF Names(new) \ Names(lock) # {} THEN {"plugin-lock-package-added"} ELSE {})
         \cup (IF Names(lock) \ Names(new) # {} THEN {"plugin-lock-package-removed"} ELSE {})
         \cup (IF \E x \in new.packages : \E c \in Old(x.name) : c.version # x.contents.version
               THEN {"plugin-lock-version-drift"} ELSE {})
         \cup (IF \E x \in new.packages : \E c \in Old(x.name) :
                    c.version = x.contents.version /\ c # x.contents
               THEN {"plugin-lock-manifest-tampered"} ELSE {})
         \cup (IF lock.resolution # new.resolution THEN {"plugin-lock-resolution-drift"} ELSE {})
         \cup (IF lock.artifacts # new.artifacts THEN {"plugin-lock-artifact-drift"} ELSE {})

--------------------------------------------------------------------------------
(* Exit codes: what a command answers to the files as they are *)

ValidateExit ==
    IF ~WellFormed(inventory) \/ Missing(inventory.plugins) # {} THEN "VALIDATION_FAILED"
    ELSE IF Accepts(inventory.plugins, inventory.plugins) THEN "OK" ELSE "RESOLUTION_FAILED"

(* `list`, and what `doctor` finds wrong before it looks for drift *)
StateFaults(file) ==
    \/ PresetFaults(file) # {} \/ Missing(Expanded(file)) # {}
    \/ ~Accepts(Expanded(file), Expanded(file))

ListExit ==
    IF ~WellFormed(inventory) THEN "VALIDATION_FAILED"
    ELSE IF StateFaults(inventory) THEN "RESOLUTION_FAILED" ELSE "OK"

Generable(file) ==
    Missing(Expanded(file)) = {} /\ BoundaryHolds(Expanded(file)) /\ Resolves(Expanded(file))

BuildExit ==
    IF ~WellFormed(inventory) THEN "VALIDATION_FAILED"
    ELSE IF Missing(Expanded(inventory)) # {} THEN "VALIDATION_FAILED"
    ELSE IF Generable(inventory) /\ Composes(Expanded(inventory)) THEN "OK" ELSE "RESOLUTION_FAILED"

CheckExit ==
    IF BuildExit # "OK" THEN BuildExit
    ELSE IF Drifted(inventory) = {} /\ LockFaults(inventory) = {} THEN "OK" ELSE "DRIFT_DETECTED"

Unattributed(file) ==                \* mutant: doctor generates without the provenance
    {path \in Paths :
        artifacts[path] # [Artifact(file, path) EXCEPT !.body = [@ EXCEPT !.from = {}]]}
DoctorDrift(file) == IF Generable(file) THEN Drifted(file) ELSE {}
DoctorLock(file) == IF Generable(file) THEN LockFaults(file) ELSE {}

DoctorExit ==
    IF ~WellFormed(inventory) THEN "VALIDATION_FAILED"
    ELSE IF StateFaults(inventory) \/ "plugin-lock-manifest-tampered" \in DoctorLock(inventory)
    THEN "RESOLUTION_FAILED"
    ELSE IF DoctorDrift(inventory) # {} \/ DoctorLock(inventory) # {} THEN "DRIFT_DETECTED" ELSE "OK"

Added(p, n, optional) ==
    [plugin |-> p, instance |-> n, enabled |-> TRUE, required |-> ~optional,
     configRef |-> ManifestOf(p).configRef]
With(file, e) == [file EXCEPT !.plugins = @ \cup {e}]
Without(file, key) == [file EXCEPT !.plugins = {e \in @ : Key(e) # key}]

(* The manifests at hand are those of the expanded inventory; the entries resolved are
   those of the file. *)
AddExit(p, n, optional) ==
    IF ~WellFormed(inventory) THEN "VALIDATION_FAILED"
    ELSE IF installed[p] = 0 THEN "NOT_FOUND"
    ELSE IF <<p, n>> \in Keys(Expanded(inventory)) THEN "CONFLICT"
    ELSE IF optional /\ ~ManifestOf(p).policy THEN "VALIDATION_FAILED"
    ELSE IF Accepts(With(inventory, Added(p, n, optional)).plugins, Expanded(inventory)) THEN "OK"
    ELSE "RESOLUTION_FAILED"

RemoveExit(key) ==
    IF ~WellFormed(inventory) THEN "VALIDATION_FAILED"
    ELSE IF key \notin Keys(Expanded(inventory)) THEN "NOT_FOUND"
    ELSE IF Accepts(Without(inventory, key).plugins, Expanded(inventory)) THEN "OK"
    ELSE "CONFLICT"

--------------------------------------------------------------------------------
(* Commands.  One that changes files computes everything it writes, then writes. *)

NoAnswer == [command |-> "none", exit |-> "none", valid |-> FALSE]
File(name, contents) == [file |-> name, to |-> contents, from |-> Inputs(inventory)]

Answer(command, exit) ==
    answer' = [command |-> command, exit |-> exit, valid |-> ValidateExit = "OK"]

Begin(command, exit, files, dry) ==
    /\ writes = <<>> /\ commands < MaxCommands
    /\ commands' = commands + 1
    /\ Answer(command, exit)
    /\ writes' = IF exit = "OK" /\ ~dry THEN files ELSE <<>>
    /\ UNCHANGED <<inventory, dependencies, installed, patched, presetVersion, artifacts, made,
                   lock, edits>>

Add(p, n, optional, dry) ==
    Begin(IF dry THEN "dry-run" ELSE "add", AddExit(p, n, optional),
          IF AddExit(p, n, optional) # "OK" THEN <<>>
          ELSE <<File("inventory", With(inventory, Added(p, n, optional))),
                 File("dependencies", p)>>, dry)

Remove(key) ==
    Begin("remove", RemoveExit(key),
          IF RemoveExit(key) # "OK" THEN <<>>
          ELSE <<File("inventory", Without(inventory, key))>>, FALSE)

Build ==
    Begin("build", BuildExit,
          IF BuildExit # "OK" THEN <<>>
          ELSE <<File("catalog", Artifact(inventory, "catalog")),
                 File("composition", Artifact(inventory, "composition")),
                 File("schema", Artifact(inventory, "schema")),
                 File("lock", Fresh(inventory))>>, FALSE)

KeptWhenThere(old, new) == IF old = None THEN new ELSE old   \* mutant: files are not replaced
Replaced(old, new) == new

(* A file that already has the contents is left alone. *)
Write ==
    /\ writes # <<>>
    /\ writes' = Tail(writes)
    /\ LET f == Head(writes)
           changed == {path \in Paths : path = f.file /\ artifacts[path] # f.to} IN
       /\ inventory' = IF f.file = "inventory" THEN f.to ELSE inventory
       /\ dependencies' = IF f.file = "dependencies" THEN dependencies \cup {f.to} ELSE dependencies
       /\ lock' = IF f.file = "lock" THEN f.to ELSE lock
       /\ artifacts' = [path \in Paths |-> IF path \in changed THEN Replaced(artifacts[path], f.to) ELSE artifacts[path]]
       /\ made' = [path \in Paths |-> IF path \in changed THEN f.from ELSE made[path]]
    /\ UNCHANGED <<installed, patched, presetVersion, answer, commands, edits>>

(* The process dies: the files it has not reached stay as they were. *)
Crash ==
    /\ writes # <<>>
    /\ writes' = <<>> /\ answer' = NoAnswer
    /\ UNCHANGED <<inventory, dependencies, installed, patched, presetVersion, artifacts, made,
                   lock, commands, edits>>

--------------------------------------------------------------------------------
(* Everybody else: the package manager and people, between any two writes *)

Edited ==
    /\ edits < MaxEdits
    /\ edits' = edits + 1 /\ answer' = NoAnswer
    /\ UNCHANGED <<dependencies, made, writes, commands>>

Install(p, v) ==
    /\ installed[p] # v
    /\ installed' = [installed EXCEPT ![p] = v] /\ patched' = patched \ {p}
    /\ UNCHANGED <<inventory, presetVersion, artifacts, lock>>

InstallPreset(q, v) ==
    /\ presetVersion[q] # v
    /\ presetVersion' = [presetVersion EXCEPT ![q] = v]
    /\ UNCHANGED <<inventory, installed, patched, artifacts, lock>>

Patch(p) ==
    /\ installed[p] # 0 /\ patched' = patched \cup {p}
    /\ UNCHANGED <<inventory, installed, presetVersion, artifacts, lock>>

Toggled(file, e) == [file EXCEPT !.plugins = (@ \ {e}) \cup {[e EXCEPT !.enabled = ~@]}]
Rewritten ==
    IF inventory = Broken THEN {Start}
    ELSE {Broken} \cup {Toggled(inventory, e) : e \in inventory.plugins}
         \cup {[inventory EXCEPT !.presets = (@ \ {q}) \cup ({q} \ @)] : q \in Presets}

Rewrite ==
    /\ inventory' \in Rewritten
    /\ UNCHANGED <<installed, patched, presetVersion, artifacts, lock>>

Discard(path) ==
    /\ artifacts[path] # None /\ artifacts' = [artifacts EXCEPT ![path] = None]
    /\ UNCHANGED <<inventory, installed, patched, presetVersion, lock>>

DiscardLock ==
    /\ lock # None /\ lock' = None
    /\ UNCHANGED <<inventory, installed, patched, presetVersion, artifacts>>

Edit ==
    /\ \/ \E p \in Packages, v \in Versions \cup {0} : Install(p, v)
       \/ \E q \in Presets, v \in Versions \cup {0} : InstallPreset(q, v)
       \/ \E p \in Packages : Patch(p)
       \/ Rewrite
       \/ \E path \in Paths : Discard(path)
       \/ DiscardLock
    /\ Edited

Read == \/ Begin("validate", ValidateExit, <<>>, FALSE)
        \/ Begin("list", ListExit, <<>>, FALSE)
        \/ Begin("check", CheckExit, <<>>, FALSE)
        \/ Begin("doctor", DoctorExit, <<>>, FALSE)

Init ==
    /\ inventory = Start /\ dependencies = {e.plugin : e \in Start.plugins}
    /\ installed = [p \in Packages |-> 1] /\ patched = {}
    /\ presetVersion = [q \in Presets |-> 1]
    /\ artifacts = [path \in Paths |-> None] /\ made = [path \in Paths |-> None]
    /\ lock = None /\ writes = <<>> /\ answer = NoAnswer /\ commands = 0 /\ edits = 0

Next ==
    \/ \E p \in Packages, n \in Instances, optional, dry \in BOOLEAN : Add(p, n, optional, dry)
    \/ \E p \in Packages, n \in Instances : Remove(<<p, n>>)
    \/ Build \/ Read \/ Write \/ Crash \/ Edit

Spec == Init /\ [][Next]_vars

--------------------------------------------------------------------------------
(* Properties *)

Done(command) == writes = <<>> /\ answer.command = command /\ answer.exit = "OK"

(* A build that ends well leaves files its own --check and doctor find current, whatever
   was on disk before: files an earlier build left half written, an older lock, nothing.
   Only what is not about drift may still make doctor refuse. *)
BuildConverges ==
    Done("build") => CheckExit = "OK" /\ DoctorExit \in {"OK", "RESOLUTION_FAILED"}

(* generate.ts: a change to the inventory, to a manifest - of a disabled plugin too - or to
   a preset's version invalidates every artefact: one that is not reported as drifted was
   generated from today's inputs. *)
StaleArtifactsAreSeen ==
    BuildExit = "OK" =>
        \A path \in Paths \ Drifted(inventory) : made[path] = Inputs(inventory)

(* doctor generates from exactly what build does: it never reports drift in files that
   `build --check` calls current, nor finds files in order that the check calls stale. *)
DoctorAgreesWithCheck ==
    /\ CheckExit = "OK" => DoctorExit # "DRIFT_DETECTED"
    /\ DoctorExit = "OK" => CheckExit = "OK"

(* shared.ts: add must not use a laxer check than validate, or the CLI writes an inventory
   its own validator rejects. *)
AddKeepsValid == Done("add") /\ answer.valid => ValidateExit = "OK"
================================================================================
