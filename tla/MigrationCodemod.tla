--------------------------- MODULE MigrationCodemod ---------------------------
(* The codemods that move an App from the facade packages to the owners of what they export:
   scripts/051-v3-backend-auth-migration-codemod.mjs ("v3": guards, identity, pages) and
   scripts/051-pl3-frontend-migration-codemod.mjs ("pl3": pages only).

   A file is the set of its import statements.  A run visits the files of the App in order and
   may be killed between two of them; between runs the team reviews what v3 left to it, or
   writes another statement.  Either codemod may run at any time, for real or as a rehearsal. *)
EXTENDS Naturals, Sequences

CONSTANTS Apps,        \* Apps as they are first found: sequences of files
          Statements,  \* what the team may write into a file
          MaxEdits, MaxRuns

VARIABLES files,    \* the App
          meant,    \* what each file's local names mean: the team's intent
          job,      \* the codemod that is running, or Idle
          verdict,  \* of the last complete run of v3 that wrote: "none", "clean" or "review"
          codeEdits, jobs

codemodVars == <<files, meant, job, verdict, codeEdits, jobs>>

--------------------------------------------------------------------------------
(* Names and owners, one of each kind that the tables tell apart. *)

Auth  == "@appspine/auth"
KeysPkg == "@appspine/m2m-api-key"
Shell == {"@appspine/frontend-shell", "@appspine/frontend-shell/notification"}
HostNest == "@appspine/plugin-host-nest"

(* AUTH_EXPORT_REPLACEMENTS *)
AuthOwner(n) == CASE n = "CurrentUser" -> HostNest
                  [] n = "UsersService" -> "@appspine/identity-core"
                  [] n = "JwtAuthGuard" -> "@appspine/oidc-auth"
                  [] n = "UserContext" -> "@appspine/rbac"
                  [] OTHER -> ""

(* MIGRATION_MAP of pl3 *)
PageOwner(n) == CASE n = "UsersTable" -> "@appspine/identity-core/frontend"
                  [] n = "RolesTable" -> "@appspine/rbac/frontend"
                  [] n = "NotificationBell" -> "@appspine/notification/frontend"
                  [] OTHER -> ""

(* FRONTEND_EXPORT_REPLACEMENTS of v3: two names more. *)
FrontendOwner(n) == CASE n = "ApiKeysTableKey" -> "@appspine/m2m-api-key/frontend"
                      [] n = "UserRoleOption" -> "@appspine/identity-core/frontend"
                      [] OTHER -> PageOwner(n)

(* A specifier `name as local`; typed ones are erased by the compiler. *)
Statement(form, from, names, typed) ==
    [form |-> form, from |-> from, names |-> names, typed |-> typed]

--------------------------------------------------------------------------------
(* One statement of v3. *)

AllTyped(names) == \A x \in names : x.type

(* renderImport: `import type` only when every name of the new statement is a type. *)
Render(from, names) == Statement("named", from, names, AllTyped(names))

(* Where a specifier goes: to an owner, nowhere (it stays), or to the reviewer. *)
Target(s, x) ==
    CASE s.from = Auth -> IF AuthOwner(x.name) = "" THEN "review" ELSE AuthOwner(x.name)
      [] s.from \in Shell -> IF FrontendOwner(x.name) = "" THEN s.from ELSE FrontendOwner(x.name)
      [] s.from = KeysPkg -> IF x.name # "JwtOrApiKeyGuard" THEN s.from
                           ELSE IF x.type THEN "review" ELSE HostNest
      [] OTHER -> s.from

(* The deprecated guard is the host's guard, under the consumer's local name. *)
Renamed(s, x) ==
    IF s.from = KeysPkg /\ x.name = "JwtOrApiKeyGuard" THEN [x EXCEPT !.name = "AppspineAuthGuard"] ELSE x

ForReview(s) ==
    \/ s.form = "unparsed"
    \/ s.form \in {"default", "namespace", "bare"} /\ s.from = Auth
    \/ s.form = "named" /\ \E x \in s.names : Target(s, x) = "review"

(* A mutant of Split: the names that stay are forgotten. *)
SplitForgetful(s) ==
    IF s.form # "named" \/ \A x \in s.names : Target(s, x) = s.from THEN {s}
    ELSE {Render(t, {Renamed(s, x) : x \in {y \in s.names : Target(s, y) = t}}) :
            t \in {Target(s, x) : x \in s.names} \ {s.from}}

(* importEditFor: one statement for what stays, one for every owner. *)
Split(s) ==
    IF s.form # "named" \/ \A x \in s.names : Target(s, x) = s.from THEN {s}
    ELSE {Render(t, {Renamed(s, x) : x \in {y \in s.names : Target(s, y) = t}}) :
            t \in {Target(s, x) : x \in s.names}}

(* transformSource: the whole file, or nothing of it. *)
Reviewed(file) == \E s \in file : ForReview(s)
Migrated(file) == IF Reviewed(file) THEN file ELSE UNION {Split(s) : s \in file}

--------------------------------------------------------------------------------
(* transformSource of pl3: a pattern for `import {`, which `import type {` does not match; a
   type keeps its own keyword. *)

PageTarget(s, x) == IF PageOwner(x.name) = "" THEN s.from ELSE PageOwner(x.name)

MovedPages(s) ==
    IF s.form # "named" \/ s.typed \/ s.from \notin Shell \/ s.names = {} THEN {s}
    ELSE {Statement("named", t, {x \in s.names : PageTarget(s, x) = t}, FALSE) :
            t \in {PageTarget(s, x) : x \in s.names}}
PagesMoved(file) == UNION {MovedPages(s) : s \in file}

Rewritten(tool, file) == IF tool = "v3" THEN Migrated(file) ELSE PagesMoved(file)

--------------------------------------------------------------------------------
(* What a local name stands for.  A facade exports what the owner declares; the deprecated
   guard of m2m-api-key does what the host's does. *)

Declared(from, n) ==
    CASE from = Auth /\ AuthOwner(n) # "" -> <<AuthOwner(n), n>>
      [] from \in Shell /\ FrontendOwner(n) # "" -> <<FrontendOwner(n), n>>
      [] from = KeysPkg /\ n = "JwtOrApiKeyGuard" -> <<HostNest, "AppspineAuthGuard">>
      [] OTHER -> <<from, n>>

Meaning(file) ==
    UNION {{[local |-> x.local, type |-> x.type, is |-> Declared(s.from, x.name)] : x \in s.names} :
             s \in file}

Locals(s) == {x.local : x \in s.names}

(* What v3 answers for: import declarations that name, default or merely load. *)
Outdated(s) ==
    \/ s.form \in {"default", "namespace", "bare"} /\ s.from = Auth
    \/ s.form = "named" /\ \E x \in s.names : Target(s, x) # s.from

--------------------------------------------------------------------------------

Idle == [tool |-> "none", dry |-> FALSE, next |-> 0, manual |-> {}]

Init ==
    /\ files \in Apps /\ meant = [i \in DOMAIN files |-> Meaning(files[i])]
    /\ job = Idle /\ verdict = "none" /\ codeEdits = 0 /\ jobs = 0

(* main, migrateRoot: the files in order. *)
Start(tool, dry) ==
    /\ job = Idle /\ jobs < MaxRuns /\ jobs' = jobs + 1
    /\ job' = [tool |-> tool, dry |-> dry, next |-> 1, manual |-> {}]
    /\ UNCHANGED <<files, meant, verdict, codeEdits>>

(* One file: read, rewritten in memory, written back if it changed and nobody rehearses. *)
Visit ==
    /\ job # Idle /\ job.next \in DOMAIN files
    /\ LET i == job.next IN
       /\ files' = IF job.dry THEN files ELSE [files EXCEPT ![i] = Rewritten(job.tool, @)]
       /\ job' = [job EXCEPT !.next = i + 1,
                    !.manual = @ \cup {j \in {i} : job.tool = "v3" /\ Reviewed(files[j])}]
    /\ UNCHANGED <<meant, verdict, codeEdits, jobs>>

(* The exit code: 2 when a file is left to a reviewer.  pl3 always ends with 0. *)
Finish ==
    /\ job # Idle /\ job.next \notin DOMAIN files
    /\ job' = Idle
    /\ verdict' = IF job.tool # "v3" \/ job.dry THEN verdict
                  ELSE IF job.manual = {} THEN "clean" ELSE "review"
    /\ UNCHANGED <<files, meant, codeEdits, jobs>>

(* The process is killed between two files. *)
Killed ==
    /\ job # Idle /\ job' = Idle
    /\ UNCHANGED <<files, meant, verdict, codeEdits, jobs>>

(* The team takes out what v3 left to it, or writes a statement of names that are free. *)
Edit(i, file) ==
    /\ job = Idle /\ codeEdits < MaxEdits /\ codeEdits' = codeEdits + 1
    /\ files' = [files EXCEPT ![i] = file]
    /\ meant' = [meant EXCEPT ![i] = Meaning(file)]
    /\ verdict' = "none"
    /\ UNCHANGED <<job, jobs>>

Next ==
    \/ \E tool \in {"v3", "pl3"}, dry \in BOOLEAN : Start(tool, dry)
    \/ Visit \/ Finish \/ Killed
    \/ \E i \in DOMAIN files :
          \/ \E s \in files[i] : ForReview(s) /\ Edit(i, files[i] \ {s})
          \/ \E s \in {t \in Statements : \A u \in files[i] : Locals(t) \cap Locals(u) = {} /\ t # u} :
                Edit(i, files[i] \cup {s})

Spec == Init /\ [][Next]_codemodVars

--------------------------------------------------------------------------------
(* Properties *)

(* renderImport and both tables: whatever runs, in whatever order and however far, every local
   name of every file stands for what its author meant, as a value or as a type. *)
MeaningKept == \A i \in DOMAIN files : Meaning(files[i]) = meant[i]

(* migrateRoot's exit code: after a complete run of v3 that ended with 0, no import declaration
   of a scanned file asks the facade, or a page of another owner, any more; and nothing is left
   that either codemod would still change. *)
CleanIsClean ==
    verdict = "clean" =>
        \A i \in DOMAIN files :
            /\ \A s \in files[i] : ~Outdated(s)
            /\ \A tool \in {"v3", "pl3"} : Rewritten(tool, files[i]) = files[i]

(* transformSource and migrateRoot of both codemods: their edits keep the meaning of a file, and
   an exit code of 0 is the truth. *)
MigratedRightly == MeaningKept /\ CleanIsClean
================================================================================
