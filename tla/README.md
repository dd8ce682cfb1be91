# A TLA+ verification of the appspine packages

The repository is a monorepo of TypeScript packages (`src/packages/*`) from which
business applications are assembled: a NestJS host with a plugin system, identity and
authorization, a transactional outbox with webhooks between applications, notifications,
mirrors of master data, a CLI that composes plugins into an app, and scripts that keep
contracts and migrations honest. This directory holds TLA+ models of the parts that carry
concurrency, failure, ordering or a decision procedure of their own, TLC instances that
check them, and TLAPS proofs of what matters most about them.

Contents

1. Inventory: the components, their state, operations and hazards
2. Plan: the modules, with what is done and what is left
3. The models: how state and actions correspond to the code
4. The runs: what each checks, its bounds, and what it shows
5. Fairness
6. Proofs: theorems, inductive invariants, assumptions
7. What is only model-checked
8. What is not modelled, and why
9. Where the code and its documentation disagree
10. How to run it

`PROJECT.json` is the index: components, runs, the source lines behind every definition
(`map`), a mutation of the model per checked property (`mutants`), hazards, findings and
theorems.

## 1. Inventory

### Events, records and accounts

**Outbox dispatcher** (`domain-events`: `domain-events.service.ts`,
`domain-event-dispatcher.service.ts`, `domain-event-registry.ts`, `admin/`).
*State*: rows of `domain_events` (seq) and `domain_event_deliveries` (status, attempts,
lockedBy, lockedAt, nextAttemptAt); per replica an interval timer, a `running` flag, the
claimed batch with the row copies read at claim time. *Operations*: record in the caller's
transaction; start, stop; a tick = reclaim stale locks (two concurrent `updateMany`), claim
(`FOR UPDATE SKIP LOCKED`), per delivery resolve handler, look up binding, run, complete;
admin retry and ignore. *Hard*: several replicas share rows; a lease is a timestamp nobody
renews, so a slow replica is overtaken; `attempts` is computed from a copy minutes old;
crashes between claim and completion; a completion whose answer is lost is followed by a
contradicting `markFailed`. *Correct when*: one holder per lease, late completions land
nowhere, no attempt is lost or counted twice, verdicts have a cause, and every committed
delivery is decided.

**Webhooks** (`domain-events/src/webhook.ts`, `integration-contracts/src/webhook.ts` and
`delivery.ts`). *State*: the sender's secret, the receiver's key with
its previous secret and expiry, the binding's switch. *Operations*: sign and send, classify the
answer, verify, apply under a receipt; rotate, disable. *Hard*: two clocks; requests repeated,
delayed and lost; a rotation at one end before the other; a verdict that cannot be taken back.
*Correct when*: what counts as processed was applied, and only a spent budget ends an event.

**Integration receipts** (`domain-events/receipt.ts`). *State*: the receipt table with a
unique key per source event. *Operation*: `withIntegrationEventReceipt`: digest check,
lookup, insert, business callback and commit, or the answer from the winner's row.
*Hard*: overlapping and repeated deliveries; callbacks that abort; one event id with two
contents. *Correct when*: the callback takes effect once, and every answer is true.

**Notification service, polling controller, menu** (`notification`). *State*: notification
rows (unique per recipient and idempotency key); the controller's timer, sequence number, call
in flight; the menu's list and the optimistic list in its place. *Operations*: notify, read,
read all, archive, count; start, stop, refresh, forced refresh, visibility; open, load, click,
mark all. *Hard*: answers overtake each other; `stop()` abandons calls that still answer;
`refresh` joins a call nobody listens to; a rollback restores a list that others changed.
*Correct when*: a forced refresh is never undone by an older answer, the shown count converges,
and nothing is shown as read that is not.

**Master data mirror** (`master-data-client`). *State*: mirror rows with the seq of their
last change; the reconciliation's timer and pass. *Operations*: the sync handler's
read-then-write for changes and deletions; a pass = fetch, read, upsert, sweep per entity.
*Hard*: two writers without a transaction around read and write; events late, repeated,
lost; deletions without tombstone; an empty list from a broken source. *Correct when*: older
data wins only through a stale read, deletions have a reason, and it converges.

**OIDC identity linking and accounts** (`oidc-auth/src/oidc-identity.service.ts`, the
principal of `jwt-verifier.service.ts`, the users of `identity-core`). *State*: accounts
(unique email, isActive), mappings of `(issuer, subject)` to an account without a foreign
key, the legacy flag; per login the call it awaits and the account it is about.
*Operations*: resolve (mapping, its account, drop if that is gone, the verified email,
provision or link), delegated logins by email; create, disable and remove a user. *Hard*:
logins of one identity overlap; every decision is several reads old when it is written; a
removal between lookup and link; a failing audit record; a dangling mapping that two logins
find. *Correct when*: an identity is mapped only by an email it verified, a live mapping
stays, the legacy flag counts legacy links, and a valid login gets in in the end.

### Who may do what

**Roles, assignments, keys** (`rbac`, `identity-core`, `m2m-api-key`). *State*: roles,
permissions, assignments, accounts with their service mark, keys. *Operations*: create, update,
replace, remove, mark, issue. *Hard*: a first read with its early returns, then a write under
READ COMMITTED; "delete, then createMany"; cascades. *Correct when*: a replacement leaves what
it asked for, a role in use stays, a key acts for service accounts.

**Guards of a request** (`plugin-host-nest/src/auth`, `oidc-auth`, `m2m-api-key`, guards of
`rbac`, `domain-events`, `metadata-schema`). *State*: the strategy registry, a key's limiter
bucket, the request's progress. *Hard*: registration order; account, roles and key are read in
statements of their own while administrators change them; a credential that falls through to
the next strategy. *Correct when*: one way to log in, nobody is served for what it did not
have, a good login is refused for a cause.

**Delegated endpoints and exchanges** (`oidc-auth/src/delegated`,
`oidc-delegation`). *State*:
the profiles, security log buckets and their timer; circuit and window per policy. *Hard*: two
requests provision one email; late answers reset or trip the circuit; logs that suppress.
*Correct when*: a token is good for one delegation, a window admits less than twice its limit,
every rejection is told.

**MCP server** (`mcp-server`). *State*: tools under their names, the pushed catalogue, sealed
request states that clients keep. *Hard*: a state may come back late, twice, to another tool or
by another key. *Correct when*: rounds are bounded and the catalogue tells the truth.

### Plugins and apps

**Plugin lifecycle and host** (`plugin-api/src/runtime`, `plugin-host-nest/src/host`).
*State*: catalog entries, the list `started`, the hooks in flight; the module tree, bound
capabilities and strategies. *Operations*: prepare, resolve, compose; boot (validate, register,
ready per instance, each raced against a timer), shutdown in reverse, health. *Hard*: a
timed-out hook is not cancelled and settles later; a signal during boot runs shutdown and boot
side by side; degraded against fatal failures; what a manifest lists against what Nest injects.
*Correct when*: health hides nothing, resources have a known owner, dependants stop first, both
loops end, and an App that resolves starts.

**Plugin resolver** (`plugin-api/src/resolver`). *State*: local to one synchronous call.
*Operation*: inventory + manifests -> registration order or diagnostics. *Hard*: several
providers, replacement, self-provision, multi-instance qualification, cycles; an order that
must be deterministic because a digest is made of it. *Correct when*: providers come first,
the order is canonical, cycles are reported, nothing has two owners.

**Manifest loader and authoring** (`plugin-api/src/loader`, `authoring`, `manifest`). *State*:
the package directory and the recorded digest. *Correct when*: no code of the frozen checker is
lost behind another, and a digest changes with what it covers.

**Plugin CLI** (`plugin-cli`). *State*: inventory, `package.json`, installed packages and
presets, generated files, lockfile; an App's permission records. *Operations*: add, remove,
build, validate, doctor, list; sorting and composing; permission plans. *Hard*: files are
written one by one by a process that may die; people and the package manager change them in
between; two commands must agree. *Correct when*: a build converges, stale files are seen,
sorting orders or throws, an applied plan leaves nothing to do.

### Contracts, schemas, migrations

**Schema compatibility** (`integration-contracts`) and **contract CLI**
(`scripts/contract-cli.mjs`). *State*: released schemas, stored documents; the registry's files,
lock, index and generated runtime. *Hard*: a chain of releases each compatible with the last;
files edited by hand between commands. *Correct when*: stored documents stay readable, and green
checks mean what is pinned is what runs.

**Schema drift checks** (`schema-drift-check.ts` of `domain-events` and
`notification`). An App owns its copy of
the models and its migrations. *Correct when*: green means the packages' statements run.

**Migration codemods** (`scripts/051-v3-*`, `051-pl3-*`). *State*: import statements of files;
runs that may be killed. *Correct when*: meaning is kept and exit 0 is the truth.

### Pages

**Admin widgets and shell** (`frontend-shell`, pages of `rbac`, `identity-core`,
`m2m-api-key`, `domain-events`). *State*: dialogs, one transition per widget, the error shown;
the sidebar's state, cookie, stored width, portal. *Hard*: dialogs closed while a call is
pending; branches swapped under a portal; other tabs. *Correct when*: a secret is shown, an
error is the last call's, the shell is as it was left.

The rest (`common`, `e2e-kit`, `preset-standard`, `plugin-testkit`, other scripts, fixtures and
specs) is listed in `PROJECT.json` with the reason for leaving it out: no state of its own,
wiring, rendering or test doubles.

### How the components interact

```
record (business tx) -> outbox rows -> dispatcher -> handler ----> webhook -> other app
                                          |                                     |
                                          +-> master data sync handler          v
                                                     ^            receipt + business callback
 reconciliation pass --------------------------------+                          |
                                                                                v
 packages: manifests (loader, contract checks, drift checks)        notification rows
      |                                                                  ^      |
 CLI: inventory + manifests -> resolver -> order -> host boot            | reads v
      |                                       |                polling controller, menu
      +-> generated files, permission plan    +-> lifecycle runner

 request -> strategies (JWT verifier | API key) -> guards -> handler, MCP tool, admin page
               |                  |                  |
        mappings, accounts       keys        roles, permissions <- administrators
               |
        delegated profiles <- token exchange of another app (throttle, circuit)
```

The handler of an outbox delivery may be the webhook sender, whose counterpart in another
app is the receipt inbox; the callback of a receipt may notify; the bell polls the inbox
(`NotificationPipeline` composes these last three). The mirror is fed by the same kind of
delivery, at least once and unordered, as `DomainEventDispatcher` shows it to be. The
resolver's order is what the runner boots, and `AppHost` composes the repository's own plugins
through the resolver's definitions. Logins and the users API meet in the database only, at its
unique indexes; requests and administrators meet in the rows that the guards read.

## 2. Plan

The order follows what would hurt most: the outbox first, because every application relies
on it and no test can reach its interleavings; then the lifecycle and the resolver behind
it, the mirror that lives off the outbox, the path from a received event to the bell, who may
log in and do what, and last the tools that generate, pin and migrate.

| # | Modules | Composition, abstraction | State |
|---|---|---|---|
| 1 | `DomainEventDispatcher`, `OutboxLedger` | the dispatcher implements the ledger | checked, proved |
| 2 | `PluginLifecycle`, `PluginResolver` | the host's signals drive the runner; reference definitions of an order | checked, proved |
| 3 | `MasterDataMirror` | two writers and a source | checked, safety proved |
| 4 | `IntegrationReceipt`, `NotificationInbox`, `NotificationPolling`, `NotificationPipeline`, `NotificationMenu` | the pipeline composes the first three | checked, safety proved |
| 5 | `OidcIdentity` | logins and the users API on one database | checked, safety proved |
| 6 | `AccessControl`, `RequestAuth`, `DelegatedAuth`, `DelegatedExchange`, `WebhookDelivery`, `McpServer` | requests against changes and faults | checked, proved |
| 7 | `PluginWorkspace`, `PluginArtifacts`, `PermissionPlan`, `PluginManifest`, `AppHost` | commands against edits; frozen checkers as references; `AppHost` instantiates the resolver | checked, proved |
| 8 | `SchemaEvolution`, `ContractRegistry`, `SchemaDrift`, `MigrationCodemod` | releases, edits and runs of tools | checked, proved |
| 9 | `AdminConsole`, `AppShell` | widgets against other tabs | checked, proved |

Every safety property that a run checks, invariant or action property, is a theorem by now, and
so are the refinements of `OutboxLedger` (of the dispatcher) and of `AtomicInbox` (of the receipt
inbox: one step per arrival); the liveness properties are TLC's (section 7).

## 3. The models

### DomainEventDispatcher

One SQL statement, or one interactive transaction, is one step; everything a replica does
in memory between two awaits belongs to the step before it.

| Code | Model |
|---|---|
| `domain_events.seq`, the recording transaction | `seq`, `nextSeq`, `txn`; `Record`, `EndTxn` |
| delivery columns | `status`, `attempts`, `lockedBy`, `backoff` (nextAttemptAt in the future or not) |
| `lockedBy` = workerId:uuid | the number of the claim, `LeaseId` |
| `lockedAt` and `staleLockMs` | `expired`: the newest lease that is stale by now; `staleBefore` is the cut-off a tick computed when it began |
| `start`, `stop`, the interval, `running` | `Start`, `Stop`, `Tick`, with `timer` and `pc` |
| `reclaimStaleLocks`, two `updateMany` in `Promise.all` | `Reclaim(w, k, a)`, one step per statement; a rejected one ends the tick while the other goes on (`stmts`) |
| `claimDueDeliveries` with `SKIP LOCKED` | `Claim`, `ClaimNothing`; other claims in progress may hide rows |
| `processDelivery` | `NoHandler`, `BindingDisabled`, `BindingLookupFails`, `StartHandler`, `HandlerReturns` |
| `completeDelivery`, `markFailed` | `Complete`, guarded by `Holds`; columns by `CompletionStatus`, `NextAttempts`, `CompletionBackoff` |
| admin `retryDelivery`, `ignoreDelivery` | `RetryDelivery`, `IgnoreDelivery` |
| the process dies and comes back | `Crash`, `Restart` |
| a call that fails, or succeeds while its answer is lost | `Answer`, paid from `MaxFaults` |

`handled` and `fatal` are history variables for `VerdictJustified`. `OutboxLedger` is the
abstract specification: rows, leases and attempts, without replicas, batches, copies and
lost answers. The refinement mapping is the identity on the rows and `published` for what
committed transactions made visible.

### PluginLifecycle

`boot`, `at` and `stage` are the program counter of `boot()`; `hook[i][s]` is the promise
of a hook; `gaveUp` are the hooks whose timer won. `HookSettles` may happen at any later
moment, also after the runner moved on or shut down: `withTimeout` cancels nothing. An
awaited hook's continuation is part of the step. `owns` is the only assumption about plugin
code: register and ready hooks acquire something when they succeed, and a shutdown hook
that succeeds releases all of it. Each call of `shutdown()` iterates its own copy of
`started` (`left`), and may begin at any moment, as `onApplicationShutdown` and a signal
handler can. `Health` is `aggregateHealth`.

### PluginResolver

A call's local variables as a state machine with one action per entry read (`Read`), the
checks over all instances (`Check`), and the loop of `topologicalOrder`: `Round` collects
the frontier, `Push` takes its first element, `Finish` leaves the loop. Diagnostics are the
sets of codes. Strings compare as numbers; a capability is a pair of a name and the
instance that qualifies it. Contributions keep three kinds, one for each way the code tells
owners apart: exclusive, shared by instances of one plugin, and qualified.

### MasterDataMirror

A source record and a mirror row are the seq of their last change, 0 when absent. `Read`
and `Write` are the two calls of the sync handler, with any number of executions at once;
`due` is what the outbox has still to deliver, again after a lost acknowledgement. The
reconciliation is `Tick`, then per entity `Fetch`, `FindMany`, `Upsert`, `Sweep`,
`EntityDone`. `FetchNothing` is a source that answers with an empty list; `Broken` entities
never answer; `Crash` drops whatever is in flight. `NeverAhead` is what remains true although a
stale read may bring an old version back: no row shows a version its record has not reached, nor
another record's. A deletion is held to the same account: the event must be newer than the row, or
than the row was when the handler read it, and a pass deletes only rows that it has seen.

### IntegrationReceipt, NotificationInbox, NotificationPolling, NotificationPipeline

`IntegrationReceipt` has the statements of `withIntegrationEventReceipt`: `Find`, `Create`
(which waits for an uncommitted row with the same key, as the unique index does), `Commit`,
`Resolve` (the read outside the failed transaction), `Abort`. An envelope is a model value
with an event, a content (digest, contract and binding) and possibly a broken digest.
`NotificationInbox` has the rows and the writes of the service. `NotificationPolling` is
the controller: `requestSequence` only decides whether a call is the latest, so it is the
set `latest`; a count is the set of what was counted, which lets `NoStaleCount` say *which*
notifications a stale answer would bring back. `NotificationPipeline` instantiates all
three: the commit of the business callback is the insert of the notification. `AtomicInbox`, at
the end of `IntegrationReceipt`, is what the inbox promises its callers: of the receipts, the
callbacks that took effect and the answers one sees an indivisible step per arrival
(`ProcessOnce`, `AnswerAgain`, `TurnAway`), and nothing of the statements in between.

### OidcIdentity

`pc` names the database call a login makes next, `token` what it logs in with, `found` the
account it is about; a transaction is one step. `Begin` is `buildOidcJwtUser` for a token
with a subject and `mapVerifiedIdentityToLocalPrincipal` for one without (a delegated login,
which goes by its verified email alone). `FindMapping`, `FindAccount`, `Drop`,
`FindByEmail`, `Provision`, `ProvisionFails`, `FindWinner`, `Link`, `LinkFails`, `Reread`
are `resolve`, `provision` and `link` statement by statement; `End` is every way to return
or throw, and `Principal` is `buildPrincipal`, which succeeds for an active account.
`CreateUser`, `SetActive` and `RemoveUser` are the users API. An account's email cannot be
changed (`updateUserSchema` has no such field). Ids are handed out in order, as many as
unique emails and bounded removals allow, so no insert fails for lack of one. `born` and
`overtaken` are history: whose login provisioned a row, and which identities lost a mapping
whose account was there.

### AccessControl

`there`, `rows`, `keys` and `service` are the tables; one relation `rows` holds both the
permissions of a role and the roles of an account, because `replacePermissions` and
`replaceUserRoles` are one pattern. `Request` is the first read of a call with its early
returns, `Step` its next statement, `Abort` a statement that fails. A statement sees what was
committed when it began and waits for rows another transaction holds; cascades and foreign keys
belong to the statement. `asked`, `crossed` and `unmarked` are history: what the last successful
replacement asked for, whose replacement another one crossed, whose mark was taken away.

What the properties leave open is what the code leaves open: two overlapping replacements leave
the union of both; a role is removed with assignments made after the removal counted them; a key
stays bound to an account whose mark is taken away.

### RequestAuth, DelegatedAuth

A request is the code between two awaits: the signing key, the account, its roles, the key.
`RequestAuth` registers the strategies of an App's modules in any order (`Register`, `Listen`),
takes a request through the chain of strategies and the guard of its route, and lets
administrators change account and key meanwhile (`sawAccount` and `sawKey` are the states a
request has overlapped). `window` is the bucket of the key's limiter. `DelegatedAuth` has the
boot checks of profiles, the claim checks one by one, the mapping of a verified email with just
in time provisioning, and the security log's buckets with their timer (`Tick`, `FlushExpired`,
`Destroy`). Signatures and key sets are one field of a token.

The models keep what surprises: a `rateLimit` of 0 lets one call of each window through; an
account and its roles are read in two statements, so a request may be served with the roles of
another moment of it; an Authorization header sent twice counts as no credential; an inactive
account is `token_rejected` for a jit profile and `identity_mapping_failed` for one that never
provisions.

### DelegatedExchange

One policy: `Exchange` is the sanity check of the subject token, the window and the circuit;
`Answer` whatever the token endpoint or the timer makes of it, late answers included; `Evict`,
`Flush` and `Dispose` are the housekeeping of buckets and log. `KeyRequest` is the limiter of API
keys, the same window with a Retry-After. History counts outages, calls and rejections. The
model shows the bound `2 * Limit - 1` to be exact for any stretch of a window's length. A late
success closes an open circuit; what is rejected after `dispose` is lost (`late`); the body of an
answer is read after the timer was cleared, so that read has no timeout.

### WebhookDelivery

`Post` signs and sends under the sender's clock, `Receive` verifies under the receiver's (the
window, the current and the previous secret), applies under the receipt and answers, or loses
the answer; every request ever sent stays on the `wire`. `classifyHttpOutcome` decides the
verdict. `Rotate` and `Follow` are the two halves of a rotation, `Toggle` the binding's switch.
`Tick` holds operators to what the overlap is for: the sender follows before what it last signed
outlives the previous secret. Without that, or with clocks further apart than the window, a 401
is terminal and ends events for good.

### McpServer

`todo` is what is still to be registered; `toolMap` and `logicalTools` the registry's two views;
a call runs its handler, which may ask for input: `RequestInput` seals a state with its round and
the caller, and clients may send any state to any tool at any later time. `Restart` changes the
sealing key. `Runs` counts the handler runs along a chain: rounds bound the depth of a chain, not
how often a state is used, since a state is bound to method and principal, not to a tool, and
stays valid for its whole ttl. A tool name declared twice is listed twice in the catalogue, once
with scopes that are no longer its own; `CatalogTrue` exempts it by name.

### NotificationMenu

`recent`, `optimistic`, `open` and `markingAll` are the component's state, `loads` and `marks`
the calls in flight with what they captured. `Fails` and `TimesOut` are rollbacks and the race
against 1500 ms; the server may still apply a mark that timed out. `mixed` records the one case
that `NoFalseRead` exempts: a click, the menu reopened, "mark all" while the list loads, the load
answered, then the click failing and the mark-all failing restore a list that holds the other's
guess. A late failure restoring an older list over a newer load, and a load answered before a
mark overwriting the optimistic list, are in the model and show too much as unread, not too much
as read.

### PluginWorkspace

One command reads its files at once (`Add`, `Remove`, `Build`; `Read` are `validate`, `doctor`,
`list` and `build --check`, whose exits are operators over the files) and writes file by file
(`Write`), may die in between (`Crash`), while the package manager and people change the same
files (`Edit`). `made` records the inputs of each generated file. Presets contribute entries;
manifests are records of what the shared checks look at. The model shows, besides the finding
`workspace_add`:

* `validate` checks the declared entries, `list`, `doctor` and `build` the expanded ones, and an
  overlap of presets is reported by some commands and not by `build`;
* `doctor` reports drift where `build --check` refuses to resolve; its branch for a preset
  expansion that is unavailable cannot be reached;
* `remove` of an entry that a preset contributes answers `removed: true`;
* a crash between the writes of inventory and `package.json` leaves an entry without dependency,
  and running `add` again answers CONFLICT;
* `build --check` compares no instances, order, capabilities or presets of the lockfile;
  `--dry-run=true` is not a dry run.

### PluginArtifacts

`sortWithDependencies` as a loop (`ready`, the positions in the frontier, `degree`, `result`), the
lists it is given, and the composed Prisma schema as operators, beside the frozen composer's rules.
An augmentation carries the plugin that makes it, so that what two plugins add alike is written
twice, as in the code, which reports no field that is added by two. `NothingDropped` and
`OnlyCyclesThrow` are stated and not run: they fail. An owner that ships no fragment, or
one without the augmented model, loses the augmentation without a word, and two items with the same
id make the sort throw without a cycle. An entry that refers to its plugin by bare id loses its
frontend facet.

### PermissionPlan

`Release` brings declarations, `MakePlan` is `reconcilePermissions`, `Apply` one operation of the
App's adapter, `Stop` the adapter's end half-way, `RollBack` an older release. A retired permission
that is declared again gets a no-op and stays retired. `inForce` remembers what was not retired when
the plan was made: of that, nothing that a declaration renames may be retired by it.

The frozen script's own rules (`FrozenUpFront`, `FrozenFaults`, `FrozenPlan`) are translated from
the script, not from the package. The two are not the same, and `AsFrozen` names each difference:
the script refuses a store that holds an id twice (`HandEdit`), and the package takes it; the
package refuses an alias of an id to itself, and the script plans it; the script stops at a
duplicate or a downgrade before it looks at aliases, and the package reports them all; the script
retires again what is retired already. The two copies of an id are alike, and what is declared has
well-formed ids.

### PluginManifest

A manifest is what the schema finds wrong with it (`broken`: keyword and place) and the facts the
cross-field rules look at. `Edit` changes the package, `Load` is `loadPluginManifest` with or
without the recorded digest, `Define` is `definePlugin`. The loader's rules (`KeptRules`,
`AddedRules`) read a list with an item that is no string as empty (`Strings`); those of the frozen
checker (`FrozenRules`) take it as it is. So one code of such a manifest may be missing from the
loader's answer, which refuses it all the same: `FrozenCodesKept` excepts the two rules that `Unread`
names. A list that is no array at all is left out, as the frozen checker may throw at it.
`LoadAnswers` is stated and not run: the semantic rules read members of values that may be no
strings and throw a TypeError where a diagnostic is due. Engine ranges are checked for each plugin,
never jointly. Keywords are kept apart only as far as an index of fixtures expects their codes.

### AppHost

Manifests and modules are the repository's own twelve plugins. `Resolve` instantiates the
definitions of `PluginResolver`; `Prepare`, `Compose`, `Instantiate`, `OnModuleInit`,
`Initialised` and `OnApplicationBootstrap` are the stages up to the boot that `PluginLifecycle`
models. `round` is the frontier of `topologicalOrder` that is being emptied: modules are composed
in the resolved order, one frontier after the other and each by instance key. A module is the tokens
it exports, needs, and takes when there are any. Apart from the finding `host_optional` the model
shows: `RBAC_POLICY` never reaches identity-core (`users.service.ts:57`), and the catalogue's
controller never sees the host, so that `GET admin/plugins` always answers "ready" without plugins:
no manifest lists either, and `PortsReach` speaks of what a manifest lists; some capabilities are
advertised without a token that binds them; notification without identity-core resolves although its
schema does not compose; timers of the dispatcher and the reconciliation start at `onModuleInit`,
before a boot that may abort.

### SchemaEvolution, ContractRegistry

A schema is an object schema over leaves, a leaf what it admits; `Write` stores any document that
the schema of its day accepts, undeclared keys under an open schema included, and `Release`
publishes any schema that the checker calls compatible under the contract's profile. The checker
compares a type, an enumeration or a pattern only where both schemas have one, passes over a
required key that neither declares, and under the two laxer profiles takes any new declaration for
an addition, although documents may hold the key already. Such keys are not kept out of the
releases: `passedOver` remembers them (`Overlooked`), and `StoredStillRead` says that a reader's
issues are at those keys only. Each part of `Overlooked` is needed: without it TLC finds a stored
document that a compatible release has made unreadable. `FallbackAgrees` is stated and not run: the
fallback of `contract-cli` does not apply the same rules as the shared checker, although
`compatibility-matrix.md` says so.

`ContractRegistry` has the directories of two versions, the binding, the lock, the index and the
generated runtime; `InitContract`, `WriteIndex` and `GenerateRuntime` write, everything else is
`Edit`, by hand. `Valid`, `IndexFresh` and `RuntimeFresh` are what CI asks. The lock is compared
for approved versions only, and a contract asked for without version is the lowest version string.

### SchemaDrift

A model is a record of sets of field names, one for each thing Prisma's datamodel says of a
field. `EditSchema`, `EditEnum`, `Deploy` (when the checks are green) and `Revert` are the App's;
`CreateIndex`, `DropIndex`, `RenameIndex` and `DropColumn` its migrations. `Statements` are what the
packages' code reads and writes, translated from the services. `Unchecked` names what green does
not cover: a required column of the App's own without default, on which `record` fails, and
`isList` of notification's fields, which its check never compares. `beyond` marks migrations that
the scan of SQL does not read (`ALTER INDEX ... RENAME`, dropped columns).

### MigrationCodemod

A file is a set of import statements; `Start`, `Visit` (one file), `Finish` and `Killed` are a run
of either codemod, for real or as a rehearsal, and `Edit` the team's. `MeaningKept` compares what
every local name stands for with what its author meant. `CleanIsClean` speaks of import
declarations: re-exports, dynamic imports and namespace imports of two of the packages are neither
rewritten nor reported, and files ending in `.mts` or `.cts` are not scanned.

### AdminConsole, AppShell

`AdminConsole` is one widget at a time: the dialogs it may open, the call in its one
`useTransition`, the row as the server has it and as the page last rendered it, another tab.
`Serve` is the server's part of a call, `Succeeds` and `Fails` the browser's. Escape closes a
dialog while its call is pending: the success then closes the dialog that was opened since, and a
new key's secret is missed (`left`, which the property allows, as the administrator left). The
dialog of the role ADMIN sends `permissionPolicy: null`, its Select being disabled, and is always
refused.

`AppShell` has the provider, the sheet, the resizer and the slot that a page's portal renders
into, in one tab beside others. A step is an event with the effects that follow; the observer and
the media listener come later. A drag goes on when the bar collapses under the pointer, and an
open sheet is open again after the screen was widened and narrowed.

## 4. The runs

Every instance is exhaustive within its bounds. The state counts are distinct states.

Several components share a run: `MCPlugins`, `MCRecords` and `MCServices` (which takes in
`MCAuth`, `MCTools` and `MCFrontend`) are sums, in which a behaviour is of one part, chosen at the
start from `RunParts` and kept. A cfg may name fewer parts: the runs of the findings are instances
of the sums with one part each. The variables of the other parts have one value all along, so a sum
has the states of its parts and nothing more, and each property is that of the parts it names.

| Run | Instance | Shows |
|---|---|---|
| `dispatcher_safety` (2.2 M states) | 2 replicas (symmetric), 1 event with 2 deliveries, batch of 2, 2 attempts, 3 leases, 1 admin retry | `OneHolder`, `OnlyHolderEnds`: leases tell replicas apart, only the holder ends an unexpired lease |
| `dispatcher_faults` (1.1 M) | 2 replicas, one without the handler; 1 delivery with a binding; 3 leases, 1 retry, 2 faults | `AttemptBudget`, `VerdictJustified`, and the refinement `LedgerSpec` of `OutboxLedger` |
| `plugins_safety` (220 k) | the lifecycle of three instances; resolver inputs; a workspace; generators; one dispatcher replica with an event of two deliveries | `HealthHonest`, `CleanShutdownReleases`, `StopsDependantsFirst`; `ProvidersFirst`, `CanonicalOrCyclic`, `NoTwoOwners`; `BuildConverges`, `DriftIsSeen`; `GeneratedSoundly`; `EverythingReturns`, `EveryDeliverySettles` |
| `lifecycle_late` (violation) | 1 instance | what a timed-out register acquires is never released |
| `lifecycle_provider` (violation) | 2 fatal instances | a shutdown during boot does not stop the boot |
| `workspace_add` (violation) | the workspace part | `add` writes what `validate` rejects |
| `records_safety` (672 k) | a mirror of 2 records; 2 logins of one identity | `OlderOnlyAfterStaleRead`, `DeletedForAReason`, `MirrorConverges`; `IdentitySound`, `LiveMappingKept`, `LoginsHeal` |
| `mirror_empty` (violation) | 1 record, 1 handler, 2 changes, no fault | a deletion nobody catches |
| `pipeline_safety` (295 k) | 2 executions, 3 envelopes of one event, 1 notification, 2 requests, 1 fault, 2 things under way at once | `ProcessedOnce`, `AnswersTrue`, `NoStaleCount`, `EveryEventNotifies`, `BellTracksInbox` |
| `identity_race` (violation) | 1 identity, its email changed, 2 logins at once, 1 removal, no fault | the stale delete leads to a second account |
| `host_optional` (violation) | every selection of the plugins | an App without audit-log resolves and does not start |
| `services_safety` (2.3 M) | the sixteen parts below | see below |

What the parts are given (schemas, tools, routes, releases, manifests, Apps, inventories) are
constants too, with values in the MC modules that the cfg names; the theorems of section 6 are
about all other values. `services_safety` by part:

| Part | Module, bounds | Property |
|---|---|---|
| access | `AccessControl`: 2 requests at once (symmetric), 3 in all, 1 failing statement; 2 accounts, 4 roles, 1 permission, 1 key | `CommitsHold`, `AssignedRolesStay` |
| exchange | `DelegatedExchange`: 2 calls at once (symmetric), 4 in all; window 3, limit, threshold and cooldown 2, 5 points in time | `ThrottleHonest` |
| webhook | `WebhookDelivery`: 1 event, clocks one tick apart either way, window and overlap 2, 3 attempts, 7 points in time | `WebhooksEndRightly` |
| schema | `SchemaEvolution`: 10 leaves under 2 properties, 3 profiles, 2 releases, 1 document | `StoredStillRead` |
| registry | `ContractRegistry`: 2 versions, 2 payload schemas, 4 edits by hand | `GreenMeansPinned` |
| auth | `RequestAuth`: 1 request at a time, 2 in all, 1 change, 1 fault, limit 1; 4 Apps, 6 routes, 7 credentials | `AnswersRightly` |
| delegated | `DelegatedAuth`: 2 requests at once (symmetric), 1 email, 1 change, 1 fault; 4 configurations, 6 tokens | `DelegatedRightly` |
| mcp | `McpServer`: 2 callers, 2 rounds, 3 states, 1 restart | `McpRightly` |
| host | `AppHost`: all selections of 12 plugins and a second instance of one | `HostSound` |
| permissions | `PermissionPlan`: 3 ids, releases of up to 2 declarations, 2 generations, an id stored twice | `DeclaredAsFrozen` |
| loader | `PluginManifest`: manifests that break one keyword and one rule, or hold a list with an item that is no string, 2 edits | `DeclaredAsFrozen` |
| menu | `NotificationMenu`: 2 notifications, 2 loads, 2 marks, 2 faults, 1 read elsewhere | `PagesHonest` |
| console | `AdminConsole`: 7 widgets, 2 calls, 1 change by another tab | `PagesHonest` |
| shell | `AppShell`: 4 widths, 2 writes of other tabs | `PagesHonest` |
| drift | `SchemaDrift`: 1 edit of any field, 2 migrations | `AppKeepsUp` |
| codemods | `MigrationCodemod`: 2 files, 1 edit, 2 runs | `AppKeepsUp` |

Why the bounds are enough:

* *Dispatcher.* Interference is between two holders of one row, so two replicas have every
  pairwise interleaving; a batch of two is the least in which the second row goes stale
  while the first is run. Three leases are a claim, the claim that overtakes it, and one
  more after that. `MaxAttempts = 2` puts the first failure on one side of the border at
  `maxAttempts - 1` and the second on the other; one admin retry takes the count beyond
  it. Two faults allow a crash after a lost answer. Bounds on replicas and rows are removed
  by the proofs. For `EveryDeliverySettles` five leases are more than any fair behaviour
  needs (two attempts for each delivery and one claim lost to the fault), so the bound
  cannot be what stops the system.
* *Lifecycle.* Three instances are the least with a predecessor, the instance itself and a
  successor; instance 2 exercises the stages without a hook.
* *Resolver.* Plugin 1 is a singleton, plugin 2 has instances, plugin 3 is an app's own and
  may replace; capabilities and requirements range over all combinations that produce
  chains, cycles, self-provision and several providers, and a second family of inputs makes
  every diagnostic appear.
* *Workspace.* Two commands with a crash and two edits: a build that died, a hand-made change,
  and the build that has to repair both. Package c needs what b gives, so that removing,
  downgrading or presetting b breaks it. *Generators.* Four items with all `before`s reach
  cycles behind a prefix; the schemas are all ways in which three plugins own and augment.
* *Mirror.* Three changes are create, delete, create: the sequence in which a stale event
  resurrects a row. Two executions, or one and a pass, overlap. The records belong to
  entity 2 behind the entity that always fails.
* *Pipeline.* Three envelopes are the original, a contradiction and a damaged copy; two
  executions race on the unique index. `MaxBusy = 2` is a bound of the instance only: two
  of the four things that may be under way (two executions, two requests) at a time, in
  every combination.
* *Identity.* The races are between two logins of one identity and an administrator; other
  identities share nothing with it but emails, which the delegated logins compete for. One
  removal makes one dangling mapping, one fault one failed transaction. The proofs remove
  the bounds on identities, emails, logins, removals and faults.
* *Access.* Races are between two transactions; the third request is the one that sees, or
  disturbs, what the race left (a role whose removal counted, a key of an account unmarked).
* *Exchange, webhook.* Limits of two are the least where a window border matters; the clock runs
  past a window, a cooldown and an overlap each. Skews reach both ends of the freshness window.
* *Schema, registry.* Two releases are the least in which each step is compatible with the last
  and the chain might not be; four edits build a locked, bound, approved version and change it.
* *Requests.* One request against a change at every await; the second request finds the limiter's
  bucket filled. Two delegated requests race to provision one email.
* *Menu.* Two loads and two marks with two failures reach the exempted rollback, the least that
  do. *Console, shell, codemods.* Two calls, writes or runs: the second meets what the first left.

Symmetry is used in `dispatcher_safety` and `services_safety` only, over replicas and over
requests of `AccessControl`, `DelegatedAuth` and `DelegatedExchange`, with invariants and action
properties that treat them alike; neither run has a liveness property. `CHECK_DEADLOCK FALSE` is set
where the system may really come to rest: a booted and stopped application, a function that has
returned, a source without further changes, clients that have made their bounded calls.

## 5. Fairness

Liveness is checked in `plugins_safety`, `records_safety` and `pipeline_safety`. The sums conjoin
the fairness of their parts, each guarded by its part. `dispatcher_safety` and `services_safety`
check safety only.

* *Dispatcher* (`Fairness`): weak fairness per replica for what its own event loop and the
  deployment drive (timer, statements in progress, restart, handlers settling); strong
  fairness for a claim that succeeds, because a claim may be passed over while another
  holds the row locks but somebody's claim then takes them; time passes. Nothing forces
  crashes, stops, administrators, or failing calls. A handler that never settles is
  excluded: the dispatcher has no timeout for it and such a replica does hang.
* *Lifecycle*: weak fairness for the runner's continuations and timers. Hooks have none;
  they may hang for ever.
* *Resolver*: weak fairness of the whole function, which is synchronous.
* *Mirror*: weak fairness for each handler execution (the outbox redelivers, as
  `EveryDeliverySettles` shows), for the pass, and for the restart of the timer. Fetch
  errors of other entities are faults and not fair; a broken entity's error is, since its
  call does return.
* *Pipeline*: weak fairness for statements and answers; strong fairness for the sender's
  retries and the interval timer only because `MaxBusy` may disable them in between.
  Users are not fair, aborts are not fair.
* *Identity*: weak fairness of each login under way, since its calls return; strong fairness
  per token for beginning a login, only because the instance lets so many run at once. The
  premise of `LoginsHeal` says that administrators come to rest and that nobody is disabled.

## 6. Proofs

All theorems hold for every value of the constants that satisfies the named assumptions. Each
proof follows the same pattern: an inductive invariant, one lemma per action or group of actions
for its preservation, a lemma that it implies the property, and a temporal step. TLC checked the
less obvious invariants on the runs' instances before they were proved.

| Module | Theorems | Assumptions |
|---|---|---|
| `DomainEventDispatcher_proofs` | `Invariance`, `TypeCorrect`, `LeaseSafety`, `CopyTheorem`, `Budget`, `Verdicts`, `HolderEnds`, `ParallelTheorem`, `Refinement` | `OutboxAssumption` |
| `PluginLifecycle_proofs` | `LifecycleInvariance`, `LifecycleTypes`, `OwnersTheorem`, `AbortTheorem`, `CleanTheorem`, `HealthTheorem`, `ReverseTheorem` | `LifecycleAssumption` |
| `MCPlugins_proofs` (resolver; workspace; generators) | `ResolverInvariance`, `ResolverTypes`, `ProvidersFirstTheorem`, `CanonicalTheorem`, `NoTwoOwnersTheorem`; `WorkspaceInvariance`, `BuildTheorem`, `DriftTheorem`; `SortingInvariance`, `GeneratedTheorem` | `ResolverAssumption`, `WorkspaceAssumption`, `GenerationAssumption` |
| `MCRecords_proofs` (mirror, identities) | `MirrorInvariance`, `MirrorTypes`, `OlderTheorem`, `DeleteTheorem`, `NeverAheadTheorem`, `IdentityInvariance`, `IdentityTypes`, `IdentityTheorem`, `OneAccountTheorem`, `KeptTheorem` | `MirrorAssumption`, `IdentityAssumption` |
| `NotificationPipeline_proofs` | `ReceiptInvariance`, `PipelineInvariance`, `PipelineTypes`, `OnceTheorem`, `AnswersTheorem`, `AtomicTheorem`, `PipelineAtomic`, `NoStaleTheorem` | `ReceiptAssumption`, `PipelineAssumption` |
| `AccessControl_proofs` | `AccessInvariance`, `AccessTypes`, `CommitsTheorem`, `AssignedTheorem` | `AccessAssumption` |
| `MCServices_proofs` (the parts of `MCServices` that answer requests and keep contracts) | `ServiceInvariance`, `ThrottleTheorem`, `WebhooksTheorem`, `SchemaTheorem`, `RegistryTheorem`, `McpTheorem`, `DelegatedTheorem`, `RequestsTheorem` | those below |
| `MCApps_proofs` (the parts an App is built from and shows) | `AppInvariance`, `PagesTheorem`, `DeclaredTheorem`, `AppsTheorem`, `HostTheorem` | those below |

Where the run is a sum, the theorem is about the sum, so that theorem and run speak of the same
definition; a part's invariant is `part = "..." => ...`, and the steps of the other parts leave
its variables alone. The mirror and access control are proved of their own specification, which
is what the sum does in that part. Four properties are proved and in no run: of the dispatcher
`CopyIsCurrent`, on which others rest, and `ParallelOnlyWhenStale`, which is `OneHolder` with what
a stale lease adds; `AtomicInbox`, of which `ProcessedOnce` and `AnswersTrue` are what one sees in
a state; and `NeverAhead`. TLC found no violation of the last two on the instances of
`pipeline_safety` and of the mirror in `records_safety`.

### What is assumed of the constants

The assumptions are named `ASSUME`s, which TLC evaluates on every run. Most say that functions
between constants have their types, that numbers are natural, and that special values are no
ordinary ones. The others:

* `LifecycleAssumption`: a provider precedes its dependants in the registration order, which
  `ProvidersFirstTheorem` proves of the resolver.
* `ResolverAssumption`: an inventory is finite, and its ids and instances are compared as numbers.
* `ThrottleAssumption`: windows, limits and thresholds are positive, as the options' validation
  (`module-options-validation.ts:39-45`) has it. `AuthAssumption` lets the limit of a key be 0.
* `DeliveryAssumption`: an answer is awaited no longer than the overlap of a rotation, and the
  skew of the clocks leaves a request that is still awaited within the freshness window. Beyond
  that the property is false (section 3, `WebhookDelivery`).
* `AuthAssumption`: a route that names the older API key guard takes keys alone.
* `DelegationAssumption`, `ToolAssumption`, `SchemaAssumption`, `ManifestAssumption`,
  `ImportAssumption`: the shape of profiles, tools, schemas, broken keywords and import statements.
  Of the loader's schema only the facets have `minProperties`.
* `GenerationAssumption`: what the generators sort has the fields the sort reads.
* `ShellAssumption`: the first width is within the bounds, the least positive.
* `SelectionAssumption`: an inventory names plugins of this repository.

### The arguments

*Dispatcher.* `OneHolder` and `CopyIsCurrent` are not inductive alone. `IInv` adds
`StageInv` (a replica has a lease exactly while it works on a batch, and a current delivery
belongs to the batch), `LeaseInv` (every lease in use was handed out before, so the next
one is fresh) and `OutcomeInv` (an outcome waiting to be written was produced by the
handler). Freshness gives `OneHolder`; that gives `CopyIsCurrent`, because nobody else can
change `attempts` of a row under the holder's lease; that gives `AttemptBudget`, because the
attempts written are those of the row and not of an older copy. Two replicas in one handler are
two leases of one row, and the older one was taken over, so it is stale
(`ParallelOnlyWhenStale`). The refinement uses `IInv` for the same reason as the budget: a
completion that lands is one failure, or one verdict, of the row as it is now.

*Lifecycle.* `LInv` says where the runner is: nothing ahead of `at` was touched (`Ahead`),
a failed fatal instance ends the boot at itself (`FatalStops`), a running hook is awaited or
was given up (`Running`), and a shutdown that began after boot has released what it is done
with (`Released`). `HInv`, for the time before any shutdown, says that the catalog agrees with the
hooks: an instance behind `at` is ready with all its stages passed, or degraded with one that
failed or was given up on. `HealthHonest` follows, late settlements included, since a hook's
stage failed for good when its timer won.

*Resolver.* `RInv` ties the loop's bookkeeping to what is ordered: an instance remains until
it is pushed, waits for what it needs and is not pushed, and what was pushed came after all
it needs. `Undoubted` reads the checks backwards: where they report nothing, a count of owners is
less than two, so that two owners are one (`NoTwoOwners`). For the canonical order `CInv` carries
a witness instead of the reference definition: a function `d` that gives what is ordered or in the
frontier the length of its longest chain of dependencies (`Depths`), while what is left needs
something of the present length or something that is left (`LaterOnes`). Each push extends `d`, so
no induction over chains is needed, and what is pushed is sorted by `d`, then by key. A set in
which all wait for each other is never pushed (`CyclesWait`), and what remains when the frontier is
empty is one.

*Workspace.* `WInv`: an artefact on disk carries the inputs it was made from (`Recorded`), no
schema on disk is the text of a failed composition (`Composed`), and of a build that ended well
everything is written but what is still queued (`HalfBuilt`). An edit or a crash makes the answer
one that is no longer claimed; `Building` speaks of the build's own writes only.

*Generators.* What is emitted is drawn from the list, each item once (`Drawn`), the counters are
the edges still open and the frontier is what waits for nothing (`Counted`), each item comes after
all that precede it (`After`), and what comes before the last one emitted had to wait for it
(`Stepwise`). That the sort throws only when there is no order is a pigeonhole argument: an order
of all items would have a first one that was not emitted, nothing before it is open, so it would
be in the frontier.

*Mirror.* `MInv` keeps the reason of a write with the writer: the event a handler holds, a change
or a deletion, was newer than the row it read, what a pass holds was newer in its list, and what it
will delete is a row it has seen and a list that is not empty leaves out. The two action properties
say that only a row that changed in between can then be overwritten or deleted by older data. How
old is a matter of what is about: `Genuine` says of every version that the source, the mirror, a
list, a due event or a handler carries that it is of one record, which has reached it. The consuming
app only copies such versions (`CopiesGenuine`), and a change makes one that nobody has had
(`ChangeGenuine`).

*Identity.* `IdInv` carries what a login knows from call to call: ids in use were handed
out (`Ids`, so a new row is never one that a login or a mapping already names), a login past
the email check has a verified token and an account with that email (`Underway`), and an
account provisioned by an identity is mapped to by it unless its mapping was dropped while
the account was there (`Provisioned`). The last gives the second half of `IdentitySound` (a link
finds no account of the identity's own making) and `OneAccountTheorem`: the stale delete of
`identity_race` is the only way to a second account.

*Receipts and the bell.* `SoleInsert`: an execution inside the business callback holds the only
uncommitted insert of its key, and no row is committed for it. The invariant is proved of
`IntegrationReceipt` alone and again of the pipeline, whose steps are receipt steps or leave
the receipts alone. For `AtomicInbox` the commit is the step that processes: by `SoleInsert` there
is no row and no callback before it. An answer is given from a committed row, which is never
rewritten, and what a failure rolls back was not visible. `BInv` says that one call of the
controller at most is the latest, on a controller that runs (`OneCall`, `LatestRuns`), that what
that call counted is free of what the reader had settled at the last refresh by hand
(`FreshCount`), and that nothing settled becomes unread (`SettledStays`), so that a count made
later is free of it, too. That is `NoStaleCount`, since only the latest call is shown.

*Access.* `AInv` says what a request under way may rely on. The rows a transaction has deleted are
of its owner and still there for everybody else, those it has inserted are new and refer to what
exists, two transactions hold different rows, and what a single write was checked for has not been
undone except in the ways the properties name.

*Windows* (exchanges and API keys). The calls let through are kept as a sequence of times; a
bucket's window began with one of them, and the Limit calls before that lie a window back
(`Began`), or the bucket was evicted and the last Limit calls began a window ago (`Rested`). So two
times Limit calls do not fit into the time of one window (`Spaced`). Circuit and log are counters
that agree with the history.

*Webhooks.* A secret that signed what is still awaited is the current one, or the previous one and
valid for as long as the answer is awaited (`Lasts`). So the request that is awaited is accepted
whenever it arrives, and an event ends otherwise by its budget only.

*Schemas.* `SchemaInv` says it key by key: the present schema admits every stored document at each
key that no release passed over, and where it is closed to readers the stored documents are of
declared keys. The step is a lemma on leaves (`LeafKept`: what one leaf admits is admitted by each
that comparison finds compatible and whose keywords were there before) and one on objects
(`ObjectKept`).

*Registry.* A lock entry is the digest of what was locked, or of nothing.

*MCP server.* A sealed state's round is the number of handler runs behind it, less one; every tool
is under its prefixed name, and every name is of a tool that has it.

*Requests, with logins, keys or exchanged tokens.* `Asked` and `Known` say what a request may be
served for and refused for, relative to the states of account, roles and key it has overlapped. A
change only adds to those states; a step of the request takes from the latest. A good login that
was refused therefore has a cause among them. Rejections have a line in the log, are in the sum of
one, or wait in a bucket.

*Pages.* What the menu shows as read is read or is of a mark under way, what a mark restores is
true unless it was made amid others (`MenuInv`); one call and one dialog, no error while a call
runs (`ConsoleInv`); the bar's width is the stored one, whether it is shown or not (`ShellInv`).

*Plans.* What is left of a plan is enough: every declaration is there or to come, what nobody
declares is retired or to be (`Enough`), and no operation retires what is in force and renamed
(`Replaced`). A plan that was stopped is made again from the table, so nothing is said of the
operations it had not reached. That package and frozen script agree but for the named differences
is by cases on a declaration's operation (`RowsAgree`), on retirements (`RetiredAlike`) and on the
codes (`CodesApart`), each definition opened on its own side.

*Loader.* No induction is needed: schema keywords have one code in both tables where an index
expects it (`CodesAgree`), the loader's rules are the frozen ones on lists it reads (`RulesApplied`,
`RulesKept`), and where nothing is broken it reads them all. Two packages that differ have
different digests, since the digest covers what the comparison covers.

*Drift.* What was deployed was green, so it has every field of every model as expected; each
statement of a package takes for granted only what the checks expect (`Documented`, by cases), but
for what `Unchecked` names.

*Codemods.* Each rewriting keeps what names mean (`Moved`, `SplitMeans`, `PagesMean`), and after it
a file is settled: neither codemod changes it and v3 has no complaint. `CodemodInv` says so of the
files a run has behind it, and of all files after a run that ended with 0.

*Host.* By stage: what is resolved has a provider for every requirement that the App does not
serve (`Graphed`), a composed module imports the modules of all instances it depends on, and those
were composed before it (`Assembling`, `Assembled`). The tables of manifests and modules are gone
through once: the tokens that some class takes are exported by the plugins that provide them, and
the manifest of a plugin that needs one lists it, but for the exception that `AcceptedStarts` names.

## 7. What is only model-checked

* The liveness properties, which are out of the prover's reach: `EveryDeliverySettles`,
  `EverythingReturns`, `MirrorConverges`, `EveryEventNotifies`, `BellTracksInbox`, `LoginsHeal`.
  That the loop of the resolver and the sort of the generators end is part of the second; that they
  end with the right answer is proved.
* The absence of deadlocks in `dispatcher_safety` and `dispatcher_faults`.
* The violations of section 9, which TLC shows by a behaviour each.
* That the fixed tables of the models (manifests and modules of the twelve plugins, what drift
  checks expect, what codemods move) are those of the code is neither checked nor proved: `map`
  names the lines to compare them with. Theorems about them go through the tables by cases and
  hold for these tables only.

## 8. What is not modelled, and why

* `common` (wiring of the host framework: Prisma, logging, pagination, error filter; stateless),
  `plugin-testkit` (test doubles that restate runner and resolver), `e2e-kit` (Playwright
  fixtures), `preset-standard` (a constant list).
* Scripts other than `contract-cli`, the codemods and the frozen checkers: build, release, canary,
  parity, audit and rehearsal scripts drive processes, package managers and repositories outside
  this one; golden files and documents are data.
* Of `contract-cli`: `sync-views`, which copies files to other checkouts (it never deletes what a
  contract no longer has, and all versions of a contract share one directory of generated files).
* Key discovery with its caches, signature algorithms, hashing of API keys, the v1 webhook
  signature, destination policy and canonical JSON: one condition of a token, a key or a request.
* Within modelled parts: payloads and their mapping, validation of inputs, formatting,
  logging and metrics; queries without effect; the paging of lists; seeds; configuration schemas
  of the host; the option `enabled: false` of the polling hook; the theme, the locale and
  components that render what they are given; a submenu's open state, which is lost when the
  sidebar collapses.
* In `OidcIdentity`: roles and the principal's claims, token verification (its result is the
  token), the find-only mode of delegated logins (a query), accounts that other tables keep
  from being removed, and a transaction that commits while its answer is lost.
* In `WebhookDelivery`: errors of the destination policy, which are thrown outside the `try`.
* In `MigrationCodemod`: a process killed inside `writeFileSync`, which leaves a truncated file.
* Time is kept as an order of events or as a few ticks, not as milliseconds. The length of the
  back-off is left out.
* The database is taken to be what it promises: single statements are atomic, unique
  indexes hold, `FOR UPDATE SKIP LOCKED` skips rows locked by others.
* Dispatch order: `seq` is assigned at INSERT and rows appear at COMMIT, and a row under
  back-off is passed over, so deliveries are not dispatched in the order of `seq`. No
  property requires it; what receives them is checked with any order.
* An instance whose manifest has no configSchema takes any `configRef` from the inventory,
  and no digest depends on it; the resolver's properties do not speak of digests.
* Starvation by disabled bindings is a hazard without a property: a delivery whose binding
  is disabled is due again at once, and a full batch of them keeps later ones waiting.
  `EveryDeliverySettles` is stated for events without binding.
* After the first `shutdown()` health is not covered by `HealthHonest`: a degraded entry
  is overwritten by `stopped`.
* `StopsDependantsFirst` speaks of the instances a `shutdown()` has in its snapshot; those that a
  boot still under way adds behind it are seen by the two violations of section 9.

## 9. Where the code and its documentation disagree

Each of these is shown by a run that finds a violation of what the text says, and quoted under
`findings` in `PROJECT.json`.

1. A comment says `started` holds the instances that own resources to release; a register
   hook that is timed out may acquire later, and nobody releases it (`lifecycle_late`).
2. A comment says a dependant must not start registering before its provider is ready;
   a `shutdown()` during boot stops the provider and the boot goes on
   (`lifecycle_provider`).
3. A comment says a skipped sweep is caught up by the delete event or the next pass; when
   the only record is deleted and the events arrive in reverse, neither does
   (`mirror_empty`).
4. The schema of `oidc_identities` says an email change must not create a second account;
   when two logins meet a dangling mapping, the slower one deletes what the faster one wrote
   and provisions by its own email (`identity_race`).
5. A comment says `add` is no laxer than `validate`; with a manifest of the expanded inventory
   missing, it skips the resolution and writes what `validate` rejects (`workspace_add`).
6. A comment says an instance boots without optional capabilities; the controllers of rbac and
   m2m-api-key cannot be built without audit-log (`host_optional`).

Smaller ones, met while modelling and without a run of their own: the comment of
`domain-events-admin.controller.ts:12-13` says that all callers must be ADMIN, and the guard asks
machine callers for scopes only; `compatibility-matrix.md` says that the CLI's fallback applies the
same rules as the checker (`FallbackAgrees`), that a change of type, pattern or declared limit
breaks, where a type or a pattern that appears draws no finding (`Overlooked`), and that an optional
property more is informational under the strict profile, where the checker calls it breaking; the
comment at `loader/validate.ts:142-147` says that one run reports both the schema violation and the
business-rule violation, and a list with an item that is no string hides two rules (`Unread`);
`schema-drift-check.ts:259-265` says that a green
schema is close enough for the package to operate correctly, and a required column of the App's own
makes `record` fail; `users.service.ts:57-58` speaks of a policy that never arrives; the header of
the v3 codemod says that unsupported constructs leave the whole file untouched and are reported, and
re-exports and dynamic imports are passed over in silence.

## 10. How to run it

```
tlc -workers 2 -config MCDispatcher_safety.cfg MCDispatcher
tlc -workers 2 -config MCServices_safety.cfg MCServices
tlapm DomainEventDispatcher_proofs.tla
```

and likewise for the other instances and proof modules. The longest passing run takes about three
minutes with two workers; `MCServices_proofs` takes about eight minutes from nothing,
`MCApps_proofs` about six, the other proof modules a few minutes at most.
