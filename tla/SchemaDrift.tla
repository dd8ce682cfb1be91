------------------------------ MODULE SchemaDrift ------------------------------
(***************************************************************************)
(* The drift checks of @appspine/domain-events and @appspine/notification: *)
(* an App owns its copy of the models and its migrations, edits them, and  *)
(* deploys what the checks find green.  The packages' statements then run  *)
(* against what was deployed.                                              *)
(*                                                                         *)
(* A model is a record of sets of field names, one for each thing that     *)
(* Prisma's datamodel says of a field ("typed": of the documented type,    *)
(* "mapped": to its name in snake case), its unique keys, and whether its  *)
(* table has the documented name.                                          *)
(***************************************************************************)
EXTENDS Naturals, FiniteSets, Sequences

CONSTANTS
    Names,                      \* of indexes
    MaxEdits, MaxMigrations     \* bounds: edits of the App's models, its migrations

VARIABLES
    app,            \* the App's models and enums
    deployed,       \* those that its checks found green
    indexes,        \* the indexes of its database: name -> [table, on]
    live,           \* those that computeLiveMigrationIndexes counts
    scoped,         \* whether the check was told the notification's table
    beyond,         \* history: a migration that the scan does not read took an index away
    schemaEdits, migrations

vars == <<app, deployed, indexes, live, scoped, beyond, schemaEdits, migrations>>

--------------------------------------------------------------------------------
(* What the checks expect. *)

Model(fields, optional, mapped, list, default, relation, unique) ==
    [fields |-> fields, typed |-> fields, optional |-> optional, mapped |-> mapped, list |-> list,
     id |-> {"id"}, default |-> default, relation |-> relation, updatedAt |-> {},
     unique |-> unique, table |-> {"documented"}]

Integration ==
    {"integrationCapabilityId", "integrationCapabilityVersion", "integrationCapabilityDigest",
     "integrationBindingId", "integrationBindingVersion", "integrationEnvelopeVersion",
     "integrationSourceApp", "integrationPayload", "integrationPayloadDigest"}
Context == {"actorUserId", "correlationId", "workflowId"}
DomainEvent ==
    LET named == {"aggregateType", "aggregateId", "eventType", "schemaVersion", "changedFields", "createdAt"}
        extra == {"before", "after", "metadata"}
    IN  Model({"id", "seq", "operation", "deliveries"} \cup named \cup extra \cup Context \cup Integration,
              extra \cup Context \cup Integration, named \cup Context \cup Integration,
              {"changedFields", "deliveries"}, {"id", "seq", "schemaVersion", "createdAt"}, {}, {})
DomainEventDelivery ==
    LET times == {"nextAttemptAt", "lockedAt", "lockedBy", "lastError", "processedAt"}
    IN  Model({"id", "eventId", "event", "handlerKey", "status", "attempts", "createdAt"} \cup times,
              times, times \cup {"eventId", "handlerKey", "createdAt"}, {},
              {"id", "status", "attempts", "createdAt"}, {"event"}, {{"eventId", "handlerKey"}})
IntegrationEventReceipt ==
    LET pinned == {"sourceApp", "eventId", "capabilityId", "capabilityVersion", "capabilityDigest",
                   "bindingId", "bindingVersion", "payloadDigest"}
    IN  Model(pinned \cup {"id", "processedAt", "createdAt"}, {}, pinned \cup {"processedAt", "createdAt"},
              {}, {"id", "processedAt", "createdAt"}, {}, {{"sourceApp", "eventId"}})
Notification ==
    LET named == {"recipientUserId", "idempotencyKey", "sourceApp", "createdAt", "updatedAt"}
        names == {"sourceEventId", "sourceEntityType", "sourceEntityId", "targetPath", "readAt", "archivedAt"}
    IN  [Model({"id", "recipient", "type", "category", "severity", "title", "body"} \cup named \cup names,
               {"category", "body"} \cup names, named \cup names, {},
               {"id", "severity", "createdAt", "updatedAt"}, {"recipient"},
               {{"recipientUserId", "idempotencyKey"}}) EXCEPT !.updatedAt = {"updatedAt"}]

Expected ==
    [DomainEvent |-> DomainEvent, DomainEventDelivery |-> DomainEventDelivery,
     IntegrationEventReceipt |-> IntegrationEventReceipt, Notification |-> Notification]
ExpectedEnums ==
    [DomainEventOperation |-> {"CREATE", "UPDATE", "DELETE"},
     DomainEventDeliveryStatus |-> {"PENDING", "PROCESSING", "PROCESSED", "DEAD_LETTER", "IGNORED"}]
Models == DOMAIN Expected
Inbox  == <<"recipientUserId", "archivedAt", "readAt", "createdAt">>
Source == <<"sourceApp", "sourceEntityType", "sourceEntityId">>

--------------------------------------------------------------------------------
(* The checks *)

(* A bug: names in the database are left to Prisma. *)
ComparedByName(m) ==
    IF m = "Notification" THEN {"typed", "optional", "id", "updatedAt", "default", "relation"}
    ELSE {"typed", "optional", "list", "id", "default", "relation"}

(* What is compared of a field; the check of notification looks at no list. *)
Compared(m) ==
    IF m = "Notification" THEN {"typed", "optional", "mapped", "id", "updatedAt", "default", "relation"}
    ELSE {"typed", "optional", "list", "mapped", "id", "default", "relation"}

FieldIssues(m) ==
    LET own == app.models[m]
        expected == Expected[m]
        compared == Compared(m)
    IN  {f \in expected.fields :
            f \notin own.fields \/ \E x \in compared : (f \in expected[x]) # (f \in own[x])}
ModelGreen(m) ==
    /\ FieldIssues(m) = {}
    /\ Expected[m].unique \subseteq app.models[m].unique
    /\ (m # "Notification" => app.models[m].table = {"documented"})
checkDomainEventSchemaDrift ==
    /\ \A m \in Models \ {"Notification"} : ModelGreen(m)
    /\ \A e \in DOMAIN ExpectedEnums : ExpectedEnums[e] \subseteq app.enums[e]
checkNotificationSchemaDrift ==
    /\ ModelGreen("Notification")
    /\ {Inbox, Source} \subseteq {live[n].on : n \in DOMAIN live}
Green == checkDomainEventSchemaDrift /\ checkNotificationSchemaDrift

--------------------------------------------------------------------------------
Init ==
    /\ app = [models |-> Expected, enums |-> ExpectedEnums] /\ deployed = app
    /\ indexes = [n \in {"a", "b"} |-> [table |-> "notifications", on |-> IF n = "a" THEN Inbox ELSE Source]]
    /\ live = indexes /\ scoped \in BOOLEAN /\ beyond = FALSE
    /\ schemaEdits = 0 /\ migrations = 0

Flip(s, x) == (s \cup {x}) \ (s \cap {x})
EditSchema ==
    /\ schemaEdits < MaxEdits /\ schemaEdits' = schemaEdits + 1
    /\ \E m \in Models :
          LET a == app.models[m]
              With(b) == app' = [app EXCEPT !.models[m] = b]
          IN  \/ \E f \in a.fields : With([x \in DOMAIN a |-> IF x \in {"unique", "table"} THEN a[x] ELSE a[x] \ {f}])
              \/ \E f \in a.fields, x \in {"typed", "optional", "mapped", "list", "default", "relation", "updatedAt"} :
                    With([a EXCEPT ![x] = Flip(@, f)])
              \/ \E x \in {"optional", "default", "typed"} :      \* a column of the App's own
                    With([a EXCEPT !.fields = @ \cup {"own"}, ![x] = @ \cup {"own"}])
              \/ \E u \in a.unique : With([a EXCEPT !.unique = @ \ {u}])
              \/ With([a EXCEPT !.table = Flip(@, "documented")])
    /\ UNCHANGED <<deployed, indexes, live, scoped, beyond, migrations>>
EditEnum ==
    /\ schemaEdits < MaxEdits /\ schemaEdits' = schemaEdits + 1
    /\ \E e \in DOMAIN ExpectedEnums : \E v \in ExpectedEnums[e] \cup {"OWN"} :
          app' = [app EXCEPT !.enums[e] = Flip(@, v)]
    /\ UNCHANGED <<deployed, indexes, live, scoped, beyond, migrations>>

(* Migrations, and computeLiveMigrationIndexes, which reads two of the statements. *)
Less(f, n) == [x \in DOMAIN f \ {n} |-> f[x]]
Put(f, n, index) == [x \in DOMAIN f \cup {n} |-> IF x = n THEN index ELSE f[x]]
Migrate ==
    /\ migrations < MaxMigrations /\ migrations' = migrations + 1
    /\ UNCHANGED <<app, deployed, scoped, schemaEdits>>
CreateIndex(n, index) ==
    /\ n \notin DOMAIN indexes /\ indexes' = Put(indexes, n, index)
    /\ live' = IF scoped /\ index.table # "notifications" THEN live ELSE Put(live, n, index)
    /\ UNCHANGED beyond /\ Migrate
DropIndex(n) ==
    /\ n \in DOMAIN indexes /\ indexes' = Less(indexes, n) /\ live' = Less(live, n)
    /\ UNCHANGED beyond /\ Migrate
(* ALTER INDEX ... RENAME, DROP TABLE and DROP COLUMN are not read. *)
RenameIndex(n, to) ==
    /\ n \in DOMAIN indexes /\ to \notin DOMAIN indexes
    /\ indexes' = Put(Less(indexes, n), to, indexes[n]) /\ beyond' = TRUE
    /\ UNCHANGED live /\ Migrate
DropColumn(c) ==
    /\ \E n \in DOMAIN indexes : \E i \in DOMAIN indexes[n].on : indexes[n].on[i] = c
    /\ indexes' = [n \in {k \in DOMAIN indexes : \A i \in DOMAIN indexes[k].on : indexes[k].on[i] # c}
                      |-> indexes[n]]
    /\ beyond' = TRUE
    /\ UNCHANGED live /\ Migrate

Deploy ==
    /\ deployed # app /\ Green /\ deployed' = app
    /\ UNCHANGED <<app, indexes, live, scoped, beyond, schemaEdits, migrations>>
Revert ==           \* the check was red
    /\ deployed # app /\ ~Green /\ app' = deployed
    /\ UNCHANGED <<deployed, indexes, live, scoped, beyond, schemaEdits, migrations>>

Next ==
    \/ EditSchema \/ EditEnum \/ Deploy \/ Revert
    \/ \E n \in Names :
          \/ DropIndex(n)
          \/ \E t \in {"notifications", "other"}, on \in {Inbox, Source} :
                CreateIndex(n, [table |-> t, on |-> on])
          \/ \E to \in Names : RenameIndex(n, to)
    \/ DropColumn("archivedAt")

Spec == Init /\ [][Next]_vars

--------------------------------------------------------------------------------
(* The packages' statements: the fields they name, write null to, write a list to or write in
   SQL, the keys they rely on, and the enum values they use. *)

Statement(model, names, nulls, lists, sql, keys, creates) ==
    [model |-> model, names |-> names, nulls |-> nulls, lists |-> lists, sql |-> sql,
     keys |-> keys, creates |-> creates]
RecordEvent ==
    Statement("DomainEvent",
              Context \cup Integration \cup {"aggregateType", "aggregateId", "eventType", "operation",
                                             "schemaVersion", "before", "after", "changedFields", "metadata"},
              Context \cup Integration, {"changedFields"}, {}, {}, TRUE)
RecordDeliveries ==
    Statement("DomainEventDelivery", {"eventId", "handlerKey"}, {}, {}, {}, {{"eventId", "handlerKey"}}, TRUE)
Claim ==
    {Statement("DomainEventDelivery", {}, {}, {},
               {"id", "eventId", "status", "nextAttemptAt", "lockedAt", "lockedBy"}, {}, FALSE),
     Statement("DomainEvent", {"seq"}, {}, {}, {"id", "seq"}, {}, FALSE)}
Complete ==
    Statement("DomainEventDelivery",
              {"id", "status", "attempts", "nextAttemptAt", "lockedAt", "lockedBy", "lastError", "processedAt"},
              {"nextAttemptAt", "lockedAt", "lockedBy", "lastError", "processedAt"}, {}, {}, {}, FALSE)
Catalog ==
    Statement("DomainEventDelivery", {"handlerKey", "status", "createdAt"}, {}, {},
              {"handlerKey", "status", "lastError", "processedAt", "nextAttemptAt", "createdAt"}, {}, FALSE)
Receive ==
    Statement("IntegrationEventReceipt",
              {"sourceApp", "eventId", "capabilityId", "capabilityVersion", "capabilityDigest",
               "bindingId", "bindingVersion", "payloadDigest"}, {}, {}, {}, {{"sourceApp", "eventId"}}, TRUE)
Notify ==
    LET nulls == {"category", "body", "sourceEventId", "sourceEntityType", "sourceEntityId", "targetPath"}
    IN  Statement("Notification",
                  nulls \cup {"recipientUserId", "idempotencyKey", "type", "severity", "title", "sourceApp"},
                  nulls, {}, {}, {{"recipientUserId", "idempotencyKey"}}, TRUE)
Read ==
    Statement("Notification", {"id", "recipientUserId", "readAt", "archivedAt", "createdAt"},
              {"readAt", "archivedAt"}, {}, {}, {}, FALSE)
Statements == {RecordEvent, RecordDeliveries, Complete, Catalog, Receive, Notify, Read} \cup Claim

Runs(s) ==
    LET m == deployed.models[s.model]
        named == s.names \cup s.sql
    IN  /\ named \subseteq m.typed
        /\ s.nulls \subseteq m.optional
        /\ s.names \cap m.list = s.lists
        /\ s.keys \subseteq m.unique
        /\ s.sql # {} => m.table = {"documented"}
        /\ s.sql \cap m.mapped = s.sql \cap Expected[s.model].mapped
        /\ s.creates => m.fields \ s.names \subseteq m.optional \cup m.list \cup m.default \cup m.relation

(* What the checks do not look at: columns of the App's own, and lists of notifications. *)
OwnColumn(m) == "own" \in deployed.models[m].fields
Unchecked(s) ==
    \/ s.creates /\ OwnColumn(s.model)
    \/ s.model = "Notification" /\ deployed.models[s.model].list # {}

(* Green checks mean that the packages' statements run on what was deployed: every field,
   column, key and enum value that one of them names is one that a check compares. *)
GreenMeansItRuns ==
    /\ \A s \in Statements : Unchecked(s) \/ Runs(s)
    /\ \A e \in DOMAIN ExpectedEnums : ExpectedEnums[e] \subseteq deployed.enums[e]

(* computeLiveMigrationIndexes: "a later migration that drops an index the contract requires is
   therefore still caught", while migrations create and drop indexes only. *)
LiveIndexesExist ==
    scoped /\ ~beyond =>
        live = [n \in {k \in DOMAIN indexes : indexes[k].table = "notifications"} |-> indexes[n]]

DriftIsCaught == GreenMeansItRuns /\ LiveIndexesExist
================================================================================
