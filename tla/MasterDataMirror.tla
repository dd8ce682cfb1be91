---------------------------- MODULE MasterDataMirror ----------------------------
(***************************************************************************)
(* A consuming app's mirror of master data (@appspine/master-data-client). *)
(* Two writers keep it: the sync handler applies one outbox event at a     *)
(* time, at least once, in any order and several at once; a reconciliation *)
(* pass compares a list fetched from the source with the mirror.  Both     *)
(* read first and write later, with no transaction around the two.         *)
(*                                                                         *)
(* A source row is represented by the seq of its last change, 0 when there *)
(* is none; so is a mirror row.                                            *)
(***************************************************************************)
EXTENDS Naturals, FiniteSets

CONSTANTS
    Ids, EntityOf,      \* source ids, and the entity 1..NEntities each belongs to
    NEntities, Broken,  \* entities, and those whose listFetcher always fails
    Handlers,           \* handler executions that may overlap
    MaxSeq,             \* bound: changes of the source
    MaxFaults           \* bound: lost events, redeliveries, empty lists, failed calls, crashes

ASSUME MirrorAssumption ==
    /\ Ids # {} /\ NEntities \in Nat \ {0} /\ EntityOf \in [Ids -> 1..NEntities]
    /\ Broken \subseteq 1..NEntities
    /\ MaxSeq \in Nat /\ MaxFaults \in Nat

Seqs == 0..MaxSeq
Rows == [Ids -> Seqs]
Event == [id : Ids, seq : Seqs, deleted : BOOLEAN]

VARIABLES
    source, seq,          \* the master-data app: its rows and the outbox sequence
    due,                  \* events not acknowledged by the consuming app
    mirror,               \* the mirror table
    job, read,            \* handler executions: event at hand, mirror row it read
    timer, pass, entity,  \* reconciliation: the interval timer, the stage of the pass
    list, existing,       \* ... the fetched list and the mirror rows it read
    upserts, sweep,       \* ... ids it has still to write or to delete
    faults

sourceVars == <<source, seq>>
jobVars    == <<job, read>>
passVars   == <<pass, entity, list, existing, upserts, sweep>>
vars == <<sourceVars, due, mirror, jobVars, timer, passVars, faults>>

None == [id |-> CHOOSE i \in Ids : TRUE, seq |-> 0, deleted |-> FALSE]
Empty == [i \in Ids |-> 0]
Of(e) == {i \in Ids : EntityOf[i] = e}
Only(rows, e) == [i \in Ids |-> IF EntityOf[i] = e THEN rows[i] ELSE 0]

TypeOK ==
    /\ source \in Rows /\ seq \in Seqs /\ mirror \in Rows /\ due \subseteq Event
    /\ job \in [Handlers -> Event] /\ read \in [Handlers -> Seqs]
    /\ timer \in BOOLEAN /\ pass \in {"idle", "fetch", "read", "write"}
    /\ entity \in 1..NEntities /\ list \in Rows /\ existing \in Rows
    /\ upserts \subseteq Ids /\ sweep \subseteq Ids /\ faults \in 0..MaxFaults

Init ==
    /\ source = Empty /\ seq = 0 /\ due = {} /\ mirror = Empty
    /\ job = [h \in Handlers |-> None] /\ read = [h \in Handlers |-> 0]
    /\ timer = TRUE /\ pass = "idle" /\ entity = 1 /\ list = Empty /\ existing = Empty
    /\ upserts = {} /\ sweep = {} /\ faults = 0

Fault == faults < MaxFaults /\ faults' = faults + 1

--------------------------------------------------------------------------------
(* The source and its outbox *)

Change(i, deleted) ==
    /\ seq < MaxSeq /\ (deleted => source[i] # 0)
    /\ seq' = seq + 1
    /\ source' = [source EXCEPT ![i] = IF deleted THEN 0 ELSE seq + 1]
    /\ due' = due \cup {[id |-> i, seq |-> seq + 1, deleted |-> deleted]}
    /\ UNCHANGED <<mirror, jobVars, timer, passVars, faults>>

(* A delivery that ends in the dead-letter state. *)
Lose(e) ==
    /\ e \in due /\ Fault
    /\ due' = due \ {e}
    /\ UNCHANGED <<sourceVars, mirror, jobVars, timer, passVars>>

--------------------------------------------------------------------------------
(* createMasterDataSyncHandler.handle *)

AppliesAlways(e, row) == TRUE      \* mutant: no seq comparison
Applies(e, row) == IF e.deleted THEN row # 0 /\ row < e.seq ELSE row < e.seq

(* findUnique; an event the row has overtaken is skipped there and then. *)
Read(h, e) ==
    /\ job[h] = None /\ e \in due
    /\ IF Applies(e, mirror[e.id])
       THEN /\ job' = [job EXCEPT ![h] = e]
            /\ read' = [read EXCEPT ![h] = mirror[e.id]]
            /\ UNCHANGED due
       ELSE due' = due \ {e} /\ UNCHANGED jobVars
    /\ UNCHANGED <<sourceVars, mirror, timer, passVars, faults>>

Done(h) ==
    /\ job' = [job EXCEPT ![h] = None]
    /\ read' = [read EXCEPT ![h] = 0]

(* upsert, or delete; deleting a row that is gone by now counts as skipped.  The
   acknowledgement may be lost, which leaves the event due. *)
Write(h) ==
    /\ job[h] # None
    /\ mirror' = [mirror EXCEPT ![job[h].id] = IF job[h].deleted THEN 0 ELSE job[h].seq]
    /\ \/ due' = due \ {job[h]} /\ UNCHANGED faults
       \/ Fault /\ UNCHANGED due
    /\ Done(h)
    /\ UNCHANGED <<sourceVars, timer, passVars>>

WriteFails(h) ==
    /\ job[h] # None /\ Fault
    /\ Done(h)
    /\ UNCHANGED <<sourceVars, due, mirror, timer, passVars>>

--------------------------------------------------------------------------------
(* MasterDataReconciliationService *)

Restart ==
    /\ ~timer
    /\ timer' = TRUE
    /\ UNCHANGED <<sourceVars, due, mirror, jobVars, passVars, faults>>

(* stop() leaves the pass in flight to itself. *)
Stop ==
    /\ timer /\ Fault
    /\ timer' = FALSE
    /\ UNCHANGED <<sourceVars, due, mirror, jobVars, passVars>>

(* reconcileAll: returns at once while `running`. *)
Tick ==
    /\ timer /\ pass = "idle"
    /\ pass' = "fetch" /\ entity' = 1
    /\ UNCHANGED <<sourceVars, due, mirror, jobVars, timer, list, existing, upserts, sweep, faults>>

Clear == list' = Empty /\ existing' = Empty /\ upserts' = {} /\ sweep' = {}

EndPass ==                         \* mutant: a failing entity ends the pass
    pass' = "idle" /\ entity' = 1 /\ Clear

OneEntityTooFar ==                  \* mutant: the loop runs past the last entity
    pass' = (IF entity > NEntities THEN "idle" ELSE "fetch") /\ entity' = entity + 1 /\ Clear

NextEntity ==
    /\ pass' = IF entity = NEntities THEN "idle" ELSE "fetch"
    /\ entity' = IF entity = NEntities THEN 1 ELSE entity + 1
    /\ Clear

EntityFails == NextEntity

(* The list is a snapshot of the source, taken when it answers. *)
Fetch ==
    /\ pass = "fetch" /\ entity \notin Broken
    /\ pass' = "read"
    /\ list' = Only(source, entity)
    /\ UNCHANGED <<sourceVars, due, mirror, jobVars, timer, entity, existing, upserts, sweep, faults>>

(* listFetcher resolves with [] instead of throwing. *)
FetchNothing ==
    /\ pass = "fetch" /\ Fault
    /\ pass' = "read"
    /\ list' = Empty
    /\ UNCHANGED <<sourceVars, due, mirror, jobVars, timer, entity, existing, upserts, sweep>>

FetchFails ==
    /\ pass = "fetch"
    /\ IF entity \in Broken THEN UNCHANGED faults ELSE Fault
    /\ EntityFails
    /\ UNCHANGED <<sourceVars, due, mirror, jobVars, timer>>

SweptButNothing(rows) == {}        \* mutant: no delete-sweep
SweptAlways(rows) == {i \in Of(entity) : rows[i] # 0 /\ list[i] = 0}    \* mutant: no guard
Swept(rows) == IF list = Empty THEN {} ELSE {i \in Of(entity) : rows[i] # 0 /\ list[i] = 0}

(* findMany; what is to be written and deleted follows from the two lists. *)
FindMany ==
    /\ pass = "read"
    /\ existing' = Only(mirror, entity)
    /\ upserts' = {i \in Of(entity) : list[i] > mirror[i]}
    /\ sweep' = Swept(mirror)
    /\ pass' = "write"
    /\ UNCHANGED <<sourceVars, due, mirror, jobVars, timer, entity, list, faults>>

Upsert(i) ==
    /\ pass = "write" /\ i \in upserts
    /\ mirror' = [mirror EXCEPT ![i] = list[i]]
    /\ upserts' = upserts \ {i}
    /\ UNCHANGED <<sourceVars, due, jobVars, timer, pass, entity, list, existing, sweep, faults>>

(* Deleting a row that is gone rejects: the entity is given up for this pass. *)
Sweep(i) ==
    /\ pass = "write" /\ upserts = {} /\ i \in sweep
    /\ mirror' = [mirror EXCEPT ![i] = 0]
    /\ IF mirror[i] = 0 THEN EntityFails
       ELSE /\ sweep' = sweep \ {i}
            /\ UNCHANGED <<pass, entity, list, existing, upserts>>
    /\ UNCHANGED <<sourceVars, due, jobVars, timer, faults>>

PassFails ==
    /\ pass \in {"read", "write"} /\ Fault
    /\ EntityFails
    /\ UNCHANGED <<sourceVars, due, mirror, jobVars, timer>>

EntityDone ==
    /\ pass = "write" /\ upserts = {} /\ sweep = {}
    /\ NextEntity
    /\ UNCHANGED <<sourceVars, due, mirror, jobVars, timer, faults>>

(* The process dies and starts again: what was in flight is gone. *)
Crash ==
    /\ Fault
    /\ job' = [h \in Handlers |-> None] /\ read' = [h \in Handlers |-> 0]
    /\ pass' = "idle" /\ entity' = 1 /\ Clear
    /\ UNCHANGED <<sourceVars, due, mirror, timer>>

--------------------------------------------------------------------------------
Handle(h) == (\E e \in due : Read(h, e)) \/ Write(h)
Reconcile ==
    \/ Tick \/ Fetch \/ FindMany \/ EntityDone
    \/ \E i \in Ids : Upsert(i) \/ Sweep(i)
    \/ entity \in Broken /\ FetchFails

Next ==
    \/ \E i \in Ids, deleted \in BOOLEAN : Change(i, deleted)
    \/ \E e \in due : Lose(e)
    \/ \E h \in Handlers : Handle(h) \/ WriteFails(h)
    \/ Reconcile
    \/ Restart \/ Stop \/ FetchNothing \/ FetchFails \/ PassFails \/ Crash

Spec == Init /\ [][Next]_vars

(* The outbox keeps delivering what is due, a restarted app starts its timer, and calls
   that do not fail answer. *)
Fairness == /\ \A h \in Handlers : WF_vars(Handle(h))
            /\ WF_vars(Reconcile) /\ WF_vars(Restart)
FairSpec == Spec /\ Fairness

--------------------------------------------------------------------------------
(* Properties *)

(* Check-then-act without a transaction: a mirror row may be overwritten with an older
   version, but only by a writer whose read is out of date. *)
OlderOnlyAfterStaleRead ==
    [][\A i \in Ids :
          0 < mirror'[i] /\ mirror'[i] < mirror[i]
          => \/ \E h \in Handlers : job[h].id = i /\ job[h].seq = mirror'[i] /\ read[h] # mirror[i]
             \/ pass = "write" /\ i \in upserts /\ existing[i] # mirror[i]]_vars

(* A row is deleted for a reason: an event says its record was deleted later than what the
   row shows, or than what the row showed when the handler read it; or a pass that has seen
   the row got a list of the entity that leaves it out and is not empty. *)
DeletedForAReason ==
    [][\A i \in Ids :
          mirror[i] # 0 /\ mirror'[i] = 0
          => \/ \E h \in Handlers : /\ job[h].id = i /\ job[h].deleted
                                    /\ (mirror[i] < job[h].seq \/ read[h] # mirror[i])
             \/ /\ i \in sweep /\ existing[i] # 0 /\ list[i] = 0
                /\ \E n \in Of(EntityOf[i]) : list[n] # 0]_vars

(* What a stale read may bring back is at worst an old version of the same record: a row
   never shows more than the source's record has reached, nor what another record is at. *)
NeverAhead ==
    /\ \A i \in Ids : mirror[i] <= seq /\ (source[i] # 0 => mirror[i] <= source[i])
    /\ \A i, j \in Ids : mirror[i] # 0 /\ mirror[i] = mirror[j] => i = j

(* Whatever was lost, delivered twice, late or out of order: once the source is quiet
   and the entity is not empty, its rows end up as in the source, although another
   entity cannot be fetched at all. *)
Agree(e) == \A i \in Of(e) : mirror[i] = source[i]
MirrorConverges ==
    \A e \in 1..NEntities \ Broken :
        <>[](\E i \in Of(e) : source[i] # 0) => <>[]Agree(e)

(* The comment on the delete-sweep's guard: "a real deletion is still caught by the
   webhook-driven delete event path, and the next successful reconciliation pass will
   still catch anything actually missed". *)
DeletionIsCaught == \A e \in 1..NEntities \ Broken : <>[]Agree(e)
================================================================================
