---------------------------- MODULE MCRecords_proofs ----------------------------
(* Rows that follow somebody else's, for every value of the constants: what the two writers of
   the mirror may do to a row, for any records, entities, overlapping handlers and faults; and
   who a login ends up as. *)
EXTENDS MCRecords, TLAPS

(* A handler at work has an event that is newer than the row it read. *)
JobInv == \A h \in Handlers : job[h] # None => read[h] < job[h].seq

(* A pass writes only what was newer in the list than in the rows it read, and deletes
   only what it has seen and a list that was not empty leaves out. *)
PassInv ==
    /\ pass \in {"read", "write"} => \A i \in Ids : list[i] # 0 => i \in Of(entity)
    /\ pass # "write" => upserts = {} /\ sweep = {}
    /\ \A i \in upserts : existing[i] < list[i]
    /\ \A i \in sweep : i \in Of(entity) /\ existing[i] # 0 /\ list[i] = 0
                       /\ \E n \in Of(entity) : list[n] # 0

MInv == TypeOK /\ JobInv /\ PassInv

(* No execution, no pass, no row. *)
LEMMA InitMInv == Init => MInv
<1>1. None \in Event BY MirrorAssumption DEF None, Event, Seqs
<1>2. QED
  BY <1>1, MirrorAssumption DEF Init, MInv, TypeOK, JobInv, PassInv, Rows, Seqs, Empty

(* The end of an entity clears what the pass held. *)
LEMMA NextEntityStep ==
  ASSUME MInv, NextEntity
  PROVE  /\ pass' \in {"idle", "fetch"} /\ entity' \in 1..NEntities
         /\ list' \in Rows /\ existing' \in Rows /\ upserts' = {} /\ sweep' = {}
         /\ PassInv'
<1>1. entity \in 1..NEntities /\ NEntities \in Nat \ {0} BY MirrorAssumption DEF MInv, TypeOK
<1>2. /\ pass' \in {"idle", "fetch"} /\ entity' \in 1..NEntities
      /\ list' \in Rows /\ existing' \in Rows /\ upserts' = {} /\ sweep' = {}
  BY <1>1, MirrorAssumption DEF NextEntity, Clear, Empty, Rows, Seqs
<1>3. QED BY <1>2 DEF PassInv

(* The source and its outbox touch neither executions nor passes. *)
LEMMA SourceStep ==
  ASSUME MInv,
         \/ \E i \in Ids, deleted \in BOOLEAN : Change(i, deleted)
         \/ \E e \in due : Lose(e)
  PROVE  MInv'
<1>1. UNCHANGED <<mirror, jobVars, timer, passVars>> BY DEF Change, Lose
<1>2. JobInv' /\ PassInv' BY <1>1 DEF MInv, JobInv, PassInv, jobVars, passVars, Of
<1>3. ASSUME NEW i \in Ids, NEW deleted \in BOOLEAN, Change(i, deleted) PROVE TypeOK'
  <2>1. seq + 1 \in Seqs BY <1>3, MirrorAssumption DEF Change, MInv, TypeOK, Seqs
  <2>2. QED
    BY <1>1, <1>3, <2>1, MirrorAssumption
    DEF Change, MInv, TypeOK, Rows, Event, Seqs, jobVars, passVars
<1>4. ASSUME NEW e \in due, Lose(e) PROVE TypeOK'
  BY <1>1, <1>4, MirrorAssumption DEF Lose, Fault, MInv, TypeOK, jobVars, passVars, sourceVars
<1>5. QED BY <1>2, <1>3, <1>4 DEF MInv

(* A handler's read decides on what it writes. *)
LEMMA ReadStep ==
  ASSUME MInv, NEW h \in Handlers, NEW e \in due, Read(h, e)
  PROVE  MInv'
<1>1. UNCHANGED <<sourceVars, mirror, timer, passVars, faults>> BY DEF Read
<1>2. e \in Event /\ mirror[e.id] \in Seqs BY DEF MInv, TypeOK, Event, Rows
<1>3. CASE Applies(e, mirror[e.id])
  <2>1. /\ job' = [job EXCEPT ![h] = e] /\ read' = [read EXCEPT ![h] = mirror[e.id]]
        /\ UNCHANGED due
    BY <1>3 DEF Read
  <2>2. TypeOK' BY <1>1, <1>2, <2>1 DEF MInv, TypeOK, sourceVars, passVars
  <2>3. mirror[e.id] < e.seq BY <1>3 DEF Applies
  <2>4. JobInv' BY <2>1, <2>3 DEF MInv, TypeOK, JobInv
  <2>5. PassInv' BY <1>1 DEF MInv, PassInv, passVars, Of
  <2>6. QED BY <2>2, <2>4, <2>5 DEF MInv
<1>4. CASE ~Applies(e, mirror[e.id])
  <2>1. due' = due \ {e} /\ UNCHANGED jobVars BY <1>4 DEF Read
  <2>2. QED
    BY <1>1, <2>1 DEF MInv, TypeOK, JobInv, PassInv, sourceVars, jobVars, passVars, Of
<1>5. QED BY <1>3, <1>4

(* A handler that writes or fails is done. *)
LEMMA WriteStep ==
  ASSUME MInv, NEW h \in Handlers, Write(h) \/ WriteFails(h)
  PROVE  MInv'
<1>1. UNCHANGED <<sourceVars, timer, passVars>> /\ Done(h) BY DEF Write, WriteFails
<1>2. None \in Event BY MirrorAssumption DEF None, Event, Seqs
<1>3. mirror' \in Rows
  BY MirrorAssumption DEF Write, WriteFails, MInv, TypeOK, Rows, Seqs, Event
<1>4. due' \subseteq Event /\ faults' \in 0..MaxFaults
  BY MirrorAssumption DEF Write, WriteFails, Fault, MInv, TypeOK
<1>5. TypeOK'
  BY <1>1, <1>2, <1>3, <1>4, MirrorAssumption DEF MInv, TypeOK, Done, Seqs, sourceVars, passVars
<1>6. JobInv' BY <1>1 DEF MInv, TypeOK, JobInv, Done
<1>7. PassInv' BY <1>1 DEF MInv, PassInv, passVars, Of
<1>8. QED BY <1>5, <1>6, <1>7 DEF MInv

(* The timer starts, stops and begins a pass. *)
LEMMA TimerStep ==
  ASSUME MInv, Restart \/ Stop \/ Tick
  PROVE  MInv'
<1>1. UNCHANGED <<sourceVars, due, mirror, jobVars, list, existing, upserts, sweep>>
  BY DEF Restart, Stop, Tick, passVars
<1>2. faults' \in 0..MaxFaults
  BY MirrorAssumption DEF Restart, Stop, Tick, Fault, MInv, TypeOK
<1>3. timer' \in BOOLEAN
  <2>1. timer' = TRUE \/ timer' = FALSE \/ timer' = timer BY DEF Restart, Stop, Tick
  <2>2. QED BY <2>1 DEF MInv, TypeOK
<1>4. CASE Restart \/ Stop
  <2>1. UNCHANGED <<pass, entity>> BY <1>4 DEF Restart, Stop, passVars
  <2>2. QED
    BY <1>1, <1>2, <1>3, <2>1 DEF MInv, TypeOK, JobInv, PassInv, sourceVars, jobVars, Of
<1>5. CASE Tick
  <2>1. pass = "idle" /\ pass' = "fetch" /\ entity' = 1 BY <1>5 DEF Tick
  <2>2. 1 \in 1..NEntities BY MirrorAssumption
  <2>3. QED
    BY <1>1, <1>2, <1>3, <2>1, <2>2 DEF MInv, TypeOK, JobInv, PassInv, sourceVars, jobVars
<1>6. QED BY <1>4, <1>5

(* A list is of one entity. *)
LEMMA FetchStep ==
  ASSUME MInv, Fetch \/ FetchNothing
  PROVE  MInv'
<1>1. /\ pass = "fetch" /\ pass' = "read"
      /\ UNCHANGED <<sourceVars, due, mirror, jobVars, timer, entity, existing, upserts, sweep>>
  BY DEF Fetch, FetchNothing
<1>2. faults' \in 0..MaxFaults BY MirrorAssumption DEF Fetch, FetchNothing, Fault, MInv, TypeOK
<1>3. list' \in Rows /\ \A i \in Ids : list'[i] # 0 => i \in Of(entity)
  BY MirrorAssumption
  DEF Fetch, FetchNothing, Only, Empty, Of, MInv, TypeOK, Rows, Seqs
<1>4. TypeOK' BY <1>1, <1>2, <1>3 DEF MInv, TypeOK, sourceVars, jobVars
<1>5. JobInv' BY <1>1 DEF MInv, JobInv, jobVars
<1>6. PassInv' BY <1>1, <1>3 DEF MInv, PassInv, Of
<1>7. QED BY <1>4, <1>5, <1>6 DEF MInv

(* What is to be written or deleted follows from the list and the rows read. *)
LEMMA FindManyStep ==
  ASSUME MInv, FindMany
  PROVE  MInv'
<1>1. /\ pass = "read" /\ pass' = "write"
      /\ UNCHANGED <<sourceVars, due, mirror, jobVars, timer, entity, list, faults>>
      /\ existing' = Only(mirror, entity) /\ sweep' = Swept(mirror)
      /\ upserts' = {i \in Of(entity) : list[i] > mirror[i]}
  BY DEF FindMany
<1>2. list \in Rows /\ mirror \in Rows BY DEF MInv, TypeOK
<1>3. existing' \in Rows /\ \A i \in Of(entity) : existing'[i] = mirror[i]
  BY <1>1, <1>2, MirrorAssumption DEF Only, Of, Rows, Seqs
<1>4. \A i \in upserts' : existing'[i] < list[i]
  BY <1>1, <1>2, <1>3, MirrorAssumption DEF Of, Rows, Seqs
<1>5. ASSUME NEW i \in sweep'
      PROVE  i \in Of(entity) /\ existing'[i] # 0 /\ list[i] = 0 /\ \E n \in Of(entity) : list[n] # 0
  <2>1. list # Empty /\ i \in Of(entity) /\ existing'[i] # 0 /\ list[i] = 0
    BY <1>1, <1>3, <1>5 DEF Swept
  <2>2. PICK n \in Ids : list[n] # 0 BY <1>2, <2>1 DEF Rows, Empty
  <2>3. n \in Of(entity) BY <1>1, <2>2 DEF MInv, PassInv
  <2>4. QED BY <2>1, <2>2, <2>3
<1>6. sweep' \subseteq Ids /\ upserts' \subseteq Ids BY <1>1, <1>5 DEF Of
<1>7. TypeOK' BY <1>1, <1>3, <1>6 DEF MInv, TypeOK, sourceVars, jobVars
<1>8. PassInv'
  <2>1. Of(entity)' = Of(entity) BY <1>1 DEF Of
  <2>2. QED BY <1>1, <1>4, <1>5, <2>1 DEF MInv, PassInv
<1>9. JobInv' BY <1>1 DEF MInv, JobInv, jobVars
<1>10. QED BY <1>7, <1>8, <1>9 DEF MInv

(* Writing and deleting take away from what is to be written and deleted. *)
LEMMA PassWriteStep ==
  ASSUME MInv, NEW i \in Ids, Upsert(i) \/ Sweep(i)
  PROVE  MInv'
<1>1. UNCHANGED <<sourceVars, due, jobVars, timer, faults>> BY DEF Upsert, Sweep
<1>2. mirror' \in Rows BY MirrorAssumption DEF Upsert, Sweep, MInv, TypeOK, Rows, Seqs
<1>3. JobInv' BY <1>1 DEF MInv, JobInv, jobVars
<1>4. CASE NextEntity
  BY <1>1, <1>2, <1>3, <1>4, NextEntityStep DEF MInv, TypeOK, sourceVars, jobVars
<1>5. CASE ~NextEntity
  <2>1. /\ pass = "write" /\ UNCHANGED <<pass, entity, list, existing>>
        /\ upserts' \subseteq upserts /\ sweep' \subseteq sweep
    BY <1>5 DEF Upsert, Sweep, EntityFails
  <2>2. TypeOK' BY <1>1, <1>2, <2>1 DEF MInv, TypeOK, sourceVars, jobVars
  <2>3. Of(entity)' = Of(entity) BY <2>1 DEF Of
  <2>4. PassInv' BY <2>1, <2>3 DEF MInv, PassInv
  <2>5. QED BY <1>3, <2>2, <2>4 DEF MInv
<1>6. QED BY <1>4, <1>5

(* An entity that is done or fails leaves nothing behind. *)
LEMMA PassEndStep ==
  ASSUME MInv, FetchFails \/ PassFails \/ EntityDone
  PROVE  MInv'
<1>1. UNCHANGED <<sourceVars, due, mirror, jobVars, timer>> /\ NextEntity
  BY DEF FetchFails, PassFails, EntityDone, EntityFails
<1>2. faults' \in 0..MaxFaults
  BY MirrorAssumption DEF FetchFails, PassFails, EntityDone, Fault, MInv, TypeOK
<1>3. JobInv' BY <1>1 DEF MInv, JobInv, jobVars
<1>4. TypeOK' /\ PassInv'
  BY <1>1, <1>2, NextEntityStep DEF MInv, TypeOK, sourceVars, jobVars
<1>5. QED BY <1>3, <1>4 DEF MInv

(* Nor does a crash. *)
LEMMA CrashStep ==
  ASSUME MInv, Crash
  PROVE  MInv'
<1>1. None \in Event /\ 1 \in 1..NEntities /\ 0 \in Seqs /\ Empty \in Rows
  BY MirrorAssumption DEF None, Event, Seqs, Empty, Rows
<1>2. faults' \in 0..MaxFaults BY MirrorAssumption DEF Crash, Fault, MInv, TypeOK
<1>3. TypeOK' BY <1>1, <1>2 DEF Crash, Clear, MInv, TypeOK, sourceVars
<1>4. JobInv' /\ PassInv' BY DEF Crash, Clear, JobInv, PassInv
<1>5. QED BY <1>3, <1>4 DEF MInv

(* Every step preserves the inductive invariant. *)
LEMMA MirrorStep ==
  ASSUME MInv, [Next]_vars PROVE MInv'
<1>1. CASE UNCHANGED vars
  BY <1>1 DEF vars, MInv, TypeOK, JobInv, PassInv, sourceVars, jobVars, passVars, Of
<1>2. CASE Next
  BY <1>2, SourceStep, ReadStep, WriteStep, TimerStep, FetchStep, FindManyStep, PassWriteStep,
     PassEndStep, CrashStep DEF Next, Handle, Reconcile
<1>3. QED BY <1>1, <1>2

(* Types, what a handler still has to write, what a pass still has to write or delete. *)
THEOREM MirrorInvariance == Spec => []MInv
  BY InitMInv, MirrorStep, PTL DEF Spec

(* The sync handler and the reconciliation service keep every variable in its type. *)
THEOREM MirrorTypes == Spec => []TypeOK
  BY MirrorInvariance, PTL DEF MInv

(* The three writes of a mirror row. *)
LEMMA MirrorWriters ==
  ASSUME [Next]_vars
  PROVE  \/ UNCHANGED mirror
         \/ \E h \in Handlers : Write(h)
         \/ \E i \in Ids : Upsert(i) \/ Sweep(i)
  BY DEF Next, vars, Change, Lose, Handle, Read, WriteFails, Reconcile, Restart, Stop, Tick,
         Fetch, FetchNothing, FetchFails, FindMany, PassFails, EntityDone, Crash

(* What a write of a row may do to it. *)
OlderWrite(i) ==
    0 < mirror'[i] /\ mirror'[i] < mirror[i]
    => \/ \E h \in Handlers : job[h].id = i /\ job[h].seq = mirror'[i] /\ read[h] # mirror[i]
       \/ pass = "write" /\ i \in upserts /\ existing[i] # mirror[i]
ReasonedDelete(i) ==
    mirror[i] # 0 /\ mirror'[i] = 0
    => \/ \E h \in Handlers : /\ job[h].id = i /\ job[h].deleted
                              /\ (mirror[i] < job[h].seq \/ read[h] # mirror[i])
       \/ /\ i \in sweep /\ existing[i] # 0 /\ list[i] = 0
          /\ \E n \in Of(EntityOf[i]) : list[n] # 0

(* Every write of a row is an allowed one. *)
LEMMA WriteEffect ==
  ASSUME MInv, [Next]_vars, NEW i \in Ids
  PROVE  OlderWrite(i) /\ ReasonedDelete(i)
<1>1. mirror \in Rows /\ list \in Rows /\ existing \in Rows /\ mirror[i] \in Nat
  BY MirrorAssumption DEF MInv, TypeOK, Rows, Seqs
<1>2. CASE UNCHANGED mirror
  BY <1>1, <1>2 DEF OlderWrite, ReasonedDelete
<1>3. ASSUME NEW h \in Handlers, Write(h) PROVE OlderWrite(i) /\ ReasonedDelete(i)
  <2>1. mirror' = [mirror EXCEPT ![job[h].id] = IF job[h].deleted THEN 0 ELSE job[h].seq]
    BY <1>3 DEF Write
  <2>2. read[h] < job[h].seq BY <1>3 DEF Write, MInv, JobInv
  <2>3. job[h].seq \in Nat /\ read[h] \in Nat /\ job[h].id \in Ids /\ job[h].deleted \in BOOLEAN
    BY MirrorAssumption DEF MInv, TypeOK, Event, Seqs
  <2>4. CASE job[h].id # i
    BY <1>1, <2>1, <2>4 DEF OlderWrite, ReasonedDelete, Rows
  <2>5. CASE job[h].id = i /\ job[h].deleted
    <3>1. mirror'[i] = 0 BY <1>1, <2>1, <2>5 DEF Rows
    <3>2. mirror[i] < job[h].seq \/ read[h] # mirror[i] BY <2>2
    <3>3. QED BY <2>5, <3>1, <3>2 DEF OlderWrite, ReasonedDelete
  <2>6. CASE job[h].id = i /\ ~job[h].deleted
    <3>1. mirror'[i] = job[h].seq /\ read[h] < job[h].seq BY <1>1, <2>1, <2>2, <2>6 DEF Rows
    <3>2. mirror'[i] # 0 BY <2>3, <3>1
    <3>3. mirror'[i] < mirror[i] => read[h] # mirror[i] BY <1>1, <2>3, <3>1
    <3>4. QED BY <2>6, <3>1, <3>2, <3>3 DEF OlderWrite, ReasonedDelete
  <2>7. QED BY <2>3, <2>4, <2>5, <2>6
<1>4. ASSUME NEW j \in Ids, Upsert(j) PROVE OlderWrite(i) /\ ReasonedDelete(i)
  <2>1. mirror' = [mirror EXCEPT ![j] = list[j]] /\ pass = "write" /\ j \in upserts
    BY <1>4 DEF Upsert
  <2>2. existing[j] < list[j] /\ list[j] \in Nat /\ existing[j] \in Nat
    BY <1>1, <2>1, MirrorAssumption DEF MInv, PassInv, Rows, Seqs
  <2>3. CASE j # i
    BY <1>1, <2>1, <2>3 DEF OlderWrite, ReasonedDelete, Rows
  <2>4. CASE j = i
    <3>1. mirror'[i] = list[i] /\ mirror'[i] # 0 BY <1>1, <2>1, <2>2, <2>4 DEF Rows
    <3>2. mirror'[i] < mirror[i] => existing[i] # mirror[i] BY <1>1, <2>2, <2>4, <3>1
    <3>3. QED BY <2>1, <2>4, <3>1, <3>2 DEF OlderWrite, ReasonedDelete
  <2>5. QED BY <2>3, <2>4
<1>5. ASSUME NEW j \in Ids, Sweep(j) PROVE OlderWrite(i) /\ ReasonedDelete(i)
  <2>1. mirror' = [mirror EXCEPT ![j] = 0] /\ j \in sweep BY <1>5 DEF Sweep
  <2>2. EntityOf[j] = entity /\ existing[j] # 0 /\ list[j] = 0 /\ \E n \in Of(entity) : list[n] # 0
    BY <2>1 DEF MInv, PassInv, Of
  <2>3. CASE j # i
    BY <1>1, <2>1, <2>3 DEF OlderWrite, ReasonedDelete, Rows
  <2>4. CASE j = i
    <3>1. mirror'[i] = 0 BY <1>1, <2>1, <2>4 DEF Rows
    <3>2. QED BY <2>1, <2>2, <2>4, <3>1 DEF OlderWrite, ReasonedDelete
  <2>5. QED BY <2>3, <2>4
<1>6. QED BY <1>2, <1>3, <1>4, <1>5, MirrorWriters

(* A row is overwritten with an older version only by a writer whose read is stale. *)
THEOREM OlderTheorem == Spec => OlderOnlyAfterStaleRead
<1>1. MInv /\ [Next]_vars
      => [\A i \in Ids :
            0 < mirror'[i] /\ mirror'[i] < mirror[i]
            => \/ \E h \in Handlers : job[h].id = i /\ job[h].seq = mirror'[i]
                    /\ read[h] # mirror[i]
               \/ pass = "write" /\ i \in upserts /\ existing[i] # mirror[i]]_vars
  BY WriteEffect DEF OlderWrite
<1>2. QED BY <1>1, MirrorInvariance, PTL DEF Spec, OlderOnlyAfterStaleRead

(* A row is deleted because of a deletion event that is newer than the row, or than the row
   was when it was read, or because a list that was not empty left a row out that the pass
   has seen. *)
THEOREM DeleteTheorem == Spec => DeletedForAReason
<1>1. MInv /\ [Next]_vars
      => [\A i \in Ids :
            mirror[i] # 0 /\ mirror'[i] = 0
            => \/ \E h \in Handlers : /\ job[h].id = i /\ job[h].deleted
                                      /\ (mirror[i] < job[h].seq \/ read[h] # mirror[i])
               \/ /\ i \in sweep /\ existing[i] # 0 /\ list[i] = 0
                  /\ \E n \in Of(EntityOf[i]) : list[n] # 0]_vars
  BY WriteEffect DEF ReasonedDelete
<1>2. QED BY <1>1, MirrorInvariance, PTL DEF Spec, DeletedForAReason

(* The versions of record i that are still about: the source's, the mirror's, those a list, a
   due event or a handler's event carry. *)
Version(i, n) ==
    /\ n # 0
    /\ \/ source[i] = n \/ mirror[i] = n \/ list[i] = n
       \/ \E e \in due : ~e.deleted /\ e.id = i /\ e.seq = n
       \/ \E h \in Handlers : ~job[h].deleted /\ job[h].id = i /\ job[h].seq = n

(* A version is of one record, which has not been at a later one since and is not behind it. *)
Genuine ==
    \A i \in Ids, n \in Seqs :
        Version(i, n) => /\ n <= seq /\ (source[i] # 0 => n <= source[i])
                         /\ \A j \in Ids : Version(j, n) => i = j

(* Steps of the consuming app keep it if they write only what is about. *)
LEMMA CopiesGenuine ==
  ASSUME Genuine, UNCHANGED sourceVars, due' \subseteq due,
         \A i \in Ids : mirror'[i] # 0 => Version(i, mirror'[i]),
         \A i \in Ids : list'[i] # 0 => Version(i, list'[i]),
         \A h \in Handlers : ~job'[h].deleted /\ job'[h].seq # 0 => Version(job'[h].id, job'[h].seq)
  PROVE  Genuine'
<1>1. UNCHANGED source /\ UNCHANGED seq BY DEF sourceVars
<1>2. ASSUME NEW i \in Ids, NEW n \in Seqs, Version(i, n)' PROVE Version(i, n)
  <2>1. n # 0 /\ (source[i] = n => Version(i, n)) BY <1>2 DEF Version
  <2>2. CASE source[i] = n \/ mirror'[i] = n \/ list'[i] = n BY <2>1, <2>2
  <2>3. CASE \E e \in due : ~e.deleted /\ e.id = i /\ e.seq = n BY <2>1, <2>3 DEF Version
  <2>4. CASE \E h \in Handlers : ~job'[h].deleted /\ job'[h].id = i /\ job'[h].seq = n
    BY <2>1, <2>4
  <2>5. QED BY <1>1, <1>2, <2>2, <2>3, <2>4 DEF Version
<1>3. QED BY <1>1, <1>2 DEF Genuine

(* A change makes one version that nobody has had, and leaves the others behind it. *)
LEMMA ChangeGenuine ==
  ASSUME MInv, Genuine, NEW i \in Ids, NEW deleted \in BOOLEAN, Change(i, deleted)
  PROVE  Genuine'
<1>1. /\ seq' = seq + 1 /\ seq \in Nat
      /\ source' = [source EXCEPT ![i] = IF deleted THEN 0 ELSE seq + 1]
      /\ UNCHANGED <<mirror, job, list>>
      /\ due' = due \cup {[id |-> i, seq |-> seq + 1, deleted |-> deleted]}
  BY DEF Change, jobVars, passVars, MInv, TypeOK, Seqs
<1>2. source \in Rows /\ \A j \in Ids : source[j] \in Nat BY DEF MInv, TypeOK, Rows, Seqs
<1>3. ASSUME NEW j \in Ids, NEW n \in Seqs, Version(j, n)'
      PROVE  Version(j, n) \/ (j = i /\ n = seq + 1 /\ ~deleted)
  <2>1. source'[j] = n => source[j] = n \/ (j = i /\ n = seq + 1 /\ ~deleted)
    BY <1>1, <1>2, <1>3 DEF Version, Rows
  <2>2. ASSUME NEW e \in due', ~e.deleted, e.id = j, e.seq = n
        PROVE  e \in due \/ (j = i /\ n = seq + 1 /\ ~deleted)
    BY <1>1, <2>2
  <2>3. QED BY <1>1, <1>3, <2>1, <2>2 DEF Version
<1>4. ASSUME NEW j \in Ids, NEW n \in Seqs, Version(j, n)
      PROVE  n <= seq /\ n < seq' /\ (source'[j] # 0 => n <= source'[j])
  <2>1. n \in Nat /\ n <= seq /\ (source[j] # 0 => n <= source[j]) BY <1>4 DEF Genuine, Seqs
  <2>2. source'[j] = source[j] \/ source'[j] = 0 \/ source'[j] = seq + 1
    BY <1>1, <1>2 DEF Rows
  <2>3. QED BY <1>1, <1>2, <2>1, <2>2
<1>5. ~deleted => source'[i] = seq + 1 BY <1>1, <1>2 DEF Rows
<1>6. ASSUME NEW j \in Ids, NEW n \in Seqs, Version(j, n)'
      PROVE  /\ n <= seq' /\ (source'[j] # 0 => n <= source'[j])
             /\ \A m \in Ids : Version(m, n)' => j = m
  <2>1. CASE Version(j, n)
    <3>1. n # seq + 1 BY <1>1, <1>4, <2>1 DEF Seqs
    <3>2. \A m \in Ids : Version(m, n)' => Version(m, n) BY <1>3, <3>1
    <3>3. QED BY <1>1, <1>4, <2>1, <3>2 DEF Genuine, Seqs
  <2>2. CASE j = i /\ n = seq + 1 /\ ~deleted
    <3>1. \A m \in Ids : ~Version(m, n) BY <1>1, <1>4, <2>2
    <3>2. QED BY <1>1, <1>3, <1>5, <2>2, <3>1
  <2>3. QED BY <1>3, <1>6, <2>1, <2>2
<1>7. QED BY <1>6 DEF Genuine

(* What is about, by where it is. *)
LEMMA VersionsAbout ==
  /\ \A i \in Ids : /\ source[i] # 0 => Version(i, source[i])
                    /\ mirror[i] # 0 => Version(i, mirror[i])
                    /\ list[i] # 0 => Version(i, list[i])
  /\ \A e \in due : ~e.deleted /\ e.seq # 0 => Version(e.id, e.seq)
  /\ \A h \in Handlers : ~job[h].deleted /\ job[h].seq # 0 => Version(job[h].id, job[h].seq)
  BY DEF Version

(* The handlers write what their events say. *)
LEMMA HandlerGenuine ==
  ASSUME MInv, Genuine, NEW h \in Handlers,
         (\E e \in due : Read(h, e)) \/ Write(h) \/ WriteFails(h)
  PROVE  Genuine'
<1>1. UNCHANGED sourceVars /\ UNCHANGED list /\ due' \subseteq due
  BY DEF Read, Write, WriteFails, passVars
<1>2. \A i \in Ids : mirror'[i] # 0 => Version(i, mirror'[i])
  <2>1. CASE Write(h)
    <3>1. /\ mirror' = [mirror EXCEPT ![job[h].id] = IF job[h].deleted THEN 0 ELSE job[h].seq]
          /\ mirror \in Rows
      BY <2>1 DEF Write, MInv, TypeOK
    <3>2. \A i \in Ids : \/ mirror'[i] = mirror[i] \/ mirror'[i] = 0
                         \/ i = job[h].id /\ ~job[h].deleted /\ mirror'[i] = job[h].seq
      BY <3>1 DEF Rows
    <3>3. QED BY <3>2, VersionsAbout
  <2>2. CASE ~Write(h)
    <3>1. UNCHANGED mirror BY <2>2 DEF Read, WriteFails
    <3>2. QED BY <3>1, VersionsAbout
  <2>3. QED BY <2>1, <2>2
<1>3. ASSUME NEW g \in Handlers
      PROVE  \/ job'[g] = job[g] \/ job'[g] = None
             \/ \E e \in due : job'[g] = e
  <2>1. \/ UNCHANGED job \/ job' = [job EXCEPT ![h] = None]
        \/ \E e \in due : job' = [job EXCEPT ![h] = e]
    BY DEF Read, Write, WriteFails, Done, jobVars
  <2>2. job \in [Handlers -> Event] BY DEF MInv, TypeOK
  <2>3. QED BY <2>1, <2>2
<1>4. ASSUME NEW g \in Handlers, ~job'[g].deleted, job'[g].seq # 0
      PROVE  Version(job'[g].id, job'[g].seq)
  <2>1. job'[g] # None BY <1>4 DEF None
  <2>2. CASE job'[g] = job[g] BY <1>4, <2>2, VersionsAbout
  <2>3. CASE \E e \in due : job'[g] = e BY <1>4, <2>3, VersionsAbout
  <2>4. QED BY <1>3, <2>1, <2>2, <2>3
<1>5. \A i \in Ids : list'[i] # 0 => Version(i, list'[i]) BY <1>1, VersionsAbout
<1>6. QED BY <1>1, <1>2, <1>4, <1>5, CopiesGenuine

(* The pass lists what the source has, and writes what it listed. *)
LEMMA PassGenuine ==
  ASSUME MInv, Genuine,
         \/ Fetch \/ FetchNothing \/ FindMany \/ Tick \/ Restart \/ Stop \/ Crash
         \/ FetchFails \/ PassFails \/ EntityDone \/ \E i \in Ids : Upsert(i) \/ Sweep(i)
  PROVE  Genuine'
<1>1. UNCHANGED sourceVars /\ due' \subseteq due
  BY DEF Fetch, FetchNothing, FindMany, Tick, Restart, Stop, Crash, FetchFails, PassFails,
         EntityDone, Upsert, Sweep
<1>2. UNCHANGED job \/ job' = [g \in Handlers |-> None]
  BY DEF Fetch, FetchNothing, FindMany, Tick, Restart, Stop, Crash, FetchFails, PassFails,
         EntityDone, Upsert, Sweep, jobVars
<1>3. \A g \in Handlers : ~job'[g].deleted /\ job'[g].seq # 0 => Version(job'[g].id, job'[g].seq)
  BY <1>2, VersionsAbout DEF None
<1>4. UNCHANGED list \/ list' = Empty \/ list' = Only(source, entity)
  BY DEF Fetch, FetchNothing, FindMany, Tick, Restart, Stop, Crash, FetchFails, PassFails,
         EntityDone, Upsert, Sweep, EntityFails, NextEntity, Clear, passVars
<1>5. \A i \in Ids : list'[i] # 0 => Version(i, list'[i])
  BY <1>4, VersionsAbout DEF Empty, Only
<1>6. UNCHANGED mirror \/ \E i \in Ids : mirror' = [mirror EXCEPT ![i] = list[i]]
                                         \/ mirror' = [mirror EXCEPT ![i] = 0]
  BY DEF Fetch, FetchNothing, FindMany, Tick, Restart, Stop, Crash, FetchFails, PassFails,
         EntityDone, Upsert, Sweep
<1>7. \A i \in Ids : mirror'[i] # 0 => Version(i, mirror'[i])
  <2>1. mirror \in Rows BY DEF MInv, TypeOK
  <2>2. \A i \in Ids : mirror'[i] = mirror[i] \/ mirror'[i] = list[i] \/ mirror'[i] = 0
    BY <1>6, <2>1 DEF Rows
  <2>3. QED BY <2>2, VersionsAbout
<1>8. QED BY <1>1, <1>3, <1>5, <1>7, CopiesGenuine

LEMMA GenuineStep ==
  ASSUME MInv, Genuine, [Next]_vars PROVE Genuine'
<1>1. CASE UNCHANGED vars
  BY <1>1 DEF vars, sourceVars, jobVars, passVars, Genuine, Version
<1>2. ASSUME NEW e \in due, Lose(e) PROVE Genuine'
  <2>1. UNCHANGED <<sourceVars, mirror, job, list>> /\ due' \subseteq due
    BY <1>2 DEF Lose, jobVars, passVars
  <2>2. QED BY <2>1, VersionsAbout, CopiesGenuine
<1>3. QED
  BY <1>1, <1>2, ChangeGenuine, HandlerGenuine, PassGenuine DEF Next, Handle, Reconcile

(* Sync handler and reconciliation, whatever they read in vain: a mirror row holds a version
   its record has had, and no other record's. *)
THEOREM NeverAheadTheorem == Spec => []NeverAhead
<1>1. Init => Genuine
  <2> SUFFICES ASSUME Init PROVE Genuine OBVIOUS
  <2>1. ASSUME NEW i \in Ids PROVE source[i] = 0 /\ mirror[i] = 0 /\ list[i] = 0
    BY DEF Init, Empty
  <2>2. due = {} /\ \A h \in Handlers : job[h].seq = 0 BY DEF Init, None
  <2>3. \A i \in Ids, n \in Seqs : ~Version(i, n) BY <2>1, <2>2 DEF Version
  <2>4. QED BY <2>3 DEF Genuine
<1>2. MInv /\ Genuine /\ [Next]_vars => Genuine' BY GenuineStep
<1>3. MInv /\ Genuine => NeverAhead
  <2> SUFFICES ASSUME MInv, Genuine PROVE NeverAhead OBVIOUS
  <2>1. \A i \in Ids : mirror[i] \in Seqs BY DEF MInv, TypeOK, Rows
  <2>2. 0 <= seq /\ \A i \in Ids : 0 <= source[i] BY DEF MInv, TypeOK, Rows, Seqs
  <2>3. \A i \in Ids : mirror[i] # 0 => Version(i, mirror[i]) BY VersionsAbout
  <2>4. QED BY <2>1, <2>2, <2>3 DEF NeverAhead, Genuine
<1>4. QED BY <1>1, <1>2, <1>3, MirrorInvariance, PTL DEF Spec

--------------------------------------------------------------------------------
(***************************************************************************)
(* Who a login may end up as, for any identities, emails, overlapping      *)
(* logins, removals and faults.  Account ids are never used twice, so what *)
(* a login found stays apart from what was created since; a login between  *)
(* two calls keeps the email it came by; and an account a login            *)
(* provisioned keeps its mapping unless a late delete takes it.            *)
(***************************************************************************)

USE IdentityAssumption DEF Identity!userVars, Identity!mappingVars, Identity!loginVars

(* Ids in use were handed out. *)
HandedOut ==
    /\ \A u \in exists : u < nextId
    /\ \A s \in Subjects : mapping[s] < nextId
    /\ \A l \in Logins : found[l] < nextId

(* What is known of a login between two calls. *)
Underway ==
    \A l \in Logins :
        /\ pc[l] \in {"mapping", "account", "drop", "link", "link_legacy", "reread"}
             => Identity!Sub(l) \in Subjects
        /\ pc[l] \in {"email", "provision", "winner", "link", "link_legacy"} => Identity!Trusted(l)
        /\ pc[l] \in {"account", "drop", "link", "link_legacy"} => found[l] # 0
        /\ pc[l] = "drop" => found[l] \notin exists
        /\ pc[l] \in {"link", "link_legacy"} => email[found[l]] = Identity!Mail(l)

(* An account that is there is mapped to by the identity that provisioned it, unless its
   mapping was dropped while it was there; only mapped identities are flagged. *)
Provisioned ==
    /\ \A u \in exists : born[u] \in Subjects \ overtaken => mapping[born[u]] = u
    /\ \A s \in legacy : mapping[s] # 0

IdInv == /\ Identity!TypeOK /\ HandedOut /\ Underway /\ Provisioned
         /\ Identity!MappedByVerifiedEmail /\ Identity!NotInflated

(* Nobody is there yet. *)
LEMMA InitIdInv == Identity!Init => IdInv
<1> SUFFICES ASSUME Identity!Init PROVE IdInv
  OBVIOUS
<1>1. Identity!NoToken \in Tokens
  BY DEF Identity!NoToken
<1>2. (CHOOSE e \in Emails : TRUE) \in Emails
  OBVIOUS
<1>3. Identity!TypeOK
  BY <1>1, <1>2 DEF Identity!Init, Identity!TypeOK, Identity!Stage
<1>4. HandedOut /\ Underway
  BY DEF Identity!Init, HandedOut, Underway
<1>5. Provisioned /\ Identity!MappedByVerifiedEmail /\ Identity!NotInflated
  BY DEF Identity!Init, Provisioned, Identity!MappedByVerifiedEmail, Identity!NotInflated
<1> QED
  BY <1>3, <1>4, <1>5 DEF IdInv

(* What a step of one login leaves behind for that login; it writes no account. *)
Moves(l) ==
    /\ UNCHANGED Identity!userVars
    /\ \E p \in Identity!Stage, t \in Tokens, u \in Identity!UserIds \cup {0} :
          /\ pc' = [pc EXCEPT ![l] = p] /\ token' = [token EXCEPT ![l] = t]
          /\ found' = [found EXCEPT ![l] = u]
          /\ u < nextId
          /\ p \in {"mapping", "account", "drop", "link", "link_legacy", "reread"}
               => t.sub \in Subjects
          /\ p \in {"email", "provision", "winner", "link", "link_legacy"} => t.verified
          /\ p \in {"account", "drop", "link", "link_legacy"} => u # 0
          /\ p = "drop" => u \notin exists
          /\ p \in {"link", "link_legacy"} => email[u] = t.email

LoginTypes == /\ pc \in [Logins -> Identity!Stage] /\ token \in [Logins -> Tokens]
              /\ found \in [Logins -> Identity!UserIds \cup {0}]
              /\ \A l \in Logins : found[l] < nextId

(* What is known of the other logins stays. *)
LEMMA MoveKeepsLogins ==
  ASSUME IdInv, NEW l \in Logins, Moves(l)
  PROVE  LoginTypes' /\ Underway'
<1> USE DEF IdInv
<1> PICK p \in Identity!Stage, t \in Tokens, u \in Identity!UserIds \cup {0} :
          /\ pc' = [pc EXCEPT ![l] = p] /\ token' = [token EXCEPT ![l] = t]
          /\ found' = [found EXCEPT ![l] = u]
          /\ u < nextId
          /\ p \in {"mapping", "account", "drop", "link", "link_legacy", "reread"}
               => t.sub \in Subjects
          /\ p \in {"email", "provision", "winner", "link", "link_legacy"} => t.verified
          /\ p \in {"account", "drop", "link", "link_legacy"} => u # 0
          /\ p = "drop" => u \notin exists
          /\ p \in {"link", "link_legacy"} => email[u] = t.email
  BY DEF Moves
<1>1. LoginTypes'
  BY DEF Moves, HandedOut, Identity!TypeOK, LoginTypes
<1>2. Underway'
  <2> SUFFICES ASSUME NEW m \in Logins
               PROVE  (/\ pc[m] \in {"mapping", "account", "drop", "link", "link_legacy", "reread"}
                            => Identity!Sub(m) \in Subjects
                       /\ pc[m] \in {"email", "provision", "winner", "link", "link_legacy"}
                            => Identity!Trusted(m)
                       /\ pc[m] \in {"account", "drop", "link", "link_legacy"} => found[m] # 0
                       /\ pc[m] = "drop" => found[m] \notin exists
                       /\ pc[m] \in {"link", "link_legacy"} => email[found[m]] = Identity!Mail(m))'
    BY DEF Underway
  <2>1. CASE m = l
    BY <2>1 DEF Moves, Identity!TypeOK, Identity!Sub, Identity!Mail, Identity!Trusted
  <2>2. CASE m # l
    <3>1. pc'[m] = pc[m] /\ token'[m] = token[m] /\ found'[m] = found[m]
      BY <2>2 DEF Identity!TypeOK
    <3> QED
      BY <3>1 DEF Moves, Underway, Identity!Sub, Identity!Mail, Identity!Trusted
  <2> QED
    BY <2>1, <2>2
<1> QED
  BY <1>1, <1>2

(* Without a write, the facts about the tables stay. *)
LEMMA MoveKeeps ==
  ASSUME IdInv, NEW l \in Logins, Moves(l), UNCHANGED Identity!mappingVars,
         removals' \in 0..MaxRemovals, failures' \in 0..MaxFailures
  PROVE  IdInv'
<1> USE DEF IdInv
<1>1. LoginTypes' /\ Underway'
  BY MoveKeepsLogins
<1>2. Identity!TypeOK' /\ HandedOut'
  BY <1>1 DEF Moves, Identity!TypeOK, HandedOut, LoginTypes
<1>3. Provisioned' /\ Identity!MappedByVerifiedEmail' /\ Identity!NotInflated'
  BY DEF Moves, Provisioned, Identity!MappedByVerifiedEmail, Identity!NotInflated
<1> QED
  BY <1>1, <1>2, <1>3

(* Every call of a login but provisioning is such a step. *)
LEMMA EndMoves ==
  ASSUME IdInv, NEW l \in Logins, Identity!End(l), UNCHANGED Identity!userVars
  PROVE  Moves(l)
<1>1. Identity!NoToken \in Tokens
  BY DEF Identity!NoToken
<1>2. "idle" \in Identity!Stage /\ 0 \in Identity!UserIds \cup {0} /\ 0 < nextId
  BY DEF Identity!Stage, IdInv, Identity!TypeOK
<1>3. /\ pc' = [pc EXCEPT ![l] = "idle"] /\ token' = [token EXCEPT ![l] = Identity!NoToken]
      /\ found' = [found EXCEPT ![l] = 0]
  BY DEF Identity!End
<1> HIDE DEF Identity!NoToken, Identity!Stage
<1> QED
  BY <1>1, <1>2, <1>3 DEF Moves

LEMMA GotoMoves ==
  ASSUME IdInv, NEW l \in Logins, NEW p \in Identity!Stage,
         NEW u \in Identity!UserIds \cup {0}, u < nextId,
         Identity!GotoWith(l, p, u), UNCHANGED Identity!userVars,
         p \in {"mapping", "account", "drop", "link", "link_legacy", "reread"}
           => Identity!Sub(l) \in Subjects,
         p \in {"email", "provision", "winner", "link", "link_legacy"} => Identity!Trusted(l),
         p \in {"account", "drop", "link", "link_legacy"} => u # 0,
         p = "drop" => u \notin exists,
         p \in {"link", "link_legacy"} => email[u] = Identity!Mail(l)
  PROVE  Moves(l)
<1>1. token[l] \in Tokens /\ token' = [token EXCEPT ![l] = token[l]]
  BY DEF IdInv, Identity!TypeOK, Identity!GotoWith, Identity!Goto
<1>2. /\ pc' = [pc EXCEPT ![l] = p] /\ found' = [found EXCEPT ![l] = u]
  BY DEF Identity!GotoWith, Identity!Goto
<1> QED
  BY <1>1, <1>2 DEF Moves, Identity!Sub, Identity!Trusted, Identity!Mail

LEMMA ByEmailMoves ==
  ASSUME IdInv, NEW l \in Logins, Identity!ByEmail(l), UNCHANGED Identity!userVars
  PROVE  Moves(l)
<1>1. CASE Identity!Trusted(l)
  <2>1. Identity!GotoWith(l, "email", 0) /\ "email" \in Identity!Stage /\ 0 < nextId
    BY <1>1 DEF Identity!ByEmail, Identity!Stage, IdInv, Identity!TypeOK
  <2> QED
    BY <1>1, <2>1, GotoMoves
<1>2. CASE ~Identity!Trusted(l)
  BY <1>2, EndMoves DEF Identity!ByEmail
<1> QED
  BY <1>1, <1>2

(* What findByEmail returns has the email of the login. *)
LEMMA UseAccountMoves ==
  ASSUME IdInv, NEW l \in Logins, pc[l] \in {"email", "winner"},
         NEW u \in Identity!Holders(Identity!Mail(l)), NEW p \in {"link", "link_legacy"},
         Identity!UseAccount(l, u, p), UNCHANGED Identity!userVars
  PROVE  Moves(l)
<1>1. CASE u \notin active
  BY <1>1, EndMoves DEF Identity!UseAccount
<1>2. CASE u \in active
  <2> DEFINE q == IF Identity!Sub(l) = NoSubject THEN "principal" ELSE p
  <2>1. u \in Identity!UserIds /\ u < nextId /\ email[u] = Identity!Mail(l) /\ u # 0
    BY DEF IdInv, Identity!TypeOK, HandedOut, Identity!Holders, Identity!UserIds
  <2>2. Identity!Trusted(l)
    BY DEF IdInv, Underway
  <2>3. Identity!GotoWith(l, q, u)
    BY <1>2 DEF Identity!UseAccount
  <2>4. q \in Identity!Stage /\ (q \in {"principal", "link", "link_legacy"})
    BY DEF Identity!Stage
  <2>5. q # "principal" => Identity!Sub(l) \in Subjects
    BY DEF IdInv, Identity!TypeOK, Identity!Sub
  <2> HIDE DEF q
  <2> QED
    BY <2>1, <2>2, <2>3, <2>4, <2>5, GotoMoves
<1> QED
  BY <1>1, <1>2

LEMMA FindMappingMoves ==
  ASSUME IdInv, NEW l \in Logins, Identity!FindMapping(l)
  PROVE  Moves(l)
<1>1. Identity!Sub(l) \in Subjects
  BY DEF Identity!FindMapping, IdInv, Underway
<1>2. CASE mapping[Identity!Sub(l)] = 0
  BY <1>2, ByEmailMoves DEF Identity!FindMapping
<1>3. CASE mapping[Identity!Sub(l)] # 0
  <2>1. mapping[Identity!Sub(l)] \in Identity!UserIds \cup {0} /\ mapping[Identity!Sub(l)] < nextId
    BY <1>1 DEF IdInv, Identity!TypeOK, HandedOut
  <2>2. Identity!GotoWith(l, "account", mapping[Identity!Sub(l)]) /\ "account" \in Identity!Stage
    BY <1>3 DEF Identity!FindMapping, Identity!Stage
  <2> QED
    BY <1>1, <1>3, <2>1, <2>2, GotoMoves DEF Identity!FindMapping
<1> QED
  BY <1>2, <1>3

(* A step that stays with the account found so far. *)
LEMMA StayMoves ==
  ASSUME IdInv, NEW l \in Logins, NEW p \in {"principal", "drop", "reread"}, Identity!Goto(l, p),
         UNCHANGED <<found, Identity!userVars>>,
         p # "principal" => Identity!Sub(l) \in Subjects,
         p = "drop" => found[l] # 0 /\ found[l] \notin exists
  PROVE  Moves(l)
<1>1. found[l] \in Identity!UserIds \cup {0} /\ found[l] < nextId /\ p \in Identity!Stage
  BY DEF IdInv, Identity!TypeOK, HandedOut, Identity!Stage
<1>2. found' = [found EXCEPT ![l] = found[l]]
  BY DEF IdInv, Identity!TypeOK
<1> QED
  BY <1>1, <1>2, GotoMoves DEF Identity!GotoWith

LEMMA FindAccountMoves ==
  ASSUME IdInv, NEW l \in Logins, Identity!FindAccount(l)
  PROVE  Moves(l)
<1>1. Identity!Sub(l) \in Subjects /\ found[l] # 0
  BY DEF Identity!FindAccount, IdInv, Underway
<1>2. CASE Identity!AccountThere(found[l])
  BY <1>1, <1>2, StayMoves DEF Identity!FindAccount
<1>3. CASE ~Identity!AccountThere(found[l])
  <2>1. Identity!Goto(l, "drop") /\ found[l] \notin exists
    BY <1>3 DEF Identity!FindAccount, Identity!OnMissing, Identity!AccountThere
  <2> QED
    BY <1>1, <2>1, StayMoves DEF Identity!FindAccount
<1> QED
  BY <1>2, <1>3

LEMMA SearchMoves ==
  ASSUME IdInv, NEW l \in Logins, Identity!FindByEmail(l) \/ Identity!FindWinner(l)
  PROVE  Moves(l)
<1>0. Identity!Trusted(l) /\ UNCHANGED Identity!userVars /\ 0 < nextId
  BY DEF Identity!FindByEmail, Identity!FindWinner, IdInv, Underway, Identity!TypeOK
<1>1. CASE Identity!FindByEmail(l)
  <2>1. CASE Identity!GotoWith(l, "provision", 0)
    BY <1>0, <2>1, GotoMoves DEF Identity!Stage
  <2>2. CASE \E u \in Identity!Holders(Identity!Mail(l)) : Identity!UseAccount(l, u, "link_legacy")
    BY <1>0, <1>1, <2>2, UseAccountMoves DEF Identity!FindByEmail
  <2> QED
    BY <1>1, <2>1, <2>2 DEF Identity!FindByEmail
<1>2. CASE Identity!FindWinner(l)
  <2>1. CASE Identity!End(l)
    BY <1>0, <2>1, EndMoves
  <2>2. CASE \E u \in Identity!Holders(Identity!Mail(l)) : Identity!UseAccount(l, u, "link")
    BY <1>0, <1>2, <2>2, UseAccountMoves DEF Identity!FindWinner
  <2> QED
    BY <1>2, <2>1, <2>2 DEF Identity!FindWinner
<1> QED
  BY <1>1, <1>2

LEMMA FailureMoves ==
  ASSUME IdInv, NEW l \in Logins, Identity!ProvisionFails(l) \/ Identity!LinkFails(l)
  PROVE  Moves(l) /\ failures' \in 0..MaxFailures
<1>1. CASE Identity!ProvisionFails(l)
  <2>1. Identity!Trusted(l) /\ Identity!GotoWith(l, "winner", 0)
        /\ "winner" \in Identity!Stage /\ 0 < nextId
    BY <1>1 DEF Identity!ProvisionFails, IdInv, Underway, Identity!TypeOK, Identity!Stage
  <2>2. UNCHANGED Identity!userVars
    BY <1>1 DEF Identity!ProvisionFails, Identity!RollsBack
  <2>3. Moves(l)
    BY <2>1, <2>2, GotoMoves
  <2> QED
    BY <1>1, <2>3 DEF Identity!ProvisionFails, Identity!Fault, IdInv, Identity!TypeOK
<1>2. CASE Identity!LinkFails(l)
  <2>1. Identity!Sub(l) \in Subjects
    BY <1>2 DEF Identity!LinkFails, IdInv, Underway
  <2>2. Moves(l)
    BY <1>2, <2>1, StayMoves DEF Identity!LinkFails
  <2> QED
    BY <1>2, <2>2 DEF Identity!LinkFails, Identity!Fault, IdInv, Identity!TypeOK
<1> QED
  BY <1>1, <1>2

LEMMA RereadMoves ==
  ASSUME IdInv, NEW l \in Logins, Identity!Reread(l)
  PROVE  Moves(l)
<1>1. CASE Identity!End(l)
  BY <1>1, EndMoves DEF Identity!Reread
<1>2. CASE Identity!GotoWith(l, "principal", found[l])
  <2>1. found[l] \in Identity!UserIds \cup {0} /\ found[l] < nextId
        /\ "principal" \in Identity!Stage
    BY DEF IdInv, Identity!TypeOK, HandedOut, Identity!Stage
  <2> QED
    BY <1>2, <2>1, GotoMoves DEF Identity!Reread
<1> QED
  BY <1>1, <1>2 DEF Identity!Reread

LEMMA BeginMoves ==
  ASSUME IdInv, NEW l \in Logins, NEW t \in Tokens, Identity!Begin(l, t)
  PROVE  Moves(l)
<1> DEFINE p == IF t.sub = NoSubject THEN "email" ELSE "mapping"
<1>1. p \in Identity!Stage /\ p \in {"email", "mapping"}
  BY DEF Identity!Stage
<1>2. (p = "mapping" => t.sub \in Subjects) /\ (p = "email" => t.verified)
  OBVIOUS
<1>3. found[l] \in Identity!UserIds \cup {0} /\ found[l] < nextId
      /\ found' = [found EXCEPT ![l] = found[l]]
  BY DEF IdInv, Identity!TypeOK, HandedOut, Identity!Begin
<1>4. pc' = [pc EXCEPT ![l] = p] /\ token' = [token EXCEPT ![l] = t]
  BY DEF Identity!Begin
<1>5. UNCHANGED Identity!userVars
  BY DEF Identity!Begin
<1> HIDE DEF p, Identity!Stage
<1> QED
  BY <1>1, <1>2, <1>3, <1>4, <1>5 DEF Moves

--------------------------------------------------------------------------------
(* The writes *)

LEMMA DropKeeps ==
  ASSUME IdInv, NEW l \in Logins, Identity!Drop(l)
  PROVE  IdInv'
<1> USE DEF IdInv
<1>1. UNCHANGED <<Identity!userVars, removals, failures>> /\ Identity!Sub(l) \in Subjects
  BY DEF Identity!Drop, Underway
<1>2. CASE mapping[Identity!Sub(l)] = 0
  BY <1>1, <1>2, EndMoves, MoveKeeps DEF Identity!Drop, Identity!TypeOK
<1>3. CASE mapping[Identity!Sub(l)] # 0
  <2>1. /\ mapping' = [mapping EXCEPT ![Identity!Sub(l)] = 0]
        /\ legacy' = legacy \ {Identity!Sub(l)}
        /\ overtaken \subseteq overtaken' /\ overtaken' \subseteq overtaken \cup {Identity!Sub(l)}
        /\ mapping[Identity!Sub(l)] \in exists => Identity!Sub(l) \in overtaken'
        /\ Identity!ByEmail(l)
    BY <1>3 DEF Identity!Drop
  <2>2. LoginTypes' /\ Underway'
    BY <1>1, <2>1, ByEmailMoves, MoveKeepsLogins
  <2>3. Identity!TypeOK' /\ HandedOut'
    BY <1>1, <2>1, <2>2 DEF Identity!TypeOK, HandedOut, LoginTypes
  <2>4. Provisioned'
    BY <1>1, <2>1 DEF Provisioned, Identity!TypeOK
  <2>5. Identity!MappedByVerifiedEmail' /\ Identity!NotInflated'
    BY <1>1, <2>1 DEF Identity!MappedByVerifiedEmail, Identity!NotInflated, Identity!TypeOK
  <2> QED
    BY <2>2, <2>3, <2>4, <2>5
<1> QED
  BY <1>2, <1>3

(* Nothing the identity provisioned is left when its mapping is free. *)
LEMMA LinkKeeps ==
  ASSUME IdInv, NEW l \in Logins, Identity!Link(l)
  PROVE  IdInv'
<1> USE DEF IdInv
<1>1. /\ UNCHANGED <<Identity!userVars, removals, failures, overtaken>>
      /\ Identity!Sub(l) \in Subjects /\ mapping[Identity!Sub(l)] = 0
      /\ mapping' = [mapping EXCEPT ![Identity!Sub(l)] = found[l]]
      /\ legacy' \subseteq legacy \cup {Identity!Sub(l)}
      /\ found[l] \in Identity!UserIds \cup {0} /\ found[l] # 0 /\ found[l] < nextId
      /\ Identity!Trusted(l) /\ email[found[l]] = Identity!Mail(l)
  BY DEF Identity!Link, Underway, Identity!MapTo, Identity!TypeOK, HandedOut
<1>2. LoginTypes' /\ Underway'
  BY <1>1, StayMoves, MoveKeepsLogins DEF Identity!Link
<1>3. Identity!TypeOK' /\ HandedOut'
  BY <1>1, <1>2 DEF Identity!TypeOK, HandedOut, LoginTypes
<1>4. \A u \in exists : born[u] \in Subjects \ overtaken => born[u] # Identity!Sub(l)
  BY <1>1 DEF Provisioned, Identity!TypeOK, Identity!UserIds
<1>5. Provisioned'
  BY <1>1, <1>4 DEF Provisioned, Identity!TypeOK
<1>6. Identity!MappedByVerifiedEmail'
  <2>1. token[l] \in Tokens /\ token[l].sub = Identity!Sub(l) /\ token[l].verified
        /\ token[l].email = email[found[l]]
    BY <1>1 DEF Identity!TypeOK, Identity!Sub, Identity!Mail, Identity!Trusted
  <2> QED
    BY <1>1, <2>1 DEF Identity!MappedByVerifiedEmail, Identity!TypeOK
<1>7. Identity!NotInflated'
  BY <1>1, <1>4 DEF Identity!NotInflated, Identity!TypeOK
<1> QED
  BY <1>2, <1>3, <1>5, <1>6, <1>7

(* What a new row leaves as it was: logins and mappings know lower ids only. *)
LEMMA InsertKeeps ==
  ASSUME IdInv, NEW e \in Emails, NEW s \in Subjects \cup {NoSubject},
         nextId \in Identity!UserIds, ~Identity!EmailTaken(e), Identity!Insert(e, s)
  PROVE  /\ exists' \subseteq Identity!UserIds /\ active' \subseteq exists' /\ nextId' \in Nat \ {0}
         /\ email' \in [Identity!UserIds -> Emails]
         /\ born' \in [Identity!UserIds -> Subjects \cup {NoSubject}]
         /\ \A u, v \in exists' : email'[u] = email'[v] => u = v
         /\ \A u \in exists' : u < nextId'
         /\ \A n \in Identity!UserIds : n < nextId => email'[n] = email[n] /\ born'[n] = born[n]
<1> USE DEF IdInv
<1>1. nextId \notin exists
  BY DEF HandedOut, Identity!TypeOK, Identity!UserIds
<1>2. /\ exists' = exists \cup {nextId} /\ active' = active \cup {nextId}
      /\ nextId' = nextId + 1
      /\ email' = [email EXCEPT ![nextId] = e] /\ born' = [born EXCEPT ![nextId] = s]
  BY DEF Identity!Insert
<1>3. exists' \subseteq Identity!UserIds /\ active' \subseteq exists' /\ nextId' \in Nat \ {0}
  BY <1>2 DEF Identity!TypeOK
<1>4. email' \in [Identity!UserIds -> Emails]
      /\ born' \in [Identity!UserIds -> Subjects \cup {NoSubject}]
  BY <1>2 DEF Identity!TypeOK
<1>5. \A n \in Identity!UserIds : n # nextId => email'[n] = email[n] /\ born'[n] = born[n]
  BY <1>2 DEF Identity!TypeOK
<1>6. \A u \in exists' : u < nextId'
  BY <1>2 DEF HandedOut, Identity!TypeOK, Identity!UserIds
<1>7. ASSUME NEW u \in exists', NEW v \in exists', email'[u] = email'[v]
      PROVE  u = v
  <2>1. email'[nextId] = e
    BY <1>2 DEF Identity!TypeOK
  <2>2. \A w \in exists : email[w] # e /\ email'[w] = email[w]
    BY <1>1, <1>5 DEF Identity!EmailTaken, Identity!Holders, Identity!TypeOK
  <2> QED
    BY <1>2, <1>7, <2>1, <2>2 DEF Identity!TypeOK
<1>8. \A n \in Identity!UserIds : n < nextId => n # nextId
  BY DEF Identity!TypeOK, Identity!UserIds
<1> QED
  BY <1>3, <1>4, <1>5, <1>6, <1>7, <1>8

LEMMA ProvisionKeeps ==
  ASSUME IdInv, NEW l \in Logins, Identity!Provision(l)
  PROVE  IdInv'
<1> USE DEF IdInv
<1>1. /\ Identity!Mail(l) \in Emails /\ Identity!Sub(l) \in Subjects \cup {NoSubject}
      /\ Identity!Trusted(l)
      /\ nextId \in Identity!UserIds /\ ~Identity!EmailTaken(Identity!Mail(l))
      /\ Identity!Insert(Identity!Mail(l), Identity!Sub(l))
  BY DEF Identity!Provision, Identity!CanInsert, Underway, Identity!TypeOK, Identity!Sub,
     Identity!Mail
<1>2. /\ exists' = exists \cup {nextId} /\ nextId' = nextId + 1
      /\ email'[nextId] = Identity!Mail(l) /\ born'[nextId] = Identity!Sub(l)
      /\ UNCHANGED <<token, removals, failures, overtaken, legacy>>
  BY <1>1 DEF Identity!Insert, Identity!Provision, Identity!GotoWith, Identity!Goto,
     Identity!MapTo, Identity!TypeOK
<1>3. /\ exists' \subseteq Identity!UserIds /\ active' \subseteq exists' /\ nextId' \in Nat \ {0}
      /\ email' \in [Identity!UserIds -> Emails]
      /\ born' \in [Identity!UserIds -> Subjects \cup {NoSubject}]
      /\ \A u, v \in exists' : email'[u] = email'[v] => u = v
      /\ \A u \in exists' : u < nextId'
      /\ \A n \in Identity!UserIds : n < nextId => email'[n] = email[n] /\ born'[n] = born[n]
  BY <1>1, InsertKeeps
<1>4. /\ pc' = [pc EXCEPT ![l] = "principal"] /\ found' = [found EXCEPT ![l] = nextId]
  BY DEF Identity!Provision, Identity!GotoWith, Identity!Goto
<1>5. \/ Identity!Sub(l) = NoSubject /\ mapping' = mapping
      \/ /\ Identity!Sub(l) \in Subjects /\ mapping[Identity!Sub(l)] = 0
         /\ mapping' = [mapping EXCEPT ![Identity!Sub(l)] = nextId]
  BY <1>1 DEF Identity!Provision, Identity!CanInsert, Identity!MapTo
<1>6. Identity!TypeOK'
  BY <1>1, <1>2, <1>3, <1>4, <1>5 DEF Identity!TypeOK, Identity!Stage
<1>7. HandedOut'
  <2>1. nextId \in Nat /\ nextId < nextId'
        /\ \A n \in Identity!UserIds \cup {0} : n < nextId => n < nextId'
    BY <1>2 DEF Identity!TypeOK, Identity!UserIds
  <2>2. \A s \in Subjects : mapping'[s] < nextId'
    BY <1>5, <2>1 DEF Identity!TypeOK, HandedOut
  <2>3. \A m \in Logins : found'[m] < nextId'
    BY <1>4, <2>1 DEF Identity!TypeOK, HandedOut
  <2> QED
    BY <1>3, <2>2, <2>3 DEF HandedOut
<1>8. Underway'
  <2> SUFFICES ASSUME NEW m \in Logins
               PROVE  (/\ pc[m] \in {"mapping", "account", "drop", "link", "link_legacy", "reread"}
                            => Identity!Sub(m) \in Subjects
                       /\ pc[m] \in {"email", "provision", "winner", "link", "link_legacy"}
                            => Identity!Trusted(m)
                       /\ pc[m] \in {"account", "drop", "link", "link_legacy"} => found[m] # 0
                       /\ pc[m] = "drop" => found[m] \notin exists
                       /\ pc[m] \in {"link", "link_legacy"} => email[found[m]] = Identity!Mail(m))'
    BY DEF Underway
  <2>1. CASE m = l
    BY <1>4, <2>1 DEF Identity!TypeOK
  <2>2. CASE m # l
    <3>1. pc'[m] = pc[m] /\ found'[m] = found[m]
      BY <1>4, <2>2 DEF Identity!TypeOK
    <3>2. found[m] # nextId /\ (found[m] # 0 => email'[found[m]] = email[found[m]])
      BY <1>3 DEF Identity!TypeOK, HandedOut, Identity!UserIds
    <3> QED
      BY <1>2, <3>1, <3>2 DEF Underway, Identity!Sub, Identity!Mail, Identity!Trusted
  <2> QED
    BY <2>1, <2>2
<1>9. \A s \in Subjects : mapping[s] # 0 =>
         /\ mapping[s] \in Identity!UserIds /\ mapping[s] < nextId /\ mapping[s] # nextId
         /\ email'[mapping[s]] = email[mapping[s]] /\ born'[mapping[s]] = born[mapping[s]]
  BY <1>3 DEF Identity!TypeOK, HandedOut, Identity!UserIds
<1>10. \A u \in exists : u # nextId /\ u # 0 /\ born'[u] = born[u]
  BY <1>3 DEF Identity!TypeOK, HandedOut, Identity!UserIds
<1>11. Provisioned'
  <2>1. ASSUME NEW u \in exists', born'[u] \in Subjects \ overtaken'
        PROVE  mapping'[born'[u]] = u
    <3>1. CASE u = nextId
      BY <1>2, <1>5, <2>1, <3>1 DEF Identity!TypeOK
    <3>2. CASE u # nextId
      <4>1. u \in exists /\ born'[u] = born[u] /\ mapping[born[u]] = u /\ u # 0
        BY <1>2, <1>10, <2>1, <3>2 DEF Provisioned
      <4> QED
        BY <1>5, <2>1, <4>1 DEF Identity!TypeOK
    <3> QED
      BY <3>1, <3>2
  <2>2. \A s \in legacy' : mapping'[s] # 0
    BY <1>2, <1>5 DEF Provisioned, Identity!TypeOK
  <2> QED
    BY <2>1, <2>2 DEF Provisioned
<1>12. Identity!MappedByVerifiedEmail'
  <2>1. token[l] \in Tokens /\ token[l].sub = Identity!Sub(l) /\ token[l].verified
        /\ token[l].email = email'[nextId]
    BY <1>1, <1>2 DEF Identity!TypeOK, Identity!Sub, Identity!Mail, Identity!Trusted
  <2> QED
    BY <1>5, <1>9, <2>1 DEF Identity!MappedByVerifiedEmail, Identity!TypeOK
<1>13. Identity!NotInflated'
  <2> SUFFICES ASSUME NEW s \in legacy' \ overtaken', mapping'[s] \in exists'
               PROVE  born'[mapping'[s]] # s
    BY DEF Identity!NotInflated
  <2>1. mapping[s] # 0 /\ s \in Subjects /\ s \in legacy \ overtaken
    BY <1>2 DEF Provisioned, Identity!TypeOK
  <2>2. mapping'[s] = mapping[s]
    BY <1>5, <2>1 DEF Identity!TypeOK
  <2> QED
    BY <1>2, <1>9, <2>1, <2>2 DEF Identity!NotInflated
<1> QED
  BY <1>6, <1>7, <1>8, <1>11, <1>12, <1>13

(* Administrators do not touch mappings, nor a row's email. *)
LEMMA CreateKeeps ==
  ASSUME IdInv, NEW e \in Emails, Identity!CreateUser(e)
  PROVE  IdInv'
<1> USE DEF IdInv
<1>1. /\ nextId \in Identity!UserIds /\ ~Identity!EmailTaken(e) /\ Identity!Insert(e, NoSubject)
      /\ UNCHANGED <<Identity!mappingVars, Identity!loginVars, removals, failures>>
  BY DEF Identity!CreateUser
<1>2. /\ exists' = exists \cup {nextId} /\ nextId' = nextId + 1 /\ born'[nextId] = NoSubject
  BY <1>1 DEF Identity!Insert, Identity!TypeOK
<1>3. /\ exists' \subseteq Identity!UserIds /\ active' \subseteq exists' /\ nextId' \in Nat \ {0}
      /\ email' \in [Identity!UserIds -> Emails]
      /\ born' \in [Identity!UserIds -> Subjects \cup {NoSubject}]
      /\ \A u, v \in exists' : email'[u] = email'[v] => u = v
      /\ \A u \in exists' : u < nextId'
      /\ \A n \in Identity!UserIds : n < nextId => email'[n] = email[n] /\ born'[n] = born[n]
  BY <1>1, InsertKeeps
<1>4. Identity!TypeOK'
  BY <1>1, <1>3 DEF Identity!TypeOK
<1>5. HandedOut'
  <2>1. \A n \in Identity!UserIds \cup {0} : n < nextId => n < nextId'
    BY <1>2 DEF Identity!TypeOK, Identity!UserIds
  <2> QED
    BY <1>1, <1>3, <2>1 DEF Identity!TypeOK, HandedOut
<1>6. \A n \in Identity!UserIds \cup {0} : n < nextId /\ n # 0 =>
         /\ email'[n] = email[n] /\ born'[n] = born[n] /\ n # nextId
         /\ n \in exists' <=> n \in exists
  BY <1>2, <1>3 DEF Identity!TypeOK, Identity!UserIds
<1>7. Underway'
  BY <1>1, <1>6 DEF Underway, Identity!Sub, Identity!Mail, Identity!Trusted, Identity!TypeOK,
     HandedOut
<1>8. Provisioned'
  BY <1>1, <1>2, <1>6 DEF Provisioned, Identity!TypeOK, HandedOut, Identity!UserIds
<1>9. Identity!MappedByVerifiedEmail'
  <2>1. ASSUME NEW s \in Subjects, mapping[s] # 0
        PROVE  email'[mapping[s]] = email[mapping[s]]
    BY <1>6, <2>1 DEF Identity!TypeOK, HandedOut
  <2> QED
    BY <1>1, <2>1 DEF Identity!MappedByVerifiedEmail
<1>10. Identity!NotInflated'
  <2>1. UNCHANGED <<mapping, legacy, overtaken>>
    BY <1>1
  <2>2. ASSUME NEW s \in legacy \ overtaken, mapping[s] \in exists'
        PROVE  mapping[s] \in exists /\ born'[mapping[s]] = born[mapping[s]]
    <3>1. mapping[s] # 0 /\ mapping[s] < nextId /\ mapping[s] \in Identity!UserIds
      BY DEF Provisioned, Identity!TypeOK, HandedOut
    <3> QED
      BY <1>6, <2>2, <3>1
  <2> QED
    BY <2>1, <2>2 DEF Identity!NotInflated
<1> QED
  BY <1>4, <1>5, <1>7, <1>8, <1>9, <1>10

LEMMA AdminKeeps ==
  ASSUME IdInv, NEW u \in Identity!UserIds,
         Identity!RemoveUser(u) \/ \E on \in BOOLEAN : Identity!SetActive(u, on)
  PROVE  IdInv'
<1> USE DEF IdInv
<1>1. /\ UNCHANGED <<nextId, email, born, Identity!mappingVars, Identity!loginVars, failures>>
      /\ exists' \subseteq exists /\ active' \subseteq exists'
      /\ removals' \in 0..MaxRemovals
  BY DEF Identity!RemoveUser, Identity!SetActive, Identity!TypeOK
<1>2. Identity!TypeOK' /\ HandedOut'
  BY <1>1 DEF Identity!TypeOK, HandedOut
<1>3. Underway'
  BY <1>1 DEF Underway, Identity!Sub, Identity!Mail, Identity!Trusted
<1>4. Provisioned' /\ Identity!MappedByVerifiedEmail' /\ Identity!NotInflated'
  BY <1>1 DEF Provisioned, Identity!MappedByVerifiedEmail, Identity!NotInflated
<1> QED
  BY <1>2, <1>3, <1>4

LEMMA LoginKeeps ==
  ASSUME IdInv, NEW l \in Logins, Identity!Login(l)
  PROVE  IdInv'
<1>1. CASE Identity!FindMapping(l) \/ Identity!FindAccount(l) \/ Identity!FindByEmail(l)
              \/ Identity!FindWinner(l) \/ Identity!Reread(l)
           \/ Identity!Principal(l)
  <2>1. UNCHANGED <<Identity!userVars, Identity!mappingVars, removals, failures>>
    BY <1>1 DEF Identity!FindMapping, Identity!FindAccount, Identity!FindByEmail,
       Identity!FindWinner, Identity!Reread, Identity!Principal
  <2>2. Identity!Principal(l) => Moves(l)
    BY EndMoves DEF Identity!Principal
  <2>3. Moves(l)
    BY <1>1, <2>2, FindMappingMoves, FindAccountMoves, SearchMoves, RereadMoves
  <2>4. removals' \in 0..MaxRemovals /\ failures' \in 0..MaxFailures
    BY <2>1 DEF IdInv, Identity!TypeOK
  <2> QED
    BY <2>1, <2>3, <2>4, MoveKeeps
<1>2. CASE Identity!ProvisionFails(l) \/ Identity!LinkFails(l)
  <2>1. UNCHANGED <<Identity!mappingVars, removals>> /\ removals' \in 0..MaxRemovals
    BY <1>2 DEF Identity!ProvisionFails, Identity!LinkFails, IdInv, Identity!TypeOK
  <2> QED
    BY <1>2, <2>1, FailureMoves, MoveKeeps
<1> QED
  BY <1>1, <1>2, DropKeeps, ProvisionKeeps, LinkKeeps DEF Identity!Login

LEMMA BeginKeeps ==
  ASSUME IdInv, NEW l \in Logins, NEW t \in Tokens, Identity!Begin(l, t)
  PROVE  IdInv'
<1>1. UNCHANGED <<Identity!mappingVars, removals, failures>>
  BY DEF Identity!Begin
<1>2. removals' \in 0..MaxRemovals /\ failures' \in 0..MaxFailures
  BY <1>1 DEF IdInv, Identity!TypeOK
<1> QED
  BY <1>1, <1>2, BeginMoves, MoveKeeps

LEMMA NextKeeps == IdInv /\ [Identity!Next]_(Identity!vars) => IdInv'
<1> SUFFICES ASSUME IdInv, [Identity!Next]_(Identity!vars) PROVE IdInv'
  OBVIOUS
<1>1. CASE UNCHANGED Identity!vars
  <2> USE DEF IdInv
  <2>1. Identity!TypeOK' /\ HandedOut' /\ Underway'
    BY <1>1 DEF Identity!vars, Identity!TypeOK, HandedOut, Underway, Identity!Sub,
       Identity!Mail, Identity!Trusted
  <2>2. Provisioned' /\ Identity!MappedByVerifiedEmail' /\ Identity!NotInflated'
    BY <1>1 DEF Identity!vars, Provisioned, Identity!MappedByVerifiedEmail, Identity!NotInflated
  <2> QED
    BY <2>1, <2>2
<1>2. CASE Identity!Admin
  BY <1>2, CreateKeeps, AdminKeeps DEF Identity!Admin
<1>3. CASE \E l \in Logins : Identity!Login(l) \/ \E t \in Tokens : Identity!Begin(l, t)
  BY <1>3, LoginKeeps, BeginKeeps
<1> QED
  BY <1>1, <1>2, <1>3 DEF Identity!Next

--------------------------------------------------------------------------------
(* The other part, or none, leaves the accounts as they are. *)
LEMMA IdentityStart == SumInit => IdInv
  BY InitIdInv DEF SumInit

LEMMA SumKeeps == IdInv /\ [SumNext]_sumVars => IdInv' /\ [Identity!Next]_(Identity!vars)
<1>1. [SumNext]_sumVars => [Identity!Next]_(Identity!vars)
  BY DEF SumNext, sumVars, identityVars, Identity!vars
<1> QED
  BY <1>1, NextKeeps

(* The inductive invariant: every login, between any two of its calls, still has the
   verified email and the account it goes by, whatever others wrote meanwhile. *)
THEOREM IdentityInvariance == SumSpec => []IdInv
<1> QED
  BY IdentityStart, SumKeeps, PTL DEF SumSpec

(* The rows keep their types, and no email is held twice: transactions of racing logins
   and administrators' creates meet at the unique index. *)
THEOREM IdentityTypes == SumSpec => []Identity!TypeOK
<1>1. IdInv => Identity!TypeOK
  BY DEF IdInv
<1> QED
  BY <1>1, IdentityInvariance, PTL

(* Whatever resolvePrincipal races with, an identity is mapped to an account only by an email
   it has verified; and provision's one transaction keeps linkedFromLegacyEmail honest: an
   identity is never counted as linked to an old account its own login made. *)
THEOREM IdentityTheorem == SumSpec => []IdentitySound
<1>1. IdInv => IdentitySound
  BY DEF IdInv, IdentitySound
<1> QED
  BY <1>1, IdentityInvariance, PTL

(* At most one live account was made by the logins of an identity whose mapping was never
   dropped while its account was there: removed accounts, moved emails and lost races do
   not lead to a second one, only the late delete does. *)
OneAccountEach ==
    \A s \in Subjects \ overtaken : \A u, v \in exists : born[u] = s /\ born[v] = s => u = v

THEOREM OneAccountTheorem == SumSpec => []OneAccountEach
<1>1. IdInv => OneAccountEach
  BY DEF IdInv, Provisioned, OneAccountEach
<1> QED
  BY <1>1, IdentityInvariance, PTL

(* No call but the delete of a dangling row changes a mapping whose account is there, and
   that login had found another account of this identity missing. *)
LEMMA NextKeepsMappings ==
  ASSUME IdInv, [Identity!Next]_(Identity!vars), NEW s \in Subjects,
         mapping[s] \in exists, mapping'[s] # mapping[s]
  PROVE  \E l \in Logins : /\ pc[l] = "drop" /\ Identity!Sub(l) = s
                           /\ found[l] \notin exists \cup {mapping[s]}
<1>1. mapping[s] # 0 /\ mapping' # mapping
  BY DEF IdInv, Identity!TypeOK, Identity!UserIds
<1>2. ~UNCHANGED Identity!vars /\ ~Identity!Admin
  BY <1>1 DEF Identity!vars, Identity!Admin, Identity!CreateUser, Identity!RemoveUser,
     Identity!SetActive
<1>3. PICK l \in Logins : Identity!Login(l) \/ \E t \in Tokens : Identity!Begin(l, t)
  BY <1>2 DEF Identity!Next
<1>4. Identity!Drop(l) \/ Identity!Provision(l) \/ Identity!Link(l)
  BY <1>1, <1>3 DEF Identity!Login, Identity!Begin, Identity!FindMapping, Identity!FindAccount,
     Identity!FindByEmail, Identity!FindWinner,
                    Identity!ProvisionFails, Identity!LinkFails, Identity!Reread,
                    Identity!Principal
<1>5. CASE Identity!Provision(l) \/ Identity!Link(l)
  <2>1. Identity!Sub(l) \in Subjects => mapping[Identity!Sub(l)] = 0
    BY <1>5 DEF Identity!Provision, Identity!CanInsert, Identity!Link
  <2>2. \/ mapping' = mapping
        \/ \E u : mapping' = [mapping EXCEPT ![Identity!Sub(l)] = u]
    BY <1>5 DEF Identity!Provision, Identity!Link, Identity!MapTo
  <2> QED
    BY <1>1, <2>1, <2>2 DEF IdInv, Identity!TypeOK
<1>6. CASE Identity!Drop(l)
  <2>1. pc[l] = "drop" /\ mapping' = [mapping EXCEPT ![Identity!Sub(l)] = 0]
        /\ Identity!Sub(l) \in Subjects
    BY <1>1, <1>6 DEF Identity!Drop, IdInv, Underway
  <2>2. Identity!Sub(l) = s
    BY <2>1 DEF IdInv, Identity!TypeOK
  <2>3. found[l] \notin exists
    BY <2>1 DEF IdInv, Underway
  <2> QED
    BY <2>1, <2>2, <2>3
<1> QED
  BY <1>4, <1>5, <1>6

(* "Drop the dangling row", and, but for the late delete of a login that has seen an
   earlier account of the identity missing, no other. *)
THEOREM KeptTheorem == SumSpec => LiveMappingKept
<1>1. IdInv /\ [Identity!Next]_(Identity!vars) =>
        [\A s \in Subjects :
            mapping[s] \in exists /\ mapping'[s] # mapping[s]
            => \E l \in Logins : /\ pc[l] = "drop" /\ Identity!Sub(l) = s
                                 /\ found[l] \notin exists \cup {mapping[s]}]_(Identity!vars)
  BY NextKeepsMappings
<1> QED
  BY <1>1, IdentityStart, SumKeeps, PTL DEF SumSpec, LiveMappingKept, Identity!LiveMappingKept
================================================================================
