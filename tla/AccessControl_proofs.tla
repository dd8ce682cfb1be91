-------------------------- MODULE AccessControl_proofs --------------------------
(***************************************************************************)
(* The tables of access control for any number of overlapping requests.    *)
(* The inductive invariant says what a request under way may rely on: the  *)
(* rows a transaction has deleted are of its owner and still there for     *)
(* everybody else, the rows it has inserted are nobody's and refer to what *)
(* exists, two transactions hold different rows, and what a single write   *)
(* was checked for has not been undone but in ways the properties allow.   *)
(***************************************************************************)
EXTENDS AccessControl, TLAPS

USE AccessAssumption

Stages == {"idle", "find", "defaults", "actor", "touch", "select", "delete", "insert", "commit",
           "write"}

OpRecords ==
    [kind : RequestKinds \cup {"none"}, on : Owners \cup Keys \cup {NoUser}, want : SUBSET Items,
     bind : Users \cup {NoUser}, at : Stages, snap : SUBSET Pairs, deleted : SUBSET Pairs,
     inserted : SUBSET Pairs, since : SUBSET Pairs, met : BOOLEAN]

Types ==
    /\ op \in [Procs -> OpRecords]
    /\ asked \in [Owners -> SUBSET Items]
    /\ \A r \in rows : r[1] \in there

OfRole   == {"createRole", "updateRole", "setPermissions", "removeRole"}
OfUser   == {"createUser", "setRoles", "mark", "unmark", "removeUser"}
Replaces == {"updateRole", "setPermissions", "setRoles"}
RowsOf(o) == {r \in rows : r[1] = o}

(* What a request of a kind names, the stages it passes, and what it holds in each. *)
Shape(q) ==
    /\ q.kind = "none" => q.at = "idle"
    /\ q.kind \in OfRole => q.on \in Roles /\ q.want \subseteq Permissions
    /\ q.kind \in OfUser => q.on \in Users /\ q.want \subseteq Roles
    /\ q.at = "touch" => q.kind = "updateRole"
    /\ q.at = "defaults" => q.kind = "createUser"
    /\ q.at = "actor" => q.kind \in {"createKey", "updateKey"}
    /\ q.at \in {"select", "delete"} => q.kind \in Replaces
    /\ q.at \in {"insert", "commit"} => q.kind \in Replaces \cup {"createUser"}
    /\ q.at # "delete" => q.snap = {}
    /\ q.at \notin {"insert", "commit"} \/ q.kind = "createUser" => q.deleted = {}
    /\ q.at # "commit" => q.inserted = {}

(* A transaction sees and deletes committed rows of its owner, all of them unless another one
   committed in between; what it inserted is new and refers to what exists. *)
Holds(q) ==
    /\ q.snap \subseteq RowsOf(q.on) /\ q.deleted \subseteq RowsOf(q.on)
    /\ q.at = "delete" /\ ~q.met => q.snap = RowsOf(q.on)
    /\ q.kind \in Replaces /\ q.at \in {"insert", "commit"} /\ ~q.met => q.deleted = RowsOf(q.on)
    /\ q.at = "commit" => q.inserted = {q.on} \X q.want
    /\ q.inserted \cap rows \subseteq q.deleted
    /\ \A r \in q.inserted : /\ r[1] \in there \/ q.kind = "createUser"
                             /\ r[2] \in there \cup Permissions
    /\ q.at \in {"touch", "select", "delete", "insert", "commit"} /\ q.kind \in Replaces
       => q.on \in used
    /\ q.at = "commit" /\ q.kind = "createUser" => q.on \notin used

(* What a write of one statement was checked for; an id is not given out again. *)
Checked(q) ==
    /\ q.at = "write" /\ q.kind = "removeRole"
       => q.on \notin SystemRoles /\ {x \in rows : x[2] = q.on} \subseteq q.since
    /\ q.at = "write" /\ q.kind \in {"createKey", "updateKey"}
       => q.bind \in service \cup unmarked \cup {NoUser} \cup (used \ there)

(* Two transactions. *)
Apart(q, t) ==
    /\ q.deleted \cap t.deleted = {} /\ q.inserted \cap t.inserted = {}
    /\ q.inserted \cap t.deleted = {} /\ t.inserted \cap q.deleted = {}
    /\ q.kind = "createUser" /\ q.at = "commit" /\ t.kind = "createUser" /\ t.at = "commit"
       => q.on # t.on

AInv ==
    /\ TypeOK /\ Types /\ CommitsHold
    /\ \A p \in Procs : Shape(op[p]) /\ Holds(op[p]) /\ Checked(op[p])
    /\ \A p, o \in Procs : p # o => Apart(op[p], op[o])
(* Being apart is mutual. *)
LEMMA ApartIsMutual == ASSUME NEW q, NEW t, Apart(q, t) PROVE Apart(t, q)
BY DEF Apart

(* The idle process holds nothing and relies on nothing. *)
LEMMA IdleFits ==
  /\ Idle \in OpRecords /\ Shape(Idle) /\ Holds(Idle) /\ Checked(Idle)
  /\ \A t : Apart(Idle, t)
<1>1. Idle \in OpRecords BY DEF Idle, OpRecords, Stages
<1>2. Shape(Idle) /\ Checked(Idle) BY DEF Idle, Shape, Checked, OfRole, OfUser
<1>3. Holds(Idle) BY DEF Idle, Holds, Replaces
<1>4. \A t : Apart(Idle, t) BY DEF Idle, Apart
<1>5. QED BY <1>1, <1>2, <1>3, <1>4

(* The invariant holds initially. *)
LEMMA AccessInit == Init => AInv
<1> SUFFICES ASSUME Init PROVE AInv OBVIOUS
<1>1. TypeOK BY DEF Init, TypeOK, Owners, Pairs
<1>2. Types
  <2>1. op \in [Procs -> OpRecords] BY IdleFits DEF Init
  <2>2. asked \in [Owners -> SUBSET Items] BY DEF Init, Items
  <2>3. \A r \in rows : r[1] \in there BY DEF Init
  <2>4. QED BY <2>1, <2>2, <2>3 DEF Types
<1>3. CommitsHold
  <2>1. ASSUME NEW o \in there PROVE ItemsOf(o) = asked[o]
    BY <2>1 DEF Init, ItemsOf, Items, Owners
  <2>2. ReplacedExactly BY <2>1 DEF ReplacedExactly
  <2>3. KeysActForServiceAccounts BY DEF KeysActForServiceAccounts, Init
  <2>4. QED BY <2>2, <2>3 DEF CommitsHold
<1>4. \A p \in Procs : op[p] = Idle BY DEF Init
<1>5. QED BY <1>1, <1>2, <1>3, <1>4, IdleFits DEF AInv

(* A step of one request that leaves the tables alone: what is left to show is about it. *)
LEMMA OneMoves ==
  ASSUME AInv, NEW p \in Procs, NEW q \in OpRecords,
         Shape(q), Holds(q), Checked(q), \A o \in Others(p) : Apart(q, op[o]),
         op' = [op EXCEPT ![p] = q],
         UNCHANGED <<there, used, service, rows, keys, asked, crossed, unmarked>>,
         requests' \in 0..MaxRequests, faults' \in 0..MaxFaults
  PROVE  AInv'
<1>1. TypeOK' BY DEF AInv, TypeOK
<1>2. Types' BY DEF AInv, Types
<1>3. CommitsHold'
  BY DEF AInv, CommitsHold, ReplacedExactly, KeysActForServiceAccounts, ItemsOf
<1>4. \A o \in Procs : op'[o] = IF o = p THEN q ELSE op[o]
  BY DEF AInv, Types
<1>5. ASSUME NEW o \in Procs PROVE Shape(op[o])' /\ Holds(op[o])' /\ Checked(op[o])'
  <2>1. Shape(op'[o]) /\ Holds(op'[o]) /\ Checked(op'[o]) BY <1>4 DEF AInv
  <2>2. QED BY <2>1 DEF Shape, Holds, Checked, RowsOf
<1>6. ASSUME NEW o \in Procs, NEW t \in Procs, o # t PROVE Apart(op[o], op[t])'
  <2>1. Apart(op'[o], op'[t]) BY <1>4, <1>6, ApartIsMutual DEF AInv, Others
  <2>2. QED BY <2>1 DEF Apart
<1>7. QED BY <1>1, <1>2, <1>3, <1>5, <1>6 DEF AInv

(* A request that ends without a write. *)
LEMMA OneEnds ==
  ASSUME AInv, NEW p \in Procs, End(p), faults' \in 0..MaxFaults,
         UNCHANGED <<there, used, service, rows, keys, asked, crossed, unmarked, requests>>
  PROVE  AInv'
<1>1. requests' \in 0..MaxRequests BY DEF AInv, TypeOK
<1>2. QED BY <1>1, OneMoves, IdleFits DEF End
(* A new request names what its kind is about. *)
LEMMA RequestStep ==
  ASSUME AInv, NEW p \in Procs, NEW k \in Kinds, Request(p, k)
  PROVE  AInv'
<1>1. PICK b \in Bodies(k) :
        op' = [op EXCEPT ![p] = [Idle EXCEPT !.kind = k, !.on = b[1], !.want = b[2],
                                             !.bind = b[3], !.at = "find"]]
  BY DEF Request
<1> DEFINE q == [Idle EXCEPT !.kind = k, !.on = b[1], !.want = b[2], !.bind = b[3], !.at = "find"]
<1>2. /\ k \in RequestKinds /\ b[3] \in Users \cup {NoUser}
      /\ k \in OfRole => b[1] \in Roles /\ b[2] \subseteq Permissions
      /\ k \in OfUser => b[1] \in Users /\ b[2] \subseteq Roles
      /\ k \notin OfRole \cup OfUser => b[1] \in Keys /\ b[2] \subseteq Roles
  BY <1>1 DEF Bodies, Wishes, OfRole, OfUser, RequestKinds
<1>3. q \in OpRecords BY <1>2 DEF OpRecords, Idle, Stages, Owners, Items
<1>4. Shape(q) /\ Holds(q) /\ Checked(q) /\ \A t : Apart(q, t)
  BY <1>2 DEF Shape, Holds, Checked, Apart, Idle, Replaces, RequestKinds
<1>5. requests' \in 0..MaxRequests /\ faults' \in 0..MaxFaults
  BY DEF Request, AInv, TypeOK
<1>6. QED BY <1>1, <1>3, <1>4, <1>5, OneMoves DEF Request

(* A request that goes on to another stage holding nothing. *)
LEMMA OneGoesOn ==
  ASSUME AInv, NEW p \in Procs, NEW s \in Stages \ {"idle", "delete", "insert", "commit"},
         op[p].at \notin {"idle", "delete", "insert", "commit"},
         Go(p, s), s = "touch" => op[p].kind = "updateRole",
         s = "defaults" => op[p].kind = "createUser",
         s = "actor" => op[p].kind \in {"createKey", "updateKey"},
         s = "select" => op[p].kind \in Replaces,
         s \in {"touch", "select"} => op[p].on \in used,
         s = "write" => Checked([op[p] EXCEPT !.at = "write"]),
         UNCHANGED <<there, used, service, rows, keys, asked, crossed, unmarked, requests, faults>>
  PROVE  AInv'
<1> DEFINE q == [op[p] EXCEPT !.at = s]
<1>1. op[p] \in OpRecords /\ Shape(op[p]) /\ Holds(op[p]) BY DEF AInv, Types
<1>2. q \in OpRecords BY <1>1 DEF OpRecords
<1>3. Shape(q) BY <1>1 DEF Shape, OpRecords
<1>4. Holds(q) BY <1>1 DEF Shape, Holds, OpRecords
<1>5. Checked(q) BY <1>1 DEF Checked, OpRecords
<1>6. \A o \in Others(p) : Apart(q, op[o]) BY <1>1 DEF Shape, Apart, OpRecords
<1>7. requests' \in 0..MaxRequests /\ faults' \in 0..MaxFaults BY DEF AInv, TypeOK
<1>8. op' = [op EXCEPT ![p] = q] BY DEF Go
<1>9. QED BY <1>2, <1>3, <1>4, <1>5, <1>6, <1>7, <1>8, OneMoves

(* The first read: a removal of a role goes on only while nobody has it. *)
LEMMA FindStep == ASSUME AInv, NEW p \in Procs, Find(p) PROVE AInv'
<1>1. op[p] \in OpRecords /\ Shape(op[p]) BY DEF AInv, Types
<1>2. CASE ~Passes(op[p])
  <2>1. faults' \in 0..MaxFaults BY DEF Find, AInv, TypeOK
  <2>2. QED BY <1>2, <2>1, OneEnds DEF Find
<1>3. CASE Passes(op[p])
  <2> DEFINE s == Then(op[p])
  <2>1. op[p].kind \in RequestKinds \cup {"none"} BY <1>1 DEF OpRecords
  <2>2. op[p].kind # "none" BY <1>1 DEF Find, Shape
  <2>3. s \in Stages \ {"idle", "delete", "insert", "commit"}
    BY <2>1, <2>2 DEF Then, Stages, RequestKinds
  <2>4. /\ s = "touch" => op[p].kind = "updateRole"
        /\ s = "defaults" => op[p].kind = "createUser"
        /\ s = "actor" => op[p].kind \in {"createKey", "updateKey"}
        /\ s = "select" => op[p].kind \in Replaces
    BY <2>1, <2>2 DEF Then, Replaces, RequestKinds
  <2>5. s \in {"touch", "select"} => op[p].on \in used
    BY <1>3, <2>1, <2>2 DEF Then, Passes, AInv, TypeOK, RequestKinds
  <2>6. s = "write" => Checked([op[p] EXCEPT !.at = "write"])
    <3> SUFFICES ASSUME s = "write" PROVE Checked([op[p] EXCEPT !.at = "write"])
      OBVIOUS
    <3>1. ASSUME op[p].kind = "removeRole"
          PROVE  op[p].on \notin SystemRoles /\ {x \in rows : x[2] = op[p].on} = {}
      <4>1. Deletable(op[p].on) BY <1>3, <3>1 DEF Passes
      <4>2. op[p].on \in Roles BY <1>1, <3>1 DEF Shape, OfRole
      <4>3. QED BY <4>1, <4>2 DEF Deletable, Unassigned, AInv, TypeOK, Pairs
    <3>2. op[p].kind \in {"createKey", "updateKey"} => op[p].bind = NoUser
      BY <2>1, <2>2 DEF Then, RequestKinds
    <3>3. QED BY <1>1, <3>1, <3>2 DEF Checked, OpRecords
  <2>7. op[p].at \notin {"idle", "delete", "insert", "commit"} BY DEF Find
  <2>8. QED BY <1>3, <2>7, <2>3, <2>4, <2>5, <2>6, OneGoesOn DEF Find
<1>4. QED BY <1>2, <1>3

(* assertActingUser: the account is marked when it is read. *)
LEMMA CheckActorStep == ASSUME AInv, NEW p \in Procs, CheckActor(p) PROVE AInv'
<1>1. CASE ~MayAct(op[p].bind)
  <2>1. faults' \in 0..MaxFaults BY DEF CheckActor, AInv, TypeOK
  <2>2. QED BY <1>1, <2>1, OneEnds DEF CheckActor
<1>2. CASE MayAct(op[p].bind)
  <2>1. op[p] \in OpRecords BY DEF AInv, Types
  <2>2. op[p].kind \in {"createKey", "updateKey"} BY DEF CheckActor, AInv, Shape
  <2>3. Checked([op[p] EXCEPT !.at = "write"])
    BY <1>2, <2>1, <2>2 DEF Checked, MayAct, OpRecords
  <2>4. "write" \in Stages \ {"idle", "delete", "insert", "commit"} BY DEF Stages
  <2>5. QED BY <1>2, <2>3, <2>4, OneGoesOn DEF CheckActor
<1>3. QED BY <1>1, <1>2

(* role.update in the transaction, which takes the lock on the role. *)
LEMMA TouchStep == ASSUME AInv, NEW p \in Procs, TouchRole(p) PROVE AInv'
<1>1. CASE op[p].on \notin there
  <2>1. faults' \in 0..MaxFaults BY DEF TouchRole, AInv, TypeOK
  <2>2. QED BY <1>1, <2>1, OneEnds DEF TouchRole
<1>2. CASE op[p].on \in there
  <2>1. op[p].kind \in Replaces /\ op[p].on \in used
    BY <1>2 DEF TouchRole, AInv, Shape, Replaces, TypeOK
  <2>2. "select" \in Stages \ {"idle", "delete", "insert", "commit"} BY DEF Stages
  <2>3. QED BY <1>2, <2>1, <2>2, OneGoesOn DEF TouchRole
<1>3. QED BY <1>1, <1>2

(* defaultRoleIds *)
LEMMA DefaultsStep == ASSUME AInv, NEW p \in Procs, DefaultRoles(p) PROVE AInv'
<1>1. op[p] \in OpRecords /\ Shape(op[p]) /\ Holds(op[p]) /\ op[p].at = "defaults"
      /\ op[p].kind = "createUser"
  BY DEF AInv, Types, DefaultRoles, Shape
<1> DEFINE q == [op[p] EXCEPT !.at = "insert",
                              !.want = IF op[p].want = {} THEN {UserRole} ELSE op[p].want]
<1>2. q \in OpRecords
  <2>1. op[p].want \subseteq Items /\ {UserRole} \subseteq Items BY <1>1 DEF OpRecords, Items
  <2>2. PICK w \in SUBSET Items : w = IF op[p].want = {} THEN {UserRole} ELSE op[p].want
    BY <2>1
  <2>3. q = [op[p] EXCEPT !.at = "insert", !.want = w] BY <2>2
  <2> HIDE DEF q
  <2>4. QED BY <1>1, <2>3 DEF OpRecords, Stages
<1>3. Shape(q) BY <1>1 DEF Shape, OpRecords, OfRole, OfUser, Replaces
<1>4. Holds(q) BY <1>1 DEF Shape, Holds, OpRecords, Replaces
<1>5. Checked(q) BY <1>1 DEF Checked, OpRecords
<1>6. \A o \in Others(p) : Apart(q, op[o]) BY <1>1 DEF Shape, Apart, OpRecords
<1>7. requests' \in 0..MaxRequests /\ faults' \in 0..MaxFaults
  BY DEF DefaultRoles, AInv, TypeOK
<1>8. op' = [op EXCEPT ![p] = q] BY DEF DefaultRoles
<1>9. QED BY <1>2, <1>3, <1>4, <1>5, <1>6, <1>7, <1>8, OneMoves DEF DefaultRoles

(* The delete reads the rows of its owner ... *)
LEMMA SelectStep == ASSUME AInv, NEW p \in Procs, SelectRows(p) PROVE AInv'
<1> DEFINE mine == {r \in rows : r[1] = op[p].on}
           q == [op[p] EXCEPT !.at = "delete", !.snap = mine]
<1>1. op[p] \in OpRecords /\ Shape(op[p]) /\ Holds(op[p]) /\ op[p].at = "select"
      /\ op[p].kind \in Replaces
  BY DEF AInv, Types, SelectRows, Shape
<1>2. mine \subseteq Pairs BY DEF AInv, TypeOK
<1>3. q \in OpRecords BY <1>1, <1>2 DEF OpRecords, Stages
<1>4. Shape(q) BY <1>1 DEF Shape, OpRecords
<1>5. Holds(q) BY <1>1 DEF Shape, Holds, OpRecords, RowsOf
<1>6. Checked(q) BY <1>1 DEF Checked, OpRecords
<1>7. \A o \in Others(p) : Apart(q, op[o]) BY <1>1 DEF Shape, Apart, OpRecords
<1>8. requests' \in 0..MaxRequests /\ faults' \in 0..MaxFaults
  BY DEF SelectRows, AInv, TypeOK
<1>9. op' = [op EXCEPT ![p] = q] BY DEF SelectRows
<1>10. QED BY <1>3, <1>4, <1>5, <1>6, <1>7, <1>8, <1>9, OneMoves DEF SelectRows

(* ... and deletes them, once nobody else holds them.  What another transaction inserted is
   not among them: it is not committed, or replaces a row that transaction holds. *)
LEMMA DeleteStep == ASSUME AInv, NEW p \in Procs, DeleteRows(p) PROVE AInv'
<1> DEFINE q == [op[p] EXCEPT !.at = "insert", !.deleted = op[p].snap, !.snap = {}]
<1>1. op[p] \in OpRecords /\ Shape(op[p]) /\ Holds(op[p]) /\ op[p].at = "delete"
      /\ op[p].kind \in Replaces /\ op[p].inserted = {}
  BY DEF AInv, Types, DeleteRows, Shape
<1>2. q \in OpRecords BY <1>1 DEF OpRecords, Stages
<1>3. Shape(q) BY <1>1 DEF Shape, OpRecords, Replaces
<1>4. Holds(q) BY <1>1 DEF Shape, Holds, OpRecords
<1>5. Checked(q) BY <1>1 DEF Checked, OpRecords
<1>6. ASSUME NEW o \in Others(p) PROVE Apart(q, op[o])
  <2>1. op[p].snap \cap op[o].deleted = {} BY <1>6 DEF DeleteRows, Held
  <2>2. op[p].snap \subseteq rows BY <1>1 DEF Holds, RowsOf
  <2>3. op[o].inserted \cap rows \subseteq op[o].deleted BY <1>6 DEF AInv, Holds, Others
  <2>4. q.deleted = op[p].snap /\ q.inserted = {} /\ q.at = "insert" BY <1>1 DEF OpRecords
  <2>5. QED BY <2>1, <2>2, <2>3, <2>4 DEF Apart
<1>7. requests' \in 0..MaxRequests /\ faults' \in 0..MaxFaults
  BY DEF DeleteRows, AInv, TypeOK
<1>8. op' = [op EXCEPT ![p] = q] BY DEF DeleteRows
<1>9. QED BY <1>2, <1>3, <1>4, <1>5, <1>6, <1>7, <1>8, OneMoves DEF DeleteRows

(* createMany inserts rows nobody has or holds, of things that exist. *)
LEMMA InsertStep == ASSUME AInv, NEW p \in Procs, InsertRows(p) PROVE AInv'
<1>1. CASE Refused(p)
  <2>1. faults' \in 0..MaxFaults BY DEF InsertRows, AInv, TypeOK
  <2>2. QED BY <1>1, <2>1, OneEnds DEF InsertRows
<1>2. CASE ~Refused(p)
  <2> DEFINE q == [op[p] EXCEPT !.at = "commit", !.inserted = Rows(p)]
  <2>1. op[p] \in OpRecords /\ Shape(op[p]) /\ Holds(op[p]) /\ op[p].at = "insert"
        /\ op[p].kind \in Replaces \cup {"createUser"}
    BY DEF AInv, Types, InsertRows, Shape
  <2>2. \/ op[p].on \in Roles /\ op[p].want \subseteq Permissions
        \/ op[p].on \in Users /\ op[p].want \subseteq Roles
    BY <2>1 DEF Shape, OfRole, OfUser, Replaces
  <2>3. Rows(p) \subseteq Pairs BY <2>2 DEF Rows, Pairs
  <2>4. q \in OpRecords BY <2>1, <2>3 DEF OpRecords, Stages
  <2>5. Shape(q) BY <2>1 DEF Shape, OpRecords
  <2>6. Holds(q)
    <3>1. Rows(p) \cap rows \subseteq op[p].deleted BY <1>2 DEF Refused
    <3>2. ASSUME NEW r \in Rows(p)
          PROVE  /\ r[1] \in there \/ op[p].kind = "createUser"
                 /\ r[2] \in there \cup Permissions
      <4>1. r[1] = op[p].on /\ r[2] \in op[p].want BY <3>2 DEF Rows
      <4>2. QED BY <1>2, <2>2, <4>1 DEF Refused
    <3>3. op[p].kind = "createUser" => op[p].on \notin used BY <1>2 DEF Refused
    <3>4. QED BY <2>1, <3>1, <3>2, <3>3 DEF Holds, OpRecords, Rows, Shape, Replaces
  <2>7. Checked(q) BY <2>1 DEF Checked, OpRecords
  <2>8. ASSUME NEW o \in Others(p) PROVE Apart(q, op[o])
    <3>1. Apart(op[p], op[o]) BY <2>8 DEF AInv, Others
    <3>2. Rows(p) \cap op[o].deleted = {} /\ Rows(p) \cap op[o].inserted = {}
      BY <2>8 DEF InsertRows, Held, Pending
    <3>3. op[o].kind = "createUser" /\ op[o].at = "commit" => op[p].on # op[o].on
      BY <2>8 DEF InsertRows, Creating
    <3>4. q.deleted = op[p].deleted /\ q.inserted = Rows(p) /\ q.on = op[p].on
      BY <2>1 DEF OpRecords
    <3>5. QED BY <3>1, <3>2, <3>3, <3>4 DEF Apart
  <2>9. requests' \in 0..MaxRequests /\ faults' \in 0..MaxFaults
    BY DEF InsertRows, AInv, TypeOK
  <2>10. op' = [op EXCEPT ![p] = q] BY <1>2 DEF InsertRows
  <2>11. QED BY <2>4, <2>5, <2>6, <2>7, <2>8, <2>9, <2>10, OneMoves DEF InsertRows
<1>3. QED BY <1>1, <1>2

(* A rollback. *)
LEMMA AbortStep == ASSUME AInv, NEW p \in Procs, Abort(p) PROVE AInv'
<1>1. faults' \in 0..MaxFaults BY DEF Abort, AInv, TypeOK
<1>2. QED BY <1>1, OneEnds DEF Abort

(* A change of keys or marks: the requests hold the same rows. *)
LEMMA OneWritesBeside ==
  ASSUME AInv, NEW p \in Procs, End(p),
         UNCHANGED <<there, used, rows, asked, crossed, requests, faults>>,
         service' \subseteq Users \cap there, unmarked' \subseteq Users,
         service \cup unmarked \subseteq service' \cup unmarked',
         \A k \in DOMAIN keys' : /\ keys'[k].role \in there
                                 /\ keys'[k].actor \in there \cup {NoUser}
                                 /\ keys'[k].actor \in service' \cup unmarked' \cup {NoUser}
  PROVE  AInv'
<1>1. TypeOK' BY DEF AInv, TypeOK
<1>2. \A o \in Procs : op'[o] = IF o = p THEN Idle ELSE op[o]
  BY DEF AInv, Types, End
<1>3. Types' BY IdleFits DEF AInv, Types, End
<1>4. CommitsHold'
  BY DEF AInv, CommitsHold, ReplacedExactly, KeysActForServiceAccounts, ItemsOf
<1>5. ASSUME NEW o \in Procs PROVE Shape(op[o])' /\ Holds(op[o])' /\ Checked(op[o])'
  <2>1. Shape(op'[o]) /\ Holds(op'[o]) /\ Checked(op'[o]) BY <1>2, IdleFits DEF AInv
  <2>2. QED BY <2>1 DEF Shape, Holds, Checked, RowsOf
<1>6. ASSUME NEW o \in Procs, NEW t \in Procs, o # t PROVE Apart(op[o], op[t])'
  <2>1. Apart(op'[o], op'[t]) BY <1>2, <1>6, IdleFits, ApartIsMutual DEF AInv
  <2>2. QED BY <2>1 DEF Apart
<1>7. QED BY <1>1, <1>3, <1>4, <1>5, <1>6 DEF AInv

(* isServiceAccount: an account that loses its mark is remembered. *)
LEMMA MarkStep == ASSUME AInv, NEW p \in Procs, MarkAccount(p) PROVE AInv'
<1>1. op[p].on \in Users BY DEF MarkAccount, Write, AInv, Shape, OfUser
<1>2. service' \subseteq Users \cap there /\ unmarked' \subseteq Users
  BY <1>1 DEF MarkAccount, AInv, TypeOK
<1>3. service \cup unmarked \subseteq service' \cup unmarked' BY DEF MarkAccount
<1>4. \A k \in DOMAIN keys' : /\ keys'[k].role \in there
                              /\ keys'[k].actor \in there \cup {NoUser}
                              /\ keys'[k].actor \in service' \cup unmarked' \cup {NoUser}
  BY <1>3 DEF MarkAccount, AInv, TypeOK, CommitsHold, KeysActForServiceAccounts
<1>5. QED BY <1>2, <1>3, <1>4, OneWritesBeside DEF MarkAccount

(* A saved key acts for an account that was marked when it was checked and still exists: if the
   mark is gone, it was taken away. *)
LEMMA SaveStep == ASSUME AInv, NEW p \in Procs, SaveKey(p) PROVE AInv'
<1> DEFINE row == [role |-> CHOOSE r \in op[p].want : TRUE, actor |-> op[p].bind]
           ok == /\ row.role \in there /\ row.actor \in there \cup {NoUser}
                 /\ (op[p].kind = "createKey") = (op[p].on \notin DOMAIN keys)
<1>1. row.actor = op[p].bind OBVIOUS
<1>2. op[p].bind \in service \cup unmarked \cup {NoUser} \cup (used \ there)
  BY DEF SaveKey, Write, AInv, Checked
<1>3. NoUser \notin Users OBVIOUS
<1>4. ASSUME ok
      PROVE  row.role \in there /\ row.actor \in there \cup {NoUser}
             /\ row.actor \in service \cup unmarked \cup {NoUser}
  BY <1>1, <1>2, <1>4
<1>5. keys' = IF ~ok THEN keys
              ELSE [k \in DOMAIN keys \cup {op[p].on} |-> IF k = op[p].on THEN row ELSE keys[k]]
  BY DEF SaveKey
<1> HIDE DEF row, ok
<1>6. \A k \in DOMAIN keys : /\ keys[k].role \in there
                             /\ keys[k].actor \in there \cup {NoUser}
                             /\ keys[k].actor \in service \cup unmarked \cup {NoUser}
  BY DEF AInv, TypeOK, CommitsHold, KeysActForServiceAccounts
<1>7. \A k \in DOMAIN keys' : /\ keys'[k].role \in there
                              /\ keys'[k].actor \in there \cup {NoUser}
                              /\ keys'[k].actor \in service \cup unmarked \cup {NoUser}
  <2>1. CASE ~ok BY <1>5, <1>6, <2>1
  <2>2. CASE ok
    <3>1. \A k \in DOMAIN keys' : keys'[k] = row \/ (k \in DOMAIN keys /\ keys'[k] = keys[k])
      BY <1>5, <2>2
    <3>2. QED BY <1>4, <1>6, <2>2, <3>1
  <2>3. QED BY <2>1, <2>2
<1>8. QED BY <1>7, OneWritesBeside DEF SaveKey, AInv, TypeOK

(* A key that is revoked. *)
LEMMA RemoveKeyStep == ASSUME AInv, NEW p \in Procs, RemoveKey(p) PROVE AInv'
<1>1. \A k \in DOMAIN keys' : k \in DOMAIN keys /\ keys'[k] = keys[k] BY DEF RemoveKey
<1>2. QED BY <1>1, OneWritesBeside
  DEF RemoveKey, AInv, TypeOK, CommitsHold, KeysActForServiceAccounts

(* roles.create: nobody has seen or holds rows of an id that was never given out. *)
LEMMA CreateStep == ASSUME AInv, NEW p \in Procs, CreateRole(p) PROVE AInv'
<1>0. PICK n, w : n = op[p].on /\ w = op[p].want OBVIOUS
<1>1. n \in Roles /\ w \subseteq Permissions /\ Rows(p) = {n} \X w
  BY <1>0 DEF CreateRole, Write, AInv, Shape, OfRole, Rows
<1>2. CASE n \in used
  <2>1. faults' \in 0..MaxFaults BY DEF CreateRole, AInv, TypeOK
  <2>2. QED BY <1>0, <1>2, <2>1, OneEnds DEF CreateRole
<1>3. CASE n \notin used
  <2>1. /\ there' = there \cup {n} /\ used' = used \cup {n} /\ rows' = rows \cup ({n} \X w)
        /\ asked' = [asked EXCEPT ![n] = w] /\ op' = [op EXCEPT ![p] = Idle]
        /\ UNCHANGED <<service, keys, requests, faults, crossed, unmarked>>
    BY <1>0, <1>1, <1>3 DEF CreateRole, End
  <2>2. \A o \in Procs : op'[o] = IF o = p THEN Idle ELSE op[o] BY <2>1 DEF AInv, Types
  <2>3. n \notin there /\ \A r \in rows : r \in Pairs /\ r[1] # n
    BY <1>3 DEF AInv, TypeOK, Types
  <2>4. TypeOK'
    <3>1. {n} \X w \subseteq Pairs BY <1>1 DEF Pairs
    <3>2. \A r \in rows' : {r[1], r[2]} \subseteq there' \cup Permissions
      BY <1>1, <2>1 DEF AInv, TypeOK
    <3>3. QED BY <1>1, <2>1, <3>1, <3>2 DEF AInv, TypeOK, Owners
  <2>5. Types'
    <3>1. op' \in [Procs -> OpRecords] BY <2>1, IdleFits DEF AInv, Types
    <3>2. asked' \in [Owners -> SUBSET Items] BY <1>1, <2>1 DEF AInv, Types, Items
    <3>3. QED BY <2>1, <3>1, <3>2 DEF AInv, Types
  <2>6. CommitsHold'
    <3>1. asked'[n] = w BY <1>1, <2>1 DEF AInv, Types, Owners
    <3>2. ItemsOf(n)' = w
      <4>1. \A i \in Items : <<n, i>> \in rows' <=> i \in w BY <2>1, <2>3
      <4>2. w \subseteq Items BY <1>1 DEF Items
      <4>3. QED BY <4>1, <4>2 DEF ItemsOf
    <3>3. ASSUME NEW o \in there PROVE ItemsOf(o)' = ItemsOf(o) /\ asked'[o] = asked[o]
      <4>1. o # n BY <2>3
      <4>2. \A i \in Items : <<o, i>> \in rows' <=> <<o, i>> \in rows BY <2>1, <4>1
      <4>3. QED BY <2>1, <4>1, <4>2 DEF ItemsOf, AInv, Types, TypeOK
    <3>4. ReplacedExactly' BY <2>1, <3>1, <3>2, <3>3 DEF AInv, CommitsHold, ReplacedExactly
    <3>5. KeysActForServiceAccounts'
      BY <2>1 DEF AInv, CommitsHold, KeysActForServiceAccounts
    <3>6. QED BY <3>4, <3>5 DEF CommitsHold
  <2>7. ASSUME NEW o \in Procs PROVE Shape(op[o])' /\ Holds(op[o])' /\ Checked(op[o])'
    <3>1. Shape(op'[o]) /\ Holds(op'[o]) /\ Checked(op'[o]) BY <2>2, IdleFits DEF AInv
    <3>2. Shape(op[o])' BY <3>1 DEF Shape
    <3>3. op'[o].inserted \cap ({n} \X w) = {}
      BY <1>1, <2>3, <3>1 DEF Holds, Shape, OfRole, OfUser, Replaces
    <3>4. op'[o].kind = "createUser" => op'[o].on # n
      BY <1>1, <3>1 DEF Shape, OfUser
    <3>5. \A x : RowsOf(x) \subseteq RowsOf(x)' /\ (x # n => RowsOf(x)' = RowsOf(x))
      BY <2>1 DEF RowsOf
    <3>6. op'[o].kind \in Replaces /\ op'[o].at \in {"delete", "insert", "commit"}
          => op'[o].on # n
      BY <1>3, <3>1 DEF Holds
    <3>7. Holds(op[o])'
      BY <2>1, <3>1, <3>3, <3>4, <3>5, <3>6 DEF Holds, Shape
    <3>8. Checked(op[o])'
      <4>1. \A r \in {n} \X w : r[2] \notin Roles BY <1>1
      <4>2. op'[o].kind = "removeRole"
            => {x \in rows' : x[2] = op'[o].on} = {x \in rows : x[2] = op'[o].on}
        BY <2>1, <3>1, <4>1 DEF Shape, OfRole
      <4>3. used' \ there' = used \ there BY <1>3, <2>1, <2>3
      <4>4. QED BY <2>1, <3>1, <4>2, <4>3 DEF Checked
    <3>9. QED BY <3>2, <3>7, <3>8
  <2>8. ASSUME NEW o \in Procs, NEW t \in Procs, o # t PROVE Apart(op[o], op[t])'
    <3>1. Apart(op'[o], op'[t]) BY <2>2, <2>8, IdleFits, ApartIsMutual DEF AInv
    <3>2. QED BY <3>1 DEF Apart
  <2>9. QED BY <2>4, <2>5, <2>6, <2>7, <2>8 DEF AInv
<1>4. QED BY <1>2, <1>3

(* An account or a role goes with its rows; nobody holds them, and who has seen them forgets. *)
LEMMA EraseStep ==
  ASSUME AInv, NEW p \in Procs, Remove(p), op[p].on \in there, ~Bound(op[p].on)
  PROVE  AInv'
<1>0. PICK x : x = op[p].on OBVIOUS
<1>1. /\ Erase(p, x) /\ service' = service \cap there' /\ x \in there
      /\ UNCHANGED <<used, keys, requests, faults, unmarked>>
      /\ op[p].at = "write" /\ op[p].kind \in {"removeRole", "removeUser"}
  BY <1>0 DEF Remove, Write
<1>2. /\ there' = there \ {x} /\ rows' = rows \ About(x) /\ crossed' = crossed \ {x}
      /\ asked' = [o \in Owners |-> IF o = x THEN {} ELSE asked[o] \ {x}]
      /\ op' = [o \in Procs |-> IF o = p THEN Idle ELSE Forget(op[o], About(x))]
  BY <1>1 DEF Erase
<1>3. \A r \in rows : r \in About(x) <=> x \in {r[1], r[2]}
  BY DEF About, AInv, TypeOK
<1>4. x \notin SystemRoles
  <2>1. CASE op[p].kind = "removeRole" BY <1>0, <1>1, <2>1 DEF AInv, Checked
  <2>2. CASE op[p].kind = "removeUser" BY <1>0, <1>1, <2>2 DEF AInv, Shape, OfUser
  <2>3. QED BY <1>1, <2>1, <2>2
<1>5. \A k \in DOMAIN keys : keys[k].role # x /\ keys[k].actor # x
  BY <1>0 DEF Bound
<1>6. ASSUME NEW o \in Procs, o # p
      PROVE  /\ op[o] \in OpRecords /\ op'[o] \in OpRecords
             /\ op'[o].kind = op[o].kind /\ op'[o].on = op[o].on /\ op'[o].want = op[o].want
             /\ op'[o].bind = op[o].bind /\ op'[o].at = op[o].at
             /\ op'[o].snap = op[o].snap \ About(x) /\ op'[o].deleted = op[o].deleted
             /\ op'[o].inserted = op[o].inserted /\ op'[o].since = op[o].since
             /\ op'[o].met = op[o].met
             /\ About(x) \cap (op[o].deleted \cup op[o].inserted) = {}
  <2>1. op'[o] = [op[o] EXCEPT !.snap = op[o].snap \ About(x)] BY <1>2, <1>6 DEF Forget
  <2>2. op[o] \in OpRecords BY DEF AInv, Types
  <2>3. About(x) \cap (op[o].deleted \cup op[o].inserted) = {}
    BY <1>0, <1>6 DEF Remove, Blocked, Held, Pending, Others
  <2>4. QED BY <2>1, <2>2, <2>3 DEF OpRecords
<1>7. TypeOK'
  <2>1. \A r \in rows' : {r[1], r[2]} \subseteq there' \cup Permissions
    BY <1>2, <1>3 DEF AInv, TypeOK
  <2>2. QED BY <1>1, <1>2, <1>4, <1>5, <2>1 DEF AInv, TypeOK
<1>8. Types'
  <2>1. op' \in [Procs -> OpRecords] BY <1>2, <1>6, IdleFits
  <2>2. asked' \in [Owners -> SUBSET Items] BY <1>2 DEF AInv, Types
  <2>3. \A r \in rows' : r[1] \in there' BY <1>2, <1>3 DEF AInv, Types
  <2>4. QED BY <2>1, <2>2, <2>3 DEF Types
<1>9. CommitsHold'
  <2>1. ASSUME NEW o \in there, o # x
        PROVE  ItemsOf(o)' = ItemsOf(o) \ {x} /\ asked'[o] = asked[o] \ {x}
    <3>1. \A i \in Items : <<o, i>> \in rows' <=> <<o, i>> \in rows /\ i # x
      BY <1>2, <1>3, <2>1
    <3>2. QED BY <1>2, <2>1, <3>1 DEF ItemsOf, AInv, TypeOK
  <2>2. ReplacedExactly'
    <3> SUFFICES ASSUME NEW o \in there'
                 PROVE  /\ asked'[o] \subseteq ItemsOf(o)'
                        /\ o \notin crossed' => ItemsOf(o)' = asked'[o]
      BY DEF ReplacedExactly
    <3>1. o \in there /\ o # x /\ (o \in crossed => o \in crossed') BY <1>2
    <3>2. asked[o] \subseteq ItemsOf(o) /\ (o \notin crossed => ItemsOf(o) = asked[o])
      BY <3>1 DEF AInv, CommitsHold, ReplacedExactly
    <3>3. QED BY <2>1, <3>1, <3>2
  <2>3. KeysActForServiceAccounts'
    BY <1>1, <1>2, <1>5 DEF AInv, TypeOK, CommitsHold, KeysActForServiceAccounts
  <2>4. QED BY <2>2, <2>3 DEF CommitsHold
<1>10. ASSUME NEW o \in Procs PROVE Shape(op[o])' /\ Holds(op[o])' /\ Checked(op[o])'
  <2>1. CASE o = p
    <3>1. op'[o] = Idle BY <1>2, <2>1
    <3>2. QED BY <3>1 DEF Idle, Shape, Holds, Checked, OfRole, OfUser, Replaces
  <2>2. CASE o # p
    <3>1. Shape(op[o]) /\ Holds(op[o]) /\ Checked(op[o]) BY DEF AInv
    <3>2. Shape(op[o])' BY <1>6, <2>2, <3>1 DEF Shape
    <3>3. \A y : RowsOf(y)' = RowsOf(y) \ About(x) BY <1>2 DEF RowsOf
    <3>4. \A r \in op[o].inserted : r[1] # x /\ r[2] # x
      BY <1>3, <1>6, <2>2 DEF About, OpRecords
    <3>5. Holds(op[o])'
      <4>0. PICK y : y = op[o].on OBVIOUS
      <4>1. op[o].snap \ About(x) \subseteq RowsOf(y)' /\ op[o].deleted \subseteq RowsOf(y)'
        BY <1>6, <2>2, <3>1, <3>3, <4>0 DEF Holds
      <4>2. op[o].at = "delete" /\ ~op[o].met => op[o].snap \ About(x) = RowsOf(y)'
        BY <3>1, <3>3, <4>0 DEF Holds
      <4>3. op[o].deleted = RowsOf(y) => op[o].deleted = RowsOf(y)'
        <5>1. About(x) \cap op[o].deleted = {} BY <1>6, <2>2
        <5>2. QED BY <3>3, <5>1
      <4>4. \A r \in op[o].inserted : /\ r[1] \in there' \/ op[o].kind = "createUser"
                                      /\ r[2] \in there' \cup Permissions
        BY <1>2, <3>1, <3>4 DEF Holds
      <4>5. /\ op'[o].kind = op[o].kind /\ op'[o].at = op[o].at /\ op'[o].on = y
            /\ op'[o].want = op[o].want /\ op'[o].deleted = op[o].deleted
            /\ op'[o].inserted = op[o].inserted /\ op'[o].met = op[o].met
            /\ op'[o].snap = op[o].snap \ About(x)
        BY <1>6, <2>2, <4>0
      <4>6. op[o].kind \in Replaces /\ op[o].at \in {"insert", "commit"} /\ ~op[o].met
            => op[o].deleted = RowsOf(y)'
        BY <3>1, <4>0, <4>3 DEF Holds
      <4>7. /\ op[o].at = "commit" => op[o].inserted = {y} \X op[o].want
            /\ op[o].inserted \cap rows' \subseteq op[o].deleted
        BY <1>2, <3>1, <4>0 DEF Holds
      <4>8. /\ op[o].at \in {"touch", "select", "delete", "insert", "commit"}
               /\ op[o].kind \in Replaces => y \in used'
            /\ op[o].at = "commit" /\ op[o].kind = "createUser" => y \notin used'
        BY <1>1, <3>1, <4>0 DEF Holds
      <4>9. QED BY <4>1, <4>2, <4>4, <4>5, <4>6, <4>7, <4>8 DEF Holds
    <3>6. Checked(op[o])'
      <4>1. /\ op'[o].kind = op[o].kind /\ op'[o].at = op[o].at /\ op'[o].on = op[o].on
            /\ op'[o].bind = op[o].bind /\ op'[o].since = op[o].since
        BY <1>6, <2>2
      <4>2. service \subseteq service' \cup {x} /\ used \ there' = (used \ there) \cup {x}
        BY <1>1, <1>2 DEF AInv, TypeOK
      <4>3. rows' \subseteq rows BY <1>2
      <4>4. QED BY <1>1, <3>1, <4>1, <4>2, <4>3 DEF Checked
    <3>7. QED BY <3>2, <3>5, <3>6
  <2>3. QED BY <2>1, <2>2
<1>11. ASSUME NEW o \in Procs, NEW t \in Procs, o # t PROVE Apart(op[o], op[t])'
  <2>1. \A y \in Procs : op'[y] = Idle
          \/ /\ op'[y].deleted = op[y].deleted /\ op'[y].inserted = op[y].inserted
             /\ op'[y].kind = op[y].kind /\ op'[y].at = op[y].at /\ op'[y].on = op[y].on
    BY <1>2, <1>6
  <2>2. Apart(op[o], op[t]) BY <1>11 DEF AInv
  <2>3. QED BY <2>1, <2>2 DEF Apart, Idle
<1>12. QED BY <1>7, <1>8, <1>9, <1>10, <1>11 DEF AInv

(* Removing a role or a user, with the rows that name it, preserves the invariant; what
   is bound or gone is left alone. *)
LEMMA RemoveStep == ASSUME AInv, NEW p \in Procs, Remove(p) PROVE AInv'
<1>1. CASE op[p].on \notin there \/ Bound(op[p].on)
  <2>1. End(p) /\ UNCHANGED <<there, rows, asked, crossed, used, keys, requests, faults, unmarked>>
    BY <1>1 DEF Remove
  <2>2. UNCHANGED service BY <2>1 DEF Remove, AInv, TypeOK
  <2>3. faults' \in 0..MaxFaults BY <2>1 DEF AInv, TypeOK
  <2>4. QED BY <2>1, <2>2, <2>3, OneEnds
<1>2. CASE op[p].on \in there /\ ~Bound(op[p].on) BY <1>2, EraseStep
<1>3. QED BY <1>1, <1>2

(* What a commit, of an owner c who gives up some rows and gains others, makes of another
   request q: the request t. *)
AfterCommit(t, q, c, lost, gained) ==
    /\ t \in OpRecords
    /\ t.kind = q.kind /\ t.on = q.on /\ t.want = q.want /\ t.bind = q.bind /\ t.at = q.at
    /\ t.snap = q.snap \ lost /\ t.deleted = q.deleted /\ t.inserted = q.inserted
    /\ t.since = IF q.at = "write" THEN q.since \cup gained ELSE q.since
    /\ t.met <=> q.met \/ (InWindow(q) /\ q.on = c)

LEMMA CommitMoves ==
  ASSUME AInv, NEW p \in Procs, Commit(p), NEW o \in Procs, o # p
  PROVE  AfterCommit(op'[o], op[o], op[p].on, op[p].deleted, op[p].inserted)
<1>1. op[o] \in OpRecords /\ op[p] \in OpRecords BY DEF AInv, Types
<1>2. op'[o] = [[op[o] EXCEPT !.snap = op[o].snap \ op[p].deleted] EXCEPT
                  !.since = IF op[o].at = "write" THEN op[o].since \cup op[p].inserted
                            ELSE op[o].since,
                  !.met = op[o].met \/ (InWindow(op[o]) /\ op[o].on = op[p].on)]
  BY <1>1 DEF Commit, Forget, OpRecords
<1>3. (op[o].met \/ (InWindow(op[o]) /\ op[o].on = op[p].on)) \in BOOLEAN
  BY <1>1 DEF OpRecords, InWindow
<1> DEFINE since == IF op[o].at = "write" THEN op[o].since \cup op[p].inserted ELSE op[o].since
           met == op[o].met \/ (InWindow(op[o]) /\ op[o].on = op[p].on)
<1>4. since \in SUBSET Pairs BY <1>1 DEF OpRecords
<1> HIDE DEF since, met
<1>5. met \in BOOLEAN BY <1>3 DEF met
<1> DEFINE t == [op[o] EXCEPT !.snap = op[o].snap \ op[p].deleted]
           u == [t EXCEPT !.since = since]
<1>6. t \in OpRecords BY <1>1 DEF OpRecords
<1>7. u \in OpRecords BY <1>4, <1>6 DEF OpRecords
<1>8. op'[o] = [u EXCEPT !.met = met] BY <1>2 DEF since, met
<1>9. /\ u.kind = op[o].kind /\ u.on = op[o].on /\ u.want = op[o].want
      /\ u.bind = op[o].bind /\ u.at = op[o].at
      /\ u.snap = op[o].snap \ op[p].deleted /\ u.deleted = op[o].deleted
      /\ u.inserted = op[o].inserted /\ u.since = since
  BY <1>1 DEF OpRecords
<1> HIDE DEF u
<1>10. op'[o] \in OpRecords BY <1>5, <1>7, <1>8 DEF OpRecords
<1>11. /\ op'[o].kind = u.kind /\ op'[o].on = u.on /\ op'[o].want = u.want
       /\ op'[o].bind = u.bind /\ op'[o].at = u.at /\ op'[o].snap = u.snap
       /\ op'[o].deleted = u.deleted /\ op'[o].inserted = u.inserted
       /\ op'[o].since = u.since
  BY <1>7, <1>8 DEF OpRecords
<1>12. op'[o].met = met BY <1>7, <1>8 DEF OpRecords
<1>13. QED BY <1>9, <1>10, <1>11, <1>12 DEF since, met, AfterCommit

(* A commit: the last one decides what its owner has. *)
LEMMA CommitStep == ASSUME AInv, NEW p \in Procs, Commit(p) PROVE AInv'
<1>0. PICK c, w, del : c = op[p].on /\ w = op[p].want /\ del = op[p].deleted OBVIOUS
<1> DEFINE new == op[p].kind = "createUser"
<1>1. /\ op[p] \in OpRecords /\ Shape(op[p]) /\ Holds(op[p]) /\ op[p].at = "commit"
      /\ op[p].kind \in Replaces \cup {"createUser"} /\ op[p].inserted = {c} \X w
  BY <1>0 DEF AInv, Types, Commit, Shape, Holds
<1>2. /\ rows' = (rows \ del) \cup ({c} \X w)
      /\ there' = there \cup (IF new THEN {c} ELSE {}) /\ used' = used \cup there'
      /\ asked' = [asked EXCEPT ![c] = w]
      /\ crossed' = IF op[p].met THEN crossed \cup {c} ELSE crossed \ {c}
      /\ UNCHANGED <<service, keys, requests, faults, unmarked>>
  BY <1>0, <1>1 DEF Commit
<1>3. op'[p] = Idle BY DEF Commit
<1>4. rows' = (rows \ del) \cup ({c} \X w) /\ \A r \in {c} \X w : r[1] = c
  BY <1>2
<1>5. del \subseteq rows /\ \A r \in del : r[1] = c
  BY <1>0, <1>1 DEF Holds, RowsOf
<1>6. new => c \notin used /\ there' = there \cup {c} /\ used' = used \cup there \cup {c}
  BY <1>0, <1>1, <1>2 DEF Holds
<1>7. ASSUME NEW o \in Procs, o # p
      PROVE  AfterCommit(op'[o], op[o], c, del, {c} \X w)
  <2>1. AfterCommit(op'[o], op[o], op[p].on, op[p].deleted, op[p].inserted)
    BY <1>7, CommitMoves
  <2>2. QED BY <1>0, <1>1, <2>1
<1>8. \/ c \in Roles /\ w \subseteq Permissions /\ ~new
      \/ c \in Users /\ w \subseteq Roles
  BY <1>0, <1>1 DEF Shape, OfRole, OfUser, Replaces
<1>9. /\ {c} \X w \subseteq Pairs /\ c \in Owners /\ w \subseteq Items
      /\ \A r \in {c} \X w : r[1] = c /\ r[2] \in w /\ r[1] \in there' /\ r[2] \in there \cup Permissions
  BY <1>0, <1>1, <1>2, <1>8 DEF Pairs, Owners, Items, Holds
<1>10. /\ del \subseteq RowsOf(c) /\ new => c \notin used
      /\ ~new /\ ~op[p].met => del = RowsOf(c)
  BY <1>0, <1>1 DEF Holds
<1>11. TypeOK'
  <2>1. rows' \subseteq Pairs /\ \A r \in rows' : {r[1], r[2]} \subseteq there' \cup Permissions
    BY <1>2, <1>9 DEF AInv, TypeOK
  <2>2. QED BY <1>2, <1>9, <2>1 DEF AInv, TypeOK
<1>12. Types'
  <2>1. op' \in [Procs -> OpRecords]
    <3>1. \E f : op' = [o \in Procs |-> f[o]]
      <4>1. op' = [o \in Procs |-> op'[o]] BY DEF Commit
      <4>2. QED BY <4>1
    <3>2. \A o \in Procs : op'[o] \in OpRecords BY <1>3, IdleFits, <1>7 DEF AfterCommit
    <3>3. QED BY <3>1, <3>2
  <2>2. asked' \in [Owners -> SUBSET Items] BY <1>2, <1>9 DEF AInv, Types
  <2>3. \A r \in rows' : r[1] \in there' BY <1>2, <1>9 DEF AInv, Types
  <2>4. QED BY <2>1, <2>2, <2>3 DEF Types
<1>13. CommitsHold'
  <2>1. asked'[c] = w BY <1>2, <1>9 DEF AInv, Types
  <2>2. \A i \in w : i \in Items /\ <<c, i>> \in rows' BY <1>2, <1>9
  <2>3. ASSUME ~op[p].met, NEW i \in Items, <<c, i>> \in rows' PROVE i \in w
    <3>1. <<c, i>> \notin rows \ del
      <4>1. CASE new BY <1>6, <4>1 DEF AInv, Types, TypeOK
      <4>2. CASE ~new
        <5>1. del = RowsOf(c) BY <1>10, <2>3, <4>2
        <5>2. QED BY <5>1 DEF RowsOf
      <4>3. QED BY <4>1, <4>2
    <3>2. QED BY <1>2, <2>3, <3>1
  <2>4. ASSUME NEW o \in there, o # c PROVE ItemsOf(o)' = ItemsOf(o) /\ asked'[o] = asked[o]
    <3>1. \A i \in Items : <<o, i>> \in rows' <=> <<o, i>> \in rows
      BY <1>4, <1>5, <2>4
    <3>2. QED BY <1>2, <2>4, <3>1 DEF ItemsOf, AInv, Types, TypeOK
  <2>5. ReplacedExactly'
    <3> SUFFICES ASSUME NEW o \in there'
                 PROVE  /\ asked'[o] \subseteq ItemsOf(o)'
                        /\ o \notin crossed' => ItemsOf(o)' = asked'[o]
      BY DEF ReplacedExactly
    <3>1. CASE o = c BY <1>2, <2>1, <2>2, <2>3, <3>1 DEF ItemsOf
    <3>2. CASE o # c
      <4>1. o \in there /\ (o \in crossed <=> o \in crossed') BY <1>2, <3>2
      <4>2. asked[o] \subseteq ItemsOf(o) /\ (o \notin crossed => ItemsOf(o) = asked[o])
        BY <4>1 DEF AInv, CommitsHold, ReplacedExactly
      <4>3. QED BY <2>4, <3>2, <4>1, <4>2
    <3>3. QED BY <3>1, <3>2
  <2>6. KeysActForServiceAccounts'
    BY <1>2 DEF AInv, CommitsHold, KeysActForServiceAccounts
  <2>7. QED BY <2>5, <2>6 DEF CommitsHold
<1>14. ASSUME NEW o \in Procs, o # p PROVE Shape(op[o])' /\ Holds(op[o])' /\ Checked(op[o])'
  <2>0. PICK y, q : y = op[o].on /\ q = op[o] OBVIOUS
  <2>1. Shape(q) /\ Holds(q) /\ Checked(q) /\ Apart(op[p], q)
    BY <1>14, <2>0 DEF AInv
  <2>2. AfterCommit(op'[o], q, c, del, {c} \X w)
    BY <1>7, <1>14, <2>0
  <2>3. /\ op'[o].kind = q.kind /\ op'[o].on = y /\ op'[o].want = q.want
        /\ op'[o].bind = q.bind /\ op'[o].at = q.at /\ op'[o].snap = q.snap \ del
        /\ op'[o].deleted = q.deleted /\ op'[o].inserted = q.inserted /\ q.on = y
    BY <2>0, <2>2 DEF AfterCommit
  <2>4. Shape(op[o])' BY <2>1, <2>3 DEF Shape
  <2>5. /\ RowsOf(y) \ del \subseteq RowsOf(y)'
        /\ y # c => RowsOf(y)' = RowsOf(y) /\ RowsOf(y) \cap del = {}
    BY <1>4, <1>5 DEF RowsOf
  <2>6. q.snap \ del \subseteq RowsOf(y)' /\ q.deleted \subseteq RowsOf(y)'
    <3>1. q.snap \subseteq RowsOf(y) /\ q.deleted \subseteq RowsOf(y)
      BY <2>1, <2>3 DEF Holds
    <3>2. del \cap q.deleted = {} BY <1>0, <2>1 DEF Apart
    <3>3. QED BY <2>5, <3>1, <3>2
  <2>7. q.at \in {"delete", "insert", "commit"} /\ q.kind \in Replaces /\ ~op'[o].met
        => y # c /\ ~q.met
    BY <2>2, <2>3 DEF AfterCommit, InWindow, Replaces
  <2>8. q.at = "delete" /\ ~op'[o].met => q.snap \ del = RowsOf(y)'
    <3> SUFFICES ASSUME q.at = "delete", ~op'[o].met PROVE q.snap \ del = RowsOf(y)'
      OBVIOUS
    <3>1. q.kind \in Replaces BY <2>1 DEF Shape
    <3>2. y # c /\ ~q.met BY <2>7, <3>1
    <3>3. q.snap = RowsOf(y) BY <2>1, <2>3, <3>2 DEF Holds
    <3>4. QED BY <2>5, <3>2, <3>3
  <2>9. q.kind \in Replaces /\ q.at \in {"insert", "commit"} /\ ~op'[o].met
        => q.deleted = RowsOf(y)'
    <3> SUFFICES ASSUME q.kind \in Replaces, q.at \in {"insert", "commit"}, ~op'[o].met
                 PROVE  q.deleted = RowsOf(y)'
      OBVIOUS
    <3>1. y # c /\ ~q.met BY <2>7
    <3>2. q.deleted = RowsOf(y) BY <2>1, <2>3, <3>1 DEF Holds
    <3>3. QED BY <2>5, <3>1, <3>2
  <2>10. /\ q.at = "commit" => q.inserted = {y} \X q.want
         /\ q.inserted \cap rows' \subseteq q.deleted
    BY <1>1, <1>2, <2>1, <2>3 DEF Holds, Apart
  <2>11. q.at = "commit" /\ q.kind = "createUser" => y \notin used'
    BY <1>0, <1>1, <1>2, <2>1, <2>3 DEF Holds, Apart, AInv, TypeOK
  <2>12. used \subseteq used' /\ there \subseteq there' BY <1>2
  <2>13. /\ \A r \in q.inserted : /\ r[1] \in there' \/ q.kind = "createUser"
                                  /\ r[2] \in there' \cup Permissions
         /\ q.at \in {"touch", "select", "delete", "insert", "commit"} /\ q.kind \in Replaces
            => y \in used'
    BY <2>1, <2>3, <2>12 DEF Holds
  <2>14. Holds(op[o])'
    BY <2>3, <2>6, <2>8, <2>9, <2>10, <2>11, <2>13 DEF Holds
  <2>15. Checked(op[o])'
    <3>1. op'[o].at = "write" => op'[o].since = q.since \cup ({c} \X w)
      BY <2>2, <2>3 DEF AfterCommit
    <3>2. used \ there \subseteq used' \ there'
      <4>1. CASE new BY <1>6, <4>1
      <4>2. CASE ~new BY <1>2, <4>2
      <4>3. QED BY <4>1, <4>2
    <3>3. rows' \subseteq rows \cup ({c} \X w) BY <1>2
    <3>4. op'[o].at = "write" /\ op'[o].kind = "removeRole"
          => op'[o].on \notin SystemRoles /\ {r \in rows' : r[2] = op'[o].on} \subseteq op'[o].since
      BY <2>1, <2>3, <3>1, <3>3 DEF Checked
    <3>5. op'[o].at = "write" /\ op'[o].kind \in {"createKey", "updateKey"}
          => op'[o].bind \in service' \cup unmarked' \cup {NoUser} \cup (used' \ there')
      BY <1>2, <2>1, <2>3, <3>2 DEF Checked
    <3>6. QED BY <3>4, <3>5 DEF Checked
  <2>16. QED BY <2>4, <2>14, <2>15
<1>15. Shape(op[p])' /\ Holds(op[p])' /\ Checked(op[p])'
  BY <1>3 DEF Idle, Shape, Holds, Checked, OfRole, OfUser, Replaces
<1>16. ASSUME NEW o \in Procs, NEW t \in Procs, o # t PROVE Apart(op[o], op[t])'
  <2>1. Apart(op[o], op[t]) BY <1>16 DEF AInv
  <2>2. \A y \in Procs : op'[y] = Idle
          \/ /\ op'[y].deleted = op[y].deleted /\ op'[y].inserted = op[y].inserted
             /\ op'[y].kind = op[y].kind /\ op'[y].at = op[y].at /\ op'[y].on = op[y].on
    BY <1>3, <1>7 DEF AfterCommit
  <2>3. QED BY <2>1, <2>2 DEF Apart, Idle
<1>17. QED BY <1>11, <1>12, <1>13, <1>14, <1>15, <1>16 DEF AInv

(* Every step preserves the invariant. *)
LEMMA AccessStep == AInv /\ [Next]_vars => AInv'
<1> SUFFICES ASSUME AInv, [Next]_vars PROVE AInv' OBVIOUS
<1>1. ASSUME NEW p \in Procs, NEW k \in Kinds, Request(p, k) PROVE AInv'
  BY <1>1, RequestStep
<1>2. ASSUME NEW p \in Procs, Abort(p) PROVE AInv' BY <1>2, AbortStep
<1>3. ASSUME NEW p \in Procs, Find(p) \/ DefaultRoles(p) \/ CheckActor(p) PROVE AInv'
  BY <1>3, FindStep, DefaultsStep, CheckActorStep
<1>4. ASSUME NEW p \in Procs, TouchRole(p) \/ SelectRows(p) \/ DeleteRows(p) PROVE AInv'
  BY <1>4, TouchStep, SelectStep, DeleteStep
<1>5. ASSUME NEW p \in Procs, InsertRows(p) \/ Commit(p) PROVE AInv'
  BY <1>5, InsertStep, CommitStep
<1>6. ASSUME NEW p \in Procs, CreateRole(p) \/ Remove(p) \/ MarkAccount(p) PROVE AInv'
  BY <1>6, CreateStep, RemoveStep, MarkStep
<1>7. ASSUME NEW p \in Procs, SaveKey(p) \/ RemoveKey(p) PROVE AInv'
  BY <1>7, SaveStep, RemoveKeyStep
<1>8. CASE UNCHANGED vars
  <2>1. UNCHANGED <<there, used, service, rows, keys, op, requests, faults, asked, crossed,
                    unmarked>>
    BY <1>8 DEF vars
  <2>2. TypeOK' /\ Types' BY <2>1 DEF AInv, TypeOK, Types
  <2>3. CommitsHold'
    BY <2>1 DEF AInv, CommitsHold, ReplacedExactly, KeysActForServiceAccounts, ItemsOf
  <2>4. \A p \in Procs : Shape(op[p])' /\ Holds(op[p])' /\ Checked(op[p])'
    BY <2>1 DEF AInv, Shape, Holds, Checked, RowsOf
  <2>5. \A p, o \in Procs : p # o => Apart(op[p], op[o])'
    BY <2>1 DEF AInv, Apart
  <2>6. QED BY <2>2, <2>4, <2>3, <2>5 DEF AInv
<1>9. QED BY <1>1, <1>2, <1>3, <1>4, <1>5, <1>6, <1>7, <1>8 DEF Next, Step

(* The inductive invariant holds in every reachable state. *)
THEOREM AccessInvariance == Spec => []AInv
BY AccessInit, AccessStep, PTL DEF Spec

(* Types and references: no row and no key names an account or a role that is gone, and the
   seeded roles stay. *)
THEOREM AccessTypes == Spec => []TypeOK
<1>1. AInv => TypeOK BY DEF AInv
<1>2. QED BY <1>1, AccessInvariance, PTL

(* replaceUserRoles, replacePermissions, ApiKeysService: however requests overlap, fail or are
   rolled back, an owner has at least what the last commit asked for, exactly that unless another
   commit fell into its transaction, and a key acts for an account that was marked. *)
THEOREM CommitsTheorem == Spec => []CommitsHold
<1>1. AInv => CommitsHold BY DEF AInv
<1>2. QED BY <1>1, AccessInvariance, PTL

(* Only a removal makes a role or an account disappear. *)
LEMMA OnlyRemovals ==
  ASSUME Next, \A p \in Procs : ~Remove(p) PROVE there \subseteq there'
<1>1. PICK p \in Procs : Step(p) \/ Abort(p) \/ \E k \in Kinds : Request(p, k)
  BY DEF Next
<1>2. CASE Abort(p) \/ \E k \in Kinds : Request(p, k)
  BY <1>2 DEF Abort, Request
<1>3. CASE Find(p) \/ DefaultRoles(p) \/ CheckActor(p) \/ TouchRole(p)
  BY <1>3 DEF Find, DefaultRoles, CheckActor, TouchRole
<1>4. CASE SelectRows(p) \/ DeleteRows(p) \/ InsertRows(p)
  BY <1>4 DEF SelectRows, DeleteRows, InsertRows
<1>5. CASE Commit(p) BY <1>5 DEF Commit
<1>6. CASE CreateRole(p) \/ MarkAccount(p)
  BY <1>6 DEF CreateRole, MarkAccount
<1>7. CASE SaveKey(p) \/ RemoveKey(p)
  BY <1>7 DEF SaveKey, RemoveKey
<1>8. QED BY <1>1, <1>2, <1>3, <1>4, <1>5, <1>6, <1>7 DEF Step

(* RolesService.remove: a step that makes a role disappear is a removal whose count saw every
   assignment the role has, but those committed since; and never of a seeded role or a key's. *)
THEOREM AssignedTheorem == Spec => AssignedRolesStay
<1> DEFINE Gone(r) ==
      /\ r \notin SystemRoles /\ \A k \in DOMAIN keys : keys[k].role # r
      /\ \E p \in Procs : /\ op[p].kind = "removeRole" /\ op[p].on = r
                          /\ {x \in rows : x[2] = r} \subseteq op[p].since
<1>1. ASSUME AInv, Next, NEW r \in Roles \cap (there \ there') PROVE Gone(r)
  <2>1. PICK p \in Procs : Remove(p) BY <1>1, OnlyRemovals
  <2>2. op[p].at = "write" /\ op[p].kind \in {"removeRole", "removeUser"} /\ op[p].on = r
        /\ ~Bound(r)
    BY <1>1, <2>1 DEF Remove, Write, Erase
  <2>3. op[p].kind = "removeRole" BY <1>1, <2>2 DEF AInv, Shape, OfUser
  <2>4. r \notin SystemRoles /\ {x \in rows : x[2] = r} \subseteq op[p].since
    BY <1>1, <2>2, <2>3 DEF AInv, Checked
  <2>5. QED BY <2>2, <2>3, <2>4 DEF Bound
<1> HIDE DEF Gone
<1>2. AInv /\ [Next]_vars => [\A r \in Roles \cap (there \ there') : Gone(r)]_vars
  BY <1>1
<1> USE DEF Gone
<1>3. QED BY <1>2, AccessInvariance, PTL DEF Spec, AssignedRolesStay
================================================================================
