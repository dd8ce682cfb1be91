---------------------------- MODULE MCPlugins_proofs ----------------------------
(***************************************************************************)
(* resolvePlugins, for any inventory and any manifests; @appspine/plugin-  *)
(* cli, for any packages, presets, inventories and graphs: what a command  *)
(* leaves on disk, and what the generators write.                          *)
(***************************************************************************)
EXTENDS MCPlugins, FiniteSetTheorems, WellFoundedInduction, TLAPS

--------------------------------------------------------------------------------
(* The resolver. *)

Ordered == {order[q] : q \in DOMAIN order}

(* While the inventory is read nothing is ordered. *)
Reading == phase = "read" => order = <<>> /\ remaining = {} /\ ready = {}

(* The loop's bookkeeping. *)
Bookkeeping ==
    phase # "read" =>
        /\ remaining = instances \ Ordered
        /\ \A e \in instances : dependsOn[e] = Resolver!Needed(e)
        /\ \A e \in instances : waiting[e] = Resolver!Needed(e) \ Ordered
        /\ \A e \in ready : waiting[e] = {}

(* What was pushed was pushed once, after all it depends on. *)
Pushed ==
    /\ \A p, q \in DOMAIN order : order[p] = order[q] => p = q
    /\ \A q \in DOMAIN order : Resolver!Needed(order[q]) \subseteq {order[p] : p \in 1..(q - 1)}

(* Without a diagnostic every requirement has a provider, and the loop ends with
   nothing remaining. *)
Reported ==
    /\ result # "none" => phase = "done"
    /\ phase # "read" =>
          \A e \in instances :
              Resolver!Unserved(e) # {} => "missing-required-capability" \in diagnostics
    /\ result = "ok" => diagnostics = {} /\ remaining = {}

RInv == Resolver!TypeOK /\ Reading /\ Bookkeeping /\ Pushed /\ Reported

(* What an instance needs depends on the manifests and the instances alone. *)
LEMMA NeedsAreStable ==
  ASSUME UNCHANGED <<input, instances>>, NEW e
  PROVE  Resolver!Needed(e)' = Resolver!Needed(e) /\ Resolver!Unserved(e)' = Resolver!Unserved(e)
  BY DEF Resolver!Needed, Resolver!Unserved, Resolver!External, Resolver!Wanted,
     Resolver!Optional, Resolver!Providers, Resolver!ProvidedCapabilities,
         Resolver!ManifestOf, Resolver!Bare, Resolver!Qualified

(* A provider is an instance. *)
LEMMA NeedsAreInstances ==
  ASSUME NEW e PROVE Resolver!Needed(e) \subseteq instances
  BY DEF Resolver!Needed, Resolver!External, Resolver!Providers

(* The invariant holds initially. *)
LEMMA ResolverInit == Resolver!Init => RInv
  BY DEF Resolver!Init, RInv, Resolver!TypeOK, Reading, Bookkeeping, Pushed, Reported

(* Reading an entry preserves the invariant. *)
LEMMA ReadStep ==
  ASSUME RInv, NEW e \in todo, Resolver!Read(e) PROVE RInv'
<1> USE DEF RInv
<1>1. /\ phase = "read" /\ phase' = "read" /\ todo' \subseteq todo /\ input' = input
      /\ UNCHANGED <<infos, result, dependsOn, waiting, remaining, ready, order>>
      /\ instances' \subseteq instances \cup {e} /\ instances \subseteq instances'
  BY DEF Resolver!Read
<1>2. Resolver!TypeOK' BY <1>1 DEF Resolver!TypeOK, Reading
<1>3. Reading' BY <1>1 DEF Reading
<1>4. Bookkeeping' BY <1>1 DEF Bookkeeping
<1>5. Pushed' BY <1>1 DEF Pushed, Reading
<1>6. Reported' BY <1>1 DEF Reported
<1>7. QED BY <1>2, <1>3, <1>4, <1>5, <1>6

(* The checks set up the loop. *)
LEMMA CheckStep ==
  ASSUME RInv, Resolver!Check PROVE RInv'
<1> USE DEF RInv
<1>1. /\ phase = "read" /\ phase' = "order" /\ order = <<>> /\ ready = {}
      /\ dependsOn' = [e \in instances |-> Resolver!Needed(e)] /\ waiting' = dependsOn'
      /\ remaining' = instances /\ diagnostics' = diagnostics \cup Resolver!GraphFaults
      /\ UNCHANGED <<input, todo, instances, result, ready, order>>
  BY DEF Resolver!Check, Reading
<1>2. \A e \in instances : /\ Resolver!Needed(e)' = Resolver!Needed(e)
                           /\ Resolver!Unserved(e)' = Resolver!Unserved(e)
  BY <1>1, NeedsAreStable
<1>3. Resolver!TypeOK' BY <1>1, NeedsAreInstances DEF Resolver!TypeOK
<1>4. Reading' BY <1>1 DEF Reading
<1>5. Bookkeeping' BY <1>1, <1>2 DEF Bookkeeping, Ordered
<1>6. Pushed' BY <1>1 DEF Pushed
<1>7. Reported'
  <2>1. (\E e \in instances : Resolver!Unserved(e) # {})
        => "missing-required-capability" \in diagnostics'
    BY <1>1 DEF Resolver!GraphFaults, Resolver!Report
  <2>2. QED BY <1>1, <1>2, <2>1 DEF Reported
<1>8. QED BY <1>3, <1>4, <1>5, <1>6, <1>7

(* Taking a frontier, or ending the loop, preserves the invariant. *)
LEMMA RoundStep ==
  ASSUME RInv, Resolver!Round \/ Resolver!Finish PROVE RInv'
<1> USE DEF RInv
<1>1. /\ phase = "order" /\ phase' \in {"order", "done"} /\ ready' \subseteq Resolver!Frontier
      /\ UNCHANGED <<input, todo, instances, dependsOn, waiting, remaining, order>>
      /\ \/ UNCHANGED <<result, diagnostics>> /\ phase' = "order"
         \/ /\ phase' = "done" /\ result' = Resolver!Verdict(diagnostics')
            /\ diagnostics' = diagnostics \cup Resolver!CycleFound
  BY DEF Resolver!Round, Resolver!Finish, Resolver!LoopEnds
<1>2. \A e \in instances : /\ Resolver!Needed(e)' = Resolver!Needed(e)
                           /\ Resolver!Unserved(e)' = Resolver!Unserved(e)
  BY <1>1, NeedsAreStable
<1>3. Resolver!TypeOK' BY <1>1 DEF Resolver!TypeOK, Resolver!Frontier, Resolver!Verdict
<1>4. Reading' BY <1>1 DEF Reading
<1>5. Bookkeeping' BY <1>1, <1>2 DEF Bookkeeping, Ordered, Resolver!Frontier, Resolver!TypeOK
<1>6. Pushed'
  <2>1. \A q \in DOMAIN order : order[q] \in instances BY DEF Resolver!TypeOK
  <2>2. QED BY <1>1, <1>2, <2>1 DEF Pushed
<1>7. Reported' BY <1>1, <1>2 DEF Reported, Resolver!Verdict, Resolver!CycleFound
<1>8. QED BY <1>3, <1>4, <1>5, <1>6, <1>7

(* Pushing an instance of the frontier preserves the invariant. *)
LEMMA PushStep ==
  ASSUME RInv, NEW e \in ready, Resolver!Push(e) PROVE RInv'
<1> USE DEF RInv
<1>1. /\ phase = "order" /\ ready' = ready \ {e} /\ order' = Append(order, e)
      /\ remaining' = remaining \ {e} /\ waiting' = [f \in instances |-> waiting[f] \ {e}]
      /\ UNCHANGED <<input, todo, instances, diagnostics, phase, result, dependsOn>>
  BY DEF Resolver!Push
<1>2. \A f \in instances : /\ Resolver!Needed(f)' = Resolver!Needed(f)
                           /\ Resolver!Unserved(f)' = Resolver!Unserved(f)
  BY <1>1, NeedsAreStable
<1>3. e \in instances /\ e \notin Ordered /\ Resolver!Needed(e) \subseteq Ordered
  BY <1>1 DEF Resolver!TypeOK, Bookkeeping
<1>4. Resolver!TypeOK' BY <1>1, <1>3 DEF Resolver!TypeOK
<1>5. /\ Len(order) \in Nat /\ DOMAIN order = 1..Len(order)
      /\ DOMAIN order' = 1..(Len(order) + 1) /\ order'[Len(order) + 1] = e
      /\ \A q \in DOMAIN order : order'[q] = order[q] /\ order[q] \in instances
  BY <1>1, <1>3 DEF Resolver!TypeOK
<1>6. Ordered' = Ordered \cup {e}
  BY <1>5 DEF Ordered
<1>7. Reading' /\ Reported' BY <1>1, <1>2 DEF Reading, Reported
<1>8. Bookkeeping' BY <1>1, <1>2, <1>6 DEF Bookkeeping, Resolver!TypeOK
<1>9. Pushed'
  <2>1. \A p, q \in DOMAIN order' : order'[p] = order'[q] => p = q
    BY <1>3, <1>5 DEF Pushed, Ordered
  <2>2. ASSUME NEW q \in DOMAIN order', NEW f, f = order'[q]
        PROVE  Resolver!Needed(f)' \subseteq {order'[p] : p \in 1..(q - 1)}
    <3>1. CASE q \in DOMAIN order
      <4>1. 1..(q - 1) \subseteq DOMAIN order BY <1>5, <3>1
      <4>2. f = order[q] /\ f \in instances BY <1>5, <2>2, <3>1
      <4>3. Resolver!Needed(f)' = Resolver!Needed(f) BY <1>2, <4>2
      <4>4. QED BY <1>5, <3>1, <4>1, <4>2, <4>3 DEF Pushed
    <3>2. CASE q = Len(order) + 1
      <4>1. {order'[p] : p \in 1..(q - 1)} = Ordered BY <1>5, <3>2 DEF Ordered
      <4>2. f = e BY <1>5, <2>2, <3>2
      <4>3. QED BY <1>2, <1>3, <4>1, <4>2
    <3>3. QED BY <1>5, <2>2, <3>1, <3>2
  <2>3. QED BY <2>1, <2>2 DEF Pushed
<1>10. QED BY <1>4, <1>7, <1>8, <1>9

(* A step of the resolver keeps the loop's bookkeeping. *)
LEMMA ResolverStep ==
  ASSUME RInv, Resolver!Next PROVE RInv'
  BY ReadStep, CheckStep, RoundStep, PushStep DEF Resolver!Next

(* The invariants depend on the resolver's variables alone. *)
LEMMA ResolverStays ==
  ASSUME RInv, UNCHANGED Resolver!vars PROVE RInv'
<1>1. UNCHANGED <<input, instances>> BY DEF Resolver!vars
<1>2. \A e : /\ Resolver!Needed(e)' = Resolver!Needed(e)
             /\ Resolver!Unserved(e)' = Resolver!Unserved(e)
  BY <1>1, NeedsAreStable
<1>3. Resolver!TypeOK' /\ Reading' /\ Reported'
  BY <1>2 DEF Resolver!vars, RInv, Resolver!TypeOK, Reading, Reported
<1>4. Bookkeeping' BY <1>2 DEF Resolver!vars, RInv, Bookkeeping, Ordered
<1>5. Pushed' BY <1>2 DEF Resolver!vars, RInv, Pushed
<1>6. QED BY <1>3, <1>4, <1>5 DEF RInv

(* An accepted graph registers every instance once, after everyone who provides what
   it requires, and every requirement has a provider. *)
LEMMA BookkeepingOrders ==
  ASSUME RInv PROVE Resolver!ProvidersFirst
<1> SUFFICES ASSUME result = "ok" PROVE Resolver!ProvidersFirst BY DEF Resolver!ProvidersFirst
<1>1. /\ phase = "done" /\ Ordered \subseteq instances /\ instances \subseteq Ordered
      /\ \A e \in instances : Resolver!Unserved(e) = {}
  <2>1. phase = "done" /\ diagnostics = {} /\ remaining = {} BY DEF RInv, Reported
  <2>2. Ordered \subseteq instances BY DEF RInv, Resolver!TypeOK, Ordered
  <2>3. instances \subseteq Ordered BY <2>1 DEF RInv, Bookkeeping
  <2>4. \A e \in instances : Resolver!Unserved(e) = {} BY <2>1 DEF RInv, Reported
  <2>5. QED BY <2>1, <2>2, <2>3, <2>4
<1>2. \A q \in DOMAIN order : order[q] \in instances BY DEF RInv, Resolver!TypeOK
<1>3. ASSUME NEW q \in DOMAIN order,
             NEW k \in Resolver!Wanted(order[q]) \cup Resolver!Optional(order[q])
      PROVE  Resolver!Providers(k) \ {order[q]} \subseteq {order[p] : p \in 1..(q - 1)}
  BY DEF RInv, Pushed, Resolver!Needed, Resolver!External
<1>4. ASSUME NEW q \in DOMAIN order, NEW k \in Resolver!Wanted(order[q])
      PROVE  \E p \in 1..(q - 1) : order[p] \in Resolver!Providers(k)
  <2>1. PICK f \in Resolver!Providers(k) \ {order[q]} : TRUE
    BY <1>1, <1>2 DEF Resolver!Unserved, Resolver!External
  <2>2. QED BY <1>3, <2>1
<1>5. QED BY <1>1, <1>3, <1>4 DEF Resolver!ProvidersFirst, RInv, Pushed, Ordered

--------------------------------------------------------------------------------
(* Who answers to a capability or a contribution. *)

(* The providers of a requirement belong to one plugin, but for replaced ones. *)
OneProvider ==
    \A e \in instances : \A k \in Resolver!Wanted(e) \cup Resolver!Optional(e) :
        \A f, g \in Resolver!Providers(k) : f.id # g.id => {f.id, g.id} \cap Resolver!Replaced # {}

(* No two instances answer to one route, token or worker that nobody replaces. *)
OneContributor ==
    \A e, f \in instances : e # f =>
        \A v \in Resolver!ManifestOf(e).exclusive \cap Resolver!ManifestOf(f).exclusive :
            \E g \in instances, p \in {e.id, f.id} :
                [plugin |-> p, contribution |-> <<v, 0>>] \in Resolver!Replaces(g)

(* The checks of all instances reported nothing. *)
Undoubted == phase # "read" /\ diagnostics = {} => OneProvider /\ OneContributor

(* A finite set with two different elements has a cardinality above one. *)
LEMMA TwoElements ==
  ASSUME NEW S, IsFiniteSet(S), NEW x \in S, NEW y \in S, x # y
  PROVE  Cardinality(S) > 1
<1>1. IsFiniteSet({x}) /\ Cardinality({x}) = 1 BY FS_Singleton
<1>2. Cardinality({x} \cup {y}) = 2 /\ IsFiniteSet({x} \cup {y})
  <2>1. y \notin {x} OBVIOUS
  <2>2. QED BY <1>1, <2>1, FS_AddElement
<1>3. {x} \cup {y} \subseteq S OBVIOUS
<1>4. Cardinality({x} \cup {y}) <= Cardinality(S) BY <1>3, FS_Subset
<1>5. Cardinality(S) \in Nat BY FS_CardinalityType
<1>6. QED BY <1>2, <1>4, <1>5

(* Without a report, nobody is in doubt: what the checks count, they count right. *)
LEMMA ChecksDecide ==
  ASSUME IsFiniteSet(instances), Resolver!GraphFaults = {}
  PROVE  OneProvider /\ OneContributor
<1>1. /\ \A k \in Resolver!Capabilities : ~(Cardinality(Resolver!Contested(k)) > 1)
      /\ \A x \in UNION {Resolver!Contributions(e) : e \in instances} : ~Resolver!Duplicated(x)
  <2>1. \A code, condition : condition => code \in Resolver!Report(code, condition)
    BY DEF Resolver!Report
  <2>2. (\E k \in Resolver!Capabilities : Cardinality(Resolver!Contested(k)) > 1)
        => "duplicate-capability-provider" \in Resolver!GraphFaults
    BY <2>1 DEF Resolver!GraphFaults, Resolver!Report, Resolver!Cardinality, Cardinality
  <2>3. (\E x \in UNION {Resolver!Contributions(e) : e \in instances} : Resolver!Duplicated(x))
        => "duplicate-contribution" \in Resolver!GraphFaults
    BY <2>1 DEF Resolver!GraphFaults, Resolver!Report
  <2>4. QED BY <2>2, <2>3
<1>2. ASSUME NEW e \in instances, NEW k \in Resolver!Wanted(e) \cup Resolver!Optional(e),
             NEW f \in Resolver!Providers(k), NEW g \in Resolver!Providers(k), f.id # g.id,
             {f.id, g.id} \cap Resolver!Replaced = {}
      PROVE  FALSE
  <2>1. f.id \in Resolver!Owners(k) /\ g.id \in Resolver!Owners(k) BY DEF Resolver!Owners
  <2>2. IsFiniteSet(Resolver!Owners(k))
    <3>1. IsFiniteSet(Resolver!Providers(k)) BY FS_Subset DEF Resolver!Providers
    <3>2. [p \in Resolver!Providers(k) |-> p.id]
              \in Surjection(Resolver!Providers(k), Resolver!Owners(k))
      BY DEF Surjection, Resolver!Owners
    <3>3. QED BY <3>1, <3>2, FS_Surjection
  <2>3. Cardinality(Resolver!Owners(k)) > 1 BY <1>2, <2>1, <2>2, TwoElements
  <2>4. Resolver!Contested(k) = Resolver!Owners(k) \ Resolver!Replaced
    <3>1. Cardinality(Resolver!Owners(k)) \in Nat BY <2>2, FS_CardinalityType
    <3>2. ~(Cardinality(Resolver!Owners(k)) < 2) BY <2>3, <3>1
    <3>3. QED BY <3>2 DEF Resolver!Contested, Resolver!Cardinality, Cardinality
  <2>5. Cardinality(Resolver!Contested(k)) > 1
    <3>1. IsFiniteSet(Resolver!Contested(k)) BY <2>2, <2>4, FS_Subset
    <3>2. f.id \in Resolver!Contested(k) /\ g.id \in Resolver!Contested(k) BY <1>2, <2>1, <2>4
    <3>3. QED BY <1>2, <3>1, <3>2, TwoElements
  <2>6. k \in Resolver!Capabilities BY DEF Resolver!Providers, Resolver!Capabilities
  <2>7. QED BY <1>1, <2>5, <2>6
<1>3. ASSUME NEW e \in instances, NEW f \in instances, e # f,
             NEW v \in Resolver!ManifestOf(e).exclusive \cap Resolver!ManifestOf(f).exclusive
      PROVE  \E g \in instances, p \in {e.id, f.id} :
                [plugin |-> p, contribution |-> <<v, 0>>] \in Resolver!Replaces(g)
  <2> DEFINE x == [kind |-> "exclusive", value |-> <<v, 0>>]
  <2>1. x \in Resolver!Contributions(e) /\ x \in Resolver!Contributions(f)
    BY DEF Resolver!Contributions, Resolver!Bare
  <2>2. ~(Cardinality(Resolver!Contributors(x)) > 1)
    <3>1. x \in UNION {Resolver!Contributions(h) : h \in instances} BY <2>1
    <3>2. ~Resolver!Duplicated(x) BY <1>1, <3>1
    <3>3. x.kind # "shared" OBVIOUS
    <3>4. QED BY <3>2, <3>3 DEF Resolver!Duplicated, Resolver!Cardinality, Cardinality
  <2>3. IsFiniteSet(Resolver!Contributors(x)) BY FS_Subset DEF Resolver!Contributors
  <2>4. ~(e \in Resolver!Contributors(x) /\ f \in Resolver!Contributors(x))
    BY <1>3, <2>2, <2>3, TwoElements
  <2>5. Resolver!Suppressed(e, x) \/ Resolver!Suppressed(f, x)
    BY <2>1, <2>4 DEF Resolver!Contributors
  <2>6. QED BY <2>5 DEF Resolver!Suppressed
<1>4. QED BY <1>2, <1>3 DEF OneProvider, OneContributor

(* Who answers to what depends on the manifests and the instances alone. *)
LEMMA AnswersAreStable ==
  ASSUME UNCHANGED <<input, instances>>, OneProvider, OneContributor
  PROVE  OneProvider' /\ OneContributor'
<1>1. \A e : Resolver!ManifestOf(e)' = Resolver!ManifestOf(e) BY DEF Resolver!ManifestOf
<1>2. \A k : Resolver!Providers(k)' = Resolver!Providers(k)
  BY DEF Resolver!Providers, Resolver!ProvidedCapabilities, Resolver!ManifestOf, Resolver!Bare,
     Resolver!Qualified
<1>3. \A e : /\ Resolver!Wanted(e)' = Resolver!Wanted(e)
             /\ Resolver!Optional(e)' = Resolver!Optional(e)
  BY <1>1 DEF Resolver!Wanted, Resolver!Optional
<1>4. \A e : Resolver!Replaces(e)' = Resolver!Replaces(e) BY <1>1 DEF Resolver!Replaces
<1>5. Resolver!Replaced' = Resolver!Replaced BY <1>4 DEF Resolver!Replaced
<1>6. OneProvider' BY <1>2, <1>3, <1>5 DEF OneProvider
<1>7. OneContributor' BY <1>1, <1>4 DEF OneContributor
<1>8. QED BY <1>6, <1>7

(* What the checks found stays so: a step of the resolver keeps an accepted graph free of
   doubt. *)
LEMMA UndoubtedStep ==
  ASSUME RInv, Undoubted, Resolver!Next PROVE Undoubted'
<1>1. CASE Resolver!Check
  <2>1. IsFiniteSet(instances)
    BY ResolverAssumption, FS_Subset DEF RInv, Resolver!TypeOK
  <2>2. diagnostics' = {} => Resolver!GraphFaults = {} BY <1>1 DEF Resolver!Check
  <2>3. UNCHANGED <<input, instances>> BY <1>1 DEF Resolver!Check
  <2>4. QED BY <2>1, <2>2, <2>3, ChecksDecide, AnswersAreStable DEF Undoubted
<1>2. CASE Resolver!Round \/ Resolver!Finish \/ \E e \in ready : Resolver!Push(e)
  <2>1. UNCHANGED <<input, instances>> /\ phase # "read"
    BY <1>2 DEF Resolver!Round, Resolver!Finish, Resolver!Push
  <2>2. diagnostics \subseteq diagnostics'
    BY <1>2 DEF Resolver!Round, Resolver!Finish, Resolver!Push
  <2>3. QED BY <2>1, <2>2, AnswersAreStable DEF Undoubted
<1>3. CASE \E e \in todo : Resolver!Read(e) BY <1>3 DEF Resolver!Read, Undoubted
<1>4. QED BY <1>1, <1>2, <1>3 DEF Resolver!Next

(* Undoubted depends on the resolver's variables alone. *)
LEMMA UndoubtedStays ==
  ASSUME Undoubted, UNCHANGED Resolver!vars PROVE Undoubted'
<1>1. UNCHANGED <<input, instances, phase, diagnostics>> BY DEF Resolver!vars
<1>2. QED BY <1>1, AnswersAreStable DEF Undoubted

--------------------------------------------------------------------------------
(* The order is canonical, and a cycle is named. *)

(* No two instances have one key, and keys are numbers. *)
KeysDiffer ==
    \A e, f \in instances : Resolver!Key(e) = Resolver!Key(f) => e = f

(* Instances that all wait for each other are never pushed; only the end of the loop names
   them, with nothing left that is free. *)
CyclesWait ==
    /\ phase # "read" =>
          \A S \in SUBSET instances :
              (\A e \in S : dependsOn[e] \cap S # {}) => S \cap Ordered = {}
    /\ phase # "done" => "dependency-cycle" \notin diagnostics
    /\ phase = "done" =>
          /\ Resolver!Frontier = {} /\ ready = {}
          /\ "dependency-cycle" \in diagnostics <=> remaining # {}

(* d is the length of the longest chain of dependencies of what is ordered or in the
   frontier, n is the length the loop has come to. *)
Depths(d, n) ==
    /\ d \in [Ordered \cup ready -> Nat] /\ n \in Nat
    /\ n <= Len(order) + (IF ready = {} THEN 0 ELSE 1)
    /\ \A e \in Ordered \cup ready : 1 <= d[e] /\ d[e] <= n
    /\ \A e \in ready : d[e] = n
    /\ \A e \in Ordered \cup ready : \A f \in Resolver!Needed(e) : f \in Ordered /\ d[f] < d[e]
    /\ \A e \in Ordered \cup ready : d[e] # 1 => \E f \in Resolver!Needed(e) : d[e] = d[f] + 1

(* What is left needs something of the present length, or something that is left. *)
LaterOnes(d, n) ==
    n # 0 => \A e \in remaining \ ready :
                 \E f \in Resolver!Needed(e) : f \in Ordered => d[f] = n

(* What was pushed came by length, then by key. *)
Sorted(d, n) ==
    /\ \A p, q \in DOMAIN order : p < q =>
          \/ d[order[p]] < d[order[q]]
          \/ d[order[p]] = d[order[q]] /\ Resolver!Before(order[p], order[q])
    /\ \A p \in DOMAIN order : d[order[p]] = n =>
          \A e \in ready : Resolver!Before(order[p], e)

Layered == phase # "read" => \E d, n : Depths(d, n) /\ LaterOnes(d, n) /\ Sorted(d, n)

CInv == KeysDiffer /\ CyclesWait /\ Layered

(* The instances have numbers for ids. *)
LEMMA InstanceNumbers ==
  ASSUME RInv PROVE \A e \in instances : e.id \in Nat /\ e.n \in Nat
  BY ResolverAssumption DEF RInv, Resolver!TypeOK

(* The canonical order is total. *)
LEMMA BeforeIsTotal ==
  ASSUME RInv, KeysDiffer, NEW e \in instances, NEW f \in instances, e # f
  PROVE  /\ Resolver!Before(e, f) \/ Resolver!Before(f, e)
         /\ ~(Resolver!Before(e, f) /\ Resolver!Before(f, e))
<1>1. e.id \in Nat /\ e.n \in Nat /\ f.id \in Nat /\ f.n \in Nat BY InstanceNumbers
<1>2. e.id # f.id \/ e.n # f.n BY DEF KeysDiffer, Resolver!Key
<1>3. QED BY <1>1, <1>2 DEF Resolver!Before

(* The invariant holds initially. *)
LEMMA CanonicalInit == Resolver!Init => CInv
  BY DEF Resolver!Init, CInv, KeysDiffer, CyclesWait, Layered

(* Reading an entry: only a new key becomes an instance, and nothing is said of cycles. *)
LEMMA CanonicalRead ==
  ASSUME RInv, CInv, NEW e \in todo, Resolver!Read(e) PROVE CInv'
<1>1. phase = "read" /\ phase' = "read" BY DEF Resolver!Read
<1>2. KeysDiffer'
  <2>1. CASE UNCHANGED instances BY <2>1 DEF CInv, KeysDiffer, Resolver!Key
  <2>2. CASE instances' = instances \cup {e} /\ Resolver!Key(e) \notin Resolver!Seen
    BY <2>2 DEF CInv, KeysDiffer, Resolver!Key, Resolver!Seen
  <2>3. QED BY <2>1, <2>2 DEF Resolver!Read
<1>3. "dependency-cycle" \notin diagnostics'
  <2>1. "dependency-cycle" \notin diagnostics BY <1>1 DEF CInv, CyclesWait
  <2>2. "dependency-cycle" \notin Resolver!EntryFaults(e)
    BY DEF Resolver!EntryFaults, Resolver!Report
  <2>3. QED BY <2>1, <2>2 DEF Resolver!Read
<1>4. QED BY <1>1, <1>2, <1>3 DEF CInv, CyclesWait, Layered

(* The checks: nothing is ordered, and none of them is about cycles. *)
LEMMA CanonicalCheck ==
  ASSUME RInv, CInv, Resolver!Check PROVE CInv'
<1>1. /\ phase = "read" /\ phase' = "order" /\ order = <<>> /\ order' = <<>>
      /\ ready = {} /\ ready' = {} /\ instances' = instances
  BY DEF Resolver!Check, RInv, Reading
<1>2. Ordered' = {} BY <1>1 DEF Ordered
<1>3. KeysDiffer' BY <1>1 DEF CInv, KeysDiffer, Resolver!Key
<1>4. CyclesWait'
  <2>1. "dependency-cycle" \notin diagnostics BY <1>1 DEF CInv, CyclesWait
  <2>2. "dependency-cycle" \notin Resolver!GraphFaults
    BY DEF Resolver!GraphFaults, Resolver!Report
  <2>3. "dependency-cycle" \notin diagnostics' BY <2>1, <2>2 DEF Resolver!Check
  <2>4. QED BY <1>1, <1>2, <2>3 DEF CyclesWait
<1>5. Layered'
  <2> DEFINE d == [e \in {} |-> 0]
  <2>1. Depths(d, 0)' BY <1>1, <1>2 DEF Depths
  <2>2. LaterOnes(d, 0)' BY DEF LaterOnes
  <2>3. Sorted(d, 0)' BY <1>1 DEF Sorted
  <2>4. QED BY <2>1, <2>2, <2>3 DEF Layered
<1>6. QED BY <1>3, <1>4, <1>5 DEF CInv

(* A frontier: what is free needs something of the present length, and is one longer. *)
LEMMA CanonicalRound ==
  ASSUME RInv, CInv, Resolver!Round PROVE CInv'
<1>1. /\ phase = "order" /\ phase' = "order" /\ ready = {}
      /\ ready' = Resolver!Frontier /\ ready' # {}
      /\ UNCHANGED <<input, instances, diagnostics, dependsOn, waiting, remaining, order>>
  BY DEF Resolver!Round
<1>2. Ordered' = Ordered BY <1>1 DEF Ordered
<1>3. \A e : Resolver!Needed(e)' = Resolver!Needed(e) BY <1>1, NeedsAreStable
<1>4. KeysDiffer' BY <1>1 DEF CInv, KeysDiffer, Resolver!Key
<1>5. CyclesWait' BY <1>1, <1>2 DEF CInv, CyclesWait
<1>6. PICK d, n : Depths(d, n) /\ LaterOnes(d, n) /\ Sorted(d, n) BY <1>1 DEF CInv, Layered
<1>7. ready' \subseteq remaining /\ ready' \cap Ordered = {} /\ remaining \subseteq instances
  BY <1>1 DEF Resolver!Frontier, RInv, Bookkeeping, Resolver!TypeOK
<1>8. \A e \in ready' : Resolver!Needed(e) \subseteq Ordered
  BY <1>1, <1>7 DEF Resolver!Frontier, RInv, Bookkeeping
<1>9. d \in [Ordered -> Nat] /\ n \in Nat /\ n <= Len(order) /\ Len(order) \in Nat
  BY <1>1, <1>6 DEF Depths, RInv, Resolver!TypeOK
<1> DEFINE longer == [e \in Ordered \cup ready' |-> IF e \in Ordered THEN d[e] ELSE n + 1]
<1>10. PICK h : h = longer OBVIOUS
<1>11. /\ h \in [Ordered \cup ready' -> Nat] /\ \A e \in Ordered : h[e] = d[e]
       /\ \A e \in ready' : h[e] = n + 1
  BY <1>7, <1>9, <1>10
<1> HIDE DEF longer
<1>12. Depths(h, n + 1)'
  <2>1. n + 1 \in Nat /\ n + 1 <= Len(order) + 1 BY <1>9
  <2>2. \A e \in Ordered \cup ready' : 1 <= h[e] /\ h[e] <= n + 1
    BY <1>1, <1>6, <1>9, <1>11 DEF Depths
  <2>3. ASSUME NEW e \in Ordered \cup ready', NEW f \in Resolver!Needed(e)
        PROVE  f \in Ordered /\ h[f] < h[e]
    <3>1. CASE e \in Ordered BY <1>1, <1>6, <1>11, <2>3, <3>1 DEF Depths
    <3>2. CASE e \in ready'
      <4>1. f \in Ordered BY <1>8, <2>3, <3>2
      <4>2. h[f] = d[f] /\ d[f] <= n /\ d[f] \in Nat BY <1>6, <1>9, <1>11, <4>1 DEF Depths
      <4>3. QED BY <1>9, <1>11, <3>2, <4>1, <4>2
    <3>3. QED BY <2>3, <3>1, <3>2
  <2>4. ASSUME NEW e \in Ordered \cup ready', h[e] # 1
        PROVE  \E f \in Resolver!Needed(e) : h[e] = h[f] + 1
    <3>1. CASE e \in Ordered
      <4>1. PICK f \in Resolver!Needed(e) : d[e] = d[f] + 1
        BY <1>6, <1>11, <2>4, <3>1 DEF Depths
      <4>2. f \in Ordered BY <1>6, <3>1 DEF Depths
      <4>3. QED BY <1>11, <3>1, <4>1, <4>2
    <3>2. CASE e \in ready'
      <4>1. n # 0 BY <1>9, <1>11, <2>4, <3>2
      <4>2. PICK f \in Resolver!Needed(e) : f \in Ordered => d[f] = n
        BY <1>1, <1>6, <1>7, <3>2, <4>1 DEF LaterOnes
      <4>3. f \in Ordered BY <1>8, <3>2
      <4>4. QED BY <1>11, <3>2, <4>2, <4>3
    <3>3. QED BY <2>4, <3>1, <3>2
  <2>5. QED BY <1>1, <1>2, <1>3, <1>11, <2>1, <2>2, <2>3, <2>4 DEF Depths
<1>13. LaterOnes(h, n + 1)'
  <2>1. ASSUME NEW e \in remaining \ ready' PROVE \E f \in Resolver!Needed(e) : f \notin Ordered
    BY <1>1, <1>7 DEF Resolver!Frontier, RInv, Bookkeeping
  <2>2. QED BY <1>1, <1>2, <1>3, <2>1 DEF LaterOnes
<1>14. Sorted(h, n + 1)'
  <2>1. \A p \in DOMAIN order : order[p] \in Ordered BY DEF Ordered
  <2>2. \A p \in DOMAIN order : h[order[p]] = d[order[p]] /\ d[order[p]] # n + 1
    BY <1>6, <1>9, <1>11, <2>1 DEF Depths
  <2>3. \A e, f : Resolver!Before(e, f)' = Resolver!Before(e, f) BY DEF Resolver!Before
  <2>4. QED BY <1>1, <1>6, <2>2 DEF Sorted, Resolver!Before
<1>15. Layered' BY <1>12, <1>13, <1>14 DEF Layered
<1>16. QED BY <1>4, <1>5, <1>15 DEF CInv

(* Pushing the lowest of the frontier. *)
LEMMA CanonicalPush ==
  ASSUME RInv, CInv, NEW e \in ready, Resolver!Push(e) PROVE CInv'
<1>1. /\ phase = "order" /\ phase' = "order" /\ Resolver!IsFirst(e, ready)
      /\ ready' = ready \ {e} /\ order' = Append(order, e) /\ remaining' = remaining \ {e}
      /\ UNCHANGED <<input, instances, diagnostics, dependsOn>>
  BY DEF Resolver!Push
<1>2. \A f : Resolver!Needed(f)' = Resolver!Needed(f) BY <1>1, NeedsAreStable
<1>3. e \in instances /\ e \notin Ordered /\ Resolver!Needed(e) \subseteq Ordered
      /\ ready \subseteq instances
  BY <1>1 DEF RInv, Resolver!TypeOK, Bookkeeping
<1>4. /\ Len(order) \in Nat /\ DOMAIN order = 1..Len(order) /\ Len(order') = Len(order) + 1
      /\ DOMAIN order' = 1..(Len(order) + 1) /\ order'[Len(order) + 1] = e
      /\ \A q \in DOMAIN order : order'[q] = order[q]
  BY <1>1, <1>3 DEF RInv, Resolver!TypeOK
<1>5. Ordered' = Ordered \cup {e} BY <1>4 DEF Ordered
<1>6. KeysDiffer' BY <1>1 DEF CInv, KeysDiffer, Resolver!Key
<1>7. CyclesWait'
  <2>1. ASSUME NEW S \in SUBSET instances, \A f \in S : dependsOn[f] \cap S # {}, e \in S
        PROVE  FALSE
    <3>1. S \cap Ordered = {} BY <1>1, <2>1 DEF CInv, CyclesWait
    <3>2. dependsOn[e] = Resolver!Needed(e) BY <1>1, <1>3 DEF RInv, Bookkeeping
    <3>3. QED BY <1>3, <2>1, <3>1, <3>2
  <2>2. QED BY <1>1, <1>5, <2>1 DEF CInv, CyclesWait
<1>8. PICK d, n : Depths(d, n) /\ LaterOnes(d, n) /\ Sorted(d, n) BY <1>1 DEF CInv, Layered
<1>9. Ordered' \cup ready' = Ordered \cup ready BY <1>1, <1>5
<1>10. Depths(d, n)'
  <2>1. n \in Nat /\ n <= Len(order) + 1 BY <1>8 DEF Depths
  <2>2. n <= Len(order') + (IF ready' = {} THEN 0 ELSE 1) BY <1>4, <2>1
  <2>3. d \in [Ordered' \cup ready' -> Nat] BY <1>8, <1>9 DEF Depths
  <2>4. \A f \in Ordered' \cup ready' : 1 <= d[f] /\ d[f] <= n BY <1>8, <1>9 DEF Depths
  <2>5. \A f \in ready' : d[f] = n BY <1>1, <1>8 DEF Depths
  <2>6. \A f \in Ordered' \cup ready' : \A g \in Resolver!Needed(f) : g \in Ordered' /\ d[g] < d[f]
    BY <1>5, <1>8, <1>9 DEF Depths
  <2>7. \A f \in Ordered' \cup ready' : d[f] # 1 => \E g \in Resolver!Needed(f) : d[f] = d[g] + 1
    BY <1>8, <1>9 DEF Depths
  <2>8. QED BY <1>2, <2>1, <2>2, <2>3, <2>4, <2>5, <2>6, <2>7 DEF Depths
<1>11. LaterOnes(d, n)'
  <2>1. remaining' \ ready' \subseteq remaining \ ready BY <1>1
  <2>2. d[e] = n BY <1>8 DEF Depths
  <2>3. QED BY <1>2, <1>5, <1>8, <2>1, <2>2 DEF LaterOnes
<1>12. Sorted(d, n)'
  <2>1. d[e] = n /\ n \in Nat /\ \A p \in DOMAIN order : d[order[p]] \in Nat /\ d[order[p]] <= n
    BY <1>8 DEF Depths, Ordered
  <2>2. ASSUME NEW p \in DOMAIN order', NEW q \in DOMAIN order', p < q,
               NEW f, NEW g, f = order'[p], g = order'[q]
        PROVE  d[f] < d[g] \/ (d[f] = d[g] /\ Resolver!Before(f, g))
    <3>1. p \in DOMAIN order /\ f = order[p] BY <1>4, <2>2
    <3>2. CASE q \in DOMAIN order
      <4>1. g = order[q] BY <1>4, <2>2, <3>2
      <4>2. QED BY <1>8, <2>2, <3>1, <3>2, <4>1 DEF Sorted
    <3>3. CASE q = Len(order) + 1
      <4>1. g = e BY <1>4, <2>2, <3>3
      <4>2. d[f] = n => Resolver!Before(f, e) BY <1>8, <3>1 DEF Sorted
      <4>3. QED BY <2>1, <3>1, <4>1, <4>2
    <3>4. QED BY <1>4, <2>2, <3>2, <3>3
  <2>3. ASSUME NEW p \in DOMAIN order', NEW f, f = order'[p], d[f] = n, NEW g \in ready'
        PROVE  Resolver!Before(f, g)
    <3>1. g \in ready /\ g # e BY <1>1, <2>3
    <3>2. CASE p \in DOMAIN order
      <4>1. f = order[p] BY <1>4, <2>3, <3>2
      <4>2. QED BY <1>8, <2>3, <3>1, <3>2, <4>1 DEF Sorted
    <3>3. CASE p = Len(order) + 1
      <4>1. f = e BY <1>4, <2>3, <3>3
      <4>2. ~Resolver!Before(g, e) BY <1>1, <3>1 DEF Resolver!IsFirst
      <4>3. QED BY <1>3, <3>1, <4>1, <4>2, BeforeIsTotal DEF CInv
    <3>4. QED BY <1>4, <2>3, <3>2, <3>3
  <2>4. QED BY <2>2, <2>3 DEF Sorted, Resolver!Before
<1>13. Layered' BY <1>10, <1>11, <1>12 DEF Layered
<1>14. QED BY <1>6, <1>7, <1>13 DEF CInv

(* The end of the loop names a cycle just when something is left. *)
LEMMA CanonicalFinish ==
  ASSUME RInv, CInv, Resolver!Finish PROVE CInv'
<1>1. /\ phase = "order" /\ phase' = "done" /\ ready = {} /\ Resolver!Frontier = {}
      /\ diagnostics' = diagnostics \cup Resolver!CycleFound
      /\ UNCHANGED <<input, instances, dependsOn, waiting, remaining, ready, order>>
  BY DEF Resolver!Finish, Resolver!LoopEnds
<1>2. Ordered' = Ordered BY <1>1 DEF Ordered
<1>3. \A e : Resolver!Needed(e)' = Resolver!Needed(e) BY <1>1, NeedsAreStable
<1>4. KeysDiffer' BY <1>1 DEF CInv, KeysDiffer, Resolver!Key
<1>5. CyclesWait'
  <2>1. Resolver!Frontier' = {} BY <1>1 DEF Resolver!Frontier
  <2>2. "dependency-cycle" \in diagnostics' <=> remaining # {}
    BY <1>1 DEF CInv, CyclesWait, Resolver!CycleFound
  <2>3. QED BY <1>1, <1>2, <2>1, <2>2 DEF CInv, CyclesWait
<1>6. PICK d, n : Depths(d, n) /\ LaterOnes(d, n) /\ Sorted(d, n) BY <1>1 DEF CInv, Layered
<1>7. Depths(d, n)' BY <1>1, <1>2, <1>3, <1>6 DEF Depths
<1>8. LaterOnes(d, n)' BY <1>1, <1>2, <1>3, <1>6 DEF LaterOnes
<1>9. Sorted(d, n)' BY <1>1, <1>6 DEF Sorted, Resolver!Before
<1>10. Layered' BY <1>7, <1>8, <1>9 DEF Layered
<1>11. QED BY <1>4, <1>5, <1>10 DEF CInv

(* The invariant depends on the resolver's variables alone. *)
LEMMA CanonicalStays ==
  ASSUME RInv, CInv, UNCHANGED Resolver!vars PROVE CInv'
<1>1. UNCHANGED <<input, instances, diagnostics, phase, dependsOn, waiting, remaining, ready,
                  order>>
  BY DEF Resolver!vars
<1>2. Ordered' = Ordered BY <1>1 DEF Ordered
<1>3. \A e : Resolver!Needed(e)' = Resolver!Needed(e) BY <1>1, NeedsAreStable
<1>4. KeysDiffer' BY <1>1 DEF CInv, KeysDiffer, Resolver!Key
<1>5. CyclesWait' BY <1>1, <1>2 DEF CInv, CyclesWait, Resolver!Frontier
<1>6. Layered'
  <2>1. CASE phase = "read" BY <1>1, <2>1 DEF Layered
  <2>2. CASE phase # "read"
    <3>1. PICK d, n : Depths(d, n) /\ LaterOnes(d, n) /\ Sorted(d, n) BY <2>2 DEF CInv, Layered
    <3>2. Depths(d, n)' BY <1>1, <1>2, <1>3, <3>1 DEF Depths
    <3>3. LaterOnes(d, n)' BY <1>1, <1>2, <1>3, <3>1 DEF LaterOnes
    <3>4. Sorted(d, n)' BY <1>1, <3>1 DEF Sorted, Resolver!Before
    <3>5. QED BY <3>2, <3>3, <3>4 DEF Layered
  <2>3. QED BY <2>1, <2>2
<1>7. QED BY <1>4, <1>5, <1>6 DEF CInv

(* The lengths that the loop has come to are those of the longest chains, and no other order
   agrees with them. *)
LEMMA LayersAreCanonical ==
  ASSUME RInv, CInv PROVE Resolver!OrderIsCanonical
<1> SUFFICES ASSUME result = "ok" PROVE Resolver!OrderIsCanonical
  BY DEF Resolver!OrderIsCanonical
<1>1. phase = "done" /\ remaining = {} BY DEF RInv, Reported
<1>2. ready = {} /\ Ordered = instances /\ Ordered \subseteq instances
  BY <1>1 DEF RInv, Bookkeeping, Resolver!TypeOK, Ordered
<1>3. PICK d, n : Depths(d, n) /\ LaterOnes(d, n) /\ Sorted(d, n) BY <1>1 DEF CInv, Layered
<1>4. /\ Len(order) \in Nat /\ DOMAIN order = 1..Len(order)
      /\ \A p \in DOMAIN order : order[p] \in instances
  BY DEF RInv, Resolver!TypeOK
<1>5. d \in [instances -> 1..Len(order)]
  <2>1. d \in [instances -> Nat] /\ n \in Nat /\ n <= Len(order) BY <1>2, <1>3, <1>4 DEF Depths
  <2>2. \A e \in instances : 1 <= d[e] /\ d[e] <= n BY <1>2, <1>3 DEF Depths
  <2>3. \A e \in instances : d[e] \in 1..Len(order) BY <1>4, <2>1, <2>2
  <2>4. QED BY <2>1, <2>3
<1>6. Resolver!IsDepth(d)
  <2>1. \A e \in instances : dependsOn[e] = Resolver!Needed(e) BY <1>1 DEF RInv, Bookkeeping
  <2>2. QED BY <1>2, <1>3, <2>1 DEF Resolver!IsDepth, Depths
<1>7. ASSUME NEW p \in DOMAIN order, NEW q \in DOMAIN order,
             \/ d[order[p]] < d[order[q]]
             \/ d[order[p]] = d[order[q]] /\ Resolver!Before(order[p], order[q])
      PROVE  p < q
  <2>1. d[order[p]] \in Nat /\ d[order[q]] \in Nat BY <1>4, <1>5
  <2>2. ~Resolver!Before(order[p], order[p]) BY <1>4, InstanceNumbers DEF Resolver!Before
  <2>3. p # q BY <1>7, <2>1, <2>2
  <2>4. order[p] # order[q] BY <2>3 DEF RInv, Pushed
  <2>5. ~(Resolver!Before(order[p], order[q]) /\ Resolver!Before(order[q], order[p]))
    BY <1>4, <2>4, BeforeIsTotal DEF CInv
  <2>6. ~(q < p) BY <1>3, <1>7, <2>1, <2>5 DEF Sorted
  <2>7. QED BY <1>4, <2>3, <2>6
<1>8. \A p, q \in DOMAIN order : p < q =>
         \/ d[order[p]] < d[order[q]]
         \/ d[order[p]] = d[order[q]] /\ Resolver!Before(order[p], order[q])
  BY <1>3 DEF Sorted
<1>9. QED BY <1>5, <1>6, <1>7, <1>8 DEF Resolver!OrderIsCanonical

(* What is left when the loop ends are instances that wait for each other. *)
LEMMA WaitersAreReported ==
  ASSUME RInv, CInv PROVE Resolver!CycleReported
<1> SUFFICES ASSUME phase = "done" PROVE Resolver!CycleReported BY DEF Resolver!CycleReported
<1>1. /\ remaining = instances \ Ordered
      /\ \A e \in instances : dependsOn[e] = Resolver!Needed(e)
      /\ \A e \in instances : waiting[e] = Resolver!Needed(e) \ Ordered
  BY DEF RInv, Bookkeeping
<1>2. "dependency-cycle" \in diagnostics <=> remaining # {} BY DEF CInv, CyclesWait
<1>3. ASSUME remaining # {}
      PROVE  \E S \in SUBSET instances : S # {} /\ \A e \in S : dependsOn[e] \cap S # {}
  <2>1. ASSUME NEW e \in remaining PROVE dependsOn[e] \cap remaining # {}
    <3>1. e \in instances /\ waiting[e] # {}
      BY <1>1 DEF CInv, CyclesWait, Resolver!Frontier
    <3>2. Resolver!Needed(e) \subseteq instances BY NeedsAreInstances
    <3>3. QED BY <1>1, <3>1, <3>2
  <2>2. QED BY <1>1, <1>3, <2>1
<1>4. ASSUME NEW S \in SUBSET instances, S # {}, \A e \in S : dependsOn[e] \cap S # {}
      PROVE  remaining # {}
  <2>1. S \cap Ordered = {} BY <1>4 DEF CInv, CyclesWait
  <2>2. QED BY <1>1, <1>4, <2>1
<1>5. QED BY <1>2, <1>3, <1>4 DEF Resolver!CycleReported

--------------------------------------------------------------------------------
(* The resolver among the other parts. *)

ResolverInv == part = "resolver" => RInv /\ Undoubted /\ CInv

LEMMA ResolverStart == SumInit => ResolverInv
<1> SUFFICES ASSUME SumInit, part = "resolver" PROVE RInv /\ Undoubted /\ CInv
  BY DEF ResolverInv
<1>1. Resolver!Init BY DEF SumInit
<1>2. Undoubted BY <1>1 DEF Resolver!Init, Undoubted
<1>3. QED BY <1>1, <1>2, ResolverInit, CanonicalInit

LEMMA ResolverKeeps == ResolverInv /\ [SumNext]_sumVars => ResolverInv'
<1> SUFFICES ASSUME ResolverInv, [SumNext]_sumVars, part' = "resolver"
             PROVE  RInv' /\ Undoubted' /\ CInv'
  BY DEF ResolverInv
<1>1. CASE part = "resolver" /\ Resolver!Next
  <2>1. RInv /\ Undoubted /\ CInv BY <1>1 DEF ResolverInv
  <2>2. RInv' /\ Undoubted' BY <1>1, <2>1, ResolverStep, UndoubtedStep
  <2>3. CInv'
    BY <1>1, <2>1, CanonicalRead, CanonicalCheck, CanonicalRound, CanonicalPush, CanonicalFinish
       DEF Resolver!Next
  <2>4. QED BY <2>2, <2>3
<1>2. CASE part = "resolver" /\ UNCHANGED Resolver!vars
  BY <1>2, ResolverStays, UndoubtedStays, CanonicalStays DEF ResolverInv
<1>3. (part = "resolver" /\ Resolver!Next) \/ (part = "resolver" /\ UNCHANGED Resolver!vars)
  <2>1. part = "resolver" BY DEF SumNext, ResolverSteps, ToolSteps, sumVars
  <2>2. QED BY <2>1 DEF SumNext, ResolverSteps, ToolSteps, sumVars, toolVars, resolverVars,
                        sharedVars, Resolver!vars
<1>4. QED BY <1>1, <1>2, <1>3

(* The loop's bookkeeping holds in every reachable state. *)
THEOREM ResolverInvariance == SumSpec => []ResolverInv
<1> QED BY ResolverStart, ResolverKeeps, PTL DEF SumSpec

(* Type correctness of the resolver. *)
THEOREM ResolverTypes == SumSpec => [](part = "resolver" => Resolver!TypeOK)
<1>1. ResolverInv => (part = "resolver" => Resolver!TypeOK) BY DEF ResolverInv, RInv
<1> QED BY <1>1, ResolverInvariance, PTL

(* resolvePlugins: an accepted graph registers every instance once, after everyone who
   provides what it requires, and every requirement has a provider. *)
THEOREM ProvidersFirstTheorem == SumSpec => []ProvidersFirst
<1>1. ResolverInv => ProvidersFirst BY BookkeepingOrders DEF ResolverInv, ProvidersFirst
<1> QED BY <1>1, ResolverInvariance, PTL

(* topologicalOrder: the order of an accepted graph is a function of the input - by the
   longest chain of dependencies, then by key - and a cycle is reported exactly when there
   is one, for any finite inventory. *)
THEOREM CanonicalTheorem == SumSpec => []CanonicalOrCyclic
<1>1. ResolverInv => CanonicalOrCyclic
  BY LayersAreCanonical, WaitersAreReported DEF ResolverInv, CanonicalOrCyclic
<1> QED BY <1>1, ResolverInvariance, PTL

(* An accepted graph leaves no doubt whom a requirement resolves to, nor who answers to a
   route, token or worker: resolvePlugins reports every plugin and every instance too
   many, for any finite inventory. *)
THEOREM NoTwoOwnersTheorem == SumSpec => []NoTwoOwners
<1>1. ResolverInv => NoTwoOwners
  BY DEF ResolverInv, RInv, Reported, Undoubted, NoTwoOwners, Resolver!NoTwoOwners, OneProvider,
         OneContributor
<1> QED BY <1>1, ResolverInvariance, PTL


--------------------------------------------------------------------------------
(* The workspace: what the files are, and what a build has still to write. *)

(* The files have their types, those still to be written too. *)
FilesTyped ==
    /\ inventory = Broken \/ inventory \in InventoryFiles
    /\ \A i \in DOMAIN writes : writes[i].file = "inventory" =>
          writes[i].to \in InventoryFiles
    /\ installed \in [Packages -> Versions \cup {0}]
    /\ presetVersion \in [Presets -> Versions \cup {0}]
    /\ DOMAIN artifacts = Workspace!Paths /\ \E S : writes \in Seq(S)

(* An artefact carries the inputs it was made from. *)
StandsFor(x, from) == from = <<x.digest.entries, x.digest.presets, x.digest.manifests>>
Recorded ==
    /\ \A path \in Workspace!Paths :
          artifacts[path] = None \/ StandsFor(artifacts[path], made[path])
    /\ \A i \in DOMAIN writes : writes[i].file \in Workspace!Paths =>
          StandsFor(writes[i].to, writes[i].from)

(* No schema on disk is one that could not be composed. *)
NotFailed(x) == x.body.entries # {"COMPOSITION FAILED"}
Composed ==
    /\ artifacts["schema"] = None \/ NotFailed(artifacts["schema"])
    /\ \A i \in DOMAIN writes : writes[i].file = "schema" => NotFailed(writes[i].to)

(* A build that ended well has written what it has not still to write. *)
Current(path) == artifacts[path] = Workspace!Artifact(inventory, path)
Remains(path) == Workspace!File(path, Workspace!Artifact(inventory, path))
RemainsLock == Workspace!File("lock", Workspace!Fresh(inventory))
AllOfThem == <<Remains("catalog"), Remains("composition"), Remains("schema"), RemainsLock>>
HalfBuilt ==
    \/ writes = AllOfThem
    \/ writes = <<Remains("composition"), Remains("schema"), RemainsLock>> /\ Current("catalog")
    \/ writes = <<Remains("schema"), RemainsLock>> /\ Current("catalog") /\ Current("composition")
    \/ writes = <<RemainsLock>> /\ \A path \in Workspace!Paths : Current(path)
    \/ /\ writes = <<>> /\ lock = Workspace!Fresh(inventory)
       /\ \A path \in Workspace!Paths : Current(path)
Building ==
    answer.command = "build" /\ answer.exit = "OK" => Workspace!BuildExit = "OK" /\ HalfBuilt

WInv == FilesTyped /\ Recorded /\ Composed /\ Building

(* What is generated depends on the files read alone. *)
LEMMA GeneratedIsStable ==
  ASSUME UNCHANGED <<installed, patched, presetVersion>>, NEW file, NEW path
  PROVE  /\ Workspace!Artifact(file, path)' = Workspace!Artifact(file, path)
         /\ Workspace!Fresh(file)' = Workspace!Fresh(file)
         /\ Workspace!Inputs(file)' = Workspace!Inputs(file)
         /\ Workspace!Expanded(file)' = Workspace!Expanded(file)
<1>1. \A p : Workspace!ManifestOf(p)' = Workspace!ManifestOf(p) BY DEF Workspace!ManifestOf
<1>2. \A p : Workspace!Contents(p)' = Workspace!Contents(p) BY DEF Workspace!Contents
<1>3. Workspace!Found(file)' = Workspace!Found(file) BY DEF Workspace!Found
<1>4. Workspace!Offers(file)' = Workspace!Offers(file) BY <1>3 DEF Workspace!Offers
<1>5. Workspace!Contributed(file)' = Workspace!Contributed(file)
  BY <1>4 DEF Workspace!Contributed, Workspace!Key
<1>6. Workspace!Unnamed(file)' = Workspace!Unnamed(file)
  BY <1>5 DEF Workspace!Unnamed, Workspace!Key, Workspace!Keys
<1>7. Workspace!Expanded(file)' = Workspace!Expanded(file) BY <1>6 DEF Workspace!Expanded
<1>8. Workspace!PresetSummary(file)' = Workspace!PresetSummary(file)
  BY <1>3 DEF Workspace!PresetSummary
<1>9. \A S : /\ Workspace!Graph(S)' = Workspace!Graph(S)
             /\ Workspace!Locked(S)' = Workspace!Locked(S)
             /\ Workspace!On(S)' = Workspace!On(S)
  BY <1>2 DEF Workspace!Graph, Workspace!Locked, Workspace!On, Workspace!Key, Workspace!Keys
<1>10. Workspace!Provenance(file)' = Workspace!Provenance(file)
  BY <1>6 DEF Workspace!Provenance, Workspace!Key
<1>11. Workspace!SourceDigest(file)' = Workspace!SourceDigest(file)
  BY <1>7, <1>8, <1>9 DEF Workspace!SourceDigest
<1>12. \A S : Workspace!Composes(S)' = Workspace!Composes(S)
  BY <1>1, <1>9 DEF Workspace!Composes
<1>13. \A p : Workspace!Body(file, p)' = Workspace!Body(file, p)
  BY <1>7, <1>9, <1>10, <1>12 DEF Workspace!Body
<1>14. \A p : Workspace!Artifact(file, p)' = Workspace!Artifact(file, p)
  BY <1>11, <1>13 DEF Workspace!Artifact
<1>15. Workspace!Fresh(file)' = Workspace!Fresh(file)
  BY <1>7, <1>8, <1>9, <1>10, <1>14 DEF Workspace!Fresh, Workspace!Paths
<1>16. Workspace!Inputs(file)' = Workspace!Inputs(file)
  BY <1>7, <1>8, <1>9 DEF Workspace!Inputs
<1>17. QED BY <1>7, <1>14, <1>15, <1>16

(* ... and so does the answer of a build. *)
LEMMA AnswerIsStable ==
  ASSUME UNCHANGED <<inventory, installed, patched, presetVersion>>
  PROVE  Workspace!BuildExit' = Workspace!BuildExit
<1>1. \A p : Workspace!ManifestOf(p)' = Workspace!ManifestOf(p) BY DEF Workspace!ManifestOf
<1>2. \A file : Workspace!Expanded(file)' = Workspace!Expanded(file) BY GeneratedIsStable
<1>3. \A S : Workspace!Missing(S)' = Workspace!Missing(S) BY DEF Workspace!Missing
<1>4. \A S : Workspace!BoundaryHolds(S)' = Workspace!BoundaryHolds(S)
  BY <1>1 DEF Workspace!BoundaryHolds
<1>5. \A S : Workspace!On(S)' = Workspace!On(S) /\ Workspace!Gives(S)' = Workspace!Gives(S)
  BY <1>1 DEF Workspace!On, Workspace!Gives
<1>6. \A S : Workspace!Resolves(S)' = Workspace!Resolves(S)
  BY <1>1, <1>5 DEF Workspace!Resolves
<1>7. \A S : Workspace!Composes(S)' = Workspace!Composes(S)
  BY <1>1, <1>5 DEF Workspace!Composes
<1>8. \A file : Workspace!WellFormed(file)' = Workspace!WellFormed(file)
  BY DEF Workspace!WellFormed, Workspace!Key
<1>9. \A file : Workspace!Generable(file)' = Workspace!Generable(file)
  BY <1>2, <1>3, <1>4, <1>6 DEF Workspace!Generable
<1>10. QED BY <1>2, <1>3, <1>7, <1>8, <1>9 DEF Workspace!BuildExit

(* What the inventory expands to are entries. *)
LEMMA ExpandedTyped ==
  ASSUME FilesTyped, NEW file \in InventoryFiles
  PROVE  Workspace!Expanded(file) \subseteq Entries
<1>1. ASSUME NEW offer \in Workspace!Offers(file) PROVE offer.entry \in Entries
  <2>1. PICK q \in Workspace!Found(file) :
               \E e \in PresetDoc[q][presetVersion[q]] : offer = [preset |-> q, entry |-> e]
    BY <1>1 DEF Workspace!Offers
  <2>2. q \in Presets /\ presetVersion[q] \in Versions
    BY <2>1 DEF Workspace!Found, FilesTyped, InventoryFiles
  <2>3. PresetDoc[q][presetVersion[q]] \subseteq Entries BY <2>2, WorkspaceAssumption
  <2>4. QED BY <2>1, <2>3
<1>2. QED
  BY <1>1 DEF Workspace!Expanded, Workspace!Unnamed, Workspace!Contributed, InventoryFiles

(* The files at the start. *)
LEMMA WorkspaceInit == Workspace!Init => WInv
<1> SUFFICES ASSUME Workspace!Init PROVE WInv OBVIOUS
<1>1. writes = <<>> /\ answer.command = "none" /\ inventory = FirstFile
  BY DEF Workspace!Init, Workspace!NoAnswer
<1>2. FilesTyped
  <2>1. inventory \in InventoryFiles BY <1>1, WorkspaceAssumption
  <2>2. \A i \in DOMAIN writes : FALSE BY <1>1
  <2>3. 1 \in Versions BY WorkspaceAssumption
  <2>4. writes \in Seq({}) BY <1>1
  <2>5. QED BY <2>1, <2>2, <2>3, <2>4 DEF Workspace!Init, FilesTyped
<1>3. \A path \in Workspace!Paths : artifacts[path] = None BY DEF Workspace!Init
<1>4. QED BY <1>1, <1>2, <1>3 DEF WInv, Recorded, Composed, Building, Workspace!Paths

(* A command that begins: it writes nothing yet, and a build that ends well has everything
   still to write. *)
LEMMA BeginStep ==
  ASSUME WInv, NEW command, NEW exit, NEW files, NEW dry,
         Workspace!Begin(command, exit, files, dry),
         exit = "OK" /\ ~dry =>
            \A i \in DOMAIN files :
                /\ files[i].file = "inventory" => files[i].to \in InventoryFiles
                /\ files[i].file \in Workspace!Paths => StandsFor(files[i].to, files[i].from)
                /\ files[i].file = "schema" => NotFailed(files[i].to),
         exit = "OK" /\ ~dry => \E S : files \in Seq(S),
         command = "build" /\ exit = "OK" =>
            /\ Workspace!BuildExit = "OK" /\ ~dry
            /\ files = AllOfThem
  PROVE  WInv'
<1>1. /\ writes' = IF exit = "OK" /\ ~dry THEN files ELSE <<>>
      /\ answer'.command = command /\ answer'.exit = exit
      /\ UNCHANGED <<inventory, installed, patched, presetVersion, artifacts, made, lock>>
  BY DEF Workspace!Begin, Workspace!Answer
<1>2. FilesTyped'
  <2>1. <<>> \in Seq({}) OBVIOUS
  <2>2. \E S : writes' \in Seq(S) BY <1>1, <2>1
  <2>3. QED BY <1>1, <2>2 DEF WInv, FilesTyped
<1>3. Recorded'
  <2>1. \A path \in Workspace!Paths :
          artifacts'[path] = None \/ StandsFor(artifacts'[path], made'[path])
    BY <1>1 DEF WInv, Recorded
  <2>2. \A i \in DOMAIN writes' : writes'[i].file \in Workspace!Paths =>
          StandsFor(writes'[i].to, writes'[i].from)
    BY <1>1
  <2>3. QED BY <2>1, <2>2 DEF Recorded, StandsFor
<1>4. Composed'
  <2>1. artifacts'["schema"] = None \/ NotFailed(artifacts'["schema"])
    BY <1>1 DEF WInv, Composed
  <2>2. \A i \in DOMAIN writes' : writes'[i].file = "schema" => NotFailed(writes'[i].to)
    BY <1>1
  <2>3. QED BY <2>1, <2>2 DEF Composed, NotFailed
<1>5. Building'
  <2>1. /\ \A path : Remains(path)' = Remains(path)
        /\ RemainsLock' = RemainsLock
    <3>1. \A file, path : /\ Workspace!Artifact(file, path)' = Workspace!Artifact(file, path)
                          /\ Workspace!Fresh(file)' = Workspace!Fresh(file)
                          /\ Workspace!Inputs(file)' = Workspace!Inputs(file)
      BY <1>1, GeneratedIsStable
    <3>2. QED BY <1>1, <3>1 DEF Remains, RemainsLock, Workspace!File
  <2>2. Workspace!BuildExit' = Workspace!BuildExit BY <1>1, AnswerIsStable
  <2>3. QED BY <1>1, <2>1, <2>2 DEF Building, HalfBuilt, AllOfThem
<1>6. QED BY <1>2, <1>3, <1>4, <1>5 DEF WInv

(* plugin build. *)
LEMMA BuildStep ==
  ASSUME WInv, Workspace!Build PROVE WInv'
<1> DEFINE files == IF Workspace!BuildExit # "OK" THEN <<>>
                    ELSE AllOfThem
<1>1. Workspace!Begin("build", Workspace!BuildExit, files, FALSE)
  BY DEF Workspace!Build, AllOfThem, Remains, RemainsLock
<1>2. ASSUME Workspace!BuildExit = "OK" PROVE
        /\ \A path \in Workspace!Paths : StandsFor(Remains(path).to, Remains(path).from)
        /\ NotFailed(Remains("schema").to)
  <2>1. \A path : StandsFor(Remains(path).to, Remains(path).from)
    BY DEF StandsFor, Remains, Workspace!File, Workspace!Artifact, Workspace!SourceDigest,
           Workspace!Inputs
  <2>2. Workspace!WellFormed(inventory) /\ Workspace!Composes(Workspace!Expanded(inventory))
    BY <1>2 DEF Workspace!BuildExit
  <2>3. Workspace!Expanded(inventory) \subseteq Entries
    BY <2>2, ExpandedTyped DEF WInv, FilesTyped, Workspace!WellFormed
  <2>4. Remains("schema").to.body.entries
          = {e.plugin : e \in Workspace!On(Workspace!Expanded(inventory))}
    BY <2>2 DEF Remains, Workspace!File, Workspace!Artifact, Workspace!Body
  <2>5. \A e \in Workspace!On(Workspace!Expanded(inventory)) : e.plugin \in Packages
    BY <2>3 DEF Workspace!On, Entries
  <2>6. QED BY <2>1, <2>4, <2>5, WorkspaceAssumption DEF NotFailed
<1>3. ASSUME Workspace!BuildExit = "OK", NEW i \in DOMAIN files
      PROVE  /\ files[i].file = "inventory" => files[i].to \in InventoryFiles
             /\ files[i].file \in Workspace!Paths => StandsFor(files[i].to, files[i].from)
             /\ files[i].file = "schema" => NotFailed(files[i].to)
  <2>1. files[i] = Remains("catalog") \/ files[i] = Remains("composition")
        \/ files[i] = Remains("schema") \/ files[i] = RemainsLock
    BY <1>3 DEF AllOfThem
  <2>2. /\ \A path : Remains(path).file = path
        /\ RemainsLock.file = "lock"
    BY DEF Remains, RemainsLock, Workspace!File
  <2>3. QED BY <1>2, <1>3, <2>1, <2>2 DEF Workspace!Paths
<1>4. QED
  <2>1. files = IF Workspace!BuildExit # "OK" THEN <<>> ELSE AllOfThem OBVIOUS
  <2> HIDE DEF files
  <2>2. AllOfThem \in Seq({Remains(path) : path \in Workspace!Paths} \cup {RemainsLock})
    BY DEF AllOfThem, Workspace!Paths
  <2>3. QED BY <1>1, <1>3, <2>1, <2>2, BeginStep

(* plugin add. *)
LEMMA AddStep ==
  ASSUME WInv, NEW p \in Packages, NEW n \in Copies, NEW optional \in BOOLEAN,
         NEW dry \in BOOLEAN, Workspace!Add(p, n, optional, dry)
  PROVE  WInv'
<1> DEFINE exit == Workspace!AddExit(p, n, optional)
           files == IF exit # "OK" THEN <<>>
                    ELSE <<Workspace!File("inventory",
                               Workspace!With(inventory, Workspace!Added(p, n, optional))),
                           Workspace!File("dependencies", p)>>
           name == IF dry THEN "dry-run" ELSE "add"
<1>1. Workspace!Begin(name, exit, files, dry) BY DEF Workspace!Add
<1>2. ASSUME exit = "OK"
      PROVE  Workspace!With(inventory, Workspace!Added(p, n, optional)) \in InventoryFiles
  <2>1. Workspace!WellFormed(inventory) /\ installed[p] # 0 BY <1>2 DEF Workspace!AddExit
  <2>2. inventory \in InventoryFiles /\ installed[p] \in Versions
    BY <2>1 DEF WInv, FilesTyped, Workspace!WellFormed
  <2>3. Workspace!ManifestOf(p).configRef \in STRING
    BY <2>2, WorkspaceAssumption DEF Workspace!ManifestOf
  <2>4. Workspace!Added(p, n, optional) \in Entries
    BY <2>3 DEF Workspace!Added, Entries
  <2>5. QED BY <2>2, <2>4 DEF Workspace!With, InventoryFiles
<1>3. ASSUME exit = "OK", NEW i \in DOMAIN files
      PROVE  /\ files[i].file = "inventory" => files[i].to \in InventoryFiles
             /\ files[i].file \notin Workspace!Paths
  <2>1. \/ files[i] = Workspace!File("inventory",
                         Workspace!With(inventory, Workspace!Added(p, n, optional)))
        \/ files[i] = Workspace!File("dependencies", p)
    BY <1>3
  <2>2. QED BY <1>2, <1>3, <2>1 DEF Workspace!File, Workspace!Paths
<1>4. name # "build" OBVIOUS
<1>5. "schema" \in Workspace!Paths BY DEF Workspace!Paths
<1>6. QED
  <2> DEFINE first == Workspace!File("inventory",
                          Workspace!With(inventory, Workspace!Added(p, n, optional)))
             then == Workspace!File("dependencies", p)
  <2>1. exit = "OK" => files = <<first, then>> OBVIOUS
  <2> HIDE DEF exit, files, name, first, then
  <2>2. <<first, then>> \in Seq({first, then}) OBVIOUS
  <2>3. QED BY <1>1, <1>3, <1>4, <1>5, <2>1, <2>2, BeginStep

(* plugin remove. *)
LEMMA RemoveStep ==
  ASSUME WInv, NEW key, Workspace!Remove(key) PROVE WInv'
<1> DEFINE exit == Workspace!RemoveExit(key)
           files == IF exit # "OK" THEN <<>>
                    ELSE <<Workspace!File("inventory", Workspace!Without(inventory, key))>>
<1>1. Workspace!Begin("remove", exit, files, FALSE) BY DEF Workspace!Remove
<1>2. ASSUME exit = "OK" PROVE Workspace!Without(inventory, key) \in InventoryFiles
  <2>1. Workspace!WellFormed(inventory) BY <1>2 DEF Workspace!RemoveExit
  <2>2. inventory \in InventoryFiles BY <2>1 DEF WInv, FilesTyped, Workspace!WellFormed
  <2>3. QED BY <2>2 DEF Workspace!Without, InventoryFiles
<1>3. ASSUME exit = "OK", NEW i \in DOMAIN files
      PROVE  /\ files[i].file = "inventory" => files[i].to \in InventoryFiles
             /\ files[i].file \notin Workspace!Paths
  <2>1. files[i] = Workspace!File("inventory", Workspace!Without(inventory, key)) BY <1>3
  <2>2. QED BY <1>2, <1>3, <2>1 DEF Workspace!File, Workspace!Paths
<1>4. "schema" \in Workspace!Paths BY DEF Workspace!Paths
<1>5. QED
  <2> DEFINE only == Workspace!File("inventory", Workspace!Without(inventory, key))
  <2>1. exit = "OK" => files = <<only>> OBVIOUS
  <2> HIDE DEF exit, files, only
  <2>2. <<only>> \in Seq({only}) OBVIOUS
  <2>3. QED BY <1>1, <1>3, <1>4, <2>1, <2>2, BeginStep

(* The commands that only read. *)
LEMMA ReadOnlyStep ==
  ASSUME WInv, Workspace!Read PROVE WInv'
<1>1. ASSUME NEW command, NEW exit, command # "build",
             Workspace!Begin(command, exit, <<>>, FALSE)
      PROVE  WInv'
  <2>1. <<>> \in Seq({}) /\ \A i \in DOMAIN <<>> : FALSE OBVIOUS
  <2>2. QED BY <1>1, <2>1, BeginStep
<1>2. QED BY <1>1 DEF Workspace!Read

(* One file after the other. *)
LEMMA TailOfFiles ==
  ASSUME NEW S, NEW s \in Seq(S), s # <<>>
  PROVE  /\ Tail(s) \in Seq(S) /\ 1 \in DOMAIN s /\ Head(s) = s[1]
         /\ \A i \in DOMAIN Tail(s) : i + 1 \in DOMAIN s /\ Tail(s)[i] = s[i + 1]
  OBVIOUS

LEMMA TailsOfFour ==
  ASSUME NEW p, NEW q, NEW r, NEW s
  PROVE  /\ Tail(<<p, q, r, s>>) = <<q, r, s>> /\ Head(<<p, q, r, s>>) = p
         /\ Tail(<<q, r, s>>) = <<r, s>> /\ Head(<<q, r, s>>) = q
         /\ Tail(<<r, s>>) = <<s>> /\ Head(<<r, s>>) = r
         /\ Tail(<<s>>) = <<>> /\ Head(<<s>>) = s
  OBVIOUS

(* What a write does, in one step. *)
LEMMA WriteEffect ==
  ASSUME WInv, Workspace!Write, NEW f, f = Head(writes)
  PROVE  /\ writes # <<>> /\ writes' = Tail(writes) /\ 1 \in DOMAIN writes /\ f = writes[1]
         /\ UNCHANGED <<installed, patched, presetVersion, answer>>
         /\ DOMAIN artifacts' = Workspace!Paths
         /\ inventory' = IF f.file = "inventory" THEN f.to ELSE inventory
         /\ lock' = IF f.file = "lock" THEN f.to ELSE lock
         /\ \A path \in Workspace!Paths :
               \/ /\ path = f.file /\ artifacts'[path] = f.to
                  /\ artifacts[path] = f.to => made'[path] = made[path]
                  /\ artifacts[path] # f.to => made'[path] = f.from
               \/ path # f.file /\ artifacts'[path] = artifacts[path] /\ made'[path] = made[path]
         /\ \A i \in DOMAIN writes' : i + 1 \in DOMAIN writes /\ writes'[i] = writes[i + 1]
         /\ \E S : writes' \in Seq(S)
<1>1. writes # <<>> /\ writes' = Tail(writes) BY DEF Workspace!Write
<1>2. PICK S : writes \in Seq(S) BY DEF WInv, FilesTyped
<1>3. /\ Tail(writes) \in Seq(S) /\ 1 \in DOMAIN writes /\ f = writes[1]
      /\ \A i \in DOMAIN Tail(writes) : i + 1 \in DOMAIN writes /\ Tail(writes)[i] = writes[i + 1]
  BY <1>1, <1>2, TailOfFiles
<1>4. /\ UNCHANGED <<installed, patched, presetVersion, answer>>
      /\ DOMAIN artifacts' = Workspace!Paths
      /\ inventory' = IF f.file = "inventory" THEN f.to ELSE inventory
      /\ lock' = IF f.file = "lock" THEN f.to ELSE lock
  BY DEF Workspace!Write
<1>5. \A path \in Workspace!Paths :
         \/ /\ path = f.file /\ artifacts'[path] = f.to
            /\ artifacts[path] = f.to => made'[path] = made[path]
            /\ artifacts[path] # f.to => made'[path] = f.from
         \/ path # f.file /\ artifacts'[path] = artifacts[path] /\ made'[path] = made[path]
  BY DEF Workspace!Write, Workspace!Replaced
<1>6. QED BY <1>1, <1>3, <1>4, <1>5

(* A file is written: it is what it stands for, and a build has come one file further. *)
LEMMA WriteStep ==
  ASSUME WInv, Workspace!Write PROVE WInv'
<1>1. PICK f : f = Head(writes) OBVIOUS
<1>2. /\ writes # <<>> /\ writes' = Tail(writes) /\ 1 \in DOMAIN writes /\ f = writes[1]
      /\ UNCHANGED <<installed, patched, presetVersion, answer>>
      /\ DOMAIN artifacts' = Workspace!Paths
      /\ inventory' = IF f.file = "inventory" THEN f.to ELSE inventory
      /\ lock' = IF f.file = "lock" THEN f.to ELSE lock
      /\ \A i \in DOMAIN writes' : i + 1 \in DOMAIN writes /\ writes'[i] = writes[i + 1]
      /\ \E S : writes' \in Seq(S)
  BY <1>1, WriteEffect
<1>3. \A path \in Workspace!Paths :
         \/ /\ path = f.file /\ artifacts'[path] = f.to
            /\ artifacts[path] = f.to => made'[path] = made[path]
            /\ artifacts[path] # f.to => made'[path] = f.from
         \/ path # f.file /\ artifacts'[path] = artifacts[path] /\ made'[path] = made[path]
  BY <1>1, WriteEffect
<1>4. FilesTyped'
  <2>1. f.file = "inventory" => f.to \in InventoryFiles BY <1>2 DEF WInv, FilesTyped
  <2>2. inventory' = Broken \/ inventory' \in InventoryFiles BY <1>2, <2>1 DEF WInv, FilesTyped
  <2>3. \A i \in DOMAIN writes' : writes'[i].file = "inventory" =>
           writes'[i].to \in InventoryFiles
    BY <1>2 DEF WInv, FilesTyped
  <2>4. QED BY <1>2, <2>2, <2>3 DEF WInv, FilesTyped
<1>5. Recorded'
  <2>1. f.file \in Workspace!Paths => StandsFor(f.to, f.from) BY <1>2 DEF WInv, Recorded
  <2>2. ASSUME NEW path \in Workspace!Paths
        PROVE  artifacts'[path] = None \/ StandsFor(artifacts'[path], made'[path])
    <3>1. artifacts[path] = None \/ StandsFor(artifacts[path], made[path])
      BY DEF WInv, Recorded
    <3>2. CASE path # f.file BY <1>3, <3>1, <3>2
    <3>3. CASE path = f.file
      <4>1. StandsFor(f.to, f.from) BY <2>1, <3>3
      <4>2. artifacts'[path] = f.to BY <1>3, <3>3
      <4>3. (artifacts[path] = f.to /\ made'[path] = made[path]) \/ made'[path] = f.from
        BY <1>3, <3>3
      <4>4. QED BY <3>1, <4>1, <4>2, <4>3
    <3>4. QED BY <3>2, <3>3
  <2>3. \A i \in DOMAIN writes' : writes'[i].file \in Workspace!Paths =>
           StandsFor(writes'[i].to, writes'[i].from)
    BY <1>2 DEF WInv, Recorded
  <2>4. QED BY <2>2, <2>3 DEF Recorded, StandsFor
<1>6. Composed'
  <2>1. f.file = "schema" => NotFailed(f.to) BY <1>2 DEF WInv, Composed
  <2>2. artifacts'["schema"] = None \/ NotFailed(artifacts'["schema"])
    BY <1>3, <2>1 DEF WInv, Composed, Workspace!Paths
  <2>3. \A i \in DOMAIN writes' : writes'[i].file = "schema" => NotFailed(writes'[i].to)
    BY <1>2 DEF WInv, Composed
  <2>4. QED BY <2>2, <2>3 DEF Composed, NotFailed
<1>7. Building'
  <2> SUFFICES ASSUME answer.command = "build", answer.exit = "OK"
               PROVE  Workspace!BuildExit' = "OK" /\ HalfBuilt'
    BY <1>2 DEF Building
  <2>1. Workspace!BuildExit = "OK" /\ HalfBuilt BY DEF WInv, Building
  <2>2. PICK a1, a2, a3, a4 : a1 = Remains("catalog") /\ a2 = Remains("composition")
                              /\ a3 = Remains("schema") /\ a4 = RemainsLock
    OBVIOUS
  <2>3. /\ a1.file = "catalog" /\ a1.to = Workspace!Artifact(inventory, "catalog")
        /\ a2.file = "composition" /\ a2.to = Workspace!Artifact(inventory, "composition")
        /\ a3.file = "schema" /\ a3.to = Workspace!Artifact(inventory, "schema")
        /\ a4.file = "lock" /\ a4.to = Workspace!Fresh(inventory)
    BY <2>2 DEF Remains, RemainsLock, Workspace!File
  <2>4. \/ writes = <<a1, a2, a3, a4>>
        \/ writes = <<a2, a3, a4>> /\ Current("catalog")
        \/ writes = <<a3, a4>> /\ Current("catalog") /\ Current("composition")
        \/ writes = <<a4>> /\ \A path \in Workspace!Paths : Current(path)
    BY <1>2, <2>1, <2>2 DEF HalfBuilt, AllOfThem
  <2>5. f.file \in {"catalog", "composition", "schema", "lock"}
    BY <1>1, <2>3, <2>4, TailsOfFour
  <2>6. inventory' = inventory BY <1>2, <2>5
  <2>7. Workspace!BuildExit' = "OK" BY <1>2, <2>1, <2>6, AnswerIsStable
  <2>8. \A path : /\ Workspace!Artifact(inventory, path)' = Workspace!Artifact(inventory, path)
                  /\ Workspace!Fresh(inventory)' = Workspace!Fresh(inventory)
                  /\ Remains(path)' = Remains(path) /\ RemainsLock' = RemainsLock
    <3>1. \A file, path : /\ Workspace!Artifact(file, path)' = Workspace!Artifact(file, path)
                          /\ Workspace!Fresh(file)' = Workspace!Fresh(file)
                          /\ Workspace!Inputs(file)' = Workspace!Inputs(file)
      BY <1>2, GeneratedIsStable
    <3>2. QED BY <2>6, <3>1 DEF Remains, RemainsLock, Workspace!File
  <2>9. a1 = Remains("catalog")' /\ a2 = Remains("composition")' /\ a3 = Remains("schema")'
        /\ a4 = RemainsLock'
    BY <2>2, <2>8
  <2>10. \A path \in Workspace!Paths :
            Current(path)' <=> artifacts'[path] = Workspace!Artifact(inventory, path)
    BY <2>6, <2>8 DEF Current
  <2>11. \A path \in Workspace!Paths : Current(path) /\ path # f.file => Current(path)'
    BY <1>3, <2>10 DEF Current
  <2>12. "catalog" \in Workspace!Paths /\ "composition" \in Workspace!Paths
         /\ "schema" \in Workspace!Paths
         /\ \A path \in Workspace!Paths :
               path = "catalog" \/ path = "composition" \/ path = "schema"
    BY DEF Workspace!Paths
  <2>13. CASE writes = <<a1, a2, a3, a4>>
    <3>1. f = a1 /\ writes' = <<a2, a3, a4>> BY <1>1, <1>2, <2>13, TailsOfFour
    <3>2. Current("catalog")' BY <1>3, <2>3, <2>10, <2>12, <3>1
    <3>3. QED BY <2>7, <2>9, <3>1, <3>2 DEF HalfBuilt
  <2>14. CASE writes = <<a2, a3, a4>> /\ Current("catalog")
    <3>1. f = a2 /\ writes' = <<a3, a4>> BY <1>1, <1>2, <2>14, TailsOfFour
    <3>2. Current("composition")' /\ Current("catalog")'
      BY <1>3, <2>3, <2>10, <2>11, <2>12, <2>14, <3>1
    <3>3. QED BY <2>7, <2>9, <3>1, <3>2 DEF HalfBuilt
  <2>15. CASE writes = <<a3, a4>> /\ Current("catalog") /\ Current("composition")
    <3>1. f = a3 /\ writes' = <<a4>> BY <1>1, <1>2, <2>15, TailsOfFour
    <3>2. Current("schema")' /\ Current("composition")' /\ Current("catalog")'
      BY <1>3, <2>3, <2>10, <2>11, <2>12, <2>15, <3>1
    <3>3. \A path \in Workspace!Paths : Current(path)' BY <2>12, <3>2
    <3>4. QED BY <2>7, <2>9, <3>1, <3>3 DEF HalfBuilt
  <2>16. CASE writes = <<a4>> /\ \A path \in Workspace!Paths : Current(path)
    <3>1. f = a4 /\ writes' = <<>> BY <1>1, <1>2, <2>16, TailsOfFour
    <3>2. \A path \in Workspace!Paths : Current(path)' BY <2>3, <2>11, <2>12, <2>16, <3>1
    <3>3. lock' = Workspace!Fresh(inventory)' BY <1>2, <2>3, <2>8, <3>1
    <3>4. QED BY <2>7, <3>1, <3>2, <3>3 DEF HalfBuilt
  <2>17. QED BY <2>4, <2>13, <2>14, <2>15, <2>16
<1>8. QED BY <1>4, <1>5, <1>6, <1>7 DEF WInv

(* The process dies: nothing is left to write, and nothing was answered. *)
LEMMA CrashStep ==
  ASSUME WInv, Workspace!Crash PROVE WInv'
<1>1. /\ writes' = <<>> /\ answer'.command = "none"
      /\ UNCHANGED <<inventory, installed, presetVersion, artifacts, made>>
  BY DEF Workspace!Crash, Workspace!NoAnswer
<1>2. <<>> \in Seq({}) /\ \A i \in DOMAIN <<>> : FALSE OBVIOUS
<1>3. FilesTyped'
  <2>1. \E S : writes' \in Seq(S) BY <1>1, <1>2
  <2>2. QED BY <1>1, <1>2, <2>1 DEF WInv, FilesTyped
<1>4. Recorded'
  <2>1. \A path \in Workspace!Paths :
          artifacts'[path] = None \/ StandsFor(artifacts'[path], made'[path])
    BY <1>1 DEF WInv, Recorded
  <2>2. QED BY <1>1, <1>2, <2>1 DEF Recorded, StandsFor
<1>5. Composed'
  <2>1. artifacts'["schema"] = None \/ NotFailed(artifacts'["schema"])
    BY <1>1 DEF WInv, Composed
  <2>2. QED BY <1>1, <1>2, <2>1 DEF Composed, NotFailed
<1>6. Building' BY <1>1 DEF Building
<1>7. QED BY <1>3, <1>4, <1>5, <1>6 DEF WInv

(* What people do to the inventory leaves it an inventory, or broken. *)
LEMMA RewriteTyped ==
  ASSUME FilesTyped, Workspace!Rewrite
  PROVE  inventory' = Broken \/ inventory' \in InventoryFiles
<1>1. inventory' \in Workspace!Rewritten BY DEF Workspace!Rewrite
<1>2. CASE inventory = Broken
  BY <1>1, <1>2, WorkspaceAssumption DEF Workspace!Rewritten
<1>3. CASE inventory # Broken
  <2>1. inventory \in InventoryFiles BY <1>3 DEF FilesTyped
  <2>2. ASSUME NEW e \in inventory.plugins PROVE Workspace!Toggled(inventory, e) \in InventoryFiles
    <3>1. e \in Entries BY <2>1, <2>2 DEF InventoryFiles
    <3>2. [e EXCEPT !.enabled = ~@] \in Entries BY <3>1 DEF Entries
    <3>3. PICK g \in Entries : g = [e EXCEPT !.enabled = ~@] BY <3>2
    <3>4. Workspace!Toggled(inventory, e)
            = [inventory EXCEPT !.plugins = (inventory.plugins \ {e}) \cup {g}]
      BY <3>3 DEF Workspace!Toggled
    <3>5. QED BY <2>1, <3>4 DEF InventoryFiles
  <2>3. ASSUME NEW q \in Presets
        PROVE  [inventory EXCEPT !.presets = (@ \ {q}) \cup ({q} \ @)] \in InventoryFiles
    BY <2>1, <2>3 DEF InventoryFiles
  <2>4. QED BY <1>1, <1>3, <2>2, <2>3 DEF Workspace!Rewritten
<1>4. QED BY <1>2, <1>3

(* The package manager and people change the files before and after each write: whatever a
   command answered is forgotten, and an artefact is dropped, never changed. *)
LEMMA EditStep ==
  ASSUME WInv, Workspace!Edit PROVE WInv'
<1>1. answer'.command = "none" /\ writes' = writes /\ made' = made
  BY DEF Workspace!Edit, Workspace!Edited, Workspace!NoAnswer
<1>2. inventory' = Broken \/ inventory' \in InventoryFiles
  <2>1. UNCHANGED inventory \/ Workspace!Rewrite
    BY DEF Workspace!Edit, Workspace!Install, Workspace!InstallPreset, Workspace!Patch,
           Workspace!Discard, Workspace!DiscardLock
  <2>2. QED BY <2>1, RewriteTyped DEF WInv, FilesTyped
<1>3. /\ installed' \in [Packages -> Versions \cup {0}]
      /\ presetVersion' \in [Presets -> Versions \cup {0}]
  BY DEF WInv, FilesTyped, Workspace!Edit, Workspace!Install, Workspace!InstallPreset,
         Workspace!Patch, Workspace!Rewrite, Workspace!Discard, Workspace!DiscardLock
<1>4. \/ UNCHANGED artifacts
      \/ \E path \in Workspace!Paths : artifacts' = [artifacts EXCEPT ![path] = None]
  BY DEF Workspace!Edit, Workspace!Install, Workspace!InstallPreset, Workspace!Patch,
         Workspace!Rewrite, Workspace!Discard, Workspace!DiscardLock
<1>5. /\ DOMAIN artifacts' = Workspace!Paths
      /\ \A path \in Workspace!Paths :
            artifacts'[path] = artifacts[path] \/ artifacts'[path] = None
  BY <1>4 DEF WInv, FilesTyped
<1>6. FilesTyped' BY <1>1, <1>2, <1>3, <1>5 DEF WInv, FilesTyped, Workspace!Paths
<1>7. Recorded'
  <2>1. \A path \in Workspace!Paths :
          artifacts'[path] = None \/ StandsFor(artifacts'[path], made'[path])
    BY <1>1, <1>5 DEF WInv, Recorded
  <2>2. \A i \in DOMAIN writes' : writes'[i].file \in Workspace!Paths =>
           StandsFor(writes'[i].to, writes'[i].from)
    BY <1>1 DEF WInv, Recorded
  <2>3. QED BY <2>1, <2>2 DEF Recorded, StandsFor
<1>8. Composed'
  <2>1. artifacts'["schema"] = None \/ NotFailed(artifacts'["schema"])
    BY <1>5 DEF WInv, Composed, Workspace!Paths
  <2>2. \A i \in DOMAIN writes' : writes'[i].file = "schema" => NotFailed(writes'[i].to)
    BY <1>1 DEF WInv, Composed
  <2>3. QED BY <2>1, <2>2 DEF Composed, NotFailed
<1>9. Building' BY <1>1 DEF Building
<1>10. QED BY <1>6, <1>7, <1>8, <1>9 DEF WInv

(* The invariant depends on the workspace's variables alone. *)
LEMMA WorkspaceStays ==
  ASSUME WInv, UNCHANGED Workspace!vars PROVE WInv'
<1>1. UNCHANGED <<inventory, installed, patched, presetVersion, artifacts, made, lock, writes,
                  answer>>
  BY DEF Workspace!vars
<1>2. FilesTyped' BY <1>1 DEF WInv, FilesTyped
<1>3. Recorded' BY <1>1 DEF WInv, Recorded, StandsFor
<1>4. Composed' BY <1>1 DEF WInv, Composed, NotFailed
<1>5. Building'
  <2>1. \A file, path : /\ Workspace!Artifact(file, path)' = Workspace!Artifact(file, path)
                        /\ Workspace!Fresh(file)' = Workspace!Fresh(file)
                        /\ Workspace!Inputs(file)' = Workspace!Inputs(file)
    BY <1>1, GeneratedIsStable
  <2>2. \A path : /\ Remains(path)' = Remains(path) /\ RemainsLock' = RemainsLock
                  /\ Current(path)' <=> Current(path)
    BY <1>1, <2>1 DEF Remains, RemainsLock, Workspace!File, Current
  <2>3. Workspace!BuildExit' = Workspace!BuildExit BY <1>1, AnswerIsStable
  <2>4. HalfBuilt => HalfBuilt' BY <1>1, <2>1, <2>2 DEF HalfBuilt, AllOfThem
  <2>5. QED BY <1>1, <2>3, <2>4 DEF WInv, Building
<1>6. QED BY <1>2, <1>3, <1>4, <1>5 DEF WInv

LEMMA WorkspaceStep ==
  ASSUME WInv, Workspace!Next PROVE WInv'
  BY AddStep, RemoveStep, BuildStep, ReadOnlyStep, WriteStep, CrashStep, EditStep
     DEF Workspace!Next

--------------------------------------------------------------------------------
(* What build, its --check and doctor say of the files. *)

(* A lockfile just written agrees with what would be written. *)
LEMMA FreshLockAgrees ==
  ASSUME NEW file, lock = Workspace!Fresh(file)
  PROVE  Workspace!LockFaults(file) = {}
<1>1. lock # None
  <2>1. "packages" \in DOMAIN lock BY DEF Workspace!Fresh
  <2>2. QED BY <2>1, WorkspaceAssumption
<1> DEFINE new == Workspace!Fresh(file)
           Old(n) == {x.contents : x \in {y \in lock.packages : y.name = n}}
<1>2. \A x \in new.packages : \A contents \in Old(x.name) : contents = x.contents
  <2>1. \A x \in new.packages : x.contents = Workspace!Contents(x.name)
    BY DEF Workspace!Fresh, Workspace!Locked
  <2>2. QED BY <2>1
<1>3. QED BY <1>1, <1>2 DEF Workspace!LockFaults

(* The check after a build finds nothing. *)
LEMMA BuildIsFound ==
  ASSUME WInv PROVE Workspace!BuildConverges
<1> SUFFICES ASSUME Workspace!Done("build")
             PROVE  /\ Workspace!CheckExit = "OK"
                    /\ Workspace!DoctorExit \in {"OK", "RESOLUTION_FAILED"}
  BY DEF Workspace!BuildConverges
<1>1. writes = <<>> /\ answer.command = "build" /\ answer.exit = "OK" BY DEF Workspace!Done
<1>2. /\ Workspace!BuildExit = "OK" /\ lock = Workspace!Fresh(inventory)
      /\ \A path \in Workspace!Paths : Current(path)
  BY <1>1 DEF WInv, Building, HalfBuilt, AllOfThem
<1>3. Workspace!Drifted(inventory) = {} BY <1>2 DEF Workspace!Drifted, Current
<1>4. Workspace!LockFaults(inventory) = {} BY <1>2, FreshLockAgrees
<1>5. Workspace!CheckExit = "OK" BY <1>2, <1>3, <1>4 DEF Workspace!CheckExit
<1>6. Workspace!WellFormed(inventory) BY <1>2 DEF Workspace!BuildExit
<1>7. Workspace!DoctorDrift(inventory) = {} /\ Workspace!DoctorLock(inventory) = {}
  BY <1>3, <1>4 DEF Workspace!DoctorDrift, Workspace!DoctorLock
<1>8. QED BY <1>5, <1>6, <1>7 DEF Workspace!DoctorExit

(* What is current was made from today's inputs. *)
LEMMA CurrentIsRecorded ==
  ASSUME WInv PROVE Workspace!StaleArtifactsAreSeen
<1>1. ASSUME NEW path \in Workspace!Paths, path \notin Workspace!Drifted(inventory)
      PROVE  made[path] = Workspace!Inputs(inventory)
  <2>1. artifacts[path] = Workspace!Artifact(inventory, path) BY <1>1 DEF Workspace!Drifted
  <2>2. "digest" \in DOMAIN artifacts[path] BY <2>1 DEF Workspace!Artifact
  <2>3. artifacts[path] # None BY <2>2, WorkspaceAssumption
  <2>4. StandsFor(artifacts[path], made[path]) BY <2>3 DEF WInv, Recorded
  <2>5. artifacts[path].digest = Workspace!SourceDigest(inventory)
    BY <2>1 DEF Workspace!Artifact
  <2>6. QED BY <2>4, <2>5 DEF StandsFor, Workspace!SourceDigest, Workspace!Inputs
<1>2. QED BY <1>1 DEF Workspace!StaleArtifactsAreSeen

(* doctor and the check find the same drift: what doctor accepts composes, since no file
   on disk is of a schema that does not. *)
LEMMA DoctorAgrees ==
  ASSUME WInv PROVE Workspace!DoctorAgreesWithCheck
<1>1. ASSUME Workspace!CheckExit = "OK" PROVE Workspace!DoctorExit # "DRIFT_DETECTED"
  <2>1. /\ Workspace!BuildExit = "OK" /\ Workspace!Drifted(inventory) = {}
        /\ Workspace!LockFaults(inventory) = {}
    BY <1>1 DEF Workspace!CheckExit
  <2>2. Workspace!DoctorDrift(inventory) = {} /\ Workspace!DoctorLock(inventory) = {}
    BY <2>1 DEF Workspace!DoctorDrift, Workspace!DoctorLock
  <2>3. QED BY <2>2 DEF Workspace!DoctorExit
<1>2. ASSUME Workspace!DoctorExit = "OK" PROVE Workspace!CheckExit = "OK"
  <2>1. /\ Workspace!WellFormed(inventory) /\ ~Workspace!StateFaults(inventory)
        /\ Workspace!DoctorDrift(inventory) = {} /\ Workspace!DoctorLock(inventory) = {}
    BY <1>2 DEF Workspace!DoctorExit
  <2>2. Workspace!Missing(Workspace!Expanded(inventory)) = {} /\ Workspace!Generable(inventory)
    BY <2>1 DEF Workspace!StateFaults, Workspace!Accepts, Workspace!Generable
  <2>3. Workspace!Drifted(inventory) = {} /\ Workspace!LockFaults(inventory) = {}
    BY <2>1, <2>2 DEF Workspace!DoctorDrift, Workspace!DoctorLock
  <2>4. artifacts["schema"] = Workspace!Artifact(inventory, "schema")
    BY <2>3 DEF Workspace!Drifted, Workspace!Paths
  <2>5. artifacts["schema"] # None
    <3>1. "digest" \in DOMAIN artifacts["schema"] BY <2>4 DEF Workspace!Artifact
    <3>2. QED BY <3>1, WorkspaceAssumption
  <2>6. artifacts["schema"].body.entries # {"COMPOSITION FAILED"}
    BY <2>5 DEF WInv, Composed, NotFailed
  <2>7. artifacts["schema"].body = Workspace!Body(inventory, "schema")
    BY <2>4 DEF Workspace!Artifact
  <2>8. Workspace!Composes(Workspace!Expanded(inventory))
    <3>1. ~Workspace!Composes(Workspace!Expanded(inventory)) =>
            Workspace!Body(inventory, "schema").entries = {"COMPOSITION FAILED"}
      BY DEF Workspace!Body
    <3>2. QED BY <2>6, <2>7, <3>1
  <2>9. Workspace!BuildExit = "OK" BY <2>1, <2>2, <2>8 DEF Workspace!BuildExit
  <2>10. QED BY <2>3, <2>9 DEF Workspace!CheckExit
<1>3. QED BY <1>1, <1>2 DEF Workspace!DoctorAgreesWithCheck

--------------------------------------------------------------------------------
(* The workspace among the other parts. *)

WorkspaceInv == part = "workspace" => WInv

LEMMA WorkspaceStart == SumInit => WorkspaceInv
  BY WorkspaceInit DEF SumInit, WorkspaceInv

LEMMA WorkspaceKeeps == WorkspaceInv /\ [SumNext]_sumVars => WorkspaceInv'
<1> SUFFICES ASSUME WorkspaceInv, [SumNext]_sumVars, part' = "workspace" PROVE WInv'
  BY DEF WorkspaceInv
<1>1. part = "workspace" BY DEF SumNext, ResolverSteps, ToolSteps, sumVars
<1>2. Workspace!Next \/ UNCHANGED Workspace!vars
  BY <1>1 DEF SumNext, ResolverSteps, ToolSteps, sumVars, toolVars, sharedVars, workspaceVars,
              Workspace!vars
<1>3. QED BY <1>1, <1>2, WorkspaceStep, WorkspaceStays DEF WorkspaceInv

(* What a command has still to write, and what the files stand for, in every reachable
   state. *)
THEOREM WorkspaceInvariance == SumSpec => []WorkspaceInv
<1> QED BY WorkspaceStart, WorkspaceKeeps, PTL DEF SumSpec

(* runBuild: whatever files it finds, and whatever an earlier command left half written,
   after a build that ends well neither its --check nor doctor finds drift.  For any packages,
   presets and inventory. *)
THEOREM BuildTheorem == SumSpec => []BuildConverges
<1>1. WorkspaceInv => BuildConverges BY BuildIsFound DEF WorkspaceInv, BuildConverges
<1> QED BY <1>1, WorkspaceInvariance, PTL

(* computeSourceDigest: what --check does not report was generated from today's inventory,
   manifests and presets, and doctor calls current just what --check does: whatever the
   package manager and people did between two writes. *)
THEOREM DriftTheorem == SumSpec => []DriftIsSeen
<1>1. WorkspaceInv => DriftIsSeen
  BY CurrentIsRecorded, DoctorAgrees DEF WorkspaceInv, DriftIsSeen
<1> QED BY <1>1, WorkspaceInvariance, PTL

--------------------------------------------------------------------------------
(* The generators' sort: items with ids of their own. *)

(* A set of numbers has a least one. *)
LEMMA LeastNumber ==
  ASSUME NEW T \in SUBSET Nat, T # {}
  PROVE  \E x \in T : \A y \in T : x <= y
<1> DEFINE I == {0..t : t \in T}
<1>1. I \subseteq FiniteSubsetsOf(Nat)
  <2>1. \A t \in Nat : IsFiniteSet(0..t) BY FS_Interval
  <2>2. \A t \in Nat : 0..t \subseteq Nat OBVIOUS
  <2>3. QED BY <2>1, <2>2 DEF FiniteSubsetsOf
<1>2. IsWellFoundedOn(StrictSubsetOrdering(Nat), FiniteSubsetsOf(Nat))
  BY FS_StrictSubsetOrderingWellFounded
<1>3. I # {} OBVIOUS
<1>4. PICK m \in I : \A y \in I : ~(<<y, m>> \in StrictSubsetOrdering(Nat))
  <2> HIDE DEF I
  <2> QED BY <1>1, <1>2, <1>3, WFMin
<1>5. PICK x \in T : m = 0..x OBVIOUS
<1>6. ASSUME NEW y \in T, y < x PROVE FALSE
  <2>1. 0..y \in I OBVIOUS
  <2>2. 0..y \subseteq 0..x /\ x \in 0..x /\ x \notin 0..y BY <1>6
  <2>3. <<0..y, 0..x>> \in StrictSubsetOrdering(Nat) BY <2>2 DEF StrictSubsetOrdering
  <2>4. QED BY <2>1, <2>3, <1>4, <1>5
<1>7. QED BY <1>6

(* Some item of a frontier comes before all others. *)
LEMMA SomeLeast ==
  ASSUME NEW l \in Seq(Items), NEW S \in SUBSET DOMAIN l, S # {}, Artifacts!Distinct(l)
  PROVE  \E i \in S : \A j \in S :
            ~Artifacts!Before(l[j], l[i]) /\ (j < i => Artifacts!Before(l[i], l[j]))
<1> DEFINE Lower(i) == {j \in S : Artifacts!Before(l[j], l[i])}
           I == {Lower(i) : i \in S}
<1>1. ASSUME NEW i \in S PROVE l[i].id \in Nat /\ l[i].order \in Int
  <2>1. l[i] \in Items
    <3> HIDE DEF Items
    <3> QED OBVIOUS
  <2>2. QED BY <2>1 DEF Items
<1>2. IsFiniteSet(S) BY FS_Interval, FS_Subset
<1>3. I \subseteq FiniteSubsetsOf(S) BY <1>2, FS_Subset DEF FiniteSubsetsOf
<1>4. IsWellFoundedOn(StrictSubsetOrdering(S), FiniteSubsetsOf(S))
  BY FS_StrictSubsetOrderingWellFounded
<1>5. I # {} OBVIOUS
<1>6. PICK m \in I : \A y \in I : ~(<<y, m>> \in StrictSubsetOrdering(S))
  <2> HIDE DEF I
  <2> QED BY <1>3, <1>4, <1>5, WFMin
<1>7. PICK i \in S : m = Lower(i) OBVIOUS
<1>8. ASSUME NEW j \in S, Artifacts!Before(l[j], l[i]) PROVE FALSE
  <2>1. Lower(j) \subseteq Lower(i) BY <1>1, <1>8 DEF Artifacts!Before
  <2>2. j \in Lower(i) /\ j \notin Lower(j) BY <1>1, <1>8 DEF Artifacts!Before
  <2>3. <<Lower(j), Lower(i)>> \in StrictSubsetOrdering(S) BY <2>1, <2>2 DEF StrictSubsetOrdering
  <2>4. QED BY <2>3, <1>6, <1>7
<1>9. ASSUME NEW j \in S, j < i PROVE Artifacts!Before(l[i], l[j])
  <2>1. l[i].id # l[j].id BY <1>9 DEF Artifacts!Distinct
  <2>2. QED BY <1>1, <1>8, <2>1 DEF Artifacts!Before
<1>10. QED BY <1>8, <1>9

(* An edge is a pair of items one of which has to precede the other. *)
LEMMA EdgesAre ==
  ASSUME NEW l \in Seq(Items)
  PROVE  /\ \A u, v : <<u, v>> \in Artifacts!Edges(l) <=>
               \E i, j \in DOMAIN l :
                  l[i].id = u /\ l[j].id = v /\ Artifacts!Precedes(l[i], l[j])
         /\ \A e \in Artifacts!Edges(l) : e = <<e[1], e[2]>>
         /\ IsFiniteSet(Artifacts!Edges(l))
<1>1. ASSUME NEW u, NEW v
      PROVE  <<u, v>> \in Artifacts!Edges(l) <=>
               \E i, j \in DOMAIN l :
                  l[i].id = u /\ l[j].id = v /\ Artifacts!Precedes(l[i], l[j])
  BY DEF Artifacts!Edges, Artifacts!Ids, Artifacts!ToSet, Artifacts!Precedes
<1>2. \A e \in Artifacts!Edges(l) : e = <<e[1], e[2]>> BY DEF Artifacts!Edges
<1>3. IsFiniteSet(Artifacts!Ids(l))
  <2> DEFINE f == [i \in DOMAIN l |-> l[i].id]
  <2>1. f \in Surjection(DOMAIN l, Artifacts!Ids(l)) BY DEF Surjection, Artifacts!Ids
  <2>2. IsFiniteSet(DOMAIN l) BY FS_Interval
  <2>3. QED BY <2>1, <2>2, FS_Surjection
<1>4. Artifacts!Edges(l) \subseteq Artifacts!Ids(l) \X Artifacts!Ids(l)
  BY DEF Artifacts!Edges, Artifacts!Ids, Artifacts!ToSet
<1>5. QED BY <1>1, <1>2, <1>3, <1>4, FS_Product, FS_Subset

Emitted == {result[k].id : k \in DOMAIN result}
Blocking(n) == {e \in Artifacts!Edges(list) : e[2] = n /\ e[1] \notin Emitted}

(* What has been emitted comes from the list, each item once, *)
Drawn ==
    /\ list \in Seq(Items) /\ result \in Seq(Items) /\ Artifacts!Distinct(list)
    /\ \A k \in DOMAIN result : \E i \in DOMAIN list : result[k] = list[i]
    /\ \A j, k \in DOMAIN result : result[j].id = result[k].id => j = k

(* ... the frontier is what waits for nothing, *)
Counted ==
    /\ ready \subseteq DOMAIN list
    /\ \A i \in DOMAIN list :
          i \in ready <=> list[i].id \notin Emitted /\ Blocking(list[i].id) = {}
    /\ degree = [n \in Artifacts!Ids(list) |-> Cardinality(Blocking(n))]

(* ... each comes after all that precede it, *)
After ==
    \A k \in DOMAIN result, i \in DOMAIN list :
        Artifacts!Precedes(list[i], result[k]) =>
            \E j \in DOMAIN result : j < k /\ result[j].id = list[i].id

(* ... and what now comes before the last one emitted had to wait for it. *)
Stepwise ==
    /\ \A k \in 1..(Len(result) - 1) :
          Artifacts!Before(result[k + 1], result[k]) =>
              Artifacts!Precedes(result[k], result[k + 1])
    /\ Len(result) > 0 =>
          \A i \in ready :
              Artifacts!Before(list[i], result[Len(result)]) =>
                  Artifacts!Precedes(result[Len(result)], list[i])

Sorting == Drawn /\ Counted /\ After /\ Stepwise

SortInv ==
    /\ graph \in Generations
    /\ phase \in {"generate", "sort", "sorted", "thrown", "failed"}
    /\ phase \in {"sort", "sorted", "thrown"} => list \in Seq(Items)
    /\ phase \in {"sort", "sorted", "thrown"} /\ Artifacts!Distinct(list) =>
          IF Len(list) <= 1 THEN phase = "sorted" /\ result = list ELSE Sorting
    /\ phase = "sorted" => Len(result) = Len(list)
    /\ phase = "thrown" => ready = {} /\ Len(result) # Len(list)

SortingInv == part = "artifacts" => SortInv

(* Of a list whose ids differ, an id has one position. *)
LEMMA PositionIs ==
  ASSUME NEW l \in Seq(Items), Artifacts!Distinct(l), NEW i \in DOMAIN l
  PROVE  Artifacts!PositionOf(l, l[i].id) = i
<1> DEFINE Is(j) == l[j].id = l[i].id /\ \A k \in DOMAIN l : l[k].id = l[i].id => k <= j
<1>1. \A k \in DOMAIN l : l[k].id = l[i].id => k = i BY DEF Artifacts!Distinct
<1>2. DOMAIN l \subseteq Nat OBVIOUS
<1>3. Is(i) BY <1>1, <1>2
<1>4. \A j \in DOMAIN l : Is(j) => j = i BY <1>1
<1>5. QED BY <1>3, <1>4 DEF Artifacts!PositionOf

(* Nothing emitted waits for anything. *)
LEMMA EmittedWaitsForNothing ==
  ASSUME Drawn, After, NEW n \in Emitted
  PROVE  Blocking(n) = {}
<1> SUFFICES ASSUME NEW e \in Blocking(n) PROVE FALSE OBVIOUS
<1>1. PICK k \in DOMAIN result : result[k].id = n BY DEF Emitted
<1>2. e = <<e[1], n>> /\ <<e[1], n>> \in Artifacts!Edges(list) /\ e[1] \notin Emitted
  BY EdgesAre DEF Blocking, Drawn
<1>3. PICK i \in DOMAIN list, j \in DOMAIN list :
        list[i].id = e[1] /\ list[j].id = n /\ Artifacts!Precedes(list[i], list[j])
  <2>1. \A u, v : <<u, v>> \in Artifacts!Edges(list) =>
          \E i, j \in DOMAIN list :
             list[i].id = u /\ list[j].id = v /\ Artifacts!Precedes(list[i], list[j])
    BY EdgesAre DEF Drawn
  <2>2. QED BY <1>2, <2>1
<1>4. result[k] = list[j] BY <1>1, <1>3 DEF Drawn, Artifacts!Distinct
<1>5. PICK m \in DOMAIN result : result[m].id = list[i].id BY <1>3, <1>4 DEF After
<1>6. QED BY <1>2, <1>3, <1>5 DEF Emitted

(* Begin: nothing is emitted, everything waits for what precedes it. *)
LEMMA BeginSorts ==
  ASSUME SortInv, NEW l \in Seq(Items), Artifacts!Begin(l)
  PROVE  SortInv'
<1>1. /\ list' = l /\ graph' = graph
      /\ Len(l) <= 1 => phase' = "sorted" /\ result' = l
      /\ ~(Len(l) <= 1) => phase' = "sort" /\ result' = <<>>
      /\ ready' = {i \in DOMAIN l : ~\E e \in Artifacts!Edges(l) : e[2] = l[i].id}
      /\ degree' = [n \in Artifacts!Ids(l) |->
                      Cardinality({e \in Artifacts!Edges(l) : e[2] = n})]
  BY DEF Artifacts!Begin, Artifacts!Cardinality, Cardinality
<1>2. ASSUME ~(Len(l) <= 1), Artifacts!Distinct(l) PROVE Sorting'
  <2>1. result' = <<>> /\ DOMAIN result' = {} BY <1>1, <1>2
  <2>2. Emitted' = {} BY <2>1 DEF Emitted
  <2>3. Artifacts!Edges(list)' = Artifacts!Edges(l) BY <1>1
  <2>4. ASSUME NEW n PROVE Blocking(n)' = {e \in Artifacts!Edges(l) : e[2] = n}
    BY <2>2, <2>3 DEF Blocking
  <2>5. Drawn' BY <1>1, <1>2, <2>1 DEF Drawn
  <2>6. Counted'
    <3>1. ready' \subseteq DOMAIN list' BY <1>1
    <3>2. ASSUME NEW i \in DOMAIN l
          PROVE  i \in ready' <=> l[i].id \notin Emitted' /\ Blocking(l[i].id)' = {}
      <4>1. PICK n : n = l[i].id OBVIOUS
      <4>2. Blocking(n)' = {e \in Artifacts!Edges(l) : e[2] = n} BY <2>4
      <4>3. QED BY <1>1, <2>2, <4>1, <4>2
    <3>3. degree' = [n \in Artifacts!Ids(l) |-> Cardinality(Blocking(n)')] BY <1>1, <2>4
    <3>4. QED BY <1>1, <3>1, <3>2, <3>3 DEF Counted
  <2>7. After' BY <2>1 DEF After
  <2>8. Stepwise' BY <2>1 DEF Stepwise
  <2>9. QED BY <2>5, <2>6, <2>7, <2>8 DEF Sorting
<1>3. QED BY <1>1, <1>2 DEF SortInv

(* Shift: the head of the frontier is emitted, and what waited for it alone is free. *)
LEMMA ShiftSorts ==
  ASSUME SortInv, Artifacts!Shift
  PROVE  SortInv'
<1>1. phase = "sort" /\ ready # {} /\ UNCHANGED <<graph, list, phase>> BY DEF Artifacts!Shift
<1>2. SUFFICES ASSUME Artifacts!Distinct(list) PROVE ~(Len(list) <= 1) /\ Sorting'
  BY <1>1 DEF SortInv
<1>3. ~(Len(list) <= 1) /\ Sorting BY <1>1, <1>2 DEF SortInv
<1>4. list \in Seq(Items) /\ result \in Seq(Items) /\ ready \subseteq DOMAIN list
  BY <1>3 DEF Sorting, Drawn, Counted
<1> DEFINE head == Artifacts!Foremost(list, ready)
           x  == list[head]
<1>5. head \in ready /\ \A i \in ready : ~Artifacts!Before(list[i], list[head])
  <2>1. \E i \in ready : \A j \in ready :
          ~Artifacts!Before(list[j], list[i]) /\ (j < i => Artifacts!Before(list[i], list[j]))
    BY <1>1, <1>2, <1>4, SomeLeast
  <2>2. QED BY <2>1 DEF Artifacts!Foremost
<1>6. /\ result' = Append(result, x)
      /\ ready' = (ready \ {head})
                   \cup {Artifacts!PositionOf(list, n) : n \in Artifacts!NowReady(x)}
      /\ degree' = [n \in DOMAIN degree |->
                      IF n \in Artifacts!Freed(x) THEN degree[n] - 1 ELSE degree[n]]
  BY DEF Artifacts!Shift
<1>7. PICK i0 \in DOMAIN list, z \in Items : i0 = head /\ z = x /\ z = list[i0]
  BY <1>4, <1>5
<1> HIDE DEF head, x
<1>8. i0 \in ready /\ z.id \notin Emitted /\ Blocking(z.id) = {}
  BY <1>3, <1>5, <1>7 DEF Sorting, Counted
<1>9. /\ result' = Append(result, z) /\ Len(result') = Len(result) + 1
      /\ DOMAIN result' = DOMAIN result \cup {Len(result) + 1}
      /\ \A k \in DOMAIN result : result'[k] = result[k] /\ k < Len(result) + 1
      /\ result'[Len(result) + 1] = z /\ Len(result) + 1 \notin DOMAIN result
      /\ result' \in Seq(Items)
  BY <1>4, <1>6, <1>7
<1>10. Emitted' = Emitted \cup {z.id} BY <1>9 DEF Emitted
<1>11. Artifacts!Freed(z) = {n \in Artifacts!Ids(list) : <<z.id, n>> \in Artifacts!Edges(list)}
  <2>1. \A e \in Artifacts!Edges(list) : e = <<e[1], e[2]>> /\ e[2] \in Artifacts!Ids(list)
    BY <1>4, EdgesAre DEF Artifacts!Edges, Artifacts!Ids, Artifacts!ToSet
  <2>2. QED BY <2>1 DEF Artifacts!Freed
<1>12. ASSUME NEW n PROVE Blocking(n)' = Blocking(n) \ {<<z.id, n>>}
  <2>1. \A e \in Artifacts!Edges(list) : e = <<e[1], e[2]>> BY <1>4, EdgesAre
  <2>2. Artifacts!Edges(list)' = Artifacts!Edges(list) BY <1>1
  <2>3. QED BY <1>10, <2>1, <2>2 DEF Blocking
<1>13. ASSUME NEW n \in Artifacts!Ids(list)
       PROVE  /\ n \in Artifacts!Freed(z) => <<z.id, n>> \in Blocking(n)
              /\ n \notin Artifacts!Freed(z) => Blocking(n)' = Blocking(n)
              /\ IsFiniteSet(Blocking(n)) /\ degree[n] = Cardinality(Blocking(n))
  <2>1. n \in Artifacts!Freed(z) => <<z.id, n>> \in Blocking(n) BY <1>8, <1>11 DEF Blocking
  <2>2. n \notin Artifacts!Freed(z) => Blocking(n)' = Blocking(n)
    BY <1>11, <1>12 DEF Blocking
  <2>3. IsFiniteSet(Blocking(n)) BY <1>4, EdgesAre, FS_Subset DEF Blocking
  <2>4. degree[n] = Cardinality(Blocking(n)) BY <1>3 DEF Sorting, Counted
  <2>5. QED BY <2>1, <2>2, <2>3, <2>4
<1>14. Drawn'
  <2>1. \A k \in DOMAIN result' : \E i \in DOMAIN list : result'[k] = list[i]
    BY <1>3, <1>7, <1>9 DEF Sorting, Drawn
  <2>2. ASSUME NEW j \in DOMAIN result', NEW k \in DOMAIN result',
               result'[j].id = result'[k].id
        PROVE  j = k
    <3>1. CASE j \in DOMAIN result /\ k \in DOMAIN result
      BY <1>3, <1>9, <2>2, <3>1 DEF Sorting, Drawn
    <3>2. \A m \in DOMAIN result : result[m].id # z.id BY <1>8 DEF Emitted
    <3>3. QED BY <1>9, <2>2, <3>1, <3>2
  <2>3. QED BY <1>1, <1>2, <1>4, <1>9, <2>1, <2>2 DEF Drawn
<1>15. ASSUME NEW i \in DOMAIN list
       PROVE  i \in ready' <=> list[i].id \notin Emitted' /\ Blocking(list[i].id)' = {}
  <2>1. PICK n \in Artifacts!Ids(list) : n = list[i].id BY DEF Artifacts!Ids
  <2>2. i \in ready <=> n \notin Emitted /\ Blocking(n) = {}
    BY <1>3, <2>1 DEF Sorting, Counted
  <2>3. n = z.id <=> i = i0 BY <1>2, <1>7, <2>1 DEF Artifacts!Distinct
  <2>4. i \in ready' <=> (i \in ready /\ i # i0) \/ n \in Artifacts!NowReady(z)
    <3>1. \A m \in Artifacts!NowReady(z) : m \in Artifacts!Ids(list)
      BY <1>11 DEF Artifacts!NowReady
    <3>2. \A m \in Artifacts!NowReady(z) : Artifacts!PositionOf(list, m) = i <=> m = n
      <4>1. TAKE m \in Artifacts!NowReady(z)
      <4>2. PICK j \in DOMAIN list : m = list[j].id BY <3>1 DEF Artifacts!Ids
      <4>3. Artifacts!PositionOf(list, m) = j BY <1>2, <1>4, <4>2, PositionIs
      <4>4. QED BY <1>2, <2>1, <4>2, <4>3 DEF Artifacts!Distinct
    <3>3. QED BY <1>6, <1>7, <3>2
  <2>5. n \in Artifacts!NowReady(z) <=>
          n \notin Emitted' /\ Blocking(n)' = {} /\ Blocking(n) # {}
    <3>1. n \in Artifacts!NowReady(z) <=>
            n \in Artifacts!Freed(z) /\ Cardinality(Blocking(n)) = 1
      BY <1>13 DEF Artifacts!NowReady
    <3>2. Blocking(n) # {} => n \notin Emitted /\ n # z.id
      BY <1>3, <1>8, EmittedWaitsForNothing DEF Sorting
    <3>3. CASE n \in Artifacts!Freed(z)
      <4>1. <<z.id, n>> \in Blocking(n) /\ IsFiniteSet(Blocking(n)) BY <1>13, <3>3
      <4>2. Cardinality(Blocking(n) \ {<<z.id, n>>}) = Cardinality(Blocking(n)) - 1
            /\ IsFiniteSet(Blocking(n) \ {<<z.id, n>>})
        BY <4>1, FS_RemoveElement
      <4>3. Cardinality(Blocking(n)) = 1 <=> Blocking(n) \ {<<z.id, n>>} = {}
        <5>1. Cardinality(Blocking(n)) \in Nat BY <4>1, FS_CardinalityType
        <5>2. Blocking(n) \ {<<z.id, n>>} = {} <=> Cardinality(Blocking(n) \ {<<z.id, n>>}) = 0
          BY <4>2, FS_EmptySet, Zenon
        <5>3. QED BY <4>2, <5>1, <5>2
      <4>4. QED BY <1>10, <1>12, <3>1, <3>2, <3>3, <4>1, <4>3
    <3>4. CASE n \notin Artifacts!Freed(z) BY <1>13, <3>1, <3>4
    <3>5. QED BY <3>3, <3>4
  <2>6. Blocking(n) = {} => Blocking(n)' = {} BY <1>12
  <2>7. PICK m : m = n OBVIOUS
  <2>8. n \notin Emitted' <=> n \notin Emitted /\ n # z.id BY <1>10
  <2>9. i \in ready' <=> n \notin Emitted' /\ Blocking(n)' = {}
    BY <2>2, <2>3, <2>4, <2>5, <2>6, <2>8
  <2>10. QED BY <1>1, <2>1, <2>9
<1>16. Counted'
  <2>1. ready' \subseteq DOMAIN list
    <3>1. ASSUME NEW n \in Artifacts!NowReady(z)
          PROVE  Artifacts!PositionOf(list, n) \in DOMAIN list
      <4>1. n \in Artifacts!Ids(list) BY <1>11 DEF Artifacts!NowReady
      <4>2. PICK j \in DOMAIN list : n = list[j].id BY <4>1 DEF Artifacts!Ids
      <4>3. QED BY <1>2, <1>4, <4>2, PositionIs
    <3>2. QED BY <1>4, <1>6, <1>7, <3>1
  <2>2. ASSUME NEW n \in Artifacts!Ids(list)
        PROVE  degree'[n] = Cardinality(Blocking(n)')
    <3>1. DOMAIN degree = Artifacts!Ids(list) BY <1>3 DEF Sorting, Counted
    <3>2. CASE n \in Artifacts!Freed(z)
      <4>1. Cardinality(Blocking(n) \ {<<z.id, n>>}) = Cardinality(Blocking(n)) - 1
        BY <1>13, <3>2, FS_RemoveElement
      <4>2. degree'[n] = degree[n] - 1 BY <1>6, <1>7, <3>1, <3>2
      <4>3. QED BY <1>12, <1>13, <4>1, <4>2
    <3>3. CASE n \notin Artifacts!Freed(z)
      <4>1. degree'[n] = degree[n] BY <1>6, <1>7, <3>1, <3>3
      <4>2. Blocking(n)' = Blocking(n) BY <1>13, <3>3
      <4>3. QED BY <1>13, <4>1, <4>2
    <3>4. QED BY <3>2, <3>3
  <2>3. degree' = [n \in Artifacts!Ids(list) |-> Cardinality(Blocking(n)')]
    <3>1. DOMAIN degree = Artifacts!Ids(list) BY <1>3 DEF Sorting, Counted
    <3>2. QED BY <1>6, <2>2, <3>1
  <2>4. QED BY <1>1, <1>15, <2>1, <2>3 DEF Counted
<1>17. After'
  <2>1. ASSUME NEW k \in DOMAIN result', NEW i \in DOMAIN list,
               Artifacts!Precedes(list[i], result'[k])
        PROVE  \E j \in DOMAIN result' : j < k /\ result'[j].id = list[i].id
    <3>1. CASE k \in DOMAIN result
      <4>1. PICK j \in DOMAIN result : j < k /\ result[j].id = list[i].id
        BY <1>3, <1>9, <2>1, <3>1 DEF Sorting, After
      <4>2. QED BY <1>9, <4>1
    <3>2. CASE k = Len(result) + 1
      <4>1. Artifacts!Precedes(list[i], list[i0]) BY <1>7, <1>9, <2>1, <3>2
      <4>2. <<list[i].id, z.id>> \in Artifacts!Edges(list) BY <1>4, <1>7, <4>1, EdgesAre
      <4>3. list[i].id \in Emitted BY <1>8, <4>2 DEF Blocking
      <4>4. PICK j \in DOMAIN result : result[j].id = list[i].id BY <4>3 DEF Emitted
      <4>5. QED BY <1>9, <3>2, <4>4
    <3>3. QED BY <1>9, <3>1, <3>2
  <2>2. QED BY <1>1, <2>1 DEF After
<1>18. Stepwise'
  <2>1. ASSUME NEW k \in 1..(Len(result') - 1),
               Artifacts!Before(result'[k + 1], result'[k])
        PROVE  Artifacts!Precedes(result'[k], result'[k + 1])
    <3>1. CASE k < Len(result)
      <4>1. k \in 1..(Len(result) - 1) /\ k \in DOMAIN result /\ k + 1 \in DOMAIN result
        BY <1>4, <3>1
      <4>2. result'[k] = result[k] /\ result'[k + 1] = result[k + 1] BY <1>9, <4>1
      <4>3. QED BY <1>3, <2>1, <4>1, <4>2 DEF Sorting, Stepwise
    <3>2. CASE k = Len(result)
      <4>1. k \in DOMAIN result /\ Len(result) > 0 BY <1>4, <3>2
      <4>2. result'[k] = result[Len(result)] /\ result'[k + 1] = list[i0]
        BY <1>7, <1>9, <3>2, <4>1
      <4>3. QED BY <1>3, <1>8, <2>1, <4>1, <4>2 DEF Sorting, Stepwise
    <3>3. QED BY <1>4, <1>9, <3>1, <3>2
  <2>2. ASSUME NEW i \in ready', Artifacts!Before(list[i], z)
        PROVE  Artifacts!Precedes(z, list[i])
    <3>1. i \notin ready BY <1>5, <1>7, <2>2
    <3>2. PICK n \in Artifacts!NowReady(z) : i = Artifacts!PositionOf(list, n)
      BY <1>6, <1>7, <3>1
    <3>3. n \in Artifacts!Ids(list) /\ <<z.id, n>> \in Artifacts!Edges(list)
      BY <1>11 DEF Artifacts!NowReady
    <3>4. PICK u \in DOMAIN list, v \in DOMAIN list :
            list[u].id = z.id /\ list[v].id = n /\ Artifacts!Precedes(list[u], list[v])
      <4>1. \A s, t : <<s, t>> \in Artifacts!Edges(list) =>
              \E u, v \in DOMAIN list :
                 list[u].id = s /\ list[v].id = t /\ Artifacts!Precedes(list[u], list[v])
        BY <1>4, EdgesAre
      <4>2. QED BY <3>3, <4>1
    <3>5. u = i0 BY <1>2, <1>7, <3>4 DEF Artifacts!Distinct
    <3>6. i = v BY <1>2, <1>4, <3>2, <3>4, PositionIs
    <3>7. QED BY <1>7, <3>4, <3>5, <3>6
  <2>3. result'[Len(result')] = z BY <1>9
  <2>4. QED BY <1>1, <2>1, <2>2, <2>3 DEF Stepwise
<1>19. QED BY <1>3, <1>14, <1>16, <1>17, <1>18 DEF Sorting

(* End, and a failing page or namespace. *)
LEMMA EndSorts ==
  ASSUME SortInv, Artifacts!End
  PROVE  SortInv'
<1>1. /\ phase = "sort" /\ ready = {} /\ UNCHANGED <<graph, list, ready, degree, result>>
      /\ Len(result) = Len(list) => phase' = "sorted"
      /\ Len(result) # Len(list) => phase' = "thrown"
  BY DEF Artifacts!End
<1>2. ASSUME Artifacts!Distinct(list) PROVE ~(Len(list) <= 1) /\ Sorting'
  <2>1. ~(Len(list) <= 1) /\ Sorting BY <1>1, <1>2 DEF SortInv
  <2>2. UNCHANGED Emitted BY <1>1 DEF Emitted
  <2>3. ASSUME NEW n PROVE UNCHANGED Blocking(n) BY <1>1, <2>2 DEF Blocking
  <2>4. Counted'
    <3>1. degree = [n \in Artifacts!Ids(list) |-> Cardinality(Blocking(n))]
      BY <2>1 DEF Sorting, Counted
    <3>2. degree = [n \in Artifacts!Ids(list) |-> Cardinality(Blocking(n)')] BY <2>3, <3>1
    <3>3. ASSUME NEW i \in DOMAIN list
          PROVE  i \in ready <=> list[i].id \notin Emitted' /\ Blocking(list[i].id)' = {}
      <4>1. PICK n : n = list[i].id OBVIOUS
      <4>2. i \in ready <=> n \notin Emitted /\ Blocking(n) = {}
        BY <2>1, <4>1 DEF Sorting, Counted
      <4>3. i \in ready <=> n \notin Emitted' /\ Blocking(n)' = {} BY <2>2, <2>3, <4>2
      <4>4. QED BY <1>1, <4>1, <4>3
    <3>4. QED BY <1>1, <2>1, <3>2, <3>3 DEF Sorting, Counted
  <2>5. Drawn' /\ After' /\ Stepwise' BY <1>1, <2>1 DEF Sorting, Drawn, After, Stepwise
  <2>6. QED BY <2>1, <2>4, <2>5 DEF Sorting
<1>3. QED BY <1>1, <1>2 DEF SortInv

LEMMA FailSorts ==
  ASSUME SortInv, Artifacts!Fail
  PROVE  SortInv'
BY DEF SortInv, Artifacts!Fail

LEMMA SortInit == Artifacts!Init => SortInv
  BY DEF Artifacts!Init, SortInv

LEMMA SortStays ==
  ASSUME SortInv, UNCHANGED Artifacts!vars
  PROVE  SortInv'
<1>1. UNCHANGED <<graph, list, ready, degree, result, phase>> BY DEF Artifacts!vars
<1>2. UNCHANGED Emitted BY <1>1 DEF Emitted
<1>3. ASSUME NEW n PROVE UNCHANGED Blocking(n) BY <1>1, <1>2 DEF Blocking
<1>4. ASSUME Counted PROVE Counted'
  <2>1. degree = [n \in Artifacts!Ids(list) |-> Cardinality(Blocking(n)')]
    BY <1>3, <1>4 DEF Counted
  <2>2. ASSUME NEW i \in DOMAIN list
        PROVE  i \in ready <=> list[i].id \notin Emitted' /\ Blocking(list[i].id)' = {}
    <3>1. PICK n : n = list[i].id OBVIOUS
    <3>2. i \in ready <=> n \notin Emitted /\ Blocking(n) = {} BY <1>4, <3>1 DEF Counted
    <3>3. i \in ready <=> n \notin Emitted' /\ Blocking(n)' = {} BY <1>2, <1>3, <3>2
    <3>4. QED BY <1>1, <3>1, <3>3
  <2>3. QED BY <1>1, <1>4, <2>1, <2>2 DEF Counted
<1>5. UNCHANGED <<Drawn, After, Stepwise>> BY <1>1 DEF Drawn, After, Stepwise
<1>6. ASSUME Sorting PROVE Sorting' BY <1>4, <1>5, <1>6 DEF Sorting
<1>7. QED BY <1>1, <1>6 DEF SortInv

LEMMA ArtifactsStep ==
  ASSUME SortInv, Artifacts!Next
  PROVE  SortInv'
<1>1. CASE Artifacts!Order
  <2>1. graph \in Generations BY DEF SortInv
  <2>2. SortedLists(graph) \subseteq Seq(Items) BY <2>1, GenerationAssumption
  <2>3. PICK l \in SortedLists(graph) : Artifacts!Begin(l)
    BY <1>1 DEF Artifacts!Order, SortedLists
  <2>4. QED BY <2>2, <2>3, BeginSorts
<1>2. QED BY <1>1, ShiftSorts, EndSorts, FailSorts DEF Artifacts!Next

(* A list that has been emitted in full is a permutation of itself that respects the edges. *)
LEMMA SortedIsOrdered ==
  ASSUME Sorting, Len(result) = Len(list)
  PROVE  result \in Artifacts!Orders(list) /\ Artifacts!Respects(result)
<1>1. /\ list \in Seq(Items) /\ result \in Seq(Items) /\ DOMAIN result = DOMAIN list
      /\ \A k \in DOMAIN result : \E i \in DOMAIN list : result[k] = list[i]
      /\ \A j, k \in DOMAIN result : result[j].id = result[k].id => j = k
  BY DEF Sorting, Drawn
<1> DEFINE p == [k \in DOMAIN list |-> CHOOSE i \in DOMAIN list : result[k] = list[i]]
<1>2. \A k \in DOMAIN list : p[k] \in DOMAIN list /\ result[k] = list[p[k]] BY <1>1
<1>3. p \in [DOMAIN list -> DOMAIN list] BY <1>2
<1>4. Artifacts!IsInjective(p)
  <2>1. ASSUME NEW j \in DOMAIN list, NEW k \in DOMAIN list, p[j] = p[k] PROVE j = k
    <3> HIDE DEF p
    <3>1. result[j] = result[k] BY <1>2, <2>1
    <3>2. QED BY <1>1, <3>1
  <2>2. QED BY <2>1, <1>3 DEF Artifacts!IsInjective
<1>5. result = [i \in DOMAIN list |-> list[p[i]]]
  <2> HIDE DEF p
  <2>1. result = [i \in DOMAIN list |-> result[i]] BY <1>1
  <2>2. QED BY <1>2, <2>1
<1>6. result \in Artifacts!Orders(list)
  <2> HIDE DEF p
  <2> QED BY <1>3, <1>4, <1>5 DEF Artifacts!Orders
<1>7. ASSUME NEW i \in DOMAIN result, NEW j \in DOMAIN result,
             Artifacts!Precedes(result[i], result[j])
      PROVE  i < j
  <2>1. PICK u \in DOMAIN list : result[i] = list[u] BY <1>1
  <2>2. PICK k \in DOMAIN result : k < j /\ result[k].id = result[i].id
    BY <1>7, <2>1 DEF Sorting, After
  <2>3. QED BY <1>1, <2>2
<1>8. QED BY <1>6, <1>7 DEF Artifacts!Respects

(* An order of a list is a rearrangement of its places. *)
LEMMA OrderMoves ==
  ASSUME NEW l, NEW o \in Artifacts!Orders(l)
  PROVE  \E q \in [DOMAIN l -> DOMAIN l] :
            Artifacts!IsInjective(q) /\ o = [i \in DOMAIN l |-> l[q[i]]]
  BY DEF Artifacts!Orders

(* An edge joins an item with one it has to precede. *)
LEMMA EdgeJoins ==
  ASSUME NEW l \in Seq(Items), NEW e \in Artifacts!Edges(l)
  PROVE  \E u, v \in DOMAIN l :
            l[u].id = e[1] /\ l[v].id = e[2] /\ Artifacts!Precedes(l[u], l[v])
<1>1. <<e[1], e[2]>> \in Artifacts!Edges(l) BY EdgesAre
<1>2. QED BY <1>1, EdgesAre

(* What blocks an item is an edge into it, from one that is not emitted. *)
LEMMA BlockedBy ==
  ASSUME NEW n, NEW e \in Blocking(n)
  PROVE  e \in Artifacts!Edges(list) /\ e[2] = n /\ e[1] \notin Emitted
  BY DEF Blocking

(* Of what waits when nothing is free, the first in any order has not got what it waits for
   before it. *)
LEMMA ThrownHasNoOrder ==
  ASSUME Sorting, ready = {}, Len(result) # Len(list), NEW order0 \in Artifacts!Orders(list)
  PROVE  ~Artifacts!Respects(order0)
<1> SUFFICES ASSUME Artifacts!Respects(order0) PROVE FALSE OBVIOUS
<1>0. Drawn BY DEF Sorting
<1>1. list \in Seq(Items) /\ result \in Seq(Items) BY <1>0, Zenon DEF Drawn
<1>1a. DOMAIN list = 1..Len(list) /\ DOMAIN result = 1..Len(result)
  <2> HIDE DEF Items
  <2> QED BY <1>1
<1>1b. \A k \in DOMAIN result : \E i \in DOMAIN list : result[k] = list[i]
  BY <1>0, Zenon DEF Drawn
<1>1c. \A j, k \in DOMAIN result : result[j].id = result[k].id => j = k
  BY <1>0, Zenon DEF Drawn
<1>1d. \A j, k \in DOMAIN list : list[j].id = list[k].id => j = k
  BY <1>0, Zenon DEF Drawn, Artifacts!Distinct
<1>2. PICK q \in [DOMAIN list -> DOMAIN list] :
        Artifacts!IsInjective(q) /\ order0 = [i \in DOMAIN list |-> list[q[i]]]
  BY OrderMoves
<1>3. /\ IsFiniteSet(DOMAIN list) /\ Cardinality(DOMAIN list) = Len(list)
      /\ IsFiniteSet(DOMAIN result) /\ Cardinality(DOMAIN result) = Len(result)
  <2>1. \A n \in Nat : IsFiniteSet(1..n) /\ Cardinality(1..n) = n
    <3>1. TAKE n \in Nat
    <3>2. IsFiniteSet(1..n) /\ Cardinality(1..n) = IF 1 > n THEN 0 ELSE n - 1 + 1
      BY FS_Interval
    <3>3. QED BY <3>2
  <2>2. Len(list) \in Nat /\ Len(result) \in Nat BY <1>1
  <2>3. IsFiniteSet(1..Len(list)) /\ Cardinality(1..Len(list)) = Len(list) BY <2>1, <2>2
  <2>4. IsFiniteSet(1..Len(result)) /\ Cardinality(1..Len(result)) = Len(result) BY <2>1, <2>2
  <2>5. QED BY <1>1a, <2>3, <2>4, Zenon
<1>4. DOMAIN list \subseteq Nat /\ Len(list) \in Nat /\ Len(result) \in Nat BY <1>1
<1>5. \A i \in DOMAIN list : \E k \in DOMAIN list : q[k] = i
  <2>1. q \in Injection(DOMAIN list, DOMAIN list)
    BY <1>2 DEF Injection, IsInjective, Artifacts!IsInjective
  <2>2. q \in Surjection(DOMAIN list, DOMAIN list) BY <1>3, <2>1, FS_Injection
  <2>3. QED BY <2>2 DEF Surjection
<1> DEFINE U == {k \in DOMAIN list : order0[k].id \notin Emitted}
<1>6. U # {}
  <2> SUFFICES ASSUME U = {} PROVE FALSE OBVIOUS
  <2>1. ASSUME NEW i \in DOMAIN list PROVE list[i].id \in Emitted
    <3>1. \A k \in DOMAIN list : order0[k].id \in Emitted OBVIOUS
    <3>2. PICK k \in DOMAIN list : q[k] = i BY <1>5
    <3>3. order0[k] = list[i]
      <4> HIDE DEF U
      <4> QED BY <1>2, <3>2
    <3>4. QED BY <3>1, <3>2, <3>3, Zenon
  <2>2. \A i \in DOMAIN list : \E k \in DOMAIN result : result[k].id = list[i].id
    BY <2>1 DEF Emitted
  <2> DEFINE f == [i \in DOMAIN list |-> CHOOSE k \in DOMAIN result : result[k].id = list[i].id]
             g == [k \in DOMAIN result |-> CHOOSE i \in DOMAIN list : result[k] = list[i]]
  <2>3. ASSUME NEW i \in DOMAIN list PROVE f[i] \in DOMAIN result /\ result[f[i]].id = list[i].id
    <3>1. \E k \in DOMAIN result : result[k].id = list[i].id BY <2>2
    <3>2. f[i] = CHOOSE k \in DOMAIN result : result[k].id = list[i].id BY Zenon
    <3> HIDE DEF f, g, U
    <3>3. QED BY <3>1, <3>2, Zenon
  <2>4. ASSUME NEW k \in DOMAIN result PROVE g[k] \in DOMAIN list /\ result[k] = list[g[k]]
    <3>1. \E i \in DOMAIN list : result[k] = list[i] BY <1>1b
    <3>2. g[k] = CHOOSE i \in DOMAIN list : result[k] = list[i] BY Zenon
    <3> HIDE DEF f, g, U
    <3>3. QED BY <3>1, <3>2, Zenon
  <2>5. f \in Injection(DOMAIN list, DOMAIN result)
    <3>1. f \in [DOMAIN list -> DOMAIN result]
      <4>1. f = [i \in DOMAIN list |-> f[i]] OBVIOUS
      <4> HIDE DEF f, g, U
      <4>2. QED BY <2>3, <4>1
    <3>2. ASSUME NEW i \in DOMAIN list, NEW j \in DOMAIN list, f[i] = f[j] PROVE i = j
      <4> HIDE DEF f, U
      <4>1. result[f[i]].id = list[i].id /\ result[f[j]].id = list[j].id BY <2>3
      <4>2. list[i].id = list[j].id BY <3>2, <4>1
      <4>3. QED BY <1>1d, <4>2
    <3> HIDE DEF f, g, U
    <3>3. QED BY <3>1, <3>2, Zenon DEF Injection, IsInjective
  <2>6. g \in Injection(DOMAIN result, DOMAIN list)
    <3>1. g \in [DOMAIN result -> DOMAIN list]
      <4>1. g = [k \in DOMAIN result |-> g[k]] OBVIOUS
      <4> HIDE DEF f, g, U
      <4>2. QED BY <2>4, <4>1
    <3>2. ASSUME NEW i \in DOMAIN result, NEW j \in DOMAIN result, g[i] = g[j] PROVE i = j
      <4> HIDE DEF g
      <4> QED BY <1>1c, <2>4, <3>2
    <3> HIDE DEF f, g, U
    <3>3. QED BY <3>1, <3>2, Zenon DEF Injection, IsInjective
  <2>7. Cardinality(DOMAIN list) <= Cardinality(DOMAIN result) BY <1>3, <2>5, FS_Injection
  <2>8. Cardinality(DOMAIN result) <= Cardinality(DOMAIN list) BY <1>3, <2>6, FS_Injection
  <2>9. Len(list) <= Len(result) /\ Len(result) <= Len(list)
    <3> HIDE DEF f, g, U
    <3> QED BY <1>3, <2>7, <2>8
  <2>10. QED BY <1>4, <2>9
<1>7. PICK k \in U : \A j \in U : k <= j
  <2>1. U \subseteq Nat BY <1>4
  <2> HIDE DEF U
  <2>2. QED BY <1>6, <2>1, LeastNumber
<1>8. order0[k] = list[q[k]] /\ q[k] \in DOMAIN list /\ list[q[k]].id \notin Emitted BY <1>2
<1>9. PICK e : e \in Blocking(list[q[k]].id) BY <1>8 DEF Sorting, Counted
<1>10. e \in Artifacts!Edges(list) /\ e[2] = list[q[k]].id /\ e[1] \notin Emitted
  BY <1>9, BlockedBy
<1>11. PICK u \in DOMAIN list, v \in DOMAIN list :
         list[u].id = e[1] /\ list[v].id = e[2] /\ Artifacts!Precedes(list[u], list[v])
  <2>1. list \in Seq(Items) /\ e \in Artifacts!Edges(list) BY <1>1, <1>10
  <2>2. QED BY <2>1, EdgeJoins
<1>12. v = q[k] BY <1>1d, <1>8, <1>10, <1>11
<1>13. PICK j \in DOMAIN list : q[j] = u BY <1>5
<1>14. order0[j] = list[u] BY <1>2, <1>13
<1>15. j < k
  <2>1. Artifacts!Precedes(order0[j], order0[k]) BY <1>8, <1>11, <1>12, <1>14
  <2>2. j \in DOMAIN order0 /\ k \in DOMAIN order0 BY <1>2
  <2>3. QED BY <2>1, <2>2 DEF Artifacts!Respects
<1>16. j \in U BY <1>10, <1>11, <1>14
<1>17. k <= j BY <1>7, <1>16
<1>18. k \in Nat /\ j \in Nat BY <1>4, <1>13
<1>19. QED
  <2> HIDE DEF U
  <2> QED BY <1>15, <1>17, <1>18

LEMMA SortIsRight ==
  ASSUME SortInv PROVE Artifacts!SortedOrThrown
<1> SUFFICES ASSUME Artifacts!Distinct(list)
             PROVE  /\ phase = "sorted" =>
                          /\ result \in Artifacts!Orders(list)
                          /\ Len(list) > 1 => Artifacts!Respects(result)
                          /\ \A i \in 1..(Len(result) - 1) :
                                Artifacts!Before(result[i + 1], result[i]) =>
                                    Artifacts!Precedes(result[i], result[i + 1])
                    /\ phase = "thrown" =>
                          \A x \in Artifacts!Orders(list) : ~Artifacts!Respects(x)
  BY DEF Artifacts!SortedOrThrown
<1>1. CASE phase = "sorted" /\ Len(list) <= 1
  <2>1. list \in Seq(Items) /\ result = list BY <1>1 DEF SortInv
  <2> DEFINE p == [i \in DOMAIN list |-> i]
  <2>2. p \in [DOMAIN list -> DOMAIN list] /\ Artifacts!IsInjective(p)
    BY DEF Artifacts!IsInjective
  <2>3. list = [i \in DOMAIN list |-> list[p[i]]] BY <2>1
  <2>4. list \in Artifacts!Orders(list)
    <3> HIDE DEF p
    <3> QED BY <2>2, <2>3 DEF Artifacts!Orders
  <2>5. 1..(Len(result) - 1) = {} /\ ~(Len(list) > 1) BY <1>1, <2>1
  <2>6. QED BY <1>1, <2>1, <2>4, <2>5
<1>2. CASE phase = "sorted" /\ ~(Len(list) <= 1)
  <2>1. Sorting /\ Len(result) = Len(list) BY <1>2 DEF SortInv
  <2>2. QED BY <1>2, <2>1, SortedIsOrdered DEF Sorting, Stepwise
<1>3. CASE phase = "thrown"
  <2>1. Sorting /\ ready = {} /\ Len(result) # Len(list) BY <1>3 DEF SortInv
  <2>2. QED BY <1>3, <2>1, ThrownHasNoOrder
<1>4. QED BY <1>1, <1>2, <1>3

--------------------------------------------------------------------------------
(* The composer: what a set of contributions comes to. *)

(* The composer rejects whatever the frozen rules reject. *)
LEMMA NoLaxer ==
  ASSUME NEW cs, IsFiniteSet(cs)
  PROVE  Artifacts!FrozenFaults(cs) \subseteq Artifacts!Faults(cs)
<1>1. ASSUME NEW n \in UNION {d.owns : d \in cs}, NEW d \in cs, NEW e \in cs,
             d # e, n \in d.owns \cap e.owns
      PROVE  "owner-collision" \in Artifacts!Faults(cs)
  <2>1. IsFiniteSet(Artifacts!Owning(cs, n)) BY FS_Subset DEF Artifacts!Owning
  <2>2. d \in Artifacts!Owning(cs, n) /\ e \in Artifacts!Owning(cs, n)
    BY <1>1 DEF Artifacts!Owning
  <2>3. Cardinality(Artifacts!Owning(cs, n)) > 1 BY <1>1, <2>1, <2>2, TwoElements
  <2>4. "owner-collision" \in Artifacts!Collisions(cs)
    BY <2>3 DEF Artifacts!Collisions, Artifacts!Cardinality, Cardinality
  <2>5. QED BY <2>4 DEF Artifacts!Faults
<1>2. ASSUME NEW x \in Artifacts!Augments(cs), Artifacts!Owning(cs, x.model) = {}
      PROVE  "missing-augmentation-target" \in Artifacts!Faults(cs)
  <2>1. "missing-augmentation-target" \in Artifacts!AugmentFaults(cs, x)
    BY <1>2 DEF Artifacts!AugmentFaults
  <2>2. QED BY <2>1 DEF Artifacts!Faults
<1>3. QED BY <1>1, <1>2 DEF Artifacts!FrozenFaults

(* Where nothing is at fault a model has one owner, the one an augmentation names. *)
LEMMA WrittenToItsOwner ==
  ASSUME NEW cs, IsFiniteSet(cs), Artifacts!Faults(cs) = {},
         \A d \in cs : d.plugin \in Nat /\ d.owns # Absent /\ d.fragment = d.owns,
         NEW x \in Artifacts!Augments(cs)
  PROVE  {y.in : y \in {z \in Artifacts!Schema(cs) : z.augment = x}} = {x.owner}
<1>1. Artifacts!AugmentFaults(cs, x) = {} /\ Artifacts!Collisions(cs) = {}
  BY DEF Artifacts!Faults
<1>2. PICK d : d \in Artifacts!Owning(cs, x.model)
  BY <1>1 DEF Artifacts!AugmentFaults
<1>3. d \in cs /\ x.model \in d.owns BY <1>2 DEF Artifacts!Owning
<1>4. ASSUME NEW e \in Artifacts!Owning(cs, x.model), e # d PROVE FALSE
  <2>1. IsFiniteSet(Artifacts!Owning(cs, x.model)) BY FS_Subset DEF Artifacts!Owning
  <2>2. Cardinality(Artifacts!Owning(cs, x.model)) > 1 BY <1>2, <1>4, <2>1, TwoElements
  <2>3. x.model \in UNION {e1.owns : e1 \in cs} BY <1>3
  <2>4. "owner-collision" \in Artifacts!Collisions(cs)
    BY <2>2, <2>3 DEF Artifacts!Collisions, Artifacts!Cardinality, Cardinality
  <2>5. QED BY <1>1, <2>4
<1>5. Artifacts!OwnerOf(cs, x.model) = d
  <2>1. Artifacts!Owning(cs, x.model) = {d} BY <1>2, <1>4
  <2>2. d.plugin <= d.plugin BY <1>3
  <2>3. QED BY <2>1, <2>2 DEF Artifacts!OwnerOf
<1>6. x.owner = d.plugin BY <1>1, <1>2, <1>5 DEF Artifacts!AugmentFaults
<1>7. ASSUME NEW e \in cs, NEW w \in Artifacts!Augments(cs)
      PROVE  Artifacts!InjectedInto(e, w) <=> w.model \in e.owns
  BY DEF Artifacts!InjectedInto
<1>8. ASSUME NEW z \in Artifacts!Schema(cs), z.augment = x PROVE z.in = d.plugin
  <2>1. PICK e \in cs : Artifacts!InjectedInto(e, x) /\ z.in = e.plugin
    BY <1>8 DEF Artifacts!Schema
  <2>2. e \in Artifacts!Owning(cs, x.model) BY <1>7, <2>1 DEF Artifacts!Owning
  <2>3. QED BY <1>4, <2>1, <2>2
<1>9. [in |-> d.plugin, augment |-> x] \in Artifacts!Schema(cs)
  <2>1. Artifacts!InjectedInto(d, x) BY <1>3, <1>7
  <2>2. <<d, x>> \in {y \in cs \X Artifacts!Augments(cs) : Artifacts!InjectedInto(y[1], y[2])}
    BY <1>3, <2>1
  <2>3. QED BY <2>2 DEF Artifacts!Schema
<1>10. QED BY <1>6, <1>8, <1>9

LEMMA ComposedRight ==
  ASSUME SortInv PROVE Artifacts!AugmentedOnce
<1> DEFINE cs == Artifacts!Contributions(graph)
<1>1. IsFiniteSet(DOMAIN graph) /\ \A d \in cs : d.plugin \in Nat /\ d.owns # Absent
  BY GenerationAssumption DEF SortInv
<1>2. IsFiniteSet(cs)
  <2> DEFINE S == {i \in DOMAIN graph : graph[i].prisma # Absent}
             f == [i \in S |-> graph[i].prisma]
  <2>1. IsFiniteSet(S) BY <1>1, FS_Subset
  <2>2. f \in Surjection(S, cs) BY DEF Surjection, Artifacts!Contributions
  <2>3. QED BY <2>1, <2>2, FS_Surjection
<1>3. Artifacts!FrozenFaults(cs) \subseteq Artifacts!Faults(cs)
  <2> HIDE DEF cs
  <2> QED BY <1>2, NoLaxer
<1>4. ASSUME Artifacts!Faults(cs) = {}, \A d \in cs : d.fragment = d.owns,
             NEW x \in Artifacts!Augments(cs)
      PROVE  {y.in : y \in {z \in Artifacts!Schema(cs) : z.augment = x}} = {x.owner}
  <2> HIDE DEF cs
  <2> QED BY <1>1, <1>2, <1>4, WrittenToItsOwner
<1>5. QED BY <1>3, <1>4 DEF Artifacts!AugmentedOnce

--------------------------------------------------------------------------------
(* The generators among the other parts. *)

LEMMA GeneratorStart == SumInit => SortingInv
  BY SortInit DEF SumInit, SortingInv

LEMMA GeneratorKeeps == SortingInv /\ [SumNext]_sumVars => SortingInv'
<1> SUFFICES ASSUME SortingInv, [SumNext]_sumVars, part' = "artifacts" PROVE SortInv'
  BY DEF SortingInv
<1>1. part = "artifacts" BY DEF SumNext, ResolverSteps, ToolSteps, sumVars
<1>2. Artifacts!Next \/ UNCHANGED Artifacts!vars
  BY <1>1 DEF SumNext, ResolverSteps, ToolSteps, sumVars, toolVars, artifactVars, sharedVars,
              Artifacts!vars
<1>3. QED BY <1>1, <1>2, ArtifactsStep, SortStays DEF SortingInv

(* What the sort has emitted, and what each id still waits for, in every reachable state. *)
THEOREM SortingInvariance == SumSpec => []SortingInv
<1> QED BY GeneratorStart, GeneratorKeeps, PTL DEF SumSpec

(* sortWithDependencies and compose(): for lists and schemas of any size, the sort emits every
   item once in an order that respects each `before` and `after`, in the canonical one among
   those, or throws when there is none, and what compose() accepts is written into the one
   owner the augmentation names. *)
THEOREM GeneratedTheorem == SumSpec => []GeneratedSoundly
<1>1. SortingInv => GeneratedSoundly
  BY SortIsRight, ComposedRight DEF SortingInv, GeneratedSoundly
<1> QED BY <1>1, SortingInvariance, PTL
================================================================================
