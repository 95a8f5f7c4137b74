------------------------- MODULE AgentClaimsProofs -------------------------
(***************************************************************************)
(* The claims are exclusive for any number of agents, applies, nodes and   *)
(* executions: TypeCorrect, then the inductive invariant ClaimsInv, from   *)
(* which ExclusiveArc follows; and, while no agent is taken over, that     *)
(* agents are claimed once and the reference counts implement              *)
(* ClaimRegistry.                                                          *)
(***************************************************************************)
EXTENDS MCClaimScenarios, FiniteSetTheorems, TLAPS

\* Every Arc anybody knows of has existed: no mapping is from the future of
\* the pool's entry.
NoFutureArc ==
    /\ \A p \in Applies : \A m \in list[p] : m[2] <= gen[m[1]]
    /\ \A c \in Claimants : \A m \in todo[c] : m[2] <= gen[m[1]]
    /\ \A c \in Claimants : cand[c] # NoRef => cand[c][2] <= gen[cand[c][1]]

\* Who is past its first look has a candidate.
HasCandidate ==
    \A c \in Claimants :
        pc[c] \in {"upgrade", "verify", "drop", "claimed"} => cand[c] \in Refs

ClaimsInv == TypeOK /\ NoFutureArc /\ HasCandidate /\ ExclusiveArc

\* A count of two on an Arc the agent still owns leaves room for one holder.
LEMMA SoleHolder ==
    ASSUME ClaimsAssumption, TypeOK,
           NEW k, NEW r \in Refs,
           gen[r[1]] = r[2], StrongCount(k, r) = 2,
           NEW c \in Holders(k, r), NEW d \in Holders(k, r)
    PROVE  c = d
<1>1. IsFiniteSet(Claimants)
  BY FS_Union DEF ClaimsAssumption, Claimants
<1>2. IsFiniteSet(Holders(k, r))
  BY <1>1, FS_Subset DEF Holders
<1>3. Cardinality(Holders(k, r)) \in Nat
  BY <1>2, FS_CardinalityType
<1>4. Cardinality(Holders(k, r)) = 1
  BY <1>3 DEF StrongCount
<1>5. PICK x : Holders(k, r) = {x}
  BY <1>2, <1>4, FS_Singleton
<1> QED
  BY <1>5

\* The initial state satisfies the inductive invariant.
LEMMA ClaimsInit == ASSUME ClaimsAssumption, Init PROVE ClaimsInv
<1>1. TypeOK
  BY DEF ClaimsAssumption, Init, TypeOK, Refs, Generations, NoRef, Claimants
<1>2. NoFutureArc /\ HasCandidate /\ ExclusiveArc
  BY DEF Init, NoFutureArc, HasCandidate, ExclusiveArc, Claimants, NoRef
<1> QED
  BY <1>1, <1>2 DEF ClaimsInv

\* Every step keeps the types.
LEMMA TypeStep == ASSUME ClaimsAssumption, TypeOK, HasCandidate, [Next]_vars PROVE TypeOK'
<1> USE DEF TypeOK
<1>m. \A a \in Agents : Mapping(a) \in Refs
  BY DEF Mapping, Refs
<1>1. ASSUME NEW a \in Agents, PoolStep(a) PROVE TypeOK'
  <2>1. CASE SetState(a)
    <3>1. inventory' \in [Agents -> BOOLEAN]
      BY <2>1, Zenon DEF SetState
    <3> QED
      BY <2>1, <3>1 DEF SetState
  <2>2. CASE Connection(a)
    <3>1. online' \in [Agents -> BOOLEAN]
      BY <2>2, Zenon DEF Connection
    <3> QED
      BY <2>2, <3>1 DEF Connection
  <2>3. CASE Replace(a)
    <3>1. gen' \in [Agents -> Generations]
      BY <2>3 DEF Replace, Generations, ClaimsAssumption
    <3>2. inventory' \in [Agents -> BOOLEAN] /\ online' \in [Agents -> BOOLEAN]
      BY <2>3, Zenon DEF Replace
    <3> QED
      BY <2>3, <3>1, <3>2 DEF Replace
  <2> QED
    BY <1>1, <2>1, <2>2, <2>3 DEF PoolStep
<1>2. ASSUME NEW c \in Claimants, ClaimStep(c) PROVE TypeOK'
  <2>1. CASE Look(c)
    BY <2>1, <1>m DEF Look, poolVars, Refs
  <2>2. CASE Upgrade(c)
    BY <2>2 DEF Upgrade, poolVars
  <2>3. CASE Verify(c)
    BY <2>3 DEF Verify, poolVars
  <2>4. CASE Drop(c)
    BY <2>4 DEF Drop, poolVars
  <2>5. CASE Exhausted(c)
    BY <2>5 DEF Exhausted, poolVars
  <2> QED
    BY <1>2, <2>1, <2>2, <2>3, <2>4, <2>5 DEF ClaimStep
<1>3. ASSUME NEW p \in Applies, ApplyStep(p) PROVE TypeOK'
  <2>1. CASE ListAgents(p)
    <3> DEFINE maps == {Mapping(a) : a \in {b \in Agents : CanEnvClaim(b)} \cup Removed[p]}
    <3>1. maps \in SUBSET Refs
      BY <1>m DEF ClaimsAssumption
    <3>2. list' = [list EXCEPT ![p] = maps]
      BY <2>1 DEF ListAgents
    <3>3. phase' \in [Applies -> {"idle", "ids", "labels", "failed", "paired", "released"}]
      BY <2>1 DEF ListAgents
    <3> HIDE DEF maps
    <3> QED
      BY <2>1, <3>1, <3>2, <3>3 DEF ListAgents, poolVars
  <2>2. CASE StartLabels(p)
    BY <2>2 DEF StartLabels, poolVars
  <2>3. CASE Collect(p)
    BY <2>3 DEF Collect, poolVars
  <2>4. CASE EndDocument(p)
    BY <2>4 DEF EndDocument, poolVars
  <2> QED
    BY <1>3, <2>1, <2>2, <2>3, <2>4 DEF ApplyStep
<1>4. ASSUME NEW n \in Nodes, StartById(n) \/ StartByLabel(n) \/ Unclaim(n) PROVE TypeOK'
  <2> n \in Claimants /\ ApplyOf[n] \in Applies
    BY DEF Claimants, ClaimsAssumption
  <2>1. CASE StartById(n)
    BY <2>1 DEF StartById, poolVars
  <2>2. CASE StartByLabel(n)
    BY <2>2 DEF StartByLabel, poolVars
  <2>3. CASE Unclaim(n)
    BY <2>3 DEF Unclaim, poolVars
  <2> QED
    BY <1>4, <2>1, <2>2, <2>3
<1>5. ASSUME NEW x \in Executors, FindComputeAgent(x) \/ EndExecution(x) PROVE TypeOK'
  <2> x \in Claimants
    BY DEF Claimants
  <2>1. CASE FindComputeAgent(x)
    BY <2>1, <1>m DEF FindComputeAgent, poolVars
  <2>2. CASE EndExecution(x)
    BY <2>2 DEF EndExecution, poolVars
  <2> QED
    BY <1>5, <2>1, <2>2
<1>6. CASE UNCHANGED vars
  BY <1>6 DEF vars
<1> QED
  BY <1>1, <1>2, <1>3, <1>4, <1>5, <1>6 DEF Next, NodeStep, ExecutorStep, Claimants

\* Generations only grow, so no step makes an Arc of the future.
LEMMA ArcStep ==
    ASSUME ClaimsAssumption, TypeOK, TypeOK', NoFutureArc, HasCandidate, [Next]_vars
    PROVE  NoFutureArc' /\ HasCandidate'
<1> USE DEF TypeOK
<1>m. \A a \in Agents : Mapping(a) \in Refs /\ Mapping(a)[1] = a /\ Mapping(a)[2] = gen[a]
  BY DEF Mapping, Refs
<1>g. \A a \in Agents : gen[a] \in Nat
  BY DEF Generations, ClaimsAssumption
<1>n. NoRef \notin Refs
  BY DEF NoRef, Refs, ClaimsAssumption
<1>r. \A m \in Refs : m[1] \in Agents /\ m[2] \in Nat
  BY DEF Refs, Generations, ClaimsAssumption
<1> USE DEF NoFutureArc, HasCandidate
<1>1. ASSUME NEW a \in Agents, PoolStep(a) PROVE NoFutureArc' /\ HasCandidate'
  <2>1. CASE SetState(a) \/ Connection(a)
    BY <2>1 DEF SetState, Connection
  <2>2. CASE Replace(a)
    <3>1. \A b \in Agents : gen[b] <= gen'[b]
      BY <2>2, <1>g DEF Replace
    <3>2. \A b \in Agents : gen'[b] \in Nat
      BY DEF Generations, ClaimsAssumption
    <3>3. \A m \in Refs : m[2] <= gen[m[1]] => m[2] <= gen'[m[1]]
      BY <1>g, <1>r, <3>1, <3>2
    <3>4. UNCHANGED <<list, todo, cand, pc>>
      BY <2>2 DEF Replace
    <3> QED
      BY <3>3, <3>4
  <2> QED
    BY <1>1, <2>1, <2>2 DEF PoolStep
<1>2. ASSUME NEW c \in Claimants, ClaimStep(c) PROVE NoFutureArc' /\ HasCandidate'
  <2>1. CASE Look(c)
    <3>1. PICK m \in todo[c] :
            /\ todo' = [todo EXCEPT ![c] = @ \ {m}]
            /\ \/ UNCHANGED <<pc, cand>>
               \/ /\ pc' = [pc EXCEPT ![c] = "upgrade"]
                  /\ cand' = [cand EXCEPT ![c] = IF c \in Nodes THEN m ELSE Mapping(m[1])]
      BY <2>1 DEF Look
    <3>2. UNCHANGED <<gen, list>>
      BY <2>1 DEF Look, poolVars
    <3>3. m \in Refs /\ m[2] <= gen[m[1]]
      OBVIOUS
    <3>4. LET r == IF c \in Nodes THEN m ELSE Mapping(m[1])
          IN r \in Refs /\ r[2] <= gen[r[1]]
      BY <3>3, <1>m, <1>g, <1>r
    <3>5. HasCandidate'
      BY <3>1, <3>4
    <3>6. \A d \in Claimants : cand'[d] # NoRef => cand'[d][2] <= gen'[cand'[d][1]]
      BY <3>1, <3>2, <3>4
    <3> QED
      BY <3>1, <3>2, <3>5, <3>6
  <2>2. CASE Upgrade(c)
    BY <2>2 DEF Upgrade, poolVars
  <2>3. CASE Verify(c)
    BY <2>3 DEF Verify, poolVars
  <2>4. CASE Drop(c)
    BY <2>4 DEF Drop, poolVars
  <2>5. CASE Exhausted(c)
    BY <2>5 DEF Exhausted, poolVars
  <2> QED
    BY <1>2, <2>1, <2>2, <2>3, <2>4, <2>5 DEF ClaimStep
<1>3. ASSUME NEW p \in Applies, ApplyStep(p) PROVE NoFutureArc' /\ HasCandidate'
  <2>1. CASE ListAgents(p)
    <3>1. \A m \in list'[p] : m[2] <= gen[m[1]]
      BY <2>1, <1>m, <1>g DEF ListAgents, ClaimsAssumption
    <3>2. \A q \in Applies : q # p => list'[q] = list[q]
      BY <2>1 DEF ListAgents
    <3>3. UNCHANGED <<gen, pc, todo, cand>>
      BY <2>1 DEF ListAgents, poolVars
    <3> QED
      BY <3>1, <3>2, <3>3
  <2>2. CASE StartLabels(p) \/ Collect(p) \/ EndDocument(p)
    BY <2>2 DEF StartLabels, Collect, EndDocument, poolVars
  <2> QED
    BY <1>3, <2>1, <2>2 DEF ApplyStep
<1>4. ASSUME NEW n \in Nodes, StartById(n) \/ StartByLabel(n) \/ Unclaim(n)
      PROVE  NoFutureArc' /\ HasCandidate'
  <2> n \in Claimants /\ ApplyOf[n] \in Applies
    BY DEF Claimants, ClaimsAssumption
  <2>1. CASE StartById(n)
    BY <2>1 DEF StartById, poolVars
  <2>2. CASE StartByLabel(n)
    BY <2>2 DEF StartByLabel, poolVars
  <2>3. CASE Unclaim(n)
    BY <2>3 DEF Unclaim, poolVars
  <2> QED
    BY <1>4, <2>1, <2>2, <2>3
<1>5. ASSUME NEW x \in Executors, FindComputeAgent(x) \/ EndExecution(x)
      PROVE  NoFutureArc' /\ HasCandidate'
  <2> x \in Claimants
    BY DEF Claimants
  <2>1. CASE FindComputeAgent(x)
    <3>1. todo' = [todo EXCEPT ![x] = {Mapping(a) : a \in Agents}]
      BY <2>1 DEF FindComputeAgent
    <3>2. \A m \in todo'[x] : m[2] <= gen[m[1]]
      BY <3>1, <1>m, <1>g
    <3> QED
      BY <2>1, <3>1, <3>2 DEF FindComputeAgent, poolVars
  <2>2. CASE EndExecution(x)
    BY <2>2 DEF EndExecution, poolVars
  <2> QED
    BY <1>5, <2>1, <2>2
<1>6. CASE UNCHANGED vars
  BY <1>6 DEF vars
<1> QED
  BY <1>1, <1>2, <1>3, <1>4, <1>5, <1>6 DEF Next, NodeStep, ExecutorStep, Claimants

\* A claim is taken only by the sole holder, and an Arc an agent gave up is
\* never owned again.
LEMMA ExclusiveStep ==
    ASSUME ClaimsAssumption, ClaimsInv, TypeOK', [Next]_vars
    PROVE  ExclusiveArc'
<1> USE DEF ClaimsInv, TypeOK
<1>1. ASSUME NEW a \in Agents, PoolStep(a) PROVE ExclusiveArc'
  <2>1. CASE SetState(a) \/ Connection(a)
    BY <2>1 DEF SetState, Connection, ExclusiveArc
  <2>2. CASE Replace(a)
    <3>1. \A b \in Agents : gen[b] \in Nat
      BY DEF Generations, ClaimsAssumption
    <3>2. \A r \in Refs : r[2] <= gen[r[1]] /\ gen'[r[1]] = r[2] => gen[r[1]] = r[2]
      BY <2>2, <3>1 DEF Replace, Refs, Generations, ClaimsAssumption
    <3>3. \A c \in Claimants : pc[c] = "claimed" =>
            cand[c] \in Refs /\ cand[c][2] <= gen[cand[c][1]]
      <4>1. NoRef \notin Refs
        BY DEF NoRef, Refs, ClaimsAssumption
      <4> QED
        BY <4>1 DEF HasCandidate, NoFutureArc
    <3> QED
      BY <2>2, <3>2, <3>3 DEF Replace, ExclusiveArc
  <2> QED
    BY <1>1, <2>1, <2>2 DEF PoolStep
<1>2. ASSUME NEW c \in Claimants, Verify(c), pc'[c] = "claimed" PROVE ExclusiveArc'
  <2>1. StrongCount(Kind[c], cand[c]) = 2 /\ pc[c] = "verify"
    BY <1>2 DEF Verify
  <2>2. cand[c] \in Refs /\ c \in Holders(Kind[c], cand[c])
    BY <2>1 DEF HasCandidate, Holders, Holding
  <2>3. ASSUME NEW d \in Claimants, d # c, Kind[d] = Kind[c], pc[d] = "claimed",
               cand[d] = cand[c], gen[cand[c][1]] = cand[c][2]
        PROVE  FALSE
    <3>1. d \in Holders(Kind[c], cand[c])
      BY <2>3 DEF Holders, Holding
    <3> QED
      BY <2>1, <2>2, <2>3, <3>1, SoleHolder
  <2> QED
    BY <1>2, <2>3 DEF Verify, ExclusiveArc, poolVars
<1>3. ASSUME NEW c \in Claimants,
             ClaimStep(c) \/ StartById(c) \/ StartByLabel(c) \/ Unclaim(c)
                \/ FindComputeAgent(c) \/ EndExecution(c),
             pc'[c] # "claimed"
      PROVE  ExclusiveArc'
  <2>1. \A d \in Claimants : d # c => pc'[d] = pc[d] /\ cand'[d] = cand[d]
    BY <1>3 DEF ClaimStep, Look, Upgrade, Verify, Drop, Exhausted, StartById, StartByLabel,
                Unclaim, FindComputeAgent, EndExecution
  <2>2. gen' = gen
    BY <1>3 DEF ClaimStep, Look, Upgrade, Verify, Drop, Exhausted, StartById, StartByLabel,
                Unclaim, FindComputeAgent, EndExecution, poolVars
  <2> QED
    BY <1>3, <2>1, <2>2 DEF ExclusiveArc
<1>4. ASSUME NEW c \in Claimants,
             ClaimStep(c) \/ StartById(c) \/ StartByLabel(c) \/ Unclaim(c)
                \/ FindComputeAgent(c) \/ EndExecution(c)
      PROVE  pc'[c] = "claimed" => Verify(c)
  BY <1>4 DEF ClaimStep, Look, Upgrade, Drop, Exhausted, StartById, StartByLabel,
              Unclaim, FindComputeAgent, EndExecution
<1>5. ASSUME NEW p \in Applies, ApplyStep(p) PROVE ExclusiveArc'
  BY <1>5 DEF ApplyStep, ListAgents, StartLabels, Collect, EndDocument, poolVars, ExclusiveArc
<1>6. CASE UNCHANGED vars
  BY <1>6 DEF vars, ExclusiveArc
<1> QED
  BY <1>1, <1>2, <1>3, <1>4, <1>5, <1>6 DEF Next, NodeStep, ExecutorStep, Claimants

\* Every variable keeps its type.
THEOREM TypeCorrect == ASSUME ClaimsAssumption PROVE Spec => []TypeOK
<1>1. Init => ClaimsInv
  BY ClaimsInit
<1>2. ClaimsInv /\ [Next]_vars => ClaimsInv'
  BY TypeStep, ArcStep, ExclusiveStep DEF ClaimsInv
<1>3. ClaimsInv => TypeOK
  BY DEF ClaimsInv
<1> QED
  BY <1>1, <1>2, <1>3, PTL DEF Spec

\* set.rs:93-97: no two nodes, and no two executions, hold the claim of one
\* agent while the pool's entry owns that claim.
THEOREM ArcsAreExclusive == ASSUME ClaimsAssumption PROVE Spec => []ExclusiveArc
<1>1. Init => ClaimsInv
  BY ClaimsInit
<1>2. ClaimsInv /\ [Next]_vars => ClaimsInv'
  BY TypeStep, ArcStep, ExclusiveStep DEF ClaimsInv
<1>3. ClaimsInv => ExclusiveArc
  BY DEF ClaimsInv
<1> QED
  BY <1>1, <1>2, <1>3, PTL DEF Spec

\* While no agent is taken over there is one generation of Arcs.
NoTakeover == gen' = gen
OneGeneration == \A a \in Agents : gen[a] = 0

\* Then an Arc somebody has looked at is known by its agent.
LEMMA ArcOfItsAgent ==
    ASSUME ClaimsAssumption, ClaimsInv, OneGeneration,
           NEW c \in Claimants, cand[c] \in Refs
    PROVE  /\ cand[c] = <<cand[c][1], 0>> /\ cand[c][1] \in Agents
           /\ cand[c][2] = 0 /\ gen[cand[c][1]] = 0
<1>1. PICK a \in Agents, g \in Generations : cand[c] = <<a, g>>
  BY DEF Refs
<1>2. cand[c] # NoRef
  BY <1>1 DEF NoRef, ClaimsAssumption
<1>3. g \in Nat /\ g <= gen[a] /\ gen[a] = 0
  BY <1>1, <1>2 DEF ClaimsInv, NoFutureArc, OneGeneration, Generations, ClaimsAssumption
<1> QED
  BY <1>1, <1>3

LEMMA OwnersDiffer == ASSUME ClaimsAssumption, ClaimsInv, OneGeneration PROVE ExclusiveAgent
<1> SUFFICES ASSUME NEW c \in Claimants, NEW d \in Claimants,
                    c # d, Kind[c] = Kind[d], pc[c] = "claimed", pc[d] = "claimed",
                    cand[c][1] = cand[d][1]
             PROVE  FALSE
  BY DEF ExclusiveAgent
<1>1. cand[c] \in Refs /\ cand[d] \in Refs
  BY DEF ClaimsInv, HasCandidate
<1>2. cand[c] = cand[d] /\ gen[cand[c][1]] = cand[c][2]
  BY <1>1, ArcOfItsAgent
<1> QED
  BY <1>2 DEF ClaimsInv, ExclusiveArc

\* While no agent is taken over every claim is on the Arc the pool's entry owns.
\* mod.rs:261-263: two nodes, of one apply or of two, never claim one agent.
THEOREM AgentsAreExclusive ==
    ASSUME ClaimsAssumption
    PROVE  Spec /\ [][NoTakeover]_vars => []ExclusiveAgent
<1>1. Init => ClaimsInv /\ OneGeneration
  BY ClaimsInit DEF Init, OneGeneration
<1>2. ClaimsInv /\ OneGeneration /\ [Next]_vars /\ [NoTakeover]_vars
         => (ClaimsInv /\ OneGeneration)'
  BY TypeStep, ArcStep, ExclusiveStep DEF ClaimsInv, OneGeneration, NoTakeover, vars
<1>3. ClaimsInv /\ OneGeneration => ExclusiveAgent
  BY OwnersDiffer
<1> QED
  BY <1>1, <1>2, <1>3, PTL DEF Spec

\* The initial state of the claims is that of an empty registry.
LEMMA RegistryInit == ASSUME ClaimsAssumption, Init PROVE Registry!Init
  BY DEF Init, Registry!Init, Owned, Claimants, ClaimsAssumption

\* Every step of the claims is a step of the registry or leaves it alone.
LEMMA RegistryStep ==
    ASSUME ClaimsAssumption, OneGeneration, ClaimsInv, ClaimsInv', [Next]_vars
    PROVE  [Registry!Next]_Owned
<1> DEFINE owns == [c \in Claimants |-> IF pc[c] = "claimed" THEN cand[c][1] ELSE NoAgent]
<1> USE DEF Owned
<1>e. owns' = [c \in Claimants |-> IF pc'[c] = "claimed" THEN cand'[c][1] ELSE NoAgent]
  OBVIOUS
<1>1. ASSUME NEW c \in Claimants, Verify(c), pc'[c] = "claimed" PROVE Registry!Next
  <2>1. pc[c] = "verify" /\ cand[c] \in Refs /\ cand' = cand
    BY <1>1 DEF Verify, ClaimsInv, HasCandidate
  <2>2. pc' = [pc EXCEPT ![c] = "claimed"]
    BY <1>1 DEF Verify, ClaimsInv, TypeOK
  <2>3. PICK a \in Agents : a = cand[c][1] /\ gen[a] = 0 /\ cand[c][2] = 0
    BY <2>1, ArcOfItsAgent
  <2>4. ASSUME NEW d \in Claimants, Kind[d] = Kind[c], owns[d] = a PROVE FALSE
    <3>1. pc[d] = "claimed" /\ cand[d] \in Refs
      BY <2>3, <2>4 DEF ClaimsInv, HasCandidate, ClaimsAssumption
    <3>2. cand[d] = cand[c]
      BY <2>1, <2>3, <2>4, <3>1, ArcOfItsAgent
    <3>3. c \in Holders(Kind[c], cand[c]) /\ d \in Holders(Kind[c], cand[c])
      BY <2>1, <2>4, <3>1, <3>2 DEF Holders, Holding
    <3>4. StrongCount(Kind[c], cand[c]) = 2
      BY <1>1 DEF Verify, ClaimsInv, TypeOK
    <3> QED
      BY <2>1, <2>3, <3>1, <3>3, <3>4, SoleHolder DEF ClaimsInv
  <2>5. owns' = [owns EXCEPT ![c] = a]
    BY <2>1, <2>2, <2>3, <1>e DEF ClaimsInv, TypeOK
  <2>6. owns[c] = NoAgent
    BY <2>1
  <2>7. Registry!Claim(c, a)
    BY <2>4, <2>5, <2>6 DEF Registry!Claim
  <2> QED
    BY <2>3, <2>7 DEF Registry!Next
<1>2. ASSUME NEW c \in Claimants, pc[c] = "claimed", pc'[c] # "claimed",
             Unclaim(c) \/ EndExecution(c)
      PROVE  Registry!Next
  <2>1. cand[c][1] \in Agents
    BY <1>2, ArcOfItsAgent DEF ClaimsInv, HasCandidate
  <2>2. \A d \in Claimants : d # c => pc'[d] = pc[d] /\ cand'[d] = cand[d]
    BY <1>2 DEF Unclaim, EndExecution, ClaimsInv, TypeOK
  <2>3. owns' = [owns EXCEPT ![c] = NoAgent] /\ owns[c] # NoAgent
    BY <1>2, <1>e, <2>1, <2>2 DEF ClaimsAssumption
  <2>4. Registry!Release(c)
    BY <2>3 DEF Registry!Release
  <2> QED
    BY <2>4 DEF Registry!Next
<1>3. ASSUME NEW c \in Claimants, pc[c] # "claimed", pc'[c] # "claimed",
             \A d \in Claimants : d # c => pc'[d] = pc[d] /\ cand'[d] = cand[d]
      PROVE  UNCHANGED owns
  BY <1>3
<1>4. ASSUME NEW c \in Claimants,
             ClaimStep(c) \/ StartById(c) \/ StartByLabel(c) \/ Unclaim(c)
                \/ FindComputeAgent(c) \/ EndExecution(c)
      PROVE  Registry!Next \/ UNCHANGED owns
  <2>1. \A d \in Claimants : d # c => pc'[d] = pc[d] /\ cand'[d] = cand[d]
    BY <1>4 DEF ClaimStep, Look, Upgrade, Verify, Drop, Exhausted, StartById, StartByLabel,
                Unclaim, FindComputeAgent, EndExecution, ClaimsInv, TypeOK
  <2>2. pc'[c] = "claimed" => Verify(c)
    BY <1>4 DEF ClaimStep, Look, Upgrade, Drop, Exhausted, StartById, StartByLabel,
                Unclaim, FindComputeAgent, EndExecution, ClaimsInv, TypeOK
  <2>3. pc[c] = "claimed" => pc'[c] # "claimed" /\ (Unclaim(c) \/ EndExecution(c))
    BY <1>4 DEF ClaimStep, Look, Upgrade, Verify, Drop, Exhausted, StartById, StartByLabel,
                Unclaim, FindComputeAgent, EndExecution, ClaimsInv, TypeOK
  <2> HIDE DEF owns
  <2> QED
    BY <1>1, <1>2, <1>3, <2>1, <2>2, <2>3
<1>5. ASSUME UNCHANGED <<pc, cand>> PROVE UNCHANGED owns
  BY <1>5
<1>6. ASSUME NEW a \in Agents, PoolStep(a) PROVE UNCHANGED <<pc, cand>>
  BY <1>6 DEF PoolStep, SetState, Connection, Replace
<1>7. ASSUME NEW p \in Applies, ApplyStep(p) PROVE UNCHANGED <<pc, cand>>
  BY <1>7 DEF ApplyStep, ListAgents, StartLabels, Collect, EndDocument
<1>8. ASSUME UNCHANGED vars PROVE UNCHANGED owns
  BY <1>5, <1>8 DEF vars
<1> HIDE DEF owns
<1>9. Registry!Next \/ UNCHANGED owns
  <2>1. CASE Next
    BY <1>4, <1>5, <1>6, <1>7, <2>1 DEF Next, NodeStep, ExecutorStep, Claimants
  <2> QED
    BY <1>8, <2>1
<1> QED
  BY <1>9 DEF owns

\* set.rs: the reference counts implement exclusive ownership of agents, for
\* any number of concurrent applies, nodes and executions, while no agent is
\* taken over.
THEOREM ClaimsImplementRegistry ==
    ASSUME ClaimsAssumption
    PROVE  Spec /\ [][NoTakeover]_vars => ClaimsAreExclusive
<1>1. Init => ClaimsInv /\ OneGeneration /\ Registry!Init
  BY ClaimsInit, RegistryInit DEF Init, OneGeneration
<1>2. ClaimsInv /\ OneGeneration /\ [Next]_vars /\ [NoTakeover]_vars
         => (ClaimsInv /\ OneGeneration)'
  BY TypeStep, ArcStep, ExclusiveStep DEF ClaimsInv, OneGeneration, NoTakeover, vars
<1>3. ClaimsInv /\ ClaimsInv' /\ OneGeneration /\ [Next]_vars => [Registry!Next]_Owned
  BY RegistryStep
<1> QED
  BY <1>1, <1>2, <1>3, PTL DEF Spec, ClaimsAreExclusive, Registry!Spec

-----------------------------------------------------------------------------

\* The applies of the run claims: nobody computes and nobody is taken over.
DelegatingInv == Delegating => ClaimsInv /\ OneGeneration

LEMMA DelegatingHolds ==
    ASSUME ClaimsAssumption
    PROVE  MCSpec => []DelegatingInv
<1>1. MCInit => DelegatingInv
  BY ClaimsInit DEF MCInit, DelegatingInv, Delegating, Computing, Init, OneGeneration
<1>2. DelegatingInv /\ [MCNext]_<<vars, scenario>> => DelegatingInv'
  <2> SUFFICES ASSUME DelegatingInv, [MCNext]_<<vars, scenario>>, Delegating'
               PROVE  ClaimsInv' /\ OneGeneration'
    BY DEF DelegatingInv
  <2>1. Delegating /\ [Next]_vars /\ gen' = gen
    BY DEF MCNext, Delegating, Computing, OnlyApplies, vars
  <2> QED
    BY <2>1, TypeStep, ArcStep, ExclusiveStep DEF DelegatingInv, ClaimsInv, OneGeneration
<1> QED
  BY <1>1, <1>2, PTL DEF MCSpec

\* mod.rs:261-263, of the applies of the run.
THEOREM AgentsTakeTurns == ASSUME ClaimsAssumption PROVE MCSpec => []AgentsInTurn
<1>1. DelegatingInv => AgentsInTurn
  BY OwnersDiffer DEF DelegatingInv, AgentsInTurn
<1> QED
  BY <1>1, DelegatingHolds, PTL

\* set.rs: the reference counts of the run's applies implement the registry.
THEOREM RegistryTakesTurns == ASSUME ClaimsAssumption PROVE MCSpec => RegistryInTurn
<1>1. MCInit => (Delegating => Registry!Init)
  BY RegistryInit DEF MCInit, Delegating, Computing
<1>2. DelegatingInv /\ DelegatingInv' /\ [MCNext]_<<vars, scenario>>
         => [Delegating => Registry!Next \/ UNCHANGED Owned]_vars
  <2> SUFFICES ASSUME DelegatingInv, DelegatingInv', MCNext, Delegating
               PROVE  Registry!Next \/ UNCHANGED Owned
    BY DEF vars
  <2>1. [Next]_vars /\ Delegating'
    BY DEF MCNext, Delegating, Computing
  <2> QED
    BY <2>1, RegistryStep DEF DelegatingInv
<1> QED
  BY <1>1, <1>2, DelegatingHolds, PTL DEF MCSpec, RegistryInTurn
=============================================================================
