------------------------- MODULE EnvLifecycleProofs -------------------------
(***************************************************************************)
(* Environments, their persisted copy and the pool of agents, for any      *)
(* agents, environments and documents.                                     *)
(***************************************************************************)
EXTENDS MCEnvScenarios, TLAPS

(***************************************************************************)
(* Partial functions.                                                      *)
(***************************************************************************)

LEMMA PartialMeans ==
    ASSUME NEW S, NEW T, NEW f
    PROVE  f \in Partial(S, T) <=> DOMAIN f \subseteq S /\ f \in [DOMAIN f -> T]
  BY DEF Partial

LEMMA EmptyIsPartial ==
    ASSUME NEW S, NEW T
    PROVE  EmptyFun \in Partial(S, T) /\ DOMAIN EmptyFun = {}
  <1>1. EmptyFun \in [{} -> T] /\ DOMAIN EmptyFun = {}
    BY DEF EmptyFun
  <1> QED
    BY <1>1, PartialMeans

LEMMA RestrictIsPartial ==
    ASSUME NEW S, NEW T, NEW f \in Partial(S, T), NEW V \in SUBSET DOMAIN f
    PROVE  /\ Restrict(f, V) \in Partial(S, T)
           /\ DOMAIN Restrict(f, V) = V
           /\ \A x \in V : Restrict(f, V)[x] = f[x]
  <1> DEFINE g == Restrict(f, V)
  <1>1. DOMAIN g = V /\ \A x \in V : g[x] = f[x]
    BY DEF Restrict
  <1>2. g = [x \in V |-> g[x]]
    BY DEF Restrict
  <1>3. DOMAIN f \subseteq S /\ f \in [DOMAIN f -> T]
    BY PartialMeans
  <1> HIDE DEF g
  <1>4. g \in [DOMAIN g -> T] /\ DOMAIN g \subseteq S
    BY <1>1, <1>2, <1>3
  <1>5. g \in Partial(S, T)
    BY <1>4, PartialMeans
  <1> QED
    BY <1>1, <1>5 DEF g

\* The env map with an environment put into it.
Put(m, e, r) == [x \in DOMAIN m \cup {e} |-> IF x = e THEN r ELSE m[x]]

LEMMA PutIsPartial ==
    ASSUME NEW S, NEW T, NEW f \in Partial(S, T), NEW e \in S, NEW r \in T
    PROVE  /\ Put(f, e, r) \in Partial(S, T) /\ DOMAIN Put(f, e, r) = DOMAIN f \cup {e}
           /\ Put(f, e, r)[e] = r
           /\ \A x \in DOMAIN f : x # e => Put(f, e, r)[x] = f[x]
  <1> DEFINE g == Put(f, e, r)
  <1>1. /\ DOMAIN g = DOMAIN f \cup {e} /\ g[e] = r
        /\ \A x \in DOMAIN f : x # e => g[x] = f[x]
        /\ g = [x \in DOMAIN g |-> g[x]]
    BY DEF Put
  <1>2. DOMAIN f \subseteq S /\ f \in [DOMAIN f -> T]
    BY PartialMeans
  <1> HIDE DEF g
  <1>3. g \in [DOMAIN g -> T]
    BY <1>1, <1>2
  <1>4. g \in Partial(S, T)
    BY <1>1, <1>2, <1>3, PartialMeans
  <1> QED
    BY <1>1, <1>4 DEF g

LEMMA RangeMeans ==
    ASSUME NEW f, NEW y
    PROVE  y \in Range(f) <=> \E x \in DOMAIN f : f[x] = y
  BY DEF Range

\* BiMap::extend.
LEMMA Extended ==
    ASSUME NEW S, NEW T, NEW m \in Partial(S, T), NEW n \in Partial(S, T)
    PROVE  /\ BiExtend(m, n) \in Partial(S, T)
           /\ DOMAIN n \subseteq DOMAIN BiExtend(m, n)
           /\ DOMAIN BiExtend(m, n) \subseteq DOMAIN m \cup DOMAIN n
           /\ \A k \in DOMAIN n : BiExtend(m, n)[k] = n[k]
           /\ \A k \in DOMAIN BiExtend(m, n) \ DOMAIN n : BiExtend(m, n)[k] = m[k] /\ m[k] \notin Range(n)
           /\ \A k \in DOMAIN m \ DOMAIN n : m[k] \notin Range(n) => k \in DOMAIN BiExtend(m, n)
  <1> DEFINE g == BiExtend(m, n)
  <1>1. /\ g = [k \in DOMAIN g |-> g[k]]
        /\ DOMAIN n \subseteq DOMAIN g /\ DOMAIN g \subseteq DOMAIN m \cup DOMAIN n
        /\ \A k \in DOMAIN n : g[k] = n[k]
        /\ \A k \in DOMAIN g \ DOMAIN n : g[k] = m[k] /\ m[k] \notin Range(n)
        /\ \A k \in DOMAIN m \ DOMAIN n : m[k] \notin Range(n) => k \in DOMAIN g
    BY DEF BiExtend
  <1>2. DOMAIN m \subseteq S /\ m \in [DOMAIN m -> T] /\ DOMAIN n \subseteq S /\ n \in [DOMAIN n -> T]
    BY PartialMeans
  <1> HIDE DEF g
  <1>3. \A k \in DOMAIN g : g[k] \in T
    BY <1>1, <1>2
  <1>4. DOMAIN g \subseteq S /\ g \in [DOMAIN g -> T]
    BY <1>1, <1>2, <1>3
  <1>5. g \in Partial(S, T)
    BY <1>4, PartialMeans
  <1> QED
    BY <1>1, <1>5 DEF g

(***************************************************************************)
(* Types.                                                                  *)
(***************************************************************************)

LEMMA TaskShapes ==
    ASSUME TypeOK, NEW t \in Tasks
    PROVE  /\ task[t].phase \in {"idle", "save", "insert", "emit", "delete", "answer", "write"}
           /\ task[t].phase \in {"save", "insert"} =>
                task[t] \in [phase : {"save", "insert"}, op : {"apply"}, env : EnvIds,
                             made : Environments, spare : SUBSET Agents]
           /\ task[t].phase = "emit" \/ (task[t].phase = "write" /\ task[t].op = "apply") =>
                task[t] \in [phase : {"write", "emit"}, op : {"apply"}, env : EnvIds,
                             made : Environments, pending : Pendings]
           /\ task[t].phase = "write" /\ task[t].op # "apply" =>
                task[t] \in [phase : {"answer", "write"},
                             op : {"emitted", "cleanup", "rewrite", "config"}, pending : Pendings]
           /\ task[t].phase = "answer" =>
                task[t] \in [phase : {"answer", "write"}, op : {"config"}, pending : Pendings]
           /\ task[t].phase = "write" => task[t].pending \in Pendings
           /\ task[t].phase = "delete" =>
                task[t] \in [phase : {"delete"}, env : EnvIds, peers : Partial(Keys, Agents)]
  <1> DEFINE r == task[t]
  <1>1. r \in TaskTypes
    BY DEF TypeOK
  <1> HIDE DEF r
  <1>2. /\ r.phase \in {"idle", "save", "insert", "emit", "delete", "answer", "write"}
        /\ r.phase \in {"save", "insert"} =>
                r \in [phase : {"save", "insert"}, op : {"apply"}, env : EnvIds,
                             made : Environments, spare : SUBSET Agents]
        /\ r.phase = "emit" \/ (r.phase = "write" /\ r.op = "apply") =>
                r \in [phase : {"write", "emit"}, op : {"apply"}, env : EnvIds,
                             made : Environments, pending : Pendings]
        /\ r.phase = "write" /\ r.op # "apply" =>
                r \in [phase : {"answer", "write"},
                             op : {"emitted", "cleanup", "rewrite", "config"}, pending : Pendings]
        /\ r.phase = "answer" =>
                r \in [phase : {"answer", "write"}, op : {"config"}, pending : Pendings]
        /\ r.phase = "write" => r.pending \in Pendings
        /\ r.phase = "delete" =>
                r \in [phase : {"delete"}, env : EnvIds, peers : Partial(Keys, Agents)]
    BY <1>1 DEF TaskTypes, Idle
  <1> QED
    BY <1>2 DEF r

\* What a task becomes.
LEMMA Becomes ==
    ASSUME TypeOK, NEW t \in Tasks, NEW r \in TaskTypes, Become(t, r)
    PROVE  /\ task' \in [Tasks -> TaskTypes] /\ task'[t] = r
           /\ \A u \in Tasks : u # t => task'[u] = task[u]
  BY DEF TypeOK, Become

\* A state of an agent is in inventory or that of a node.
LEMMA StateShape ==
    ASSUME NEW s \in States
    PROVE  \/ s = Inventory /\ ~IsNode(s)
           \/ /\ IsNode(s) /\ s.env \in EnvIds /\ s.key \in Keys /\ s.height \in Heights
              /\ s.height[1] \in 0 .. MaxCounter /\ s.height[2] \in Requests
              /\ s = Node(s.env, s.key, s.height)
  BY LifecycleAssumption DEF States, Inventory, Node, IsNode, Heights

LEMMA NodeIsState ==
    ASSUME NEW e \in EnvIds, NEW k \in Keys, NEW h \in Heights
    PROVE  Node(e, k, h) \in States /\ IsNode(Node(e, k, h))
           /\ Node(e, k, h).env = e /\ Node(e, k, h).key = k
  BY LifecycleAssumption DEF States, Node, IsNode

LEMMA EnvShape ==
    ASSUME NEW r \in Environments
    PROVE  /\ r.peers \in Partial(Keys, Agents) /\ DOMAIN r.peers \subseteq Keys
           /\ r.peers \in [DOMAIN r.peers -> Agents]
           /\ r.heights \in [DOMAIN r.heights -> Requests] /\ DOMAIN r.peers \subseteq DOMAIN r.heights
           /\ Range(r.peers) \subseteq Agents
  BY PartialMeans DEF Environments, Range

\* The environment an apply makes.
LEMMA ApplyTypes ==
    ASSUME TypeOK, NEW t \in Tasks, NEW e \in EnvIds, NEW doc \in Documents, Apply(t, e, doc)
    PROVE  TypeOK'
  <1> DEFINE prev == IF e \in DOMAIN envs THEN envs[e].peers ELSE EmptyFun
             gone == {prev[k] : k \in DOMAIN prev \ DOMAIN doc}
             kept == Restrict(prev, DOMAIN prev \cap DOMAIN doc)
  <1>1. PICK pairs \in Injection(DOMAIN doc \ DOMAIN prev, Delegable(gone)) :
            Become(t, [phase |-> "save", op |-> "apply", env |-> e,
                       made |-> [peers |-> BiExtend(kept, pairs), heights |-> doc],
                       spare |-> gone \ Range(pairs)])
    BY DEF Apply
  <1>2. UNCHANGED <<envs, dbEnvs, pool, online>>
    BY DEF Apply
  <1>3. doc \in Partial(Keys, Requests) /\ DOMAIN doc \subseteq Keys
    BY LifecycleAssumption, PartialMeans
  <1>4. prev \in Partial(Keys, Agents)
    BY EmptyIsPartial, EnvShape, PartialMeans DEF TypeOK
  <1>5. gone \subseteq Agents
    BY <1>4, PartialMeans
  <1>6. kept \in Partial(Keys, Agents) /\ DOMAIN kept \subseteq DOMAIN doc
    <2> DEFINE V == DOMAIN prev \cap DOMAIN doc
    <2>1. V \in SUBSET DOMAIN prev /\ V \subseteq DOMAIN doc /\ kept = Restrict(prev, V)
      OBVIOUS
    <2> HIDE DEF prev, V, kept
    <2> QED
      BY <1>4, <2>1, RestrictIsPartial
  <1>7. pairs \in Partial(Keys, Agents) /\ DOMAIN pairs \subseteq DOMAIN doc
    <2>1. pairs \in [DOMAIN doc \ DOMAIN prev -> Delegable(gone)]
      BY DEF Injection
    <2>2. Delegable(gone) \subseteq Agents
      BY <1>5 DEF Delegable, TypeOK
    <2> HIDE DEF prev, gone
    <2>3. pairs \in [DOMAIN pairs -> Agents] /\ DOMAIN pairs \subseteq DOMAIN doc
      BY <2>1, <2>2
    <2> QED
      BY <1>3, <2>3, PartialMeans
  <1> HIDE DEF prev, gone, kept
  <1> DEFINE made == [peers |-> BiExtend(kept, pairs), heights |-> doc]
             r == [phase |-> "save", op |-> "apply", env |-> e, made |-> made,
                   spare |-> gone \ Range(pairs)]
  <1>8. made \in Environments
    BY <1>3, <1>6, <1>7, Extended DEF Environments
  <1> HIDE DEF made
  <1>9. r \in TaskTypes
    BY <1>5, <1>8 DEF TaskTypes
  <1>10. Become(t, r)
    BY <1>1 DEF made
  <1> HIDE DEF r
  <1>11. task' \in [Tasks -> TaskTypes]
    BY <1>9, <1>10, Becomes
  <1> QED
    BY <1>2, <1>11 DEF TypeOK

\* A step of a task that writes no agent and leaves the maps well-typed.
LEMMA TaskStepTypes ==
    ASSUME TypeOK, NEW t \in Tasks, NEW r \in TaskTypes, Become(t, r), UNCHANGED <<pool, online>>,
           envs' \in Partial(EnvIds, Environments), dbEnvs' \in Partial(EnvIds, Environments)
    PROVE  TypeOK'
  BY Becomes DEF TypeOK

\* A function of a set of agents is a pending write.
LEMMA PendingTypes ==
    ASSUME NEW U \in SUBSET Agents, NEW f, f = [a \in U |-> f[a]], \A a \in U : f[a] \in States
    PROVE  f \in Pendings /\ DOMAIN f = U
  <1>1. DOMAIN f = U /\ f \in [DOMAIN f -> States]
    OBVIOUS
  <1> QED
    BY <1>1, PartialMeans DEF Pendings

LEMMA ServeTypes ==
    ASSUME TypeOK, NEW t \in Tasks, ApplySave(t) \/ ApplyInsert(t) \/ ApplyFails(t) \/ CleanupDelete(t)
           \/ ConfigAnswer(t)
    PROVE  TypeOK'
  <1>1. CASE ApplySave(t)
    <2>1. task[t] \in [phase : {"save", "insert"}, op : {"apply"}, env : EnvIds,
                       made : Environments, spare : SUBSET Agents]
      BY <1>1, TaskShapes DEF ApplySave
    <2>2. [task[t] EXCEPT !.phase = "insert"] \in TaskTypes
      BY <2>1 DEF TaskTypes
    <2>3. dbEnvs' = Put(dbEnvs, task[t].env, task[t].made)
      BY <1>1 DEF ApplySave, Put
    <2>4. dbEnvs' \in Partial(EnvIds, Environments)
      BY <2>1, <2>3, PutIsPartial DEF TypeOK
    <2> QED
      BY <1>1, <2>2, <2>4, TaskStepTypes DEF ApplySave, TypeOK
  <1>2. CASE ApplyInsert(t)
    <2>1. task[t] \in [phase : {"save", "insert"}, op : {"apply"}, env : EnvIds,
                       made : Environments, spare : SUBSET Agents]
      BY <1>2, TaskShapes DEF ApplyInsert
    <2> DEFINE w == [a \in task[t].spare |-> Inventory]
    <2>2. w \in Pendings
      BY <2>1, PendingTypes DEF States
    <2>3. Become(t, [phase |-> "write", op |-> "apply", env |-> task[t].env,
                     made |-> task[t].made, pending |-> w])
      BY <1>2 DEF ApplyInsert
    <2> HIDE DEF w
    <2>4. [phase |-> "write", op |-> "apply", env |-> task[t].env, made |-> task[t].made,
           pending |-> w] \in TaskTypes
      BY <2>1, <2>2 DEF TaskTypes
    <2>5. envs' = Put(envs, task[t].env, task[t].made)
      BY <1>2 DEF ApplyInsert, Put
    <2>6. envs' \in Partial(EnvIds, Environments)
      BY <2>1, <2>5, PutIsPartial DEF TypeOK
    <2> QED
      BY <1>2, <2>3, <2>4, <2>6, TaskStepTypes DEF ApplyInsert, TypeOK
  <1>3. CASE ApplyFails(t)
    BY <1>3, TaskStepTypes DEF ApplyFails, TypeOK, TaskTypes
  <1>4. CASE CleanupDelete(t)
    <2>1. task[t].peers \in Partial(Keys, Agents)
      BY <1>4, TaskShapes DEF CleanupDelete
    <2> DEFINE w == [a \in Range(task[t].peers) |-> Inventory]
    <2>2. w \in Pendings
      BY <2>1, PendingTypes, PartialMeans DEF States, Range
    <2>3. Become(t, [phase |-> "write", op |-> "cleanup", pending |-> w])
      BY <1>4 DEF CleanupDelete
    <2> HIDE DEF w
    <2>4. [phase |-> "write", op |-> "cleanup", pending |-> w] \in TaskTypes
      BY <2>2 DEF TaskTypes
    <2>5. dbEnvs' \in Partial(EnvIds, Environments)
      BY <1>4, RestrictIsPartial DEF CleanupDelete, TypeOK
    <2> QED
      BY <1>4, <2>3, <2>4, <2>5, TaskStepTypes DEF CleanupDelete, TypeOK
  <1>5. CASE ConfigAnswer(t)
    <2>1. task[t] \in [phase : {"answer", "write"}, op : {"config"}, pending : Pendings]
      BY <1>5, TaskShapes DEF ConfigAnswer
    <2>2. [task[t] EXCEPT !.phase = "write"] \in TaskTypes /\ Idle \in TaskTypes
      BY <2>1 DEF TaskTypes
    <2> QED
      BY <1>5, <2>2, TaskStepTypes DEF ConfigAnswer, TypeOK
  <1> QED
    BY <1>1, <1>2, <1>3, <1>4, <1>5

LEMMA EmitTypes ==
    ASSUME TypeOK, NEW t \in Tasks, ApplyEmit(t)
    PROVE  TypeOK'
  <1> DEFINE e == task[t].env
             peers == task[t].made.peers
             heights == task[t].made.heights
             KeyOf(a) == CHOOSE k \in DOMAIN peers : peers[k] = a
             height(a) == ResolveHeight(e, pool[a], heights[KeyOf(a)])
             w == [a \in Range(peers) |-> Node(e, KeyOf(a), height(a))]
  <1>1. Become(t, [phase |-> "write", op |-> "emitted", pending |-> w])
    BY DEF ApplyEmit
  <1>2. task[t] \in [phase : {"write", "emit"}, op : {"apply"}, env : EnvIds,
                     made : Environments, pending : Pendings]
    BY TaskShapes DEF ApplyEmit
  <1>3. /\ peers \in [DOMAIN peers -> Agents] /\ DOMAIN peers \subseteq Keys
        /\ heights \in [DOMAIN heights -> Requests] /\ DOMAIN peers \subseteq DOMAIN heights
        /\ Range(peers) \subseteq Agents /\ e \in EnvIds
    BY <1>2, EnvShape
  <1>4. ASSUME NEW a \in Range(peers)
        PROVE  KeyOf(a) \in DOMAIN peers /\ peers[KeyOf(a)] = a
    BY RangeMeans
  <1>5. ASSUME NEW a \in Range(peers)
        PROVE  Node(e, KeyOf(a), height(a)) \in States
    <2>1. KeyOf(a) \in Keys /\ heights[KeyOf(a)] \in Requests
      BY <1>3, <1>4
    <2>2. pool[a] \in States
      BY <1>3 DEF TypeOK
    <2> HIDE DEF KeyOf, heights, peers
    <2>3. height(a) \in Heights
      BY <2>1, <2>2, StateShape, LifecycleAssumption DEF ResolveHeight, Heights
    <2> HIDE DEF height, e
    <2> QED
      BY <1>3, <2>1, <2>3, NodeIsState
  <1>6. w \in Pendings
    <2> HIDE DEF KeyOf, height
    <2> DEFINE W == w
    <2>1. W = [a \in Range(peers) |-> W[a]] /\ \A a \in Range(peers) : W[a] = Node(e, KeyOf(a), height(a))
      OBVIOUS
    <2> HIDE DEF W
    <2> QED
      BY <1>3, <1>5, <2>1, PendingTypes DEF W
  <1> HIDE DEF w
  <1>7. [phase |-> "write", op |-> "emitted", pending |-> w] \in TaskTypes
    BY <1>6 DEF TaskTypes
  <1> QED
    BY <1>1, <1>7, TaskStepTypes DEF ApplyEmit, TypeOK

LEMMA WriteTypes ==
    ASSUME TypeOK, NEW t \in Tasks, Write(t) \/ Written(t)
    PROVE  TypeOK'
  <1>1. CASE Write(t)
    <2>1. task[t].pending \in Pendings
      BY <1>1, TaskShapes DEF Write
    <2>2. PICK a \in DOMAIN task[t].pending :
            /\ pool' = [pool EXCEPT ![a] = task[t].pending[a]]
            /\ Become(t, [task[t] EXCEPT !.pending = Restrict(@, DOMAIN @ \ {a})])
      BY <1>1 DEF Write
    <2>3. task[t].pending[a] \in States
      BY <2>1, <2>2, PartialMeans DEF Pendings
    <2> DEFINE w == Restrict(task[t].pending, DOMAIN task[t].pending \ {a})
    <2>4. w \in Pendings
      BY <2>1, RestrictIsPartial DEF Pendings
    <2>5. Become(t, [task[t] EXCEPT !.pending = w])
      BY <2>2, TaskShapes, <1>1 DEF Write
    <2> HIDE DEF w
    <2>6. [task[t] EXCEPT !.pending = w] \in TaskTypes
      <3>1. CASE task[t].op = "apply"
        <4>1. task[t] \in [phase : {"write", "emit"}, op : {"apply"}, env : EnvIds,
                           made : Environments, pending : Pendings]
          BY <1>1, <3>1, TaskShapes DEF Write
        <4> QED
          BY <2>4, <4>1 DEF TaskTypes
      <3>2. CASE task[t].op # "apply"
        <4>1. task[t].phase = "write" /\ 
              task[t] \in [phase : {"answer", "write"},
                           op : {"emitted", "cleanup", "rewrite", "config"}, pending : Pendings]
          BY <1>1, <3>2, TaskShapes DEF Write
        <4> QED
          BY <2>4, <4>1 DEF TaskTypes
      <3> QED
        BY <3>1, <3>2
    <2>7. task' \in [Tasks -> TaskTypes]
      BY <2>5, <2>6, Becomes
    <2>8. pool' \in [Agents -> States]
      BY <2>2, <2>3 DEF TypeOK
    <2> QED
      BY <1>1, <2>7, <2>8 DEF Write, TypeOK
  <1>2. CASE Written(t)
    <2>1. CASE task[t].op = "apply"
      <3>1. task[t] \in [phase : {"write", "emit"}, op : {"apply"}, env : EnvIds,
                         made : Environments, pending : Pendings]
        BY <1>2, <2>1, TaskShapes DEF Written
      <3>2. [task[t] EXCEPT !.phase = "emit"] \in TaskTypes
        BY <3>1 DEF TaskTypes
      <3> QED
        BY <1>2, <2>1, <3>2, TaskStepTypes DEF Written, TypeOK
    <2>2. CASE task[t].op # "apply"
      BY <1>2, <2>2, TaskStepTypes DEF Written, TypeOK, TaskTypes
    <2> QED
      BY <2>1, <2>2
  <1> QED
    BY <1>1, <1>2

LEMMA CleanupTypes ==
    ASSUME TypeOK, NEW t \in Tasks, NEW e \in EnvIds, Cleanup(t, e)
    PROVE  TypeOK'
  <1>1. envs[e].peers \in Partial(Keys, Agents)
    BY EnvShape, PartialMeans DEF Cleanup, TypeOK
  <1>2. [phase |-> "delete", env |-> e, peers |-> envs[e].peers] \in TaskTypes
    BY <1>1 DEF TaskTypes
  <1>3. envs' \in Partial(EnvIds, Environments)
    BY RestrictIsPartial DEF Cleanup, TypeOK
  <1> QED
    BY <1>2, <1>3, TaskStepTypes DEF Cleanup, TypeOK

LEMMA ActionTypes ==
    ASSUME TypeOK, NEW t \in Tasks, NEW e \in EnvIds,
           \/ \E k \in Keys, req \in Requests : Config(t, e, k, req)
           \/ \E ks \in SUBSET Keys : Rewrite(t, e, ks)
    PROVE  TypeOK'
  <1>1. ASSUME NEW k \in Keys, NEW req \in Requests, Config(t, e, k, req)
        PROVE  TypeOK'
    <2> DEFINE a == envs[e].peers[k]
               s == pool[a]
               new == IF IsNode(s) THEN Node(s.env, s.key, <<s.height[1] + 1, req>>) ELSE s
               w == [b \in {a} |-> new]
    <2>1. a \in Agents /\ s \in States
      BY <1>1, EnvShape, PartialMeans DEF Config, TypeOK
    <2>2. /\ IsNode(s) => s.height[1] < MaxCounter
          /\ Become(t, [phase |-> "answer", op |-> "config", pending |-> w])
          /\ UNCHANGED <<envs, dbEnvs, pool, online>>
      BY <1>1 DEF Config
    <2> HIDE DEF a, s
    <2>3. new \in States
      <3>1. CASE ~IsNode(s)
        BY <2>1, <3>1
      <3>2. CASE IsNode(s)
        <4>1. s.height[1] + 1 \in 0 .. MaxCounter /\ s.env \in EnvIds /\ s.key \in Keys
          BY <2>1, <2>2, <3>2, StateShape, LifecycleAssumption
        <4>2. <<s.height[1] + 1, req>> \in Heights
          BY <4>1 DEF Heights
        <4> QED
          BY <3>2, <4>1, <4>2, NodeIsState
      <3> QED
        BY <3>1, <3>2
    <2> HIDE DEF new
    <2>4. w \in Pendings
      BY <2>1, <2>3, PendingTypes
    <2> HIDE DEF w
    <2>5. [phase |-> "answer", op |-> "config", pending |-> w] \in TaskTypes
      BY <2>4 DEF TaskTypes
    <2> QED
      BY <2>2, <2>5, TaskStepTypes DEF TypeOK
  <1>2. ASSUME NEW ks \in SUBSET Keys, Rewrite(t, e, ks)
        PROVE  TypeOK'
    <2> DEFINE agents == {envs[e].peers[k] : k \in ks \cap DOMAIN envs[e].peers}
               U == {a \in agents : IsNode(pool[a])}
               w == Restrict(pool, U)
    <2>1. agents \subseteq Agents
      BY <1>2, EnvShape, PartialMeans DEF Rewrite, TypeOK
    <2>2. /\ Become(t, [phase |-> "write", op |-> "rewrite", pending |-> w])
          /\ UNCHANGED <<envs, dbEnvs, pool, online>>
      BY <1>2 DEF Rewrite
    <2>3. U \subseteq Agents
      BY <2>1
    <2> HIDE DEF U
    <2>4. w \in Pendings
      BY <2>3, PendingTypes DEF TypeOK, Restrict
    <2> HIDE DEF w
    <2>5. [phase |-> "write", op |-> "rewrite", pending |-> w] \in TaskTypes
      BY <2>4 DEF TaskTypes
    <2> QED
      BY <2>2, <2>5, TaskStepTypes DEF TypeOK
  <1> QED
    BY <1>1, <1>2

LEMMA AgentTypes ==
    ASSUME TypeOK, (\E a \in Agents : AgentStep(a)) \/ Restart \/ UNCHANGED vars
    PROVE  TypeOK'
  <1>1. Inventory \in States
    BY DEF States
  <1>2. ASSUME NEW a \in Agents, AgentStep(a)
        PROVE  TypeOK'
    <2>1. UNCHANGED <<envs, dbEnvs, task>> /\ online' \subseteq Agents
          /\ pool' \in {pool, [pool EXCEPT ![a] = Inventory]}
      BY <1>2 DEF AgentStep, Disconnect, Reconnect, Takeover, TypeOK
    <2> QED
      BY <1>1, <2>1 DEF TypeOK
  <1>3. CASE Restart
    <2>1. task' \in [Tasks -> TaskTypes]
      BY <1>3 DEF Restart, TaskTypes
    <2>2. pool' \in [Agents -> States]
      BY <1>1, <1>3 DEF Restart, TypeOK
    <2>3. online' \subseteq Agents /\ UNCHANGED dbEnvs /\ envs' = dbEnvs
      BY <1>3 DEF Restart
    <2> QED
      BY <2>1, <2>2, <2>3 DEF TypeOK
  <1>4. CASE UNCHANGED vars
    BY <1>4 DEF vars, TypeOK
  <1> QED
    BY <1>2, <1>3, <1>4

LEMMA StepTypes ==
    ASSUME TypeOK, [Next]_vars
    PROVE  TypeOK'
  <1>1. ASSUME NEW t \in Tasks, Start(t)
        PROVE  TypeOK'
    BY <1>1, ApplyTypes, CleanupTypes, ActionTypes DEF Start
  <1>2. ASSUME NEW t \in Tasks, Continue(t) \/ ApplyFails(t)
        PROVE  TypeOK'
    BY <1>2, ServeTypes, EmitTypes, WriteTypes DEF Continue
  <1> QED
    BY <1>1, <1>2, AgentTypes DEF Next

LEMMA InitTypes == Init => TypeOK
  BY EmptyIsPartial DEF Init, TypeOK, TaskTypes, States

\* The types, for any documents, requests served at once, takeovers and restarts.
THEOREM LifecycleTypeCorrect == Spec => []TypeOK
  BY InitTypes, StepTypes, PTL DEF Spec

\* The peers an environment has, if there is one.
Peers(e) == IF e \in DOMAIN envs THEN envs[e].peers ELSE EmptyFun

\* An apply keeps, releases or reuses every agent the environment has, takes no
\* other but ones in inventory, and gives no agent two keys; it makes new pairs
\* for new keys only.
Makes(t, e, doc, made, spare) ==
    /\ Become(t, [phase |-> "save", op |-> "apply", env |-> e, made |-> made, spare |-> spare])
    /\ Range(Peers(e)) \subseteq Range(made.peers) \cup spare
    /\ \A a \in (Range(made.peers) \cup spare) \ Range(Peers(e)) : a \in Agents /\ pool[a] = Inventory
    /\ IsInjective(Peers(e)) => IsInjective(made.peers) /\ Range(made.peers) \cap spare = {}
    /\ DOMAIN Peers(e) = DOMAIN doc => made.peers = Peers(e)
    /\ DOMAIN Peers(e) = {} => DOMAIN made.peers = DOMAIN doc

LEMMA ApplyMakes ==
    ASSUME TypeOK, NEW t \in Tasks, NEW e \in EnvIds, NEW doc \in Documents, Apply(t, e, doc)
    PROVE  \E made \in Environments, spare \in SUBSET Agents : Makes(t, e, doc, made, spare)
  <1> DEFINE prev == Peers(e)
             gone == {prev[k] : k \in DOMAIN prev \ DOMAIN doc}
             kept == Restrict(prev, DOMAIN prev \cap DOMAIN doc)
             C == DOMAIN prev \cap DOMAIN doc
  <1>1. PICK pairs \in Injection(DOMAIN doc \ DOMAIN prev, Delegable(gone)) :
            Become(t, [phase |-> "save", op |-> "apply", env |-> e,
                       made |-> [peers |-> BiExtend(kept, pairs), heights |-> doc],
                       spare |-> gone \ Range(pairs)])
    BY DEF Apply, Peers
  <1>2. doc \in Partial(Keys, Requests) /\ DOMAIN doc \subseteq Keys
    BY LifecycleAssumption, PartialMeans
  <1>3. prev \in Partial(Keys, Agents)
    BY EmptyIsPartial, EnvShape, PartialMeans DEF TypeOK, Peers
  <1> HIDE DEF prev
  <1>4. gone \subseteq Agents /\ gone \subseteq Range(prev)
    BY <1>3, PartialMeans, RangeMeans
  <1>5. Delegable(gone) \subseteq Agents /\ \A a \in Delegable(gone) : a \in gone \/ pool[a] = Inventory
    BY <1>4 DEF Delegable, TypeOK
  <1>6. C \in SUBSET DOMAIN prev /\ C \subseteq DOMAIN doc /\ kept = Restrict(prev, C)
    OBVIOUS
  <1>7. pairs \in [DOMAIN doc \ DOMAIN prev -> Delegable(gone)] /\ IsInjective(pairs)
    BY DEF Injection
  <1>8. \A k \in DOMAIN prev \ C : prev[k] \in gone
    OBVIOUS
  <1>9. \A a \in gone : \E k \in DOMAIN prev \ C : prev[k] = a
    OBVIOUS
  <1>10. \A k \in DOMAIN doc : k \in C \/ k \in DOMAIN doc \ DOMAIN prev
    OBVIOUS
  <1>11. DOMAIN prev = DOMAIN doc => C = DOMAIN prev /\ DOMAIN doc \ DOMAIN prev = {}
    OBVIOUS
  <1>12. C \cap (DOMAIN doc \ DOMAIN prev) = {} /\ (DOMAIN prev = {} => C = {} /\ DOMAIN doc \ DOMAIN prev = DOMAIN doc)
    OBVIOUS
  <1> DEFINE N == DOMAIN doc \ DOMAIN prev
  <1>13. N \subseteq DOMAIN doc /\ pairs \in [N -> Delegable(gone)]
    BY <1>7
  <1>14. /\ C \cap N = {} /\ \A k \in DOMAIN doc : k \in C \/ k \in N
         /\ DOMAIN prev = DOMAIN doc => C = DOMAIN prev /\ N = {}
         /\ DOMAIN prev = {} => C = {} /\ N = DOMAIN doc
    BY <1>10, <1>11, <1>12
  <1> HIDE DEF C, gone, kept, N
  <1>15. kept \in Partial(Keys, Agents) /\ DOMAIN kept = C /\ \A k \in C : kept[k] = prev[k]
    BY <1>3, <1>6, RestrictIsPartial
  <1>16. DOMAIN pairs = N /\ pairs \in Partial(Keys, Agents)
    BY <1>2, <1>5, <1>13, PartialMeans
  <1> DEFINE peers == BiExtend(kept, pairs)
             made == [peers |-> peers, heights |-> doc]
             spare == gone \ Range(pairs)
  <1>17. /\ peers \in Partial(Keys, Agents) /\ DOMAIN peers \subseteq C \cup N /\ N \subseteq DOMAIN peers
         /\ \A k \in N : peers[k] = pairs[k]
         /\ \A k \in DOMAIN peers \ N : k \in C /\ peers[k] = prev[k] /\ prev[k] \notin Range(pairs)
         /\ \A k \in C : prev[k] \notin Range(pairs) => k \in DOMAIN peers
    BY <1>14, <1>15, <1>16, Extended
  <1> HIDE DEF peers
  <1>18. made \in Environments /\ spare \in SUBSET Agents
    BY <1>2, <1>4, <1>6, <1>13, <1>17 DEF Environments
  <1>19. Range(prev) \subseteq Range(peers) \cup spare
    <2> SUFFICES ASSUME NEW k \in DOMAIN prev, prev[k] \notin spare
                 PROVE  prev[k] \in Range(peers)
      BY RangeMeans
    <2>1. CASE prev[k] \in Range(pairs)
      BY <1>16, <1>17, <2>1, RangeMeans
    <2>2. CASE prev[k] \notin Range(pairs)
      <3>1. k \in C
        BY <1>8, <2>2
      <3>2. k \in DOMAIN peers /\ peers[k] = prev[k]
        BY <1>14, <1>17, <2>2, <3>1
      <3> QED
        BY <3>2, RangeMeans
    <2> QED
      BY <2>1, <2>2
  <1>20. ASSUME NEW a \in (Range(peers) \cup spare) \ Range(prev)
         PROVE  a \in Agents /\ pool[a] = Inventory
    <2>1. PICK k \in DOMAIN peers : peers[k] = a
      BY <1>4, RangeMeans
    <2>2. k \in N
      BY <1>6, <1>17, <2>1, RangeMeans
    <2> QED
      BY <1>4, <1>5, <1>13, <1>17, <2>1, <2>2
  <1>21. ASSUME IsInjective(prev)
         PROVE  IsInjective(peers) /\ Range(peers) \cap spare = {}
    <2>1. ASSUME NEW j \in DOMAIN peers, NEW k \in DOMAIN peers, peers[j] = peers[k]
          PROVE  j = k
      <3>1. CASE j \in N /\ k \in N
        BY <1>7, <1>16, <1>17, <2>1, <3>1 DEF IsInjective
      <3>2. CASE j \notin N /\ k \notin N
        BY <1>6, <1>17, <1>21, <2>1, <3>2 DEF IsInjective
      <3>3. CASE j \in N /\ k \notin N
        BY <1>16, <1>17, <2>1, <3>3, RangeMeans
      <3>4. CASE j \notin N /\ k \in N
        BY <1>16, <1>17, <2>1, <3>4, RangeMeans
      <3> QED
        BY <3>1, <3>2, <3>3, <3>4
    <2>2. ASSUME NEW k \in DOMAIN peers, peers[k] \in spare
          PROVE  FALSE
      <3>1. CASE k \in N
        BY <1>16, <1>17, <2>2, <3>1, RangeMeans
      <3>2. CASE k \notin N
        <4>1. k \in C /\ prev[k] \in gone
          BY <1>17, <2>2, <3>2
        <4>2. PICK j \in DOMAIN prev \ C : prev[j] = prev[k]
          BY <1>9, <4>1
        <4> QED
          BY <1>6, <1>21, <4>1, <4>2 DEF IsInjective
      <3> QED
        BY <3>1, <3>2
    <2> QED
      BY <2>1, <2>2, RangeMeans DEF IsInjective
  <1>22. DOMAIN prev = DOMAIN doc => peers = prev
    <2> SUFFICES ASSUME DOMAIN prev = DOMAIN doc
                 PROVE  peers = prev
      OBVIOUS
    <2>1. N = {} /\ C = DOMAIN prev
      BY <1>14
    <2>2. \A k \in C : k \in DOMAIN peers
      BY <1>16, <1>17, <2>1, RangeMeans
    <2>3. DOMAIN peers = DOMAIN prev /\ \A k \in DOMAIN prev : peers[k] = prev[k]
      BY <1>17, <2>1, <2>2
    <2>4. peers \in [DOMAIN peers -> Agents] /\ prev \in [DOMAIN prev -> Agents]
      BY <1>3, <1>17, PartialMeans
    <2> QED
      BY <2>3, <2>4
  <1>23. DOMAIN prev = {} => DOMAIN peers = DOMAIN doc
    BY <1>14, <1>17
  <1>24. Become(t, [phase |-> "save", op |-> "apply", env |-> e, made |-> made, spare |-> spare])
    BY <1>1 DEF peers
  <1>25. made.peers = peers
    OBVIOUS
  <1> HIDE DEF made, spare
  <1> USE <1>18
  <1> WITNESS made \in Environments, spare \in SUBSET Agents
  <1> QED
    BY <1>19, <1>20, <1>21, <1>22, <1>23, <1>24, <1>25 DEF prev, Makes

LEMMA Becoming ==
    ASSUME TypeOK, NEW t \in Tasks, NEW r, Become(t, r)
    PROVE  task'[t] = r /\ \A u \in Tasks : u # t => task'[u] = task[u]
  BY DEF TypeOK, Become

(***************************************************************************)
(* No agent serves two keys of an environment.                             *)
(***************************************************************************)

MadeInjective ==
    \A t \in Tasks : task[t].phase \in {"save", "insert"} => IsInjective(task[t].made.peers)

LEMMA PeersInjectiveMeans ==
    PeersInjective <=> /\ \A e \in EnvIds \cap DOMAIN envs : IsInjective(envs[e].peers)
                       /\ \A e \in EnvIds \cap DOMAIN dbEnvs : IsInjective(dbEnvs[e].peers)
  BY DEF PeersInjective

LEMMA InjectiveStep ==
    ASSUME TypeOK, PeersInjective, MadeInjective, [Next]_vars
    PROVE  PeersInjective' /\ MadeInjective'
  <1>1. ASSUME NEW t \in Tasks, NEW e \in EnvIds, NEW doc \in Documents, Apply(t, e, doc)
        PROVE  PeersInjective' /\ MadeInjective'
    <2>1. PICK made \in Environments, spare \in SUBSET Agents : Makes(t, e, doc, made, spare)
      BY <1>1, ApplyMakes
    <2>2. IsInjective(Peers(e))
      BY DEF PeersInjective, Peers, EmptyFun, IsInjective
    <2>3. UNCHANGED <<envs, dbEnvs>>
      BY <1>1 DEF Apply
    <2> QED
      BY <2>1, <2>2, <2>3, Becoming DEF Makes, PeersInjective, MadeInjective
  <1>2. ASSUME NEW t \in Tasks, ApplySave(t)
        PROVE  PeersInjective' /\ MadeInjective'
    <2>1. /\ task[t].phase = "save" /\ task'[t].made = task[t].made
          /\ \A u \in Tasks : u # t => task'[u] = task[u]
      BY <1>2, Becoming, TaskShapes DEF ApplySave
    <2>2. UNCHANGED envs /\ dbEnvs' = Put(dbEnvs, task[t].env, task[t].made)
      BY <1>2 DEF ApplySave, Put
    <2>3. task[t].env \in EnvIds /\ task[t].made \in Environments /\ IsInjective(task[t].made.peers)
      BY <2>1, TaskShapes DEF MadeInjective
    <2>4. ASSUME NEW e \in EnvIds, e \in DOMAIN dbEnvs'
          PROVE  IsInjective(dbEnvs'[e].peers)
      <3>1. dbEnvs'[e] = IF e = task[t].env THEN task[t].made ELSE dbEnvs[e]
        BY <2>2, <2>4 DEF Put
      <3>2. e # task[t].env => e \in DOMAIN dbEnvs
        BY <2>2, <2>4 DEF Put
      <3> QED
        BY <2>3, <3>1, <3>2 DEF PeersInjective
    <2> QED
      BY <2>1, <2>2, <2>3, <2>4 DEF PeersInjective, MadeInjective
  <1>3. ASSUME NEW t \in Tasks, ApplyInsert(t)
        PROVE  PeersInjective' /\ MadeInjective'
    <2>1. /\ task[t].phase = "insert" /\ task'[t].phase = "write"
          /\ \A u \in Tasks : u # t => task'[u] = task[u]
      BY <1>3, Becoming DEF ApplyInsert
    <2>2. UNCHANGED dbEnvs /\ envs' = Put(envs, task[t].env, task[t].made)
      BY <1>3 DEF ApplyInsert, Put
    <2>3. task[t].env \in EnvIds /\ task[t].made \in Environments /\ IsInjective(task[t].made.peers)
      BY <2>1, TaskShapes DEF MadeInjective
    <2>4. ASSUME NEW e \in EnvIds, e \in DOMAIN envs'
          PROVE  IsInjective(envs'[e].peers)
      <3>1. envs'[e] = IF e = task[t].env THEN task[t].made ELSE envs[e]
        BY <2>2, <2>4 DEF Put
      <3>2. e # task[t].env => e \in DOMAIN envs
        BY <2>2, <2>4 DEF Put
      <3> QED
        BY <2>3, <3>1, <3>2 DEF PeersInjective
    <2> QED
      BY <2>1, <2>2, <2>4 DEF PeersInjective, MadeInjective
  <1>4. ASSUME NEW t \in Tasks, NEW e \in EnvIds,
               \/ Cleanup(t, e)
               \/ \E k \in Keys, req \in Requests : Config(t, e, k, req)
               \/ \E ks \in SUBSET Keys : Rewrite(t, e, ks)
        PROVE  PeersInjective' /\ MadeInjective'
    <2>1. task'[t].phase \in {"delete", "answer", "write"} /\ \A u \in Tasks : u # t => task'[u] = task[u]
      <3>1. CASE Cleanup(t, e)
        BY <3>1, Becoming DEF Cleanup
      <3>2. ASSUME NEW k \in Keys, NEW req \in Requests, Config(t, e, k, req)
            PROVE  task'[t].phase = "answer" /\ \A u \in Tasks : u # t => task'[u] = task[u]
        BY <3>2, Becoming DEF Config
      <3>3. ASSUME NEW ks \in SUBSET Keys, Rewrite(t, e, ks)
            PROVE  task'[t].phase = "write" /\ \A u \in Tasks : u # t => task'[u] = task[u]
        BY <3>3, Becoming DEF Rewrite
      <3> QED
        BY <1>4, <3>1, <3>2, <3>3
    <2>2. UNCHANGED dbEnvs /\ (envs' = envs \/ envs' = Restrict(envs, DOMAIN envs \ {e}))
      BY <1>4 DEF Cleanup, Config, Rewrite
    <2>3. \A f \in EnvIds : f \in DOMAIN envs' => f \in DOMAIN envs /\ envs'[f] = envs[f]
      BY <2>2, RestrictIsPartial DEF TypeOK
    <2> QED
      BY <2>1, <2>2, <2>3 DEF PeersInjective, MadeInjective
  <1>5. ASSUME NEW t \in Tasks,
               ApplyFails(t) \/ ApplyEmit(t) \/ CleanupDelete(t) \/ ConfigAnswer(t) \/ Write(t) \/ Written(t)
        PROVE  PeersInjective' /\ MadeInjective'
    <2>1. task'[t].phase \in {"idle", "write", "emit"} /\ \A u \in Tasks : u # t => task'[u] = task[u]
      <3>1. CASE ApplyFails(t) \/ ApplyEmit(t) \/ CleanupDelete(t)
        BY <3>1, Becoming DEF ApplyFails, ApplyEmit, CleanupDelete, Idle
      <3>2. CASE ConfigAnswer(t)
        BY <3>2, Becoming, TaskShapes DEF ConfigAnswer, Idle
      <3>3. CASE Written(t)
        BY <3>3, Becoming, TaskShapes DEF Written, Idle
      <3>4. CASE Write(t)
        <4>1. PICK a \in DOMAIN task[t].pending :
                Become(t, [task[t] EXCEPT !.pending = Restrict(@, DOMAIN @ \ {a})])
          BY <3>4 DEF Write
        <4> QED
          BY <3>4, <4>1, Becoming, TaskShapes DEF Write
      <3> QED
        BY <1>5, <3>1, <3>2, <3>3, <3>4
    <2>2. UNCHANGED envs /\ (dbEnvs' = dbEnvs \/ dbEnvs' = Restrict(dbEnvs, DOMAIN dbEnvs \ {task[t].env}))
      BY <1>5 DEF ApplyFails, ApplyEmit, CleanupDelete, ConfigAnswer, Write, Written
    <2>3. \A f \in EnvIds : f \in DOMAIN dbEnvs' => f \in DOMAIN dbEnvs /\ dbEnvs'[f] = dbEnvs[f]
      BY <2>2, RestrictIsPartial DEF TypeOK
    <2> QED
      BY <2>1, <2>2, <2>3 DEF PeersInjective, MadeInjective
  <1>6. CASE (\E a \in Agents : AgentStep(a)) \/ UNCHANGED vars
    BY <1>6 DEF AgentStep, Disconnect, Reconnect, Takeover, vars, PeersInjective, MadeInjective
  <1>7. CASE Restart
    BY <1>7 DEF Restart, Idle, PeersInjective, MadeInjective
  <1> QED
    BY <1>1, <1>2, <1>3, <1>4, <1>5, <1>6, <1>7 DEF Next, Start, Continue

\* node_peers: in memory and persisted, whatever is applied, taken over or
\* restarted, and however many requests are served at once.
THEOREM NodesShareNoAgent == Spec => []PeersInjective
  <1>1. Init => PeersInjective /\ MadeInjective
    BY DEF Init, EmptyFun, Idle, PeersInjective, MadeInjective
  <1>2. TypeOK /\ PeersInjective /\ MadeInjective /\ [Next]_vars
            => PeersInjective' /\ MadeInjective'
    BY InjectiveStep
  <1> QED
    BY <1>1, <1>2, LifecycleTypeCorrect, PTL DEF Spec

(***************************************************************************)
(* One request at a time: every node has an environment that knows it.     *)
(***************************************************************************)

OneTask == \A t, u \in Tasks : t = u

\* Reapplies keep the keys of their environment.
SameKeys == \A d1, d2 \in Documents : DOMAIN d1 = DOMAIN d2

Serves(a, e) == e \in DOMAIN envs /\ a \in Range(envs[e].peers)

\* A task that will inventory an agent of environment e.
Releases(t, a, e) ==
    \/ task[t].phase = "delete" /\ task[t].env = e /\ a \in Range(task[t].peers)
    \/ /\ task[t].phase = "write" /\ a \in DOMAIN task[t].pending
       /\ task[t].pending[a] = Inventory

\* Every node is a peer of its environment, or is about to be inventoried.
NodesAccounted ==
    \A a \in Agents : IsNode(pool[a]) =>
        Serves(a, pool[a].env) \/ \E t \in Tasks : Releases(t, a, pool[a].env)

\* An apply covers all agents its environment has; once inserted, the
\* environment is what it made; no write makes a node of a stranger.
TasksAccount ==
    \A t \in Tasks :
        /\ task[t].phase \in {"save", "insert"} /\ task[t].env \in DOMAIN envs =>
             Range(envs[task[t].env].peers) \subseteq Range(task[t].made.peers) \cup task[t].spare
        /\ task[t].phase = "emit" \/ (task[t].phase = "write" /\ task[t].op = "apply") =>
             task[t].env \in DOMAIN envs /\ envs[task[t].env] = task[t].made
        /\ task[t].phase \in {"write", "answer"} =>
             \A a \in DOMAIN task[t].pending :
                IsNode(task[t].pending[a]) => Serves(a, task[t].pending[a].env)

\* What a restart loads: the peers of every environment, and of every node's.
CopyHasPeers ==
    /\ \A e \in DOMAIN envs : e \in DOMAIN dbEnvs /\ dbEnvs[e].peers = envs[e].peers
    /\ \A e \in DOMAIN dbEnvs, d \in Documents : DOMAIN dbEnvs[e].peers = DOMAIN d
    /\ \A a \in Agents : IsNode(pool[a]) /\ pool[a].env \in DOMAIN dbEnvs =>
          a \in Range(dbEnvs[pool[a].env].peers)
    /\ \A t \in Tasks : task[t].phase \in {"save", "insert"} =>
          /\ \A d \in Documents : DOMAIN task[t].made.peers = DOMAIN d
          /\ task[t].env \in DOMAIN envs => task[t].made.peers = envs[task[t].env].peers
          /\ task[t].phase = "insert" =>
                task[t].env \in DOMAIN dbEnvs /\ dbEnvs[task[t].env] = task[t].made
    /\ \A t \in Tasks : task[t].phase = "delete" => task[t].env \notin DOMAIN envs

\* A request that neither deletes nor writes leaves all nodes with their
\* environments.
LEMMA AllServed ==
    ASSUME OneTask, NodesAccounted, NEW t \in Tasks, task[t].phase \notin {"delete", "write"}
    PROVE  \A a \in Agents : IsNode(pool[a]) => Serves(a, pool[a].env)
  BY DEF OneTask, NodesAccounted, Releases

\* A step of the only task.
LEMMA OnlyTask ==
    ASSUME TypeOK, OneTask, NEW t \in Tasks, NEW r, Become(t, r)
    PROVE  \A u \in Tasks : u = t /\ task'[u] = r
  BY Becoming DEF OneTask

LEMMA InventoryIsNoNode == ~IsNode(Inventory)
  BY DEF IsNode, Inventory

LEMMA EnvAt ==
    ASSUME TypeOK, NEW e \in DOMAIN envs
    PROVE  e \in EnvIds /\ envs[e] \in Environments
  BY PartialMeans DEF TypeOK

LEMMA AccountApply ==
    ASSUME TypeOK, OneTask, NodesAccounted, TasksAccount, NEW t \in Tasks,
           \/ \E e \in EnvIds, doc \in Documents : Apply(t, e, doc)
           \/ ApplyFails(t) \/ ApplySave(t) \/ ApplyInsert(t) \/ ApplyEmit(t)
    PROVE  NodesAccounted' /\ TasksAccount'
  <1>1. task[t].phase \notin {"delete", "write"}
    <2>1. ASSUME NEW e \in EnvIds, NEW doc \in Documents, Apply(t, e, doc)
          PROVE  task[t] = Idle
      BY <2>1 DEF Apply, Free
    <2> QED
      BY <2>1 DEF ApplyFails, ApplySave, ApplyInsert, ApplyEmit, Idle
  <1>2. \A a \in Agents : IsNode(pool[a]) => Serves(a, pool[a].env)
    BY <1>1, AllServed
  <1>3. UNCHANGED pool
    BY DEF Apply, ApplyFails, ApplySave, ApplyInsert, ApplyEmit
  <1>4. ASSUME UNCHANGED envs
        PROVE  NodesAccounted'
    BY <1>2, <1>3, <1>4 DEF NodesAccounted, Serves, IsNode
  <1>5. ASSUME NEW e \in EnvIds, NEW doc \in Documents, Apply(t, e, doc)
        PROVE  NodesAccounted' /\ TasksAccount'
    <2>1. PICK made \in Environments, spare \in SUBSET Agents : Makes(t, e, doc, made, spare)
      BY <1>5, ApplyMakes
    <2>2. UNCHANGED envs
      BY <1>5 DEF Apply
    <2> QED
      BY <1>4, <2>1, <2>2, OnlyTask DEF Makes, TasksAccount, Peers
  <1>6. CASE ApplyFails(t)
    BY <1>4, <1>6, OnlyTask DEF ApplyFails, TasksAccount, Idle
  <1>7. CASE ApplySave(t)
    <2>1. /\ task[t].phase = "save" /\ UNCHANGED envs
          /\ \A u \in Tasks : u = t /\ task'[u] = [task[t] EXCEPT !.phase = "insert"]
      BY <1>7, OnlyTask DEF ApplySave
    <2>2. task[t] \in [phase : {"save", "insert"}, op : {"apply"}, env : EnvIds,
                       made : Environments, spare : SUBSET Agents]
      BY <2>1, TaskShapes
    <2> QED
      BY <1>4, <2>1, <2>2 DEF TasksAccount
  <1>8. CASE ApplyInsert(t)
    <2> DEFINE e == task[t].env
               made == task[t].made
               spare == task[t].spare
               w == [a \in spare |-> Inventory]
    <2>1. /\ task[t].phase = "insert" /\ envs' = Put(envs, e, made)
          /\ \A u \in Tasks : u = t /\ task'[u] = [phase |-> "write", op |-> "apply", env |-> e,
                                                   made |-> made, pending |-> w]
      BY <1>8, OnlyTask DEF ApplyInsert, Put
    <2>2. /\ \A f \in DOMAIN envs : f \in DOMAIN envs' /\ (f # e => envs'[f] = envs[f])
          /\ e \in DOMAIN envs' /\ envs'[e] = made
      BY <2>1 DEF Put
    <2>3. DOMAIN w = spare /\ \A a \in spare : w[a] = Inventory
      OBVIOUS
    <2>4. e \in DOMAIN envs => Range(envs[e].peers) \subseteq Range(made.peers) \cup spare
      BY <2>1 DEF TasksAccount
    <2> HIDE DEF w, spare, made, e
    <2>5. ASSUME NEW a \in Agents, IsNode(pool[a])
          PROVE  Serves(a, pool[a].env)' \/ \E u \in Tasks : Releases(u, a, pool[a].env)'
      <3>1. Serves(a, pool[a].env)
        BY <1>2, <2>5
      <3>2. CASE pool[a].env # e
        BY <1>3, <2>2, <3>1, <3>2 DEF Serves
      <3>3. CASE pool[a].env = e /\ a \in Range(made.peers)
        BY <1>3, <2>2, <3>3 DEF Serves
      <3>4. CASE pool[a].env = e /\ a \in spare
        BY <1>3, <2>1, <2>3, <3>4 DEF Releases
      <3> QED
        BY <2>4, <3>1, <3>2, <3>3, <3>4 DEF Serves
    <2>6. NodesAccounted'
      BY <1>3, <2>5 DEF NodesAccounted, IsNode
    <2> QED
      BY <2>1, <2>2, <2>3, <2>6, InventoryIsNoNode DEF TasksAccount
  <1>9. CASE ApplyEmit(t)
    <2> DEFINE e == task[t].env
               peers == task[t].made.peers
               heights == task[t].made.heights
               KeyOf(a) == CHOOSE k \in DOMAIN peers : peers[k] = a
               w == [a \in Range(peers) |->
                        Node(e, KeyOf(a), ResolveHeight(e, pool[a], heights[KeyOf(a)]))]
    <2>1. /\ task[t].phase = "emit" /\ UNCHANGED envs
          /\ \A u \in Tasks : u = t /\ task'[u] = [phase |-> "write", op |-> "emitted", pending |-> w]
      BY <1>9, OnlyTask DEF ApplyEmit
    <2>2. DOMAIN w = Range(peers) /\ \A a \in Range(peers) : w[a].env = e
      BY DEF Node
    <2>3. e \in DOMAIN envs /\ Range(envs[e].peers) = Range(peers)
      BY <2>1 DEF TasksAccount
    <2> HIDE DEF w, peers, e
    <2> QED
      BY <1>4, <2>1, <2>2, <2>3 DEF TasksAccount, Serves
  <1> QED
    BY <1>5, <1>6, <1>7, <1>8, <1>9

LEMMA AccountCleanup ==
    ASSUME TypeOK, OneTask, NodesAccounted, TasksAccount, NEW t \in Tasks,
           (\E e \in EnvIds : Cleanup(t, e)) \/ CleanupDelete(t)
    PROVE  NodesAccounted' /\ TasksAccount'
  <1>1. UNCHANGED pool
    BY DEF Cleanup, CleanupDelete
  <1>2. ASSUME NEW e \in EnvIds, Cleanup(t, e)
        PROVE  NodesAccounted' /\ TasksAccount'
    <2>1. \A a \in Agents : IsNode(pool[a]) => Serves(a, pool[a].env)
      BY <1>2, AllServed DEF Cleanup, Free, Idle
    <2>2. \A u \in Tasks : u = t /\ task'[u] = [phase |-> "delete", env |-> e, peers |-> envs[e].peers]
      BY <1>2, OnlyTask DEF Cleanup
    <2>3. \A f \in DOMAIN envs : f # e => f \in DOMAIN envs' /\ envs'[f] = envs[f]
      BY <1>2, RestrictIsPartial DEF Cleanup, TypeOK
    <2>4. ASSUME NEW a \in Agents, IsNode(pool[a])
          PROVE  Serves(a, pool[a].env)' \/ \E u \in Tasks : Releases(u, a, pool[a].env)'
      <3>1. CASE pool[a].env # e
        BY <1>1, <2>1, <2>3, <2>4, <3>1 DEF Serves
      <3>2. CASE pool[a].env = e
        BY <1>1, <2>1, <2>2, <2>4, <3>2 DEF Serves, Releases
      <3> QED
        BY <3>1, <3>2
    <2> QED
      BY <1>1, <2>2, <2>4 DEF NodesAccounted, TasksAccount, IsNode
  <1>3. CASE CleanupDelete(t)
    <2> DEFINE peers == task[t].peers
               w == [a \in Range(peers) |-> Inventory]
    <2>1. /\ task[t].phase = "delete" /\ UNCHANGED envs
          /\ \A u \in Tasks : u = t /\ task'[u] = [phase |-> "write", op |-> "cleanup", pending |-> w]
      BY <1>3, OnlyTask DEF CleanupDelete
    <2>2. DOMAIN w = Range(peers) /\ \A a \in Range(peers) : w[a] = Inventory
      OBVIOUS
    <2> HIDE DEF w
    <2>3. ASSUME NEW a \in Agents, IsNode(pool[a])
          PROVE  Serves(a, pool[a].env)' \/ \E u \in Tasks : Releases(u, a, pool[a].env)'
      BY <1>1, <2>1, <2>2, <2>3 DEF NodesAccounted, Serves, Releases
    <2> QED
      BY <1>1, <2>1, <2>2, <2>3, InventoryIsNoNode DEF NodesAccounted, TasksAccount, IsNode
  <1> QED
    BY <1>2, <1>3

LEMMA AccountActions ==
    ASSUME TypeOK, OneTask, NodesAccounted, TasksAccount, NEW t \in Tasks,
           \/ ConfigAnswer(t)
           \/ \E e \in EnvIds : \/ \E k \in Keys, req \in Requests : Config(t, e, k, req)
                               \/ \E ks \in SUBSET Keys : Rewrite(t, e, ks)
    PROVE  NodesAccounted' /\ TasksAccount'
  <1>1. UNCHANGED <<envs, pool>> /\ task[t].phase \notin {"delete", "write"}
    <2>1. ASSUME NEW e \in EnvIds, NEW k \in Keys, NEW req \in Requests, Config(t, e, k, req)
          PROVE  UNCHANGED <<envs, pool>> /\ task[t] = Idle
      BY <2>1 DEF Config, Free
    <2>2. ASSUME NEW e \in EnvIds, NEW ks \in SUBSET Keys, Rewrite(t, e, ks)
          PROVE  UNCHANGED <<envs, pool>> /\ task[t] = Idle
      BY <2>2 DEF Rewrite, Free
    <2> QED
      BY <2>1, <2>2 DEF ConfigAnswer, Idle
  <1>2. \A a \in Agents : IsNode(pool[a]) => Serves(a, pool[a].env)
    BY <1>1, AllServed
  <1>3. NodesAccounted'
    BY <1>1, <1>2 DEF NodesAccounted, Serves, IsNode
  <1>4. ASSUME NEW e \in EnvIds, NEW k \in Keys, NEW req \in Requests, Config(t, e, k, req)
        PROVE  TasksAccount'
    <2> DEFINE a == envs[e].peers[k]
               s == pool[a]
               new == IF IsNode(s) THEN Node(s.env, s.key, <<s.height[1] + 1, req>>) ELSE s
               w == [b \in {a} |-> new]
    <2>1. \A u \in Tasks : u = t /\ task'[u] = [phase |-> "answer", op |-> "config", pending |-> w]
      BY <1>4, OnlyTask DEF Config
    <2>2. a \in Agents
      BY <1>4, EnvAt, EnvShape DEF Config
    <2>3. DOMAIN w = {a} /\ w[a] = new /\ (IsNode(new) => IsNode(s) /\ new.env = s.env)
      BY DEF Node
    <2> HIDE DEF w, new
    <2> QED
      BY <1>1, <1>2, <2>1, <2>2, <2>3 DEF TasksAccount, Serves
  <1>5. ASSUME NEW e \in EnvIds, NEW ks \in SUBSET Keys, Rewrite(t, e, ks)
        PROVE  TasksAccount'
    <2> DEFINE agents == {envs[e].peers[k] : k \in ks \cap DOMAIN envs[e].peers}
               U == {a \in agents : IsNode(pool[a])}
               w == Restrict(pool, U)
    <2>1. agents \subseteq Agents
      BY <1>5, EnvAt, EnvShape DEF Rewrite
    <2>2. \A u \in Tasks : u = t /\ task'[u] = [phase |-> "write", op |-> "rewrite", pending |-> w]
      BY <1>5, OnlyTask DEF Rewrite
    <2>3. DOMAIN w \subseteq Agents /\ \A a \in DOMAIN w : w[a] = pool[a]
      BY <2>1 DEF Restrict
    <2> HIDE DEF w
    <2> QED
      BY <1>1, <1>2, <2>2, <2>3 DEF TasksAccount, Serves
  <1>6. CASE ConfigAnswer(t)
    <2>1. /\ task[t].phase = "answer"
          /\ task[t] \in [phase : {"answer", "write"}, op : {"config"}, pending : Pendings]
      BY <1>6, TaskShapes DEF ConfigAnswer
    <2>2. \A u \in Tasks : u = t /\ task'[u] \in {Idle, [task[t] EXCEPT !.phase = "write"]}
      BY <1>6, OnlyTask DEF ConfigAnswer
    <2> QED
      BY <1>1, <1>3, <2>1, <2>2 DEF TasksAccount, Serves, Idle
  <1> QED
    BY <1>3, <1>4, <1>5, <1>6

LEMMA AccountWrite ==
    ASSUME TypeOK, OneTask, NodesAccounted, TasksAccount, NEW t \in Tasks, Write(t) \/ Written(t)
    PROVE  NodesAccounted' /\ TasksAccount'
  <1>1. task[t].phase = "write" /\ UNCHANGED envs
    BY DEF Write, Written
  <1>2. CASE Write(t)
    <2>1. PICK a \in DOMAIN task[t].pending :
            /\ pool' = [pool EXCEPT ![a] = task[t].pending[a]]
            /\ Become(t, [task[t] EXCEPT !.pending = Restrict(@, DOMAIN @ \ {a})])
      BY <1>2 DEF Write
    <2> DEFINE w == Restrict(task[t].pending, DOMAIN task[t].pending \ {a})
    <2>2. DOMAIN w = DOMAIN task[t].pending \ {a} /\ \A b \in DOMAIN w : w[b] = task[t].pending[b]
      BY DEF Restrict
    <2>3. \A u \in Tasks : u = t /\ task'[u] = [task[t] EXCEPT !.pending = w]
      BY <2>1, OnlyTask
    <2> HIDE DEF w
    <2>4. /\ task'[t].phase = "write" /\ task'[t].pending = w /\ task'[t].op = task[t].op
          /\ task[t].op = "apply" => task'[t].env = task[t].env /\ task'[t].made = task[t].made
      BY <1>1, <2>3, TaskShapes
    <2>5. ASSUME NEW b \in Agents, IsNode(pool'[b])
          PROVE  Serves(b, pool[b].env)' \/ Releases(t, b, pool[b].env)'
      <3>1. CASE b = a
        BY <1>1, <2>1, <2>5, <3>1 DEF TasksAccount, Serves, TypeOK
      <3>2. CASE b # a
        <4>1. pool'[b] = pool[b]
          BY <2>1, <3>2 DEF TypeOK
        <4>2. Serves(b, pool[b].env) \/ Releases(t, b, pool[b].env)
          BY <2>5, <4>1 DEF NodesAccounted, OneTask
        <4> QED
          BY <1>1, <2>2, <2>4, <3>2, <4>1, <4>2 DEF Serves, Releases
      <3> QED
        BY <3>1, <3>2
    <2>6. NodesAccounted'
      BY <2>5 DEF NodesAccounted, IsNode
    <2>7. ASSUME NEW b \in DOMAIN w, IsNode(w[b])
          PROVE  Serves(b, w[b].env)
      BY <1>1, <2>2, <2>7 DEF TasksAccount
    <2> QED
      BY <1>1, <2>3, <2>4, <2>6, <2>7 DEF TasksAccount, Serves
  <1>3. CASE Written(t)
    <2>1. UNCHANGED pool /\ task[t].pending = EmptyFun
      BY <1>3 DEF Written
    <2>2. \A a \in Agents : IsNode(pool[a]) => Serves(a, pool[a].env)
      BY <1>1, <2>1, EmptyIsPartial DEF NodesAccounted, OneTask, Releases
    <2>3. NodesAccounted'
      BY <1>1, <2>1, <2>2 DEF NodesAccounted, Serves, IsNode
    <2>4. CASE task[t].op = "apply"
      <3>1. task[t] \in [phase : {"write", "emit"}, op : {"apply"}, env : EnvIds,
                         made : Environments, pending : Pendings]
        BY <1>1, <2>4, TaskShapes
      <3>2. \A u \in Tasks : u = t /\ task'[u] = [task[t] EXCEPT !.phase = "emit"]
        BY <1>3, <2>4, OnlyTask DEF Written
      <3> QED
        BY <1>1, <2>3, <2>4, <3>1, <3>2 DEF TasksAccount
    <2>5. CASE task[t].op # "apply"
      BY <1>3, <2>3, <2>5, OnlyTask DEF Written, TasksAccount, Idle
    <2> QED
      BY <2>4, <2>5
  <1> QED
    BY <1>2, <1>3

LEMMA AccountAgents ==
    ASSUME TypeOK, NodesAccounted, TasksAccount, Crashes => CopyHasPeers,
           (\E a \in Agents : AgentStep(a)) \/ Restart \/ UNCHANGED vars
    PROVE  NodesAccounted' /\ TasksAccount'
  <1>1. ASSUME NEW a \in Agents, AgentStep(a)
        PROVE  NodesAccounted' /\ TasksAccount'
    <2>1. UNCHANGED <<envs, task>> /\ pool' \in {pool, [pool EXCEPT ![a] = Inventory]}
      BY <1>1 DEF AgentStep, Disconnect, Reconnect, Takeover
    <2>2. \A b \in Agents : IsNode(pool'[b]) => pool'[b] = pool[b]
      BY <2>1, InventoryIsNoNode DEF TypeOK
    <2> QED
      BY <2>1, <2>2 DEF NodesAccounted, TasksAccount, Serves, Releases
  <1>2. CASE Restart
    <2>1. /\ envs' = dbEnvs /\ CopyHasPeers /\ \A t \in Tasks : task'[t] = Idle
          /\ \A a \in Agents : pool'[a] = IF IsNode(pool[a]) /\ pool[a].env \notin DOMAIN dbEnvs
                                          THEN Inventory ELSE pool[a]
      BY <1>2 DEF Restart
    <2>2. TasksAccount'
      BY <2>1 DEF TasksAccount, Idle
    <2>3. ASSUME NEW a \in Agents, IsNode(pool'[a])
          PROVE  pool'[a].env \in DOMAIN dbEnvs /\ a \in Range(dbEnvs[pool'[a].env].peers)
      BY <2>1, <2>3, InventoryIsNoNode DEF CopyHasPeers
    <2> QED
      BY <2>1, <2>2, <2>3 DEF NodesAccounted, Serves, IsNode
  <1>3. CASE UNCHANGED vars
    BY <1>3 DEF vars, NodesAccounted, TasksAccount, Serves, Releases, IsNode
  <1> QED
    BY <1>1, <1>2, <1>3

LEMMA CopyApply ==
    ASSUME TypeOK, OneTask, SameKeys, NodesAccounted, CopyHasPeers, NEW t \in Tasks,
           \/ \E e \in EnvIds, doc \in Documents : Apply(t, e, doc)
           \/ ApplySave(t) \/ ApplyInsert(t)
    PROVE  CopyHasPeers'
  <1>1. ASSUME NEW e \in EnvIds, NEW doc \in Documents, Apply(t, e, doc)
        PROVE  CopyHasPeers'
    <2>1. PICK made \in Environments, spare \in SUBSET Agents : Makes(t, e, doc, made, spare)
      BY <1>1, ApplyMakes
    <2>2. UNCHANGED <<envs, dbEnvs, pool>>
      BY <1>1 DEF Apply
    <2>3. e \in DOMAIN envs => Peers(e) = envs[e].peers /\ DOMAIN Peers(e) = DOMAIN doc
      BY DEF CopyHasPeers, Peers
    <2>4. e \notin DOMAIN envs => DOMAIN Peers(e) = {}
      BY EmptyIsPartial DEF Peers
    <2>5. DOMAIN made.peers = DOMAIN doc /\ (e \in DOMAIN envs => made.peers = envs[e].peers)
      BY <2>1, <2>3, <2>4 DEF Makes
    <2>6. \A u \in Tasks : task'[u].phase = "save" /\ task'[u].env = e /\ task'[u].made = made
      BY <2>1, OnlyTask DEF Makes
    <2> QED
      BY <2>2, <2>5, <2>6 DEF CopyHasPeers, SameKeys, IsNode
  <1>2. CASE ApplySave(t)
    <2> DEFINE e == task[t].env
               made == task[t].made
    <2>1. /\ task[t].phase = "save" /\ UNCHANGED <<envs, pool>>
          /\ dbEnvs' = Put(dbEnvs, e, made)
          /\ \A u \in Tasks : u = t /\ task'[u] = [task[t] EXCEPT !.phase = "insert"]
      BY <1>2, OnlyTask DEF ApplySave, Put
    <2>2. task[t] \in [phase : {"save", "insert"}, op : {"apply"}, env : EnvIds,
                       made : Environments, spare : SUBSET Agents]
      BY <2>1, TaskShapes
    <2>3. \A u \in Tasks : task'[u].phase = "insert" /\ task'[u].env = e /\ task'[u].made = made
      BY <2>1, <2>2
    <2>4. /\ DOMAIN dbEnvs' = DOMAIN dbEnvs \cup {e} /\ dbEnvs'[e] = made
          /\ \A f \in DOMAIN dbEnvs : f # e => dbEnvs'[f] = dbEnvs[f]
      BY <2>1 DEF Put
    <2>5. \A a \in Agents : IsNode(pool[a]) => Serves(a, pool[a].env)
      BY <2>1, AllServed
    <2>6. /\ e \in DOMAIN envs => made.peers = envs[e].peers
          /\ \A d \in Documents : DOMAIN made.peers = DOMAIN d
      BY <2>1 DEF CopyHasPeers
    <2> HIDE DEF e, made
    <2>7. \A a \in Agents : IsNode(pool[a]) /\ pool[a].env \in DOMAIN dbEnvs' =>
              a \in Range(dbEnvs'[pool[a].env].peers)
      BY <2>4, <2>5, <2>6 DEF CopyHasPeers, Serves
    <2>8. \A f \in DOMAIN envs : f \in DOMAIN dbEnvs' /\ dbEnvs'[f].peers = envs[f].peers
      BY <2>4, <2>6 DEF CopyHasPeers
    <2>9. \A f \in DOMAIN dbEnvs', d \in Documents : DOMAIN dbEnvs'[f].peers = DOMAIN d
      BY <2>4, <2>6 DEF CopyHasPeers
    <2> QED
      BY <2>1, <2>3, <2>4, <2>6, <2>7, <2>8, <2>9 DEF CopyHasPeers, IsNode
  <1>3. CASE ApplyInsert(t)
    <2> DEFINE e == task[t].env
               made == task[t].made
    <2>1. /\ task[t].phase = "insert" /\ UNCHANGED <<dbEnvs, pool>>
          /\ envs' = Put(envs, e, made)
          /\ \A u \in Tasks : u = t /\ task'[u].phase = "write"
      BY <1>3, OnlyTask DEF ApplyInsert, Put
    <2>2. /\ DOMAIN envs' = DOMAIN envs \cup {e} /\ envs'[e] = made
          /\ \A f \in DOMAIN envs : f # e => envs'[f] = envs[f]
      BY <2>1 DEF Put
    <2>3. e \in DOMAIN dbEnvs /\ dbEnvs[e] = made
      BY <2>1 DEF CopyHasPeers
    <2> HIDE DEF e, made
    <2>4. \A f \in DOMAIN envs' : f \in DOMAIN dbEnvs /\ dbEnvs[f].peers = envs'[f].peers
      BY <2>2, <2>3 DEF CopyHasPeers
    <2> QED
      BY <2>1, <2>4 DEF CopyHasPeers, IsNode
  <1> QED
    BY <1>1, <1>2, <1>3

LEMMA CopyCleanup ==
    ASSUME TypeOK, OneTask, CopyHasPeers, NEW t \in Tasks,
           (\E e \in EnvIds : Cleanup(t, e)) \/ CleanupDelete(t)
    PROVE  CopyHasPeers'
  <1>1. ASSUME NEW e \in EnvIds, Cleanup(t, e)
        PROVE  CopyHasPeers'
    <2>1. \A u \in Tasks : task'[u].phase = "delete" /\ task'[u].env = e
      BY <1>1, OnlyTask DEF Cleanup
    <2>2. UNCHANGED <<dbEnvs, pool>>
      BY <1>1 DEF Cleanup
    <2>3. \A f \in DOMAIN envs' : f # e /\ f \in DOMAIN envs /\ envs'[f] = envs[f]
      BY <1>1, RestrictIsPartial DEF Cleanup, TypeOK
    <2> QED
      BY <2>1, <2>2, <2>3 DEF CopyHasPeers, IsNode
  <1>2. CASE CleanupDelete(t)
    <2>1. task[t].phase = "delete" /\ \A u \in Tasks : u = t /\ task'[u].phase = "write"
      BY <1>2, OnlyTask DEF CleanupDelete
    <2>2. UNCHANGED <<envs, pool>>
      BY <1>2 DEF CleanupDelete
    <2>3. \A f : f \in DOMAIN dbEnvs' <=> f \in DOMAIN dbEnvs /\ f # task[t].env
      BY <1>2, RestrictIsPartial DEF CleanupDelete, TypeOK
    <2>4. \A f \in DOMAIN dbEnvs' : dbEnvs'[f] = dbEnvs[f]
      BY <1>2, RestrictIsPartial DEF CleanupDelete, TypeOK
    <2> QED
      BY <2>1, <2>2, <2>3, <2>4 DEF CopyHasPeers, IsNode
  <1> QED
    BY <1>1, <1>2

\* A step of a request that writes no map, and no stranger into the pool.
LEMMA CopyOther ==
    ASSUME CopyHasPeers, NEW t \in Tasks, UNCHANGED <<envs, dbEnvs>>,
           \A u \in Tasks : u = t /\ task'[u].phase \notin {"save", "insert", "delete"},
           \A a \in Agents : IsNode(pool'[a]) =>
                \/ IsNode(pool[a]) /\ pool'[a].env = pool[a].env
                \/ Serves(a, pool'[a].env)
    PROVE  CopyHasPeers'
  <1>1. \A a \in Agents : IsNode(pool'[a]) /\ pool'[a].env \in DOMAIN dbEnvs =>
            a \in Range(dbEnvs[pool'[a].env].peers)
    BY DEF CopyHasPeers, Serves
  <1> QED
    BY <1>1 DEF CopyHasPeers, IsNode

LEMMA CopyTask ==
    ASSUME TypeOK, OneTask, TasksAccount, CopyHasPeers, NEW t \in Tasks,
           \/ ApplyFails(t) \/ ApplyEmit(t) \/ ConfigAnswer(t) \/ Write(t) \/ Written(t)
           \/ \E e \in EnvIds : \/ \E k \in Keys, req \in Requests : Config(t, e, k, req)
                               \/ \E ks \in SUBSET Keys : Rewrite(t, e, ks)
    PROVE  CopyHasPeers'
  <1>1. CASE ApplyFails(t)
    BY <1>1, CopyOther, OnlyTask DEF ApplyFails, Idle
  <1>2. CASE ApplyEmit(t)
    <2>1. UNCHANGED <<envs, dbEnvs, pool>> /\ \A u \in Tasks : u = t /\ task'[u].phase = "write"
      BY <1>2, OnlyTask DEF ApplyEmit
    <2> QED
      BY <2>1, CopyOther
  <1>3. CASE ConfigAnswer(t)
    <2>1. /\ UNCHANGED <<envs, dbEnvs, pool>> /\ task[t].phase = "answer"
          /\ \A u \in Tasks : u = t /\ task'[u] \in {Idle, [task[t] EXCEPT !.phase = "write"]}
      BY <1>3, OnlyTask DEF ConfigAnswer
    <2>2. task'[t].phase \in {"idle", "write"}
      BY <2>1, TaskShapes DEF Idle
    <2> QED
      BY <2>1, <2>2, CopyOther DEF OneTask
  <1>4. CASE Write(t)
    <2>1. PICK a \in DOMAIN task[t].pending :
            /\ pool' = [pool EXCEPT ![a] = task[t].pending[a]]
            /\ Become(t, [task[t] EXCEPT !.pending = Restrict(@, DOMAIN @ \ {a})])
      BY <1>4 DEF Write
    <2>2. task[t].phase = "write" /\ UNCHANGED <<envs, dbEnvs>>
      BY <1>4 DEF Write
    <2>3. \A u \in Tasks : u = t /\ task'[u].phase = "write"
      BY <2>1, <2>2, OnlyTask, TaskShapes
    <2>4. \A b \in Agents : IsNode(pool'[b]) => pool'[b] = pool[b] \/ Serves(b, pool'[b].env)
      BY <2>1, <2>2 DEF TasksAccount, TypeOK
    <2> QED
      BY <2>2, <2>3, <2>4, CopyOther
  <1>5. CASE Written(t)
    <2>1. UNCHANGED <<envs, dbEnvs, pool>> /\ task[t].phase = "write"
      BY <1>5 DEF Written
    <2>2. \A u \in Tasks : u = t /\ task'[u].phase \in {"idle", "emit"}
      BY <1>5, OnlyTask, TaskShapes DEF Written, Idle
    <2> QED
      BY <2>1, <2>2, CopyOther
  <1>6. ASSUME NEW e \in EnvIds, NEW k \in Keys, NEW req \in Requests, Config(t, e, k, req)
        PROVE  CopyHasPeers'
    <2>1. UNCHANGED <<envs, dbEnvs, pool>>
      BY <1>6 DEF Config
    <2>2. \E p : Become(t, [phase |-> "answer", op |-> "config", pending |-> p])
      BY <1>6 DEF Config
    <2>3. task'[t].phase = "answer"
      BY <2>2, Becoming
    <2> QED
      BY <2>1, <2>3, CopyOther DEF OneTask
  <1>7. ASSUME NEW e \in EnvIds, NEW ks \in SUBSET Keys, Rewrite(t, e, ks)
        PROVE  CopyHasPeers'
    <2>1. UNCHANGED <<envs, dbEnvs, pool>> /\ \A u \in Tasks : u = t /\ task'[u].phase = "write"
      BY <1>7, OnlyTask DEF Rewrite
    <2> QED
      BY <2>1, CopyOther
  <1> QED
    BY <1>1, <1>2, <1>3, <1>4, <1>5, <1>6, <1>7

LEMMA CopyAgents ==
    ASSUME TypeOK, CopyHasPeers, (\E a \in Agents : AgentStep(a)) \/ Restart \/ UNCHANGED vars
    PROVE  CopyHasPeers'
  <1>1. ASSUME NEW a \in Agents, AgentStep(a)
        PROVE  CopyHasPeers'
    <2>1. UNCHANGED <<envs, dbEnvs, task>> /\ pool' \in {pool, [pool EXCEPT ![a] = Inventory]}
      BY <1>1 DEF AgentStep, Disconnect, Reconnect, Takeover
    <2>2. \A b \in Agents : IsNode(pool'[b]) => pool'[b] = pool[b]
      BY <2>1, InventoryIsNoNode DEF TypeOK
    <2> QED
      BY <2>1, <2>2 DEF CopyHasPeers
  <1>2. CASE Restart
    <2>1. /\ envs' = dbEnvs /\ UNCHANGED dbEnvs /\ \A t \in Tasks : task'[t] = Idle
          /\ \A a \in Agents : pool'[a] = IF IsNode(pool[a]) /\ pool[a].env \notin DOMAIN dbEnvs
                                          THEN Inventory ELSE pool[a]
      BY <1>2 DEF Restart
    <2>2. \A a \in Agents : IsNode(pool'[a]) => pool'[a] = pool[a]
      BY <2>1, InventoryIsNoNode
    <2> QED
      BY <2>1, <2>2 DEF CopyHasPeers, Idle
  <1>3. CASE UNCHANGED vars
    BY <1>3 DEF vars, CopyHasPeers, IsNode
  <1> QED
    BY <1>1, <1>2, <1>3

LEMMA AccountStep ==
    ASSUME TypeOK, OneTask, Crashes => SameKeys, NodesAccounted, TasksAccount,
           Crashes => CopyHasPeers, [Next]_vars
    PROVE  NodesAccounted' /\ TasksAccount' /\ (Crashes => CopyHasPeers')
  <1>1. ASSUME NEW t \in Tasks, Start(t) \/ Continue(t) \/ ApplyFails(t)
        PROVE  NodesAccounted' /\ TasksAccount'
    BY <1>1, AccountApply, AccountCleanup, AccountActions, AccountWrite DEF Start, Continue
  <1>2. ASSUME Crashes, NEW t \in Tasks, Start(t) \/ Continue(t) \/ ApplyFails(t)
        PROVE  CopyHasPeers'
    BY <1>2, CopyApply, CopyCleanup, CopyTask DEF Start, Continue
  <1> QED
    BY <1>1, <1>2, AccountAgents, CopyAgents DEF Next

LEMMA NodesAreAccounted ==
    ASSUME OneTask, Crashes => SameKeys
    PROVE  Spec => [](TypeOK /\ NodesAccounted /\ TasksAccount /\ (Crashes => CopyHasPeers))
  <1> DEFINE Inv == NodesAccounted /\ TasksAccount /\ (Crashes => CopyHasPeers)
  <1>1. Init => Inv
    BY EmptyIsPartial, InventoryIsNoNode
       DEF Init, Idle, NodesAccounted, TasksAccount, CopyHasPeers
  <1>2. TypeOK /\ Inv /\ [Next]_vars => Inv'
    BY AccountStep
  <1> QED
    BY <1>1, <1>2, LifecycleTypeCorrect, PTL DEF Spec

\* Between requests no agent is the node of an environment that is gone,
\* whatever ids are taken over, and wherever a restart cuts a request short.
THEOREM NodesKeepEnvironments ==
    ASSUME OneTask, Crashes => SameKeys
    PROVE  Spec => []NodesHaveEnvironments
  <1>1. NodesAccounted => NodesHaveEnvironments
    BY DEF NodesHaveEnvironments, Quiet, Free, Idle, NodesAccounted, Releases, Serves
  <1> QED
    BY <1>1, NodesAreAccounted, PTL

\* Where reapplies keep the keys, a restart leaves only peers as nodes.
THEOREM RestartsLeaveNoStranger ==
    ASSUME OneTask, SameKeys
    PROVE  Spec => RestartInventoriesStrangers
  <1> DEFINE Known == Restart => \A a \in Agents : IsNode(pool'[a]) =>
                                    a \in Range(envs'[pool'[a].env].peers)
  <1>1. TypeOK /\ (Crashes => CopyHasPeers) /\ [Next]_vars => [Known]_vars
    <2> SUFFICES ASSUME Crashes => CopyHasPeers, Restart,
                        NEW a \in Agents, IsNode(pool'[a])
                 PROVE  a \in Range(envs'[pool'[a].env].peers)
      OBVIOUS
    <2>1. /\ CopyHasPeers /\ envs' = dbEnvs
          /\ pool'[a] = IF IsNode(pool[a]) /\ pool[a].env \notin DOMAIN dbEnvs
                        THEN Inventory ELSE pool[a]
      BY DEF Restart
    <2> QED
      BY <2>1, InventoryIsNoNode DEF CopyHasPeers
  <1>2. RestartInventoriesStrangers <=> [][Known]_vars
    BY PTL DEF RestartInventoriesStrangers
  <1> HIDE DEF Known
  <1> QED
    BY <1>1, <1>2, NodesAreAccounted, PTL DEF Spec

(***************************************************************************)
(* One request at a time, no takeovers and no restarts: the env map, its   *)
(* copy and the pool tell the same story.                                  *)
(***************************************************************************)

PeerIn(m, a, e, k) == e \in DOMAIN m /\ k \in DOMAIN m[e].peers /\ m[e].peers[k] = a
Unserved(m, a) == \A e \in DOMAIN m : a \notin Range(m[e].peers)

\* A state of agent a that says what the env map m says.
AgreesWith(m, s, a) ==
    \A e \in EnvIds, k \in Keys : (IsNode(s) /\ s.env = e /\ s.key = k) <=> PeerIn(m, a, e, k)

\* A task that has still to write the state of agent a.
Owes(r, a) ==
    \/ r.phase = "write" /\ a \in DOMAIN r.pending
    \/ (r.phase = "emit" \/ (r.phase = "write" /\ r.op = "apply")) /\ a \in Range(r.made.peers)
    \/ r.phase = "delete" /\ a \in Range(r.peers)

PoolAgrees == \A a \in Agents : AgreesWith(envs, pool[a], a) \/ \E t \in Tasks : Owes(task[t], a)

\* What is going to be written is what the env map says.
PendingAgrees ==
    \A t \in Tasks :
        /\ task[t].phase \in {"write", "answer"} =>
             \A a \in DOMAIN task[t].pending : AgreesWith(envs, task[t].pending[a], a)
        /\ task[t].phase = "delete" => \A a \in Range(task[t].peers) : Unserved(envs, a)
        /\ task[t].phase = "emit" \/ (task[t].phase = "write" /\ task[t].op = "apply") =>
             task[t].env \in DOMAIN envs /\ envs[task[t].env] = task[t].made

\* What an apply has made can replace its environment without taking an agent
\* from another one or leaving one of its own behind.
MadeFits ==
    \A t \in Tasks : task[t].phase \in {"save", "insert"} =>
        /\ Range(task[t].made.peers) \cap task[t].spare = {}
        /\ \A e \in DOMAIN envs :
            IF e = task[t].env
            THEN Range(envs[e].peers) \subseteq Range(task[t].made.peers) \cup task[t].spare
            ELSE Range(envs[e].peers) \cap (Range(task[t].made.peers) \cup task[t].spare) = {}

\* The copy is behind or ahead by the environment of the request only.
CopyAgrees ==
    /\ (\A t \in Tasks : task[t].phase \notin {"insert", "delete"}) => dbEnvs = envs
    /\ \A t \in Tasks :
        /\ task[t].phase = "insert" => dbEnvs = Put(envs, task[t].env, task[t].made)
        /\ task[t].phase = "delete" => envs = Restrict(dbEnvs, DOMAIN dbEnvs \ {task[t].env})

AgreementInv == ExclusiveDelegation /\ PoolAgrees /\ PendingAgrees /\ MadeFits /\ CopyAgrees

LEMMA InventoryAgrees ==
    ASSUME NEW m \in Partial(EnvIds, Environments), NEW a
    PROVE  AgreesWith(m, Inventory, a) <=> Unserved(m, a)
  <1>1. \A e \in DOMAIN m : e \in EnvIds /\ m[e] \in Environments
    BY PartialMeans
  <1>2. \A e \in DOMAIN m : \A k \in DOMAIN m[e].peers : k \in Keys
    BY <1>1, EnvShape
  <1> QED
    BY <1>1, <1>2, RangeMeans, InventoryIsNoNode DEF AgreesWith, Unserved, PeerIn

LEMMA PeerAgrees ==
    ASSUME TypeOK, ExclusiveDelegation, PeersInjective,
           NEW e \in DOMAIN envs, NEW k \in DOMAIN envs[e].peers, NEW h
    PROVE  AgreesWith(envs, Node(e, k, h), envs[e].peers[k])
  <1> DEFINE a == envs[e].peers[k]
             n == Node(e, k, h)
  <1>1. \A f \in DOMAIN envs : f \in EnvIds /\ envs[f] \in Environments
    BY EnvAt
  <1>2. IsNode(n) /\ n.env = e /\ n.key = k
    BY <1>1, LifecycleAssumption DEF Node, IsNode
  <1>3. ASSUME NEW f \in EnvIds, NEW j \in Keys, PeerIn(envs, a, f, j)
        PROVE  f = e /\ j = k
    <2>1. a \in Range(envs[f].peers) /\ a \in Range(envs[e].peers)
      BY <1>3, RangeMeans DEF PeerIn
    <2>2. f = e
      BY <1>3, <2>1 DEF ExclusiveDelegation, PeerIn
    <2> QED
      BY <1>1, <1>3, <2>2 DEF PeersInjective, IsInjective, PeerIn
  <1>4. PeerIn(envs, a, e, k)
    BY DEF PeerIn
  <1> HIDE DEF a, n
  <1>5. AgreesWith(envs, n, a)
    BY <1>2, <1>3, <1>4 DEF AgreesWith
  <1> QED
    BY <1>5 DEF a, n

\* A request that owes nothing.
LEMMA AllAgree ==
    ASSUME OneTask, PoolAgrees, NEW t \in Tasks, \A a \in Agents : ~Owes(task[t], a)
    PROVE  \A a \in Agents : AgreesWith(envs, pool[a], a)
  BY DEF OneTask, PoolAgrees

LEMMA AgreeApply ==
    ASSUME TypeOK, OneTask, PeersInjective, AgreementInv,
           NEW t \in Tasks, NEW e \in EnvIds, NEW doc \in Documents, Apply(t, e, doc)
    PROVE  AgreementInv'
  <1>1. PICK made \in Environments, spare \in SUBSET Agents : Makes(t, e, doc, made, spare)
    BY ApplyMakes
  <1>2. UNCHANGED <<envs, dbEnvs, pool>> /\ task[t] = Idle
    BY DEF Apply, Free
  <1>3. \A u \in Tasks : u = t /\ task'[u] = [phase |-> "save", op |-> "apply", env |-> e, made |-> made, spare |-> spare]
    BY <1>1, OnlyTask DEF Makes
  <1>4. \A a \in Agents : AgreesWith(envs, pool[a], a)
    BY <1>2, AllAgree DEF Owes, Idle, AgreementInv
  <1>5. dbEnvs = envs
    BY <1>2, <1>3 DEF AgreementInv, CopyAgrees, Idle
  <1>6. IsInjective(Peers(e))
    BY DEF PeersInjective, Peers, EmptyFun, IsInjective
  <1>7. ASSUME NEW f \in DOMAIN envs, f # e, NEW a \in Range(made.peers) \cup spare
        PROVE  a \notin Range(envs[f].peers)
    <2>1. CASE a \in Range(Peers(e))
      <3>1. e \in DOMAIN envs /\ Peers(e) = envs[e].peers
        BY <2>1, EmptyIsPartial, RangeMeans DEF Peers
      <3> QED
        BY <1>7, <2>1, <3>1 DEF AgreementInv, ExclusiveDelegation
    <2>2. CASE a \notin Range(Peers(e))
      <3>1. a \in Agents /\ pool[a] = Inventory
        BY <1>1, <1>7, <2>2 DEF Makes
      <3>2. Unserved(envs, a)
        BY <1>4, <3>1, InventoryAgrees DEF TypeOK
      <3> QED
        BY <3>2 DEF Unserved
    <2> QED
      BY <2>1, <2>2
  <1>8. e \in DOMAIN envs => Range(envs[e].peers) \subseteq Range(made.peers) \cup spare
    BY <1>1 DEF Makes, Peers
  <1>9. MadeFits'
    <2>1. Range(made.peers) \cap spare = {}
      BY <1>1, <1>6 DEF Makes
    <2>2. \A f \in DOMAIN envs : f # e => Range(envs[f].peers) \cap (Range(made.peers) \cup spare) = {}
      BY <1>7
    <2> QED
      BY <1>2, <1>3, <1>8, <2>1, <2>2 DEF MadeFits
  <1>10. PoolAgrees' /\ PendingAgrees' /\ CopyAgrees' /\ ExclusiveDelegation'
    BY <1>2, <1>3, <1>4, <1>5 DEF PoolAgrees, PendingAgrees, CopyAgrees, AgreementInv, ExclusiveDelegation
  <1> QED
    BY <1>9, <1>10 DEF AgreementInv

LEMMA AgreeSave ==
    ASSUME TypeOK, OneTask, AgreementInv, NEW t \in Tasks, ApplyFails(t) \/ ApplySave(t)
    PROVE  AgreementInv'
  <1>1. task[t].phase = "save" /\ UNCHANGED <<envs, pool>>
    BY DEF ApplyFails, ApplySave
  <1>2. \A a \in Agents : AgreesWith(envs, pool[a], a)
    BY <1>1, AllAgree DEF Owes, AgreementInv
  <1>3. dbEnvs = envs
    BY <1>1 DEF AgreementInv, CopyAgrees, OneTask
  <1>4. PoolAgrees' /\ ExclusiveDelegation'
    BY <1>1, <1>2 DEF PoolAgrees, AgreementInv, ExclusiveDelegation
  <1>5. CASE ApplyFails(t)
    <2>1. UNCHANGED dbEnvs /\ \A u \in Tasks : task'[u].phase = "idle"
      BY <1>5, OnlyTask DEF ApplyFails, Idle
    <2> QED
      BY <1>1, <1>3, <1>4, <2>1 DEF PendingAgrees, MadeFits, CopyAgrees, AgreementInv
  <1>6. CASE ApplySave(t)
    <2>1. task[t] \in [phase : {"save", "insert"}, op : {"apply"}, env : EnvIds,
                       made : Environments, spare : SUBSET Agents]
      BY <1>1, TaskShapes
    <2>2. \A u \in Tasks : u = t /\ task'[u] = [task[t] EXCEPT !.phase = "insert"]
      BY <1>6, OnlyTask DEF ApplySave
    <2>3. /\ task'[t].phase = "insert" /\ task'[t].env = task[t].env
          /\ task'[t].made = task[t].made /\ task'[t].spare = task[t].spare
      BY <2>1, <2>2
    <2>4. dbEnvs' = Put(envs, task[t].env, task[t].made)
      BY <1>3, <1>6 DEF ApplySave, Put
    <2>5. MadeFits'
      BY <1>1, <2>2, <2>3 DEF AgreementInv, MadeFits
    <2>6. PendingAgrees'
      BY <2>2, <2>3 DEF PendingAgrees
    <2>7. CopyAgrees'
      BY <1>1, <2>2, <2>3, <2>4 DEF CopyAgrees
    <2> QED
      BY <1>4, <2>5, <2>6, <2>7 DEF AgreementInv
  <1> QED
    BY <1>5, <1>6

LEMMA AgreeInsert ==
    ASSUME TypeOK, OneTask, AgreementInv, NEW t \in Tasks, ApplyInsert(t)
    PROVE  AgreementInv'
  <1> DEFINE e == task[t].env
             made == task[t].made
             spare == task[t].spare
             w == [a \in spare |-> Inventory]
  <1>1. /\ task[t].phase = "insert" /\ UNCHANGED <<dbEnvs, pool>> /\ envs' = Put(envs, e, made)
        /\ \A u \in Tasks : u = t /\ task'[u] = [phase |-> "write", op |-> "apply", env |-> e,
                                                 made |-> made, pending |-> w]
    BY OnlyTask DEF ApplyInsert, Put
  <1>2. /\ DOMAIN envs' = DOMAIN envs \cup {e} /\ envs'[e] = made
        /\ \A f \in DOMAIN envs : f # e => envs'[f] = envs[f]
    BY <1>1 DEF Put
  <1>3. DOMAIN w = spare /\ \A a \in spare : w[a] = Inventory
    OBVIOUS
  <1>4. /\ Range(made.peers) \cap spare = {}
        /\ e \in DOMAIN envs => Range(envs[e].peers) \subseteq Range(made.peers) \cup spare
        /\ \A f \in DOMAIN envs : f # e => Range(envs[f].peers) \cap (Range(made.peers) \cup spare) = {}
    BY <1>1 DEF AgreementInv, MadeFits
  <1>5. envs' \in Partial(EnvIds, Environments)
    BY StepTypes DEF TypeOK, Next, Continue
  <1>6. \A a \in Agents : AgreesWith(envs, pool[a], a)
    BY <1>1, AllAgree DEF Owes, AgreementInv
  <1> HIDE DEF w, e, made, spare
  <1>7. ExclusiveDelegation'
    BY <1>2, <1>4 DEF AgreementInv, ExclusiveDelegation
  <1>8. ASSUME NEW a \in Agents, a \notin Range(made.peers) \cup spare
        PROVE  AgreesWith(envs', pool[a], a)
    <2>1. \A f \in EnvIds, k \in Keys : PeerIn(envs', a, f, k) <=> PeerIn(envs, a, f, k)
      <3> TAKE f \in EnvIds, k \in Keys
      <3>1. CASE f # e
        BY <1>2, <3>1 DEF PeerIn
      <3>2. CASE f = e
        BY <1>2, <1>4, <1>8, <3>2, RangeMeans DEF PeerIn
      <3> QED
        BY <3>1, <3>2
    <2> QED
      BY <1>6, <2>1 DEF AgreesWith
  <1>9. PoolAgrees'
    BY <1>1, <1>3, <1>8 DEF PoolAgrees, Owes
  <1>10. \A a \in spare : AgreesWith(envs', w[a], a)
    <2>1. \A a \in spare : Unserved(envs', a)
      BY <1>2, <1>4 DEF Unserved
    <2> QED
      BY <1>3, <1>5, <2>1, InventoryAgrees
  <1>11. PendingAgrees'
    BY <1>1, <1>2, <1>3, <1>10 DEF PendingAgrees
  <1>12. dbEnvs = envs'
    BY <1>1 DEF AgreementInv, CopyAgrees, e, made
  <1>13. CopyAgrees' /\ MadeFits'
    BY <1>1, <1>12 DEF CopyAgrees, MadeFits
  <1> QED
    BY <1>7, <1>9, <1>11, <1>13 DEF AgreementInv

LEMMA AgreeEmit ==
    ASSUME TypeOK, OneTask, PeersInjective, AgreementInv, NEW t \in Tasks, ApplyEmit(t)
    PROVE  AgreementInv'
  <1> DEFINE e == task[t].env
             peers == task[t].made.peers
             heights == task[t].made.heights
             KeyOf(a) == CHOOSE k \in DOMAIN peers : peers[k] = a
             height(a) == ResolveHeight(e, pool[a], heights[KeyOf(a)])
             w == [a \in Range(peers) |-> Node(e, KeyOf(a), height(a))]
  <1>1. /\ task[t].phase = "emit" /\ UNCHANGED <<envs, dbEnvs, pool>>
        /\ \A u \in Tasks : u = t /\ task'[u] = [phase |-> "write", op |-> "emitted", pending |-> w]
    BY OnlyTask DEF ApplyEmit
  <1>2. e \in DOMAIN envs /\ envs[e].peers = peers
    BY <1>1 DEF AgreementInv, PendingAgrees
  <1>3. \A a \in Range(peers) : KeyOf(a) \in DOMAIN peers /\ peers[KeyOf(a)] = a
    BY RangeMeans
  <1>4. DOMAIN w = Range(peers) /\ \A a \in Range(peers) : w[a] = Node(e, KeyOf(a), height(a))
    OBVIOUS
  <1> HIDE DEF w, KeyOf, height, peers, e
  <1>5. \A a \in DOMAIN w : AgreesWith(envs, w[a], a)
    <2> SUFFICES ASSUME NEW a \in DOMAIN w
                 PROVE  AgreesWith(envs, w[a], a)
      OBVIOUS
    <2>1. KeyOf(a) \in DOMAIN envs[e].peers /\ envs[e].peers[KeyOf(a)] = a
      BY <1>2, <1>3, <1>4
    <2>2. AgreesWith(envs, Node(e, KeyOf(a), height(a)), envs[e].peers[KeyOf(a)])
      BY <1>2, <2>1, PeerAgrees DEF AgreementInv
    <2> QED
      BY <1>4, <2>1, <2>2
  <1>6. PoolAgrees'
    BY <1>1, <1>4 DEF AgreementInv, PoolAgrees, Owes, peers
  <1>7. PendingAgrees' /\ MadeFits'
    BY <1>1, <1>5 DEF PendingAgrees, MadeFits
  <1>8. CopyAgrees' /\ ExclusiveDelegation'
    BY <1>1 DEF AgreementInv, CopyAgrees, ExclusiveDelegation
  <1> QED
    BY <1>6, <1>7, <1>8 DEF AgreementInv

LEMMA AgreeCleanup ==
    ASSUME TypeOK, OneTask, AgreementInv, NEW t \in Tasks,
           (\E e \in EnvIds : Cleanup(t, e)) \/ CleanupDelete(t)
    PROVE  AgreementInv'
  <1>1. ASSUME NEW e \in EnvIds, Cleanup(t, e)
        PROVE  AgreementInv'
    <2> DEFINE peers == envs[e].peers
    <2>1. /\ task[t] = Idle /\ UNCHANGED <<dbEnvs, pool>> /\ e \in DOMAIN envs
          /\ envs' = Restrict(envs, DOMAIN envs \ {e})
          /\ \A u \in Tasks : u = t /\ task'[u] = [phase |-> "delete", env |-> e, peers |-> peers]
      BY <1>1, OnlyTask DEF Cleanup, Free
    <2>2. DOMAIN envs' = DOMAIN envs \ {e} /\ \A f \in DOMAIN envs' : envs'[f] = envs[f]
      BY <2>1, RestrictIsPartial DEF TypeOK
    <2>3. \A a \in Agents : AgreesWith(envs, pool[a], a)
      BY <2>1, AllAgree DEF Owes, Idle, AgreementInv
    <2>4. \A a \in Range(peers) : Unserved(envs', a)
      BY <2>1, <2>2 DEF AgreementInv, ExclusiveDelegation, Unserved
    <2>5. ExclusiveDelegation'
      BY <2>2 DEF AgreementInv, ExclusiveDelegation
    <2>6. ASSUME NEW a \in Agents, a \notin Range(peers)
          PROVE  AgreesWith(envs', pool[a], a)
      <3>1. \A f \in EnvIds, k \in Keys : PeerIn(envs', a, f, k) <=> PeerIn(envs, a, f, k)
        BY <2>2, <2>6, RangeMeans DEF PeerIn
      <3> QED
        BY <2>3, <3>1 DEF AgreesWith
    <2>7. dbEnvs = envs
      BY <2>1 DEF AgreementInv, CopyAgrees, Idle
    <2> HIDE DEF peers
    <2>8. PoolAgrees'
      <3>1. pool' = pool /\ task'[t].phase = "delete" /\ task'[t].peers = peers
        BY <2>1
      <3>2. \A a \in Range(peers) : Owes(task'[t], a)
        BY <3>1 DEF Owes
      <3> QED
        BY <2>6, <3>1, <3>2 DEF PoolAgrees
    <2>9. PendingAgrees'
      BY <2>1, <2>4 DEF PendingAgrees
    <2>10. MadeFits' /\ CopyAgrees'
      BY <2>1, <2>7 DEF MadeFits, CopyAgrees
    <2> QED
      BY <2>5, <2>8, <2>9, <2>10 DEF AgreementInv
  <1>2. CASE CleanupDelete(t)
    <2> DEFINE peers == task[t].peers
               w == [a \in Range(peers) |-> Inventory]
    <2>1. /\ task[t].phase = "delete" /\ UNCHANGED <<envs, pool>>
          /\ dbEnvs' = Restrict(dbEnvs, DOMAIN dbEnvs \ {task[t].env})
          /\ \A u \in Tasks : u = t /\ task'[u] = [phase |-> "write", op |-> "cleanup", pending |-> w]
      BY <1>2, OnlyTask DEF CleanupDelete
    <2>2. DOMAIN w = Range(peers) /\ \A a \in Range(peers) : w[a] = Inventory
      OBVIOUS
    <2> HIDE DEF w
    <2>3. \A a \in DOMAIN w : AgreesWith(envs, w[a], a)
      BY <2>1, <2>2, InventoryAgrees DEF AgreementInv, PendingAgrees, TypeOK
    <2>4. dbEnvs' = envs
      BY <2>1 DEF AgreementInv, CopyAgrees
    <2>5. PoolAgrees'
      BY <2>1, <2>2 DEF AgreementInv, PoolAgrees, Owes
    <2>6. PendingAgrees' /\ MadeFits' /\ CopyAgrees' /\ ExclusiveDelegation'
      BY <2>1, <2>3, <2>4 DEF PendingAgrees, MadeFits, CopyAgrees, AgreementInv, ExclusiveDelegation
    <2> QED
      BY <2>5, <2>6 DEF AgreementInv
  <1> QED
    BY <1>1, <1>2

\* A request that writes no map, owes what is pending or nothing, and has
\* only pending what the env map says.
LEMMA AgreePending ==
    ASSUME AgreementInv, NEW t \in Tasks, UNCHANGED <<envs, dbEnvs, pool>>,
           \A a \in Agents : ~Owes(task[t], a), task[t].phase \notin {"insert", "delete"},
           \A u \in Tasks : u = t, task'[t].phase \in {"idle", "answer", "write"},
           task'[t].phase = "write" => task'[t].op # "apply",
           task'[t].phase \in {"answer", "write"} =>
              \A a \in DOMAIN task'[t].pending : AgreesWith(envs, task'[t].pending[a], a)
    PROVE  AgreementInv'
  <1>1. PoolAgrees'
    BY DEF AgreementInv, PoolAgrees
  <1>2. PendingAgrees'
    BY DEF PendingAgrees
  <1>3. MadeFits' /\ CopyAgrees' /\ ExclusiveDelegation'
    BY DEF MadeFits, CopyAgrees, AgreementInv, ExclusiveDelegation
  <1> QED
    BY <1>1, <1>2, <1>3 DEF AgreementInv

LEMMA AgreeActions ==
    ASSUME TypeOK, OneTask, AgreementInv, NEW t \in Tasks,
           \/ ConfigAnswer(t)
           \/ \E e \in EnvIds : \/ \E k \in Keys, req \in Requests : Config(t, e, k, req)
                               \/ \E ks \in SUBSET Keys : Rewrite(t, e, ks)
    PROVE  AgreementInv'
  <1>1. ASSUME NEW e \in EnvIds, NEW k \in Keys, NEW req \in Requests, Config(t, e, k, req)
        PROVE  AgreementInv'
    <2> DEFINE a == envs[e].peers[k]
               s == pool[a]
               new == IF IsNode(s) THEN Node(s.env, s.key, <<s.height[1] + 1, req>>) ELSE s
               w == [b \in {a} |-> new]
    <2>1. /\ UNCHANGED <<envs, dbEnvs, pool>> /\ task[t] = Idle
          /\ \A u \in Tasks : u = t /\ task'[u] = [phase |-> "answer", op |-> "config", pending |-> w]
      BY <1>1, OnlyTask DEF Config, Free
    <2>2. a \in Agents
      BY <1>1, EnvAt, EnvShape DEF Config
    <2>3. DOMAIN w = {a} /\ w[a] = new
      OBVIOUS
    <2>4. AgreesWith(envs, s, a)
      BY <2>1, <2>2, AllAgree DEF Owes, Idle, AgreementInv
    <2> HIDE DEF a, s
    <2>5. AgreesWith(envs, new, a)
      BY <2>4 DEF AgreesWith, Node, IsNode
    <2> HIDE DEF w, new
    <2> QED
      BY <2>1, <2>3, <2>5, AgreePending DEF Owes, Idle
  <1>2. ASSUME NEW e \in EnvIds, NEW ks \in SUBSET Keys, Rewrite(t, e, ks)
        PROVE  AgreementInv'
    <2> DEFINE agents == {envs[e].peers[k] : k \in ks \cap DOMAIN envs[e].peers}
               U == {a \in agents : IsNode(pool[a])}
               w == Restrict(pool, U)
    <2>1. agents \subseteq Agents
      BY <1>2, EnvAt, EnvShape DEF Rewrite
    <2>2. /\ UNCHANGED <<envs, dbEnvs, pool>> /\ task[t] = Idle
          /\ \A u \in Tasks : u = t /\ task'[u] = [phase |-> "write", op |-> "rewrite", pending |-> w]
      BY <1>2, OnlyTask DEF Rewrite, Free
    <2>3. DOMAIN w \subseteq Agents /\ \A a \in DOMAIN w : w[a] = pool[a]
      BY <2>1 DEF Restrict
    <2>4. \A a \in Agents : AgreesWith(envs, pool[a], a)
      BY <2>2, AllAgree DEF Owes, Idle, AgreementInv
    <2> HIDE DEF w
    <2> QED
      BY <2>2, <2>3, <2>4, AgreePending DEF Owes, Idle
  <1>3. CASE ConfigAnswer(t)
    <2>1. /\ task[t].phase = "answer"
          /\ task[t] \in [phase : {"answer", "write"}, op : {"config"}, pending : Pendings]
      BY <1>3, TaskShapes DEF ConfigAnswer
    <2>2. /\ UNCHANGED <<envs, dbEnvs, pool>>
          /\ \A u \in Tasks : u = t /\ task'[u] \in {Idle, [task[t] EXCEPT !.phase = "write"]}
      BY <1>3, OnlyTask DEF ConfigAnswer
    <2>3. \/ task'[t].phase = "idle"
          \/ task'[t].phase = "write" /\ task'[t].op = "config" /\ task'[t].pending = task[t].pending
      BY <2>1, <2>2 DEF Idle
    <2>4. \A a \in DOMAIN task[t].pending : AgreesWith(envs, task[t].pending[a], a)
      BY <2>1 DEF AgreementInv, PendingAgrees
    <2> QED
      BY <2>1, <2>2, <2>3, <2>4, AgreePending DEF Owes
  <1> QED
    BY <1>1, <1>2, <1>3

LEMMA AgreeWrite ==
    ASSUME TypeOK, OneTask, AgreementInv, NEW t \in Tasks, Write(t) \/ Written(t)
    PROVE  AgreementInv'
  <1>1. task[t].phase = "write" /\ UNCHANGED <<envs, dbEnvs>>
    BY DEF Write, Written
  <1>2. \A a \in DOMAIN task[t].pending : AgreesWith(envs, task[t].pending[a], a)
    BY <1>1 DEF AgreementInv, PendingAgrees
  <1>3. dbEnvs = envs
    BY <1>1 DEF AgreementInv, CopyAgrees, OneTask
  <1>4. task[t].op = "apply" => task[t].env \in DOMAIN envs /\ envs[task[t].env] = task[t].made
    BY <1>1 DEF AgreementInv, PendingAgrees
  <1>5. CASE Write(t)
    <2>1. PICK a \in DOMAIN task[t].pending :
            /\ pool' = [pool EXCEPT ![a] = task[t].pending[a]]
            /\ Become(t, [task[t] EXCEPT !.pending = Restrict(@, DOMAIN @ \ {a})])
      BY <1>5 DEF Write
    <2> DEFINE w == Restrict(task[t].pending, DOMAIN task[t].pending \ {a})
    <2>2. DOMAIN w = DOMAIN task[t].pending \ {a} /\ \A b \in DOMAIN w : w[b] = task[t].pending[b]
      BY DEF Restrict
    <2>3. \A u \in Tasks : u = t /\ task'[u] = [task[t] EXCEPT !.pending = w]
      BY <2>1, OnlyTask
    <2> HIDE DEF w
    <2>4. /\ task'[t].phase = "write" /\ task'[t].pending = w /\ task'[t].op = task[t].op
          /\ task[t].op = "apply" => task'[t].env = task[t].env /\ task'[t].made = task[t].made
      BY <1>1, <2>3, TaskShapes
    <2>5. ASSUME NEW b \in Agents
          PROVE  AgreesWith(envs, pool'[b], b) \/ Owes(task'[t], b)
      <3>1. CASE b = a
        BY <1>2, <2>1, <3>1 DEF TypeOK
      <3>2. CASE b # a
        <4>1. pool'[b] = pool[b]
          BY <2>1, <3>2 DEF TypeOK
        <4>2. AgreesWith(envs, pool[b], b) \/ Owes(task[t], b)
          BY DEF AgreementInv, PoolAgrees, OneTask
        <4> QED
          BY <1>1, <2>2, <2>4, <3>2, <4>1, <4>2 DEF Owes
      <3> QED
        BY <3>1, <3>2
    <2>6. PoolAgrees'
      BY <1>1, <2>5 DEF PoolAgrees
    <2>7. PendingAgrees'
      BY <1>1, <1>2, <1>4, <2>2, <2>3, <2>4 DEF PendingAgrees
    <2>8. MadeFits' /\ CopyAgrees' /\ ExclusiveDelegation'
      BY <1>1, <1>3, <2>3, <2>4 DEF MadeFits, CopyAgrees, AgreementInv, ExclusiveDelegation
    <2> QED
      BY <2>6, <2>7, <2>8 DEF AgreementInv
  <1>6. CASE Written(t)
    <2>1. UNCHANGED pool /\ task[t].pending = EmptyFun
      BY <1>6 DEF Written
    <2>2. CASE task[t].op = "apply"
      <3>1. task[t] \in [phase : {"write", "emit"}, op : {"apply"}, env : EnvIds,
                         made : Environments, pending : Pendings]
        BY <1>1, <2>2, TaskShapes
      <3>2. \A u \in Tasks : u = t /\ task'[u] = [task[t] EXCEPT !.phase = "emit"]
        BY <1>6, <2>2, OnlyTask DEF Written
      <3>3. task'[t].phase = "emit" /\ task'[t].env = task[t].env /\ task'[t].made = task[t].made
        BY <3>1, <3>2
      <3>4. PoolAgrees'
        BY <1>1, <2>1, <3>2, <3>3, EmptyIsPartial DEF AgreementInv, PoolAgrees, Owes
      <3>5. PendingAgrees'
        BY <1>1, <1>4, <2>2, <3>2, <3>3 DEF PendingAgrees
      <3>6. MadeFits' /\ CopyAgrees' /\ ExclusiveDelegation'
        BY <1>1, <1>3, <3>2, <3>3 DEF MadeFits, CopyAgrees, AgreementInv, ExclusiveDelegation
      <3> QED
        BY <3>4, <3>5, <3>6 DEF AgreementInv
    <2>3. CASE task[t].op # "apply"
      <3>1. \A u \in Tasks : u = t /\ task'[u].phase = "idle"
        BY <1>6, <2>3, OnlyTask DEF Written, Idle
      <3>2. \A a \in Agents : ~Owes(task[t], a)
        BY <1>1, <2>1, <2>3, EmptyIsPartial DEF Owes
      <3> QED
        BY <1>1, <2>1, <3>1, <3>2, AgreePending
    <2> QED
      BY <2>2, <2>3
  <1> QED
    BY <1>5, <1>6

LEMMA AgreeAgents ==
    ASSUME TypeOK, AgreementInv, ~Takeovers, ~Crashes,
           (\E a \in Agents : AgentStep(a)) \/ Restart \/ UNCHANGED vars
    PROVE  AgreementInv'
  <1>1. ASSUME UNCHANGED <<envs, dbEnvs, task>>,
               \A a \in Agents : pool'[a] = pool[a] \/ \E t \in Tasks : Owes(task[t], a)
        PROVE  AgreementInv'
    BY <1>1 DEF AgreementInv, PoolAgrees, PendingAgrees, MadeFits, CopyAgrees, ExclusiveDelegation
  <1>2. ASSUME NEW a \in Agents, Reconnect(a)
        PROVE  AgreementInv'
    <2>1. UNCHANGED <<envs, dbEnvs, task>> /\ \A b \in Agents : b # a => pool'[b] = pool[b]
      BY <1>2 DEF Reconnect, TypeOK
    <2>2. CASE AgreesWith(envs, pool[a], a)
      <3>1. ~(IsNode(pool[a]) /\ pool[a].env \notin DOMAIN envs)
        BY <2>2, StateShape DEF AgreesWith, PeerIn, TypeOK
      <3>2. pool' = pool
        BY <1>2, <3>1 DEF Reconnect
      <3> QED
        BY <1>1, <2>1, <3>2
    <2>3. CASE \E t \in Tasks : Owes(task[t], a)
      BY <1>1, <2>1, <2>3
    <2> QED
      BY <2>2, <2>3 DEF AgreementInv, PoolAgrees
  <1>3. CASE (\E a \in Agents : Disconnect(a)) \/ UNCHANGED vars
    <2>1. UNCHANGED <<envs, dbEnvs, task, pool>>
      BY <1>3 DEF Disconnect, vars
    <2> QED
      BY <1>1, <2>1
  <1> QED
    BY <1>2, <1>3 DEF AgentStep, Takeover, Restart

LEMMA AgreementStep ==
    ASSUME TypeOK, OneTask, ~Takeovers, ~Crashes, PeersInjective, AgreementInv, [Next]_vars
    PROVE  AgreementInv'
  <1>1. ASSUME NEW t \in Tasks, Start(t)
        PROVE  AgreementInv'
    BY <1>1, AgreeApply, AgreeCleanup, AgreeActions DEF Start
  <1>2. ASSUME NEW t \in Tasks, Continue(t) \/ ApplyFails(t)
        PROVE  AgreementInv'
    BY <1>2, AgreeSave, AgreeInsert, AgreeEmit, AgreeCleanup, AgreeActions, AgreeWrite DEF Continue
  <1> QED
    BY <1>1, <1>2, AgreeAgents DEF Next

LEMMA AgreementInit == Init => AgreementInv
  <1> SUFFICES ASSUME Init
               PROVE  AgreementInv
    OBVIOUS
  <1>1. DOMAIN envs = {} /\ dbEnvs = envs /\ envs \in Partial(EnvIds, Environments)
    BY EmptyIsPartial DEF Init
  <1>2. \A a \in Agents : AgreesWith(envs, pool[a], a)
    BY <1>1, InventoryAgrees DEF Init, Unserved
  <1> QED
    BY <1>1, <1>2 DEF Init, Idle, AgreementInv, ExclusiveDelegation, PoolAgrees,
                      PendingAgrees, MadeFits, CopyAgrees

LEMMA AgreementHolds ==
    ASSUME TypeOK, AgreementInv
    PROVE  Agreement /\ ExclusiveDelegation
  <1>1. ASSUME Quiet
        PROVE  dbEnvs = envs /\ \A a \in Agents : AgreesWith(envs, pool[a], a)
    BY <1>1 DEF Quiet, Free, Idle, AgreementInv, CopyAgrees, PoolAgrees, Owes
  <1> QED
    BY <1>1 DEF Agreement, AgreesWith, PeerIn, AgreementInv

\* Requests served one at a time, no id taken over and no restart: between
\* requests an agent is the node of a key exactly when the environment maps the
\* key to it, and at no moment do two environments have the same agent.
THEOREM EnvironmentsAgree ==
    ASSUME OneTask, ~Takeovers, ~Crashes
    PROVE  Spec => [](Agreement /\ ExclusiveDelegation)
  <1>1. TypeOK /\ PeersInjective /\ AgreementInv /\ [Next]_vars => AgreementInv'
    BY AgreementStep
  <1>2. TypeOK /\ AgreementInv => Agreement /\ ExclusiveDelegation
    BY AgreementHolds
  <1> QED
    BY <1>1, <1>2, AgreementInit, LifecycleTypeCorrect, NodesShareNoAgent, PTL DEF Spec

\* AgreementInTurn: the same of the run, in the scenario whose requests are
\* served one at a time, for any agents and documents it is given.
THEOREM ScenariosAgree ==
    ASSUME OneTask, ~Takeovers, ~Crashes
    PROVE  MCSpec => []AgreementInTurn
  <1> DEFINE Inv == TypeOK /\ PeersInjective /\ MadeInjective /\ AgreementInv
  <1>1. MCInit => (InTurn => Inv)
    <2>1. Init => PeersInjective /\ MadeInjective
      BY DEF Init, EmptyFun, Idle, PeersInjective, MadeInjective
    <2> QED
      BY <2>1, InitTypes, AgreementInit DEF MCInit, InTurn, Restarting
  <1>2. (InTurn => Inv) /\ [MCNext]_<<vars, scenario>> => (InTurn => Inv)'
    <2> SUFFICES ASSUME InTurn => Inv, [MCNext]_<<vars, scenario>>, InTurn'
                 PROVE  Inv'
      OBVIOUS
    <2>1. InTurn /\ [Next]_vars
      BY DEF MCNext, InTurn, Restarting
    <2> QED
      BY <2>1, StepTypes, InjectiveStep, AgreementStep
  <1>3. (InTurn => Inv) => AgreementInTurn
    BY AgreementHolds DEF AgreementInTurn
  <1> QED
    BY <1>1, <1>2, <1>3, PTL DEF MCSpec
=============================================================================
