---------------------------- MODULE NetworkCache ----------------------------
(***************************************************************************)
(* The control plane's cache of an environment's blocks                    *)
(* (controlplane/src/env/cache.rs), what fills it (post_block_status of    *)
(* server/rpc.rs, block_info_task of state/external_peers.rs), and the     *)
(* queries answered from what agents reported (GlobalState::snarkos_get).  *)
(*                                                                         *)
(* Blocks are the blocks of one network, forks included: an agent whose    *)
(* ledger was rewound builds another block at the same height.             *)
(***************************************************************************)
EXTENDS Naturals, FiniteSetsExt

CONSTANTS
    Blocks,       \* block hashes
    Height,       \* [Blocks -> Nat]
    Minted,       \* [Blocks -> Nat]: the timestamp of a block
    Content,      \* [Blocks -> SUBSET Txs]
    Txs,
    Agents,       \* internal nodes of the environment, one agent each
    Externals,    \* external nodes with a rest address
    Provers,      \* the nodes whose key says prover
    Range10,      \* MAX_BLOCK_RANGE
    CullAge,      \* MAX_CULL_AGE, in rounds of the invalidation task
    MaxBlockAge, MaxUpdateAge, Indifference,   \* the constants of score
    Now,          \* the time of the queries; rounds are short against a block's age
    MaxFailures,  \* bound on the count of failures of a peer
    None

ASSUME NetworkCacheAssumption ==
    /\ Height \in [Blocks -> Nat] /\ Minted \in [Blocks -> Nat]
    /\ Content \in [Blocks -> SUBSET Txs]
    /\ Provers \subseteq Agents \cup Externals /\ Agents \cap Externals = {}
    /\ {Range10, CullAge, MaxBlockAge, MaxUpdateAge, Indifference, Now, MaxFailures} \subseteq Nat
    /\ Indifference <= MaxUpdateAge
    /\ None \notin Blocks \cup Agents \cup Externals \cup Nat

VARIABLES
    env,       \* GlobalState.envs has the environment
    cache,     \* GlobalState.env_network_cache of its id, or None
    agents,    \* the pool: is the agent a node of the id, is its socket up, block_info
    fetching,  \* [Agents -> Blocks or None]: get_snarkos_block_lite under way
    asked,     \* the external peers block_info_task waits for, or None
    missed     \* ghost: blocks nobody could be asked for, whose fetch failed, or that
               \* were culled

vars == <<env, cache, agents, fetching, asked, missed>>

\* NetworkCache::default.  The map of block infos keeps the age of the
\* entry; entries are the blocks whose transactions are known.
Fresh == [latest |-> None, blocks |-> <<>>, entries |-> {}, lookup |-> <<>>,
          heights |-> <<>>, infos |-> <<>>, failed |-> <<>>]

\* A map without some of its keys, and with a pair.
Without(f, S) == [x \in DOMAIN f \ S |-> f[x]]
With(f, x, y) == [z \in DOMAIN f \cup {x} |-> IF z = x THEN y ELSE f[z]]

----------------------------------------------------------------------------
(* The operations of the cache.                                            *)

\* update_latest_info: whether the block is newer than the latest one.
IsNewer(c, b) ==
    IF c.latest = None THEN TRUE ELSE Minted[c.latest] < Minted[b]
UpdateLatest(c, b) == IF IsNewer(c, b) THEN [c EXCEPT !.latest = b] ELSE c

Saturating(x, y) == IF x > y THEN x - y ELSE 0

\* Mutant: the range is counted from the height that is asked about.
IsRecentUpwards(c, h) == c.latest # None /\ Saturating(h, Range10) > Height[c.latest]
IsRecent(c, h) ==
    IF c.latest = None THEN FALSE ELSE Saturating(Height[c.latest], Range10) < h

\* Inserting into the BiHashMap drops both pairs the new one overlaps.
Overlaps(c, b) == {h \in DOMAIN c.heights : h = Height[b] \/ c.heights[h] = b}

AddBlock(c, b) ==
    [c EXCEPT !.heights = With(Without(@, Overlaps(c, b)), Height[b], b),
              !.lookup = [t \in DOMAIN @ \cup Content[b] |->
                             IF t \in Content[b] THEN b ELSE @[t]],
              !.entries = @ \cup {b},
              !.blocks = With(@, b, 0)]

\* Mutant: the transactions of the block stay in the lookup.
RemovedButFound(c, S) ==
    [c EXCEPT !.heights = Without(@, {h \in DOMAIN @ : @[h] \in S}),
              !.entries = @ \ S, !.blocks = Without(@, S)]
RemoveBlocks(c, S) ==
    [c EXCEPT !.heights = Without(@, {h \in DOMAIN @ : @[h] \in S}),
              !.entries = @ \ S,
              !.lookup = Without(@, {t \in DOMAIN @ : @[t] \in S}),
              !.blocks = Without(@, S)]

Stale(c) == {b \in DOMAIN c.blocks : c.blocks[b] > CullAge}

\* update_peer_req.  The penalty is last_success - last_attempt, never more
\* than zero, so has_penalty never holds.
Aged(n, most) == IF n < most THEN n + 1 ELSE most
Attempted(c, S, successes) ==
    [c EXCEPT !.failed =
        [p \in DOMAIN @ \cup S |->
            IF p \notin S THEN @[p]
            ELSE IF p \in successes THEN 0
            ELSE Aged(IF p \in DOMAIN @ THEN @[p] ELSE 0, MaxFailures)]]
IsPenalized(c, p) == FALSE

----------------------------------------------------------------------------
(* The environment and its agents.                                         *)

Init ==
    /\ env = FALSE /\ cache = None
    /\ agents = [a \in Agents |-> [node |-> FALSE, online |-> TRUE, info |-> None, age |-> 0]]
    /\ fetching = [a \in Agents |-> None]
    /\ asked = None /\ missed = {}

\* insert_env, at the end of an apply: the cache starts anew.
InsertEnv ==
    /\ env' = TRUE /\ cache' = Fresh /\ missed' = {}
    /\ UNCHANGED <<agents, fetching, asked>>

\* remove_env; the agents go back to the inventory in later steps.
RemoveEnv ==
    /\ env
    /\ env' = FALSE /\ cache' = None
    /\ UNCHANGED <<agents, fetching, asked, missed>>

\* update_agent_states of a delegation; and of a cleanup, or of an apply that
\* drops the node from an environment that lives on.  What was reported stays.
Delegate(a) ==
    /\ ~agents[a].node /\ env
    /\ agents' = [agents EXCEPT ![a].node = TRUE]
    /\ UNCHANGED <<env, cache, fetching, asked, missed>>
Release(a) ==
    /\ agents[a].node
    /\ agents' = [agents EXCEPT ![a].node = FALSE]
    /\ UNCHANGED <<env, cache, fetching, asked, missed>>

Disconnect(a) ==
    /\ agents[a].online
    /\ agents' = [agents EXCEPT ![a].online = FALSE]
    /\ UNCHANGED <<env, cache, fetching, asked, missed>>

\* The agent comes back with its token, and is no node of an environment that
\* is gone...
Connect(a) ==
    /\ ~agents[a].online
    /\ agents' = [agents EXCEPT ![a].online = TRUE, ![a].node = @ /\ env]
    /\ UNCHANGED <<env, cache, fetching, asked, missed>>

\* ...or without it: it is made anew, with an empty status.
Takeover(a) ==
    /\ ~agents[a].online
    /\ agents' = [agents EXCEPT ![a] = [node |-> FALSE, online |-> TRUE, info |-> None, age |-> 0]]
    /\ UNCHANGED <<env, cache, fetching, asked, missed>>

\* The control plane starts again: states of agents are loaded, what they
\* reported is not; the load of an environment makes its cache anew, and
\* agents of no environment go to the inventory.
Restart ==
    /\ cache' = IF env THEN Fresh ELSE None
    /\ agents' = [a \in Agents |-> [node |-> agents[a].node /\ env, online |-> FALSE,
                                    info |-> None, age |-> 0]]
    /\ fetching' = [a \in Agents |-> None]
    /\ asked' = None /\ missed' = {}
    /\ UNCHANGED env

----------------------------------------------------------------------------
(* post_block_status: an agent's node reports the head of its ledger.  The *)
(* lock on the agent is dropped before the cache is touched, and the cache *)
(* of an id that has none is created.                                      *)

Wanted(c, b) == IsNewer(c, b) /\ b \notin c.entries /\ IsRecent(UpdateLatest(c, b), Height[b])

PostBlock(a, b) ==
    LET c == IF cache = None THEN Fresh ELSE cache
    IN /\ agents[a].node /\ agents[a].online /\ fetching[a] = None
       /\ agents' = [agents EXCEPT ![a].info = b, ![a].age = 0]
       /\ cache' = UpdateLatest(c, b)
       /\ fetching' = [fetching EXCEPT ![a] = IF Wanted(c, b) THEN b ELSE None]
       /\ UNCHANGED <<env, asked, missed>>

\* The socket ended while the report was under way: there is no client to ask
\* for the block, which is the latest all the same.
PostUnheard(a, b) ==
    LET c == IF cache = None THEN Fresh ELSE cache
    IN /\ agents[a].node /\ ~agents[a].online
       /\ agents' = [agents EXCEPT ![a].info = b, ![a].age = 0]
       /\ cache' = UpdateLatest(c, b)
       /\ missed' = missed \cup (IF Wanted(c, b) THEN {b} ELSE {})
       /\ UNCHANGED <<env, fetching, asked>>

\* get_snarkos_block_lite returns: the block goes into whatever cache the id
\* has by now; a failure, or a ledger without the block, is only logged.
Fetched(a) ==
    LET b == fetching[a]
    IN /\ b # None
       /\ cache' = IF cache = None THEN None ELSE AddBlock(cache, b)
       /\ fetching' = [fetching EXCEPT ![a] = None]
       /\ UNCHANGED <<env, agents, asked, missed>>
FetchFails(a) ==
    /\ fetching[a] # None
    /\ missed' = missed \cup {fetching[a]}
    /\ fetching' = [fetching EXCEPT ![a] = None]
    /\ UNCHANGED <<env, cache, agents, asked>>

----------------------------------------------------------------------------
(* invalidation_task, every minute over every cache, and the time between  *)
(* two of its rounds.                                                      *)

\* Mutant: only the caches of environments that exist are visited.
InvalidateLiving(c) == IF c = None THEN None ELSE IF env THEN RemoveBlocks(c, Stale(c)) ELSE c
Invalidated(c) == IF c = None THEN None ELSE RemoveBlocks(c, Stale(c))

Round ==
    /\ cache' = LET c == Invalidated(cache)
                IN IF c = None THEN None
                   ELSE [c EXCEPT !.blocks = [b \in DOMAIN @ |-> Aged(@[b], CullAge + 1)]]
    /\ agents' = [a \in Agents |->
                     IF agents[a].info = None THEN agents[a]
                     ELSE [agents[a] EXCEPT !.age = Aged(@, MaxUpdateAge)]]
    /\ missed' = missed \cup (IF cache = None THEN {} ELSE Stale(cache))
    /\ UNCHANGED <<env, fetching, asked>>

----------------------------------------------------------------------------
(* block_info_task.                                                        *)

\* The answer of a snarkOS node to a route, as JSON.
KindOfAnswer(route) ==
    IF route = "/block/height/latest" THEN "number" ELSE "string"

\* get_block_hash_for_peer asks for the hash twice: as_u64 of the second
\* answer is None whatever the peer says.
HashForPeer(answers) ==
    /\ answers
    /\ KindOfAnswer("/block/hash/latest") = "string"
    /\ KindOfAnswer("/block/hash/latest") = "number"

\* get_all_external_peers.
ExternalPeers ==
    IF env /\ cache # None THEN {p \in Externals : ~IsPenalized(cache, p)} ELSE {}

AskExternals ==
    /\ asked = None
    /\ asked' = ExternalPeers
    /\ UNCHANGED <<env, cache, agents, fetching, missed>>

\* The answers of the peers of answering are in.  A peer whose hash and
\* height are known would go on to blocks_pending_request.
Answered(answering) ==
    /\ asked # None
    /\ LET hashed == {p \in asked : HashForPeer(p \in answering)}
       IN cache' = IF cache = None THEN None
                   ELSE Attempted(cache, asked, hashed)
    /\ asked' = None
    /\ UNCHANGED <<env, agents, fetching, missed>>

----------------------------------------------------------------------------
(* Queries: GlobalState::get_scored_peers and snarkos_get.                 *)

\* LatestBlockInfo::score, of a block and the age of the report.
Score(b, age) ==
    LET half == MaxUpdateAge \div 2
        blockAge == Min({Saturating(Now, Minted[b]), MaxBlockAge})
        fresh == Min({MaxUpdateAge - age, MaxUpdateAge - Indifference})
    IN Saturating((MaxBlockAge - blockAge) * half + fresh, half)

\* get_scored_peers: provers and agents that are no nodes are left out.
Peers ==
    IF ~env THEN {}
    ELSE {p \in (Agents \cup Externals) \ Provers : p \in Agents => agents[p].node}
InfoOf(p) ==
    IF p \in Agents THEN agents[p].info
    ELSE IF cache # None /\ p \in DOMAIN cache.infos THEN cache.infos[p] ELSE None
ScoreOf(p) ==
    IF p \in Agents THEN IF InfoOf(p) = None THEN 0 ELSE Score(InfoOf(p), agents[p].age)
    ELSE IF InfoOf(p) = None THEN 0 ELSE Score(InfoOf(p), 0)

AnswersFromInfo(p) == InfoOf(p) # None

\* snarkos_get of the latest height (or hash, or state root): the peers are
\* walked in the order of their scores, the lowest first; the first that
\* has reported a block answers, unless one before it answers the request.
\* The outcome is that peer with its block, or with None when it was asked.
Outcomes ==
    {[peer |-> p, block |-> IF AnswersFromInfo(p) THEN InfoOf(p) ELSE None] :
        p \in {q \in Peers :
                 \A r \in Peers \ {q} : AnswersFromInfo(r) => ScoreOf(q) <= ScoreOf(r)}}
    \cup (IF \E p \in Peers : AnswersFromInfo(p) THEN {}
          ELSE {[peer |-> None, block |-> None]})

----------------------------------------------------------------------------
Next ==
    \/ InsertEnv \/ RemoveEnv \/ Restart
    \/ \E a \in Agents :
          \/ Delegate(a) \/ Release(a) \/ Disconnect(a) \/ Connect(a) \/ Takeover(a)
          \/ \E b \in Blocks : PostBlock(a, b) \/ PostUnheard(a, b)
          \/ Fetched(a) \/ FetchFails(a)
    \/ Round
    \/ AskExternals \/ \E answering \in SUBSET Externals : Answered(answering)

Spec == Init /\ [][Next]_vars

\* invalidation_task runs for ever.
FairSpec ==
    /\ Spec
    /\ WF_vars(Round)

----------------------------------------------------------------------------
\* The type invariant.
CacheTypeOK ==
    /\ env \in BOOLEAN
    /\ agents \in [Agents -> [node : BOOLEAN, online : BOOLEAN,
                             info : Blocks \cup {None}, age : 0 .. MaxUpdateAge]]
    /\ fetching \in [Agents -> Blocks \cup {None}]
    /\ asked = None \/ asked \subseteq Externals
    /\ missed \subseteq Blocks
    /\ cache # None =>
          /\ cache = [latest |-> cache.latest, blocks |-> cache.blocks,
                      entries |-> cache.entries, lookup |-> cache.lookup,
                      heights |-> cache.heights, infos |-> <<>>, failed |-> cache.failed]
          /\ cache.latest \in Blocks \cup {None} /\ cache.entries \subseteq Blocks
          /\ cache.blocks \in [cache.entries -> 0 .. CullAge + 1]
          /\ cache.failed \in [DOMAIN cache.failed -> 0 .. MaxFailures]

\* The indexes of a cache agree with each other, through forks, blocks that
\* are added twice and removals in any order: a transaction of a cached
\* block is found, what is found is in the block it is found in, and the
\* height of a cached block leads to a cached block of that height.
IndexesAgree ==
    cache # None =>
      /\ DOMAIN cache.blocks = cache.entries
      /\ DOMAIN cache.lookup = UNION {Content[b] : b \in cache.entries}
      /\ \A t \in DOMAIN cache.lookup :
            cache.lookup[t] \in cache.entries /\ t \in Content[cache.lookup[t]]
      /\ DOMAIN cache.heights = {Height[b] : b \in cache.entries}
      /\ \A h \in DOMAIN cache.heights :
            cache.heights[h] \in cache.entries /\ Height[cache.heights[h]] = h

\* The latest block of an environment is in the cache with its transactions
\* or on its way there, whoever reported it and whatever was fetched for an
\* earlier cache of the id, and whatever becomes of the agent that reported it;
\* it is missing only after the one fetch of it failed or could not be tried, or
\* once it was culled.
LatestIsFetched ==
    (cache # None /\ cache.latest # None) =>
        \/ cache.latest \in cache.entries
        \/ \E a \in Agents : fetching[a] = cache.latest
        \/ cache.latest \in missed

\* A cached block does not stay: it is removed, also from the cache that a
\* report made for an environment that is gone.
BlocksAreCulled ==
    \A b \in Blocks :
        (cache # None /\ b \in cache.entries) ~> (cache = None \/ b \notin cache.entries)

\* A query for the latest block is answered with the freshest report:
\* "Ranking function for block info to sort competing nodes by 'freshness'".
FreshestAnswers ==
    \A o \in Outcomes : o.block # None =>
        \A p \in Peers : AnswersFromInfo(p) => ScoreOf(p) <= ScoreOf(o.peer)
=============================================================================
