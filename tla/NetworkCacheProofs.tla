------------------------- MODULE NetworkCacheProofs -------------------------
(***************************************************************************)
(* Theorems about the cache of an environment's blocks, for every set of   *)
(* blocks, forks and agents.  IndexesAgree is not inductive: culling goes  *)
(* by age, so it is safe only while an index leads to the youngest of the  *)
(* blocks it may lead to.                                                  *)
(***************************************************************************)
EXTENDS NetworkCache, TLAPS

\* The three parts of the invariant, of a cache.
TypedCache(c) ==
    /\ c = [latest |-> c.latest, blocks |-> c.blocks, entries |-> c.entries,
            lookup |-> c.lookup, heights |-> c.heights, infos |-> <<>>, failed |-> c.failed]
    /\ c.latest \in Blocks \cup {None} /\ c.entries \subseteq Blocks
    /\ c.blocks \in [c.entries -> 0 .. CullAge + 1]
    /\ c.failed \in [DOMAIN c.failed -> 0 .. MaxFailures]

AgreeingCache(c) ==
    /\ DOMAIN c.blocks = c.entries
    /\ DOMAIN c.lookup = UNION {Content[b] : b \in c.entries}
    /\ \A t \in DOMAIN c.lookup : c.lookup[t] \in c.entries /\ t \in Content[c.lookup[t]]
    /\ DOMAIN c.heights = {Height[b] : b \in c.entries}
    /\ \A h \in DOMAIN c.heights : c.heights[h] \in c.entries /\ Height[c.heights[h]] = h

\* An index leads to the youngest of the blocks with a transaction, and of
\* the blocks at a height.
YoungestCache(c) ==
    \A b \in c.entries :
        /\ \A t \in Content[b] : c.blocks[c.lookup[t]] <= c.blocks[b]
        /\ c.blocks[c.heights[Height[b]]] <= c.blocks[b]

GoodCache(c) == TypedCache(c) /\ AgreeingCache(c) /\ YoungestCache(c)

CacheInv == CacheTypeOK /\ (cache # None => GoodCache(cache))

(***************************************************************************)
(* The operations of the cache keep it good.                               *)
(***************************************************************************)

\* The empty map.
LEMMA EmptyMap == DOMAIN <<>> = {} /\ \A S : <<>> \in [{} -> S]
  OBVIOUS

\* A new cache is good.
LEMMA FreshIsGood == GoodCache(Fresh)
  <1>1. TypedCache(Fresh)
    BY EmptyMap DEF TypedCache, Fresh
  <1>2. AgreeingCache(Fresh)
    BY EmptyMap DEF AgreeingCache, Fresh
  <1>3. YoungestCache(Fresh)
    BY DEF YoungestCache, Fresh
  <1> QED
    BY <1>1, <1>2, <1>3 DEF GoodCache

\* Four fields of a cache at once, in the orders of AddBlock and RemoveBlocks.
LEMMA SetFields ==
    ASSUME NEW c, TypedCache(c), NEW b, NEW e, NEW t, NEW h
    PROVE  /\ [c EXCEPT !.heights = h, !.lookup = t, !.entries = e, !.blocks = b]
              = [latest |-> c.latest, blocks |-> b, entries |-> e, lookup |-> t,
                 heights |-> h, infos |-> <<>>, failed |-> c.failed]
           /\ [c EXCEPT !.heights = h, !.entries = e, !.lookup = t, !.blocks = b]
              = [latest |-> c.latest, blocks |-> b, entries |-> e, lookup |-> t,
                 heights |-> h, infos |-> <<>>, failed |-> c.failed]
  <1> DEFINE r(x1, x2, x3, x4) == [latest |-> c.latest, blocks |-> x1, entries |-> x2, lookup |-> x3,
                                   heights |-> x4, infos |-> <<>>, failed |-> c.failed]
  <1>1. [c EXCEPT !.heights = h] = r(c.blocks, c.entries, c.lookup, h)
    BY DEF TypedCache
  <1>2. /\ [r(c.blocks, c.entries, c.lookup, h) EXCEPT !.lookup = t] = r(c.blocks, c.entries, t, h)
        /\ [r(c.blocks, c.entries, c.lookup, h) EXCEPT !.entries = e] = r(c.blocks, e, c.lookup, h)
    OBVIOUS
  <1>3. /\ [r(c.blocks, c.entries, t, h) EXCEPT !.entries = e] = r(c.blocks, e, t, h)
        /\ [r(c.blocks, e, c.lookup, h) EXCEPT !.lookup = t] = r(c.blocks, e, t, h)
    OBVIOUS
  <1>4. [r(c.blocks, e, t, h) EXCEPT !.blocks = b] = r(b, e, t, h)
    OBVIOUS
  <1>5. [c EXCEPT !.heights = h, !.lookup = t, !.entries = e, !.blocks = b]
        = [[[[c EXCEPT !.heights = h] EXCEPT !.lookup = t] EXCEPT !.entries = e]
             EXCEPT !.blocks = b]
    OBVIOUS
  <1>6. [c EXCEPT !.heights = h, !.entries = e, !.lookup = t, !.blocks = b]
        = [[[[c EXCEPT !.heights = h] EXCEPT !.entries = e] EXCEPT !.lookup = t]
             EXCEPT !.blocks = b]
    OBVIOUS
  <1>7. r(b, e, t, h) = [latest |-> c.latest, blocks |-> b, entries |-> e, lookup |-> t,
                         heights |-> h, infos |-> <<>>, failed |-> c.failed]
    OBVIOUS
  <1> HIDE DEF r
  <1> QED
    BY <1>1, <1>2, <1>3, <1>4, <1>5, <1>6, <1>7

\* A report sets the latest block and nothing else.
LEMMA UpdateLatestGood ==
    ASSUME NEW c, GoodCache(c), NEW b \in Blocks
    PROVE  /\ GoodCache(UpdateLatest(c, b))
           /\ UpdateLatest(c, b).entries = c.entries
           /\ UpdateLatest(c, b).latest = IF IsNewer(c, b) THEN b ELSE c.latest
  <1> DEFINE u == UpdateLatest(c, b)
  <1>1. u = [latest |-> IF IsNewer(c, b) THEN b ELSE c.latest,
             blocks |-> c.blocks, entries |-> c.entries, lookup |-> c.lookup,
             heights |-> c.heights, infos |-> <<>>, failed |-> c.failed]
    BY DEF GoodCache, TypedCache, UpdateLatest
  <1> HIDE DEF u
  <1>2. /\ u.latest = IF IsNewer(c, b) THEN b ELSE c.latest
        /\ u.blocks = c.blocks /\ u.entries = c.entries /\ u.lookup = c.lookup
        /\ u.heights = c.heights /\ u.failed = c.failed
    BY <1>1
  <1>3. TypedCache(u)
    BY <1>1, <1>2 DEF GoodCache, TypedCache
  <1>4. AgreeingCache(u) /\ YoungestCache(u)
    BY <1>2 DEF GoodCache, AgreeingCache, YoungestCache
  <1> QED
    BY <1>2, <1>3, <1>4 DEF GoodCache, u

\* The attempts of external peers touch nothing but their record.
LEMMA AttemptedGood ==
    ASSUME NEW c, GoodCache(c), NEW S, NEW successes
    PROVE  /\ GoodCache(Attempted(c, S, successes))
           /\ Attempted(c, S, successes).entries = c.entries
           /\ Attempted(c, S, successes).latest = c.latest
  <1> DEFINE u == Attempted(c, S, successes)
  <1> DEFINE new(p) == IF p \notin S THEN c.failed[p]
                       ELSE IF p \in successes THEN 0
                       ELSE Aged(IF p \in DOMAIN c.failed THEN c.failed[p] ELSE 0, MaxFailures)
             failures == [p \in DOMAIN c.failed \cup S |-> new(p)]
  <1>0. u = [c EXCEPT !.failed = failures]
    BY DEF Attempted
  <1>2. \A n \in 0 .. MaxFailures : Aged(n, MaxFailures) \in 0 .. MaxFailures
    BY NetworkCacheAssumption DEF Aged
  <1>3. \A p \in DOMAIN c.failed : c.failed[p] \in 0 .. MaxFailures
    BY DEF GoodCache, TypedCache
  <1>4. failures \in [DOMAIN failures -> 0 .. MaxFailures]
    <2>0. 0 \in 0 .. MaxFailures
      BY NetworkCacheAssumption
    <2>1. ASSUME NEW p \in DOMAIN c.failed \cup S
          PROVE  new(p) \in 0 .. MaxFailures
      BY <1>2, <1>3, <2>0
    <2> HIDE DEF new
    <2> QED
      BY <2>1
  <1> HIDE DEF u, failures
  <1>1. u = [latest |-> c.latest, blocks |-> c.blocks, entries |-> c.entries,
             lookup |-> c.lookup, heights |-> c.heights, infos |-> <<>>, failed |-> failures]
    BY <1>0 DEF GoodCache, TypedCache
  <1>5. /\ u.blocks = c.blocks /\ u.entries = c.entries /\ u.lookup = c.lookup
        /\ u.heights = c.heights /\ u.latest = c.latest /\ u.failed = failures
    BY <1>1
  <1>6. TypedCache(u)
    BY <1>1, <1>4, <1>5 DEF GoodCache, TypedCache
  <1>7. AgreeingCache(u) /\ YoungestCache(u)
    BY <1>5 DEF GoodCache, AgreeingCache, YoungestCache
  <1> QED
    BY <1>5, <1>6, <1>7 DEF GoodCache, u

\* A block that is added is the youngest, so the indexes may lead to it.
LEMMA AddBlockGood ==
    ASSUME NEW c, GoodCache(c), NEW b \in Blocks
    PROVE  /\ GoodCache(AddBlock(c, b))
           /\ AddBlock(c, b).entries = c.entries \cup {b}
           /\ AddBlock(c, b).latest = c.latest
  <1> DEFINE u == AddBlock(c, b)
  <1> DEFINE heights == With(Without(c.heights, Overlaps(c, b)), Height[b], b)
             lookup == [t \in DOMAIN c.lookup \cup Content[b] |->
                          IF t \in Content[b] THEN b ELSE c.lookup[t]]
             entries == c.entries \cup {b}
             blocks == With(c.blocks, b, 0)
  <1>0. u = [c EXCEPT !.heights = heights, !.lookup = lookup, !.entries = entries,
                      !.blocks = blocks]
    BY DEF AddBlock
  <1>1. /\ u.blocks = With(c.blocks, b, 0)
        /\ u.lookup = [t \in DOMAIN c.lookup \cup Content[b] |->
                          IF t \in Content[b] THEN b ELSE c.lookup[t]]
        /\ u.heights = With(Without(c.heights, Overlaps(c, b)), Height[b], b)
        /\ u.entries = c.entries \cup {b}
        /\ u = [latest |-> c.latest, blocks |-> u.blocks, entries |-> u.entries,
                lookup |-> u.lookup, heights |-> u.heights, infos |-> <<>>,
                failed |-> c.failed]
    <2> HIDE DEF u, heights, lookup, entries, blocks
    <2>1. u = [latest |-> c.latest, blocks |-> blocks, entries |-> entries, lookup |-> lookup,
               heights |-> heights, infos |-> <<>>, failed |-> c.failed]
      BY <1>0, SetFields DEF GoodCache
    <2> QED
      BY <2>1 DEF heights, lookup, entries, blocks
  <1> HIDE DEF u, heights, lookup, entries, blocks
  <1>2. u.entries = c.entries \cup {b} /\ u.latest = c.latest /\ u.failed = c.failed
    BY <1>1
  <1>3. /\ u.blocks \in [u.entries -> 0 .. CullAge + 1]
        /\ u.blocks[b] = 0
        /\ \A d \in c.entries \ {b} : u.blocks[d] = c.blocks[d]
    <2>1. c.blocks \in [c.entries -> 0 .. CullAge + 1] /\ 0 \in 0 .. CullAge + 1
      BY NetworkCacheAssumption DEF GoodCache, TypedCache
    <2> QED
      BY <1>1, <2>1 DEF With
  <1>4. TypedCache(u)
    BY <1>1, <1>2, <1>3 DEF GoodCache, TypedCache
  <1>5. /\ DOMAIN u.heights = DOMAIN c.heights \cup {Height[b]}
        /\ u.heights[Height[b]] = b
        /\ \A h \in DOMAIN c.heights \ {Height[b]} : u.heights[h] = c.heights[h]
    <2>1. \A h \in Overlaps(c, b) : h = Height[b]
      BY DEF Overlaps, GoodCache, AgreeingCache
    <2> QED
      BY <1>1, <2>1 DEF With, Without
  <1>6. AgreeingCache(u)
    <2>1. DOMAIN u.blocks = u.entries
      BY <1>3
    <2>2. DOMAIN u.lookup = UNION {Content[d] : d \in u.entries}
      BY <1>1, <1>2 DEF GoodCache, AgreeingCache
    <2>3. \A t \in DOMAIN u.lookup : u.lookup[t] \in u.entries /\ t \in Content[u.lookup[t]]
      BY <1>1, <1>2 DEF GoodCache, AgreeingCache
    <2>4. DOMAIN u.heights = {Height[d] : d \in u.entries}
      BY <1>2, <1>5 DEF GoodCache, AgreeingCache
    <2>5. \A h \in DOMAIN u.heights :
             u.heights[h] \in u.entries /\ Height[u.heights[h]] = h
      BY <1>2, <1>5 DEF GoodCache, AgreeingCache
    <2> QED
      BY <2>1, <2>2, <2>3, <2>4, <2>5 DEF AgreeingCache
  <1>7. YoungestCache(u)
    <2> SUFFICES ASSUME NEW d \in u.entries
                 PROVE  /\ \A t \in Content[d] : u.blocks[u.lookup[t]] <= u.blocks[d]
                        /\ u.blocks[u.heights[Height[d]]] <= u.blocks[d]
      BY DEF YoungestCache
    <2>1. u.blocks[d] \in Nat
      BY <1>3
    <2>2. ASSUME NEW t \in Content[d]
          PROVE  u.blocks[u.lookup[t]] <= u.blocks[d]
      <3>1. CASE t \in Content[b]
        <4>1. u.lookup[t] = b
          BY <1>1, <3>1
        <4> QED
          BY <1>3, <2>1, <4>1
      <3>2. CASE t \notin Content[b]
        <4>1. d \in c.entries /\ d # b /\ t \in DOMAIN c.lookup
          BY <1>2, <3>2, <2>2 DEF GoodCache, AgreeingCache
        <4>2. u.lookup[t] = c.lookup[t] /\ c.lookup[t] \in c.entries /\ c.lookup[t] # b
          BY <1>1, <3>2, <4>1 DEF GoodCache, AgreeingCache
        <4>3. c.blocks[c.lookup[t]] <= c.blocks[d]
          BY <4>1, <2>2 DEF GoodCache, YoungestCache
        <4> QED
          BY <1>3, <4>1, <4>2, <4>3
      <3> QED
        BY <3>1, <3>2
    <2>3. u.blocks[u.heights[Height[d]]] <= u.blocks[d]
      <3>1. CASE Height[d] = Height[b]
        BY <1>3, <1>5, <2>1, <3>1
      <3>2. CASE Height[d] # Height[b]
        <4>1. d \in c.entries /\ d # b /\ Height[d] \in DOMAIN c.heights
          BY <1>2, <3>2 DEF GoodCache, AgreeingCache
        <4>2. /\ u.heights[Height[d]] = c.heights[Height[d]]
              /\ c.heights[Height[d]] \in c.entries /\ c.heights[Height[d]] # b
          BY <1>5, <3>2, <4>1 DEF GoodCache, AgreeingCache
        <4>3. c.blocks[c.heights[Height[d]]] <= c.blocks[d]
          BY <4>1 DEF GoodCache, YoungestCache
        <4> QED
          BY <1>3, <4>1, <4>2, <4>3
      <3> QED
        BY <3>1, <3>2
    <2> QED
      BY <2>2, <2>3
  <1> QED
    BY <1>2, <1>4, <1>6, <1>7 DEF GoodCache, u
\* Culling removes with a block all that are older, so every index that goes
\* leads to blocks that go.
LEMMA RemoveStaleGood ==
    ASSUME NEW c, GoodCache(c)
    PROVE  /\ GoodCache(RemoveBlocks(c, Stale(c)))
           /\ RemoveBlocks(c, Stale(c)).entries = c.entries \ Stale(c)
           /\ RemoveBlocks(c, Stale(c)).latest = c.latest
  <1> DEFINE S == Stale(c)
             u == RemoveBlocks(c, S)
             heights == Without(c.heights, {h \in DOMAIN c.heights : c.heights[h] \in S})
             entries == c.entries \ S
             lookup == Without(c.lookup, {t \in DOMAIN c.lookup : c.lookup[t] \in S})
             blocks == Without(c.blocks, S)
  <1>0. u = [c EXCEPT !.heights = heights, !.entries = entries, !.lookup = lookup,
                      !.blocks = blocks]
    BY DEF RemoveBlocks
  <1>1. u = [latest |-> c.latest, blocks |-> blocks, entries |-> entries, lookup |-> lookup,
             heights |-> heights, infos |-> <<>>, failed |-> c.failed]
    <2> HIDE DEF u, heights, lookup, entries, blocks
    <2> QED
      BY <1>0, SetFields DEF GoodCache
  <1>2. /\ u.blocks = blocks /\ u.entries = entries /\ u.lookup = lookup
        /\ u.heights = heights /\ u.latest = c.latest /\ u.failed = c.failed
    <2> HIDE DEF u, heights, lookup, entries, blocks
    <2> QED
      BY <1>1
  <1> HIDE DEF u
  \* What stays is not older than the limit, and what is younger stays too.
  <1>3. /\ \A d \in c.entries : c.blocks[d] \in Nat
        /\ \A d \in c.entries : d \in S <=> c.blocks[d] > CullAge
        /\ \A d, e \in c.entries : d \notin S /\ c.blocks[e] <= c.blocks[d] => e \notin S
    BY NetworkCacheAssumption DEF GoodCache, TypedCache, AgreeingCache, Stale
  <1> HIDE DEF S
  <1>4. /\ DOMAIN u.blocks = u.entries
        /\ \A d \in u.entries : d \in c.entries /\ d \notin S /\ u.blocks[d] = c.blocks[d]
    BY <1>2 DEF GoodCache, AgreeingCache, Without
  <1>5. /\ \A t \in DOMAIN u.lookup : /\ t \in DOMAIN c.lookup /\ u.lookup[t] = c.lookup[t]
                                      /\ c.lookup[t] \notin S
        /\ \A t \in DOMAIN c.lookup : c.lookup[t] \notin S => t \in DOMAIN u.lookup
    BY <1>2 DEF Without
  <1>6. /\ \A h \in DOMAIN u.heights : /\ h \in DOMAIN c.heights /\ u.heights[h] = c.heights[h]
                                       /\ c.heights[h] \notin S
        /\ \A h \in DOMAIN c.heights : c.heights[h] \notin S => h \in DOMAIN u.heights
    BY <1>2 DEF Without
  <1>7. TypedCache(u)
    <2>1. u.blocks \in [u.entries -> 0 .. CullAge + 1]
      BY <1>2, <1>4 DEF GoodCache, TypedCache, Without
    <2>2. u = [latest |-> u.latest, blocks |-> u.blocks, entries |-> u.entries,
               lookup |-> u.lookup, heights |-> u.heights, infos |-> <<>>, failed |-> u.failed]
      <3> HIDE DEF heights, lookup, entries, blocks
      <3> QED
        BY <1>1, <1>2
    <2> QED
      BY <1>2, <2>1, <2>2 DEF GoodCache, TypedCache
  <1> HIDE DEF heights, lookup, blocks
  \* The block an index leads to stays when one of those it may lead to does.
  <1>8. ASSUME NEW d \in u.entries
        PROVE  /\ \A t \in Content[d] : t \in DOMAIN c.lookup /\ c.lookup[t] \notin S
               /\ Height[d] \in DOMAIN c.heights /\ c.heights[Height[d]] \notin S
    BY <1>3, <1>4 DEF GoodCache, AgreeingCache, YoungestCache
  <1>9. AgreeingCache(u)
    <2>1. DOMAIN u.lookup = UNION {Content[d] : d \in u.entries}
      <3>1. ASSUME NEW t \in DOMAIN u.lookup
            PROVE  t \in UNION {Content[d] : d \in u.entries}
        BY <1>2, <1>5 DEF GoodCache, AgreeingCache
      <3>2. ASSUME NEW d \in u.entries, NEW t \in Content[d]
            PROVE  t \in DOMAIN u.lookup
        BY <1>5, <1>8
      <3> QED
        BY <3>1, <3>2
    <2>2. \A t \in DOMAIN u.lookup : u.lookup[t] \in u.entries /\ t \in Content[u.lookup[t]]
      BY <1>2, <1>5 DEF GoodCache, AgreeingCache
    <2>3. \A h \in DOMAIN u.heights : u.heights[h] \in u.entries /\ Height[u.heights[h]] = h
      BY <1>2, <1>6 DEF GoodCache, AgreeingCache
    <2>4. DOMAIN u.heights = {Height[d] : d \in u.entries}
      <3>1. ASSUME NEW d \in u.entries
            PROVE  Height[d] \in DOMAIN u.heights
        BY <1>6, <1>8
      <3> QED
        BY <2>3, <3>1
    <2> QED
      BY <1>4, <2>1, <2>2, <2>3, <2>4 DEF AgreeingCache
  <1>10. YoungestCache(u)
    <2> SUFFICES ASSUME NEW d \in u.entries
                 PROVE  /\ \A t \in Content[d] : u.blocks[u.lookup[t]] <= u.blocks[d]
                        /\ u.blocks[u.heights[Height[d]]] <= u.blocks[d]
      BY DEF YoungestCache
    <2>1. ASSUME NEW t \in Content[d]
          PROVE  u.blocks[u.lookup[t]] <= u.blocks[d]
      <3>1. u.lookup[t] = c.lookup[t] /\ u.lookup[t] \in u.entries
        BY <1>5, <1>8, <1>9 DEF AgreeingCache
      <3> QED
        BY <1>4, <3>1 DEF GoodCache, YoungestCache
    <2>2. u.blocks[u.heights[Height[d]]] <= u.blocks[d]
      <3>1. /\ u.heights[Height[d]] = c.heights[Height[d]]
            /\ u.heights[Height[d]] \in u.entries
        BY <1>6, <1>8, <1>9 DEF AgreeingCache
      <3> QED
        BY <1>4, <3>1 DEF GoodCache, YoungestCache
    <2> QED
      BY <2>1, <2>2
  <1> QED
    BY <1>2, <1>7, <1>9, <1>10 DEF GoodCache, S, u

\* Time passes for all blocks alike.
LEMMA AgedGood ==
    ASSUME NEW c, GoodCache(c)
    PROVE  LET u == [c EXCEPT !.blocks = [b \in DOMAIN @ |-> Aged(@[b], CullAge + 1)]]
           IN GoodCache(u) /\ u.entries = c.entries /\ u.latest = c.latest
  <1> DEFINE blocks == [b \in DOMAIN c.blocks |-> Aged(c.blocks[b], CullAge + 1)]
             u == [c EXCEPT !.blocks = blocks]
  <1>1. /\ blocks \in [c.entries -> 0 .. CullAge + 1]
        /\ \A d, e \in c.entries : c.blocks[d] <= c.blocks[e] => blocks[d] <= blocks[e]
    <2>1. \A m, n \in 0 .. CullAge + 1 :
             /\ Aged(m, CullAge + 1) \in 0 .. CullAge + 1
             /\ m <= n => Aged(m, CullAge + 1) <= Aged(n, CullAge + 1)
      BY NetworkCacheAssumption DEF Aged
    <2> QED
      BY <2>1 DEF GoodCache, TypedCache
  <1> HIDE DEF blocks
  <1>2. u = [latest |-> c.latest, blocks |-> blocks, entries |-> c.entries,
             lookup |-> c.lookup, heights |-> c.heights, infos |-> <<>>, failed |-> c.failed]
    BY DEF GoodCache, TypedCache
  <1> HIDE DEF u
  <1>3. /\ u.blocks = blocks /\ u.entries = c.entries /\ u.lookup = c.lookup
        /\ u.heights = c.heights /\ u.latest = c.latest /\ u.failed = c.failed
    BY <1>2
  <1>4. TypedCache(u)
    BY <1>1, <1>2, <1>3 DEF GoodCache, TypedCache
  <1>5. AgreeingCache(u)
    BY <1>1, <1>3 DEF GoodCache, AgreeingCache
  <1>6. YoungestCache(u)
    <2> SUFFICES ASSUME NEW d \in c.entries
                 PROVE  /\ \A t \in Content[d] : blocks[c.lookup[t]] <= blocks[d]
                        /\ blocks[c.heights[Height[d]]] <= blocks[d]
      BY <1>3 DEF YoungestCache
    <2>1. /\ \A t \in Content[d] : c.lookup[t] \in c.entries
          /\ c.heights[Height[d]] \in c.entries
      BY DEF GoodCache, AgreeingCache
    <2> QED
      BY <1>1, <2>1 DEF GoodCache, YoungestCache
  <1> QED
    BY <1>3, <1>4, <1>5, <1>6 DEF GoodCache, u, blocks
(***************************************************************************)
(* The invariant.                                                          *)
(***************************************************************************)

\* The types of everything but the cache.
RestTypeOK ==
    /\ env \in BOOLEAN
    /\ agents \in [Agents -> [node : BOOLEAN, online : BOOLEAN,
                             info : Blocks \cup {None}, age : 0 .. MaxUpdateAge]]
    /\ fetching \in [Agents -> Blocks \cup {None}]
    /\ asked = None \/ asked \subseteq Externals
    /\ missed \subseteq Blocks

LEMMA TypeSplits == CacheTypeOK <=> RestTypeOK /\ (cache # None => TypedCache(cache))
  BY DEF CacheTypeOK, RestTypeOK, TypedCache

\* What a step does to a cache, whatever else it does.
CacheStep ==
    \/ cache' = cache \/ cache' = None \/ cache' = Fresh
    \/ \E b \in Blocks : cache' = UpdateLatest(IF cache = None THEN Fresh ELSE cache, b)
    \/ cache # None /\ \E b \in Blocks : cache' = AddBlock(cache, b)
    \/ cache # None /\ \E S, successes : cache' = Attempted(cache, S, successes)
    \/ cache # None /\ LET c == RemoveBlocks(cache, Stale(cache))
                       IN cache' = [c EXCEPT !.blocks = [b \in DOMAIN @ |-> Aged(@[b], CullAge + 1)]]

LEMMA CacheSteps ==
    ASSUME CacheStep, cache # None => GoodCache(cache)
    PROVE  cache' # None => GoodCache(cache')
  <1>1. CASE cache' = cache \/ cache' = None \/ cache' = Fresh
    BY <1>1, FreshIsGood
  <1>2. CASE \E b \in Blocks : cache' = UpdateLatest(IF cache = None THEN Fresh ELSE cache, b)
    <2> DEFINE c == IF cache = None THEN Fresh ELSE cache
    <2>1. GoodCache(c)
      BY FreshIsGood
    <2> HIDE DEF c
    <2> QED
      BY <1>2, <2>1, UpdateLatestGood DEF c
  <1>3. CASE cache # None /\ \E b \in Blocks : cache' = AddBlock(cache, b)
    BY <1>3, AddBlockGood
  <1>4. CASE cache # None /\ \E S, successes : cache' = Attempted(cache, S, successes)
    BY <1>4, AttemptedGood
  <1>5. CASE /\ cache # None
             /\ LET c == RemoveBlocks(cache, Stale(cache))
                IN cache' = [c EXCEPT !.blocks = [b \in DOMAIN @ |-> Aged(@[b], CullAge + 1)]]
    <2> DEFINE c == RemoveBlocks(cache, Stale(cache))
    <2>1. GoodCache(c)
      BY <1>5, RemoveStaleGood
    <2>2. cache' = [c EXCEPT !.blocks = [b \in DOMAIN @ |-> Aged(@[b], CullAge + 1)]]
      BY <1>5
    <2> HIDE DEF c
    <2> QED
      BY <2>1, <2>2, AgedGood
  <1> QED
    BY <1>1, <1>2, <1>3, <1>4, <1>5 DEF CacheStep

\* Every step is one of those, and keeps the other types.
LEMMA StepsAreCacheSteps ==
    ASSUME RestTypeOK, cache # None => GoodCache(cache), [Next]_vars
    PROVE  CacheStep /\ RestTypeOK'
  <1> USE DEF RestTypeOK
  <1>1. CASE InsertEnv
    BY <1>1 DEF InsertEnv, CacheStep
  <1>2. CASE RemoveEnv
    BY <1>2 DEF RemoveEnv, CacheStep
  <1>3. ASSUME NEW a \in Agents, \/ Delegate(a) \/ Release(a) \/ Disconnect(a)
                                 \/ Connect(a) \/ Takeover(a)
        PROVE  CacheStep /\ RestTypeOK'
    <2>1. CASE Delegate(a)
      BY <2>1 DEF Delegate, CacheStep
    <2>2. CASE Release(a)
      BY <2>2 DEF Release, CacheStep
    <2>3. CASE Disconnect(a)
      BY <2>3 DEF Disconnect, CacheStep
    <2>4. CASE Connect(a)
      BY <2>4 DEF Connect, CacheStep
    <2>5. CASE Takeover(a)
      BY <2>5, NetworkCacheAssumption DEF Takeover, CacheStep
    <2> QED
      BY <1>3, <2>1, <2>2, <2>3, <2>4, <2>5
  <1>4. ASSUME NEW a \in Agents, NEW b \in Blocks, PostBlock(a, b)
        PROVE  CacheStep /\ RestTypeOK'
    <2>1. CacheStep
      BY <1>4 DEF PostBlock, CacheStep
    <2>2. agents' \in [Agents -> [node : BOOLEAN, online : BOOLEAN,
                                  info : Blocks \cup {None}, age : 0 .. MaxUpdateAge]]
      <3>1. agents' = [[agents EXCEPT ![a].info = b] EXCEPT ![a].age = 0]
        BY <1>4 DEF PostBlock
      <3>2. [agents EXCEPT ![a].info = b]
            \in [Agents -> [node : BOOLEAN, online : BOOLEAN,
                            info : Blocks \cup {None}, age : 0 .. MaxUpdateAge]]
        OBVIOUS
      <3>3. 0 \in 0 .. MaxUpdateAge
        BY NetworkCacheAssumption
      <3> QED
        BY <3>1, <3>2, <3>3
    <2>3. fetching' \in [Agents -> Blocks \cup {None}]
      BY <1>4 DEF PostBlock
    <2> QED
      BY <1>4, <2>1, <2>2, <2>3 DEF PostBlock
  <1>11. ASSUME NEW a \in Agents, NEW b \in Blocks, PostUnheard(a, b)
         PROVE  CacheStep /\ RestTypeOK'
    <2>1. CacheStep
      BY <1>11 DEF PostUnheard, CacheStep
    <2>2. agents' \in [Agents -> [node : BOOLEAN, online : BOOLEAN,
                                  info : Blocks \cup {None}, age : 0 .. MaxUpdateAge]]
      <3>1. agents' = [[agents EXCEPT ![a].info = b] EXCEPT ![a].age = 0]
        BY <1>11 DEF PostUnheard
      <3>2. [agents EXCEPT ![a].info = b]
            \in [Agents -> [node : BOOLEAN, online : BOOLEAN,
                            info : Blocks \cup {None}, age : 0 .. MaxUpdateAge]]
        OBVIOUS
      <3>3. 0 \in 0 .. MaxUpdateAge
        BY NetworkCacheAssumption
      <3> QED
        BY <3>1, <3>2, <3>3
    <2> QED
      BY <1>11, <2>1, <2>2 DEF PostUnheard
  <1>12. CASE Restart
    <2>1. 0 \in 0 .. MaxUpdateAge
      BY NetworkCacheAssumption
    <2> QED
      BY <1>12, <2>1 DEF Restart, CacheStep
  <1>5. ASSUME NEW a \in Agents, Fetched(a)
        PROVE  CacheStep /\ RestTypeOK'
    <2>1. fetching[a] \in Blocks
      BY <1>5 DEF Fetched
    <2> QED
      BY <1>5, <2>1 DEF Fetched, CacheStep
  <1>6. ASSUME NEW a \in Agents, FetchFails(a)
        PROVE  CacheStep /\ RestTypeOK'
    BY <1>6 DEF FetchFails, CacheStep
  <1>7. ASSUME Round
        PROVE  CacheStep /\ RestTypeOK'
    <2>1. CacheStep
      BY <1>7 DEF Round, Invalidated, CacheStep
    <2>2. cache # None => Stale(cache) \subseteq Blocks
      BY DEF GoodCache, TypedCache, Stale
    <2>3. \A n \in 0 .. MaxUpdateAge : Aged(n, MaxUpdateAge) \in 0 .. MaxUpdateAge
      BY NetworkCacheAssumption DEF Aged
    <2>4. agents' \in [Agents -> [node : BOOLEAN, online : BOOLEAN,
                                  info : Blocks \cup {None}, age : 0 .. MaxUpdateAge]]
      <3>1. ASSUME NEW a \in Agents
            PROVE  [agents[a] EXCEPT !.age = Aged(@, MaxUpdateAge)]
                   \in [node : BOOLEAN, online : BOOLEAN,
                        info : Blocks \cup {None}, age : 0 .. MaxUpdateAge]
        BY <2>3
      <3> QED
        BY <1>7, <3>1 DEF Round
    <2> QED
      BY <1>7, <2>1, <2>2, <2>4 DEF Round
  <1>8. CASE AskExternals
    BY <1>8 DEF AskExternals, ExternalPeers, CacheStep
  <1>9. ASSUME NEW answering, Answered(answering)
        PROVE  CacheStep /\ RestTypeOK'
    BY <1>9 DEF Answered, CacheStep
  <1>10. CASE UNCHANGED vars
    BY <1>10 DEF vars, CacheStep
  <1> QED
    BY <1>1, <1>2, <1>3, <1>4, <1>5, <1>6, <1>7, <1>8, <1>9, <1>10, <1>11, <1>12 DEF Next

LEMMA InvHolds == Spec => []CacheInv
  <1>1. Init => CacheInv
    <2> SUFFICES ASSUME Init
                 PROVE  CacheInv
      OBVIOUS
    <2>1. 0 \in 0 .. MaxUpdateAge
      BY NetworkCacheAssumption
    <2> QED
      BY <2>1, TypeSplits DEF Init, CacheInv, RestTypeOK
  <1>2. CacheInv /\ [Next]_vars => CacheInv'
    <2> SUFFICES ASSUME CacheInv, [Next]_vars
                 PROVE  CacheInv'
      OBVIOUS
    <2>1. RestTypeOK' /\ (cache' # None => GoodCache(cache'))
      BY StepsAreCacheSteps, CacheSteps, TypeSplits DEF CacheInv
    <2>2. CacheTypeOK'
      BY <2>1 DEF CacheTypeOK, RestTypeOK, GoodCache, TypedCache
    <2> QED
      BY <2>1, <2>2 DEF CacheInv
  <1> QED
    BY <1>1, <1>2, PTL DEF Spec

\* The types hold in every reachable state.
THEOREM CacheTypeCorrect == Spec => []CacheTypeOK
  BY InvHolds, PTL DEF CacheInv

\* The indexes agree, for every set of blocks and forks, and every limit.
THEOREM IndexesAreSound == Spec => []IndexesAgree
  <1>1. CacheInv => IndexesAgree
    BY DEF CacheInv, GoodCache, AgreeingCache, IndexesAgree
  <1> QED
    BY <1>1, InvHolds, PTL
(***************************************************************************)
(* The latest block is fetched, where a block is not out of its own range. *)
(***************************************************************************)

\* A block is recent for the cache whose latest block it is.
LEMMA LatestIsRecent ==
    ASSUME NEW c, NEW b \in Blocks, c.latest = b, Range10 > 0, Height[b] > 0
    PROVE  IsRecent(c, Height[b])
  BY NetworkCacheAssumption DEF IsRecent, Saturating

LEMMA LatestStep ==
    ASSUME Range10 > 0, \A b \in Blocks : Height[b] > 0,
           CacheInv, LatestIsFetched, [Next]_vars
    PROVE  LatestIsFetched'
  <1> SUFFICES ASSUME cache' # None, cache'.latest # None
               PROVE  \/ cache'.latest \in cache'.entries
                      \/ \E a \in Agents : fetching'[a] = cache'.latest
                      \/ cache'.latest \in missed'
    BY DEF LatestIsFetched
  <1>0. /\ RestTypeOK
        /\ cache # None => GoodCache(cache)
    BY TypeSplits DEF CacheInv
  <1>1. CASE InsertEnv
    BY <1>1 DEF InsertEnv, Fresh
  <1>2. CASE RemoveEnv
    BY <1>2 DEF RemoveEnv
  <1>3. CASE UNCHANGED <<cache, fetching, missed>>
    BY <1>3 DEF LatestIsFetched
  <1>4. ASSUME NEW a \in Agents, NEW b \in Blocks, PostBlock(a, b)
        PROVE  \/ cache'.latest \in cache'.entries
               \/ \E d \in Agents : fetching'[d] = cache'.latest
               \/ cache'.latest \in missed'
    <2> DEFINE c == IF cache = None THEN Fresh ELSE cache
    <2>1. GoodCache(c) /\ (cache = None => c.latest = None)
      BY <1>0, FreshIsGood DEF Fresh
    <2>2. /\ cache' = UpdateLatest(c, b) /\ missed' = missed
          /\ fetching' = [fetching EXCEPT ![a] = IF Wanted(c, b) THEN b ELSE None]
          /\ fetching[a] = None
      BY <1>4 DEF PostBlock
    <2>3. cache # None => c = cache
      OBVIOUS
    <2> HIDE DEF c
    <2>4. /\ cache'.entries = c.entries
          /\ cache'.latest = IF IsNewer(c, b) THEN b ELSE c.latest
      BY <2>1, <2>2, UpdateLatestGood
    <2>5. CASE IsNewer(c, b)
      <3>1. IsRecent(UpdateLatest(c, b), Height[b])
        BY <2>2, <2>4, <2>5, LatestIsRecent
      <3>2. b \in c.entries \/ Wanted(c, b)
        BY <2>5, <3>1 DEF Wanted
      <3> QED
        BY <1>0, <2>2, <2>4, <2>5, <3>2 DEF RestTypeOK
    <2>6. CASE ~IsNewer(c, b)
      <3>1. cache # None /\ cache.latest = cache'.latest /\ cache.entries = cache'.entries
        BY <2>1, <2>3, <2>4, <2>6
      <3>2. \A d \in Agents : fetching[d] = cache.latest => fetching'[d] = fetching[d]
        BY <1>0, <2>2, <3>1 DEF RestTypeOK
      <3> QED
        BY <2>2, <3>1, <3>2 DEF LatestIsFetched
    <2> QED
      BY <2>5, <2>6
  <1>5. ASSUME NEW a \in Agents, Fetched(a)
        PROVE  \/ cache'.latest \in cache'.entries
               \/ \E d \in Agents : fetching'[d] = cache'.latest
               \/ cache'.latest \in missed'
    <2>1. /\ fetching[a] \in Blocks /\ cache # None /\ missed' = missed
          /\ cache' = AddBlock(cache, fetching[a])
          /\ fetching' = [fetching EXCEPT ![a] = None]
      BY <1>0, <1>5 DEF Fetched, RestTypeOK
    <2>2. /\ cache'.entries = cache.entries \cup {fetching[a]}
          /\ cache'.latest = cache.latest
      BY <1>0, <2>1, AddBlockGood
    <2>3. \A d \in Agents \ {a} : fetching'[d] = fetching[d]
      BY <1>0, <2>1 DEF RestTypeOK
    <2> QED
      BY <2>1, <2>2, <2>3 DEF LatestIsFetched
  <1>6. ASSUME NEW a \in Agents, FetchFails(a)
        PROVE  \/ cache'.latest \in cache'.entries
               \/ \E d \in Agents : fetching'[d] = cache'.latest
               \/ cache'.latest \in missed'
    <2>1. \A d \in Agents \ {a} : fetching'[d] = fetching[d]
      BY <1>0, <1>6 DEF FetchFails, RestTypeOK
    <2> QED
      BY <1>6, <2>1 DEF FetchFails, LatestIsFetched
  <1>7. CASE Round
    <2> DEFINE c == RemoveBlocks(cache, Stale(cache))
    <2>1. /\ cache # None /\ missed' = missed \cup Stale(cache) /\ fetching' = fetching
          /\ cache' = [c EXCEPT !.blocks = [b \in DOMAIN @ |-> Aged(@[b], CullAge + 1)]]
      BY <1>7 DEF Round, Invalidated
    <2>2. GoodCache(c) /\ c.entries = cache.entries \ Stale(cache) /\ c.latest = cache.latest
      BY <1>0, <2>1, RemoveStaleGood
    <2> HIDE DEF c
    <2>3. cache'.entries = c.entries /\ cache'.latest = c.latest
      BY <2>1, <2>2, AgedGood
    <2> QED
      BY <2>1, <2>2, <2>3 DEF LatestIsFetched
  <1>8. ASSUME NEW answering, Answered(answering)
        PROVE  \/ cache'.latest \in cache'.entries
               \/ \E d \in Agents : fetching'[d] = cache'.latest
               \/ cache'.latest \in missed'
    <2>1. /\ cache # None /\ missed' = missed /\ fetching' = fetching
          /\ \E hashed : cache' = Attempted(cache, asked, hashed)
      BY <1>8 DEF Answered
    <2>2. cache'.entries = cache.entries /\ cache'.latest = cache.latest
      BY <1>0, <2>1, AttemptedGood
    <2> QED
      BY <2>1, <2>2 DEF LatestIsFetched
  <1>9. ASSUME NEW a \in Agents, \/ Delegate(a) \/ Release(a) \/ Disconnect(a)
                                 \/ Connect(a) \/ Takeover(a)
        PROVE  UNCHANGED <<cache, fetching, missed>>
    BY <1>9 DEF Delegate, Release, Disconnect, Connect, Takeover
  <1>10. AskExternals \/ UNCHANGED vars => UNCHANGED <<cache, fetching, missed>>
    BY DEF AskExternals, vars
  <1>11. CASE Restart
    BY <1>11 DEF Restart, Fresh
  <1>12. ASSUME NEW a \in Agents, NEW b \in Blocks, PostUnheard(a, b)
         PROVE  \/ cache'.latest \in cache'.entries
                \/ \E d \in Agents : fetching'[d] = cache'.latest
                \/ cache'.latest \in missed'
    <2> DEFINE c == IF cache = None THEN Fresh ELSE cache
    <2>1. GoodCache(c) /\ (cache = None => c.latest = None)
      BY <1>0, FreshIsGood DEF Fresh
    <2>2. /\ cache' = UpdateLatest(c, b) /\ fetching' = fetching
          /\ missed' = missed \cup (IF Wanted(c, b) THEN {b} ELSE {})
      BY <1>12 DEF PostUnheard
    <2>3. cache # None => c = cache
      OBVIOUS
    <2> HIDE DEF c
    <2>4. /\ cache'.entries = c.entries
          /\ cache'.latest = IF IsNewer(c, b) THEN b ELSE c.latest
      BY <2>1, <2>2, UpdateLatestGood
    <2>5. CASE IsNewer(c, b)
      <3>1. IsRecent(UpdateLatest(c, b), Height[b])
        BY <2>2, <2>4, <2>5, LatestIsRecent
      <3>2. b \in c.entries \/ Wanted(c, b)
        BY <2>5, <3>1 DEF Wanted
      <3> QED
        BY <2>2, <2>4, <2>5, <3>2
    <2>6. CASE ~IsNewer(c, b)
      <3>1. cache # None /\ cache.latest = cache'.latest /\ cache.entries = cache'.entries
        BY <2>1, <2>3, <2>4, <2>6
      <3> QED
        BY <2>2, <3>1 DEF LatestIsFetched
    <2> QED
      BY <2>5, <2>6
  <1> QED
    BY <1>1, <1>2, <1>3, <1>4, <1>5, <1>6, <1>7, <1>8, <1>9, <1>10, <1>11, <1>12 DEF Next

\* The latest block is cached, on its way, or was given up, however many
\* agents report, on whatever forks, with environments made and removed.
THEOREM LatestComes ==
    ASSUME Range10 > 0, \A b \in Blocks : Height[b] > 0
    PROVE  Spec => []LatestIsFetched
  <1>1. Init => LatestIsFetched
    BY DEF Init, LatestIsFetched
  <1>2. CacheInv /\ LatestIsFetched /\ [Next]_vars => LatestIsFetched'
    BY LatestStep
  <1> QED
    BY <1>1, <1>2, InvHolds, PTL DEF Spec
=============================================================================
