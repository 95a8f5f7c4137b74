------------------------- MODULE CannonTrackerProofs -------------------------
(***************************************************************************)
(* What a cannon keeps of its transactions, for any transactions,          *)
(* requests, instances and heights, through executions, broadcasts,        *)
(* sweeps, applies and restarts; and so in the scenarios that are run.     *)
(***************************************************************************)
EXTENDS MCCannonScenarios, FiniteSetTheorems, TLAPS

TrackerMaps == UNION {[D -> Trackers] : D \in SUBSET Txs}

\* The types of the trackers, the rows, the requests and the tracking task.
Typed ==
    /\ current \in Instances /\ made \in Instances \cap {current, current + 1}
    /\ tracked \in [Instances -> TrackerMaps]
    /\ received \in [Instances -> Nat]
    /\ shots = [i \in Instances |-> shots[i]]
    /\ rows \in [Txs -> Rows]
    /\ saved \in Optional(Nat)
    /\ client \in [Clients -> Requests]
    /\ submitted \in [Txs -> Nat]
    /\ sweep \in Sweeps
    /\ deleting \subseteq Txs

-----------------------------------------------------------------------------
(* Bags and maps.                                                           *)

LEMMA PlusIn ==
    ASSUME NEW B, NEW x, NEW y, BagIn(y, Plus(B, x))
    PROVE  BagIn(y, B) \/ y = x
  BY DEF BagIn, BagToSet, Plus, (+), SetToBag

LEMMA MinusIn ==
    ASSUME NEW B, NEW x, NEW y, BagIn(y, Minus(B, x))
    PROVE  BagIn(y, B)
  BY DEF BagIn, BagToSet, Minus, (-), SetToBag

LEMMA NoneIn == \A y : ~BagIn(y, EmptyBag)
  BY DEF BagIn, BagToSet, EmptyBag, SetToBag

LEMMA EmptyMap == <<>> \in TrackerMaps
  <1>1. <<>> \in [{} -> Trackers]
    OBVIOUS
  <1> QED
    BY <1>1 DEF TrackerMaps

LEMMA MapWith ==
    ASSUME NEW f \in TrackerMaps, NEW t \in Txs, NEW r \in Trackers
    PROVE  /\ With(f, t, r) \in TrackerMaps
           /\ DOMAIN With(f, t, r) = DOMAIN f \cup {t}
           /\ With(f, t, r)[t] = r
           /\ \A u \in DOMAIN f \ {t} : With(f, t, r)[u] = f[u]
  <1>1. PICK D \in SUBSET Txs : f \in [D -> Trackers]
    BY DEF TrackerMaps
  <1>2. /\ With(f, t, r) \in [D \cup {t} -> Trackers]
        /\ \A u \in D \ {t} : With(f, t, r)[u] = f[u]
        /\ With(f, t, r)[t] = r
    BY <1>1 DEF With
  <1>3. D \cup {t} \in SUBSET Txs /\ DOMAIN f = D
    BY <1>1
  <1> QED
    BY <1>2, <1>3 DEF TrackerMaps

LEMMA MapWithout ==
    ASSUME NEW f \in TrackerMaps, NEW t
    PROVE  /\ Without(f, t) \in TrackerMaps
           /\ DOMAIN Without(f, t) = DOMAIN f \ {t}
           /\ \A u \in DOMAIN f \ {t} : Without(f, t)[u] = f[u]
  <1>1. PICK D \in SUBSET Txs : f \in [D -> Trackers]
    BY DEF TrackerMaps
  <1>2. /\ Without(f, t) \in [D \ {t} -> Trackers]
        /\ \A u \in D \ {t} : Without(f, t)[u] = f[u]
    BY <1>1 DEF Without, Restrict
  <1>3. D \ {t} \in SUBSET Txs /\ DOMAIN f = D
    BY <1>1
  <1> QED
    BY <1>2, <1>3 DEF TrackerMaps

LEMMA MapFacts ==
    ASSUME NEW f \in TrackerMaps
    PROVE  /\ DOMAIN f \subseteq Txs
           /\ \A t \in DOMAIN f : f[t] \in Trackers
  BY DEF TrackerMaps

LEMMA MapRestored ==
    ASSUME NEW rs \in [Txs -> Rows]
    PROVE  /\ Restored(rs) \in TrackerMaps
           /\ \A t : t \in DOMAIN Restored(rs) <=>
                        t \in Txs /\ rs[t].status # None /\ rs[t].index # None
           /\ \A t \in DOMAIN Restored(rs) : Restored(rs)[t] = rs[t]
  <1> DEFINE D == {u \in Txs : rs[u].status # None /\ rs[u].index # None}
  <1>1. \A t \in D : rs[t] \in Trackers
    BY DEF Rows, Trackers, Optional
  <1>2. Restored(rs) = [t \in D |-> rs[t]]
    BY DEF Restored
  <1>3. Restored(rs) \in [D -> Trackers] /\ D \in SUBSET Txs
    BY <1>1, <1>2
  <1> QED
    BY <1>2, <1>3 DEF TrackerMaps

LEMMA StatusKinds ==
    /\ Authorized \in Statuses /\ Executing \in Statuses /\ Unsent \in Statuses
    /\ \A h \in Heights : Broadcasted(h) \in Statuses /\ Broadcasted(h).label = "broadcasted"
    /\ Authorized.label = "authorized" /\ Executing.label = "executing"
    /\ Unsent.label = "unsent"
    /\ Unsent # Authorized /\ Unsent # Executing
  BY DEF Statuses, Authorized, Executing, Unsent, Broadcasted, Heights

-----------------------------------------------------------------------------
(* What the steps do to the trackers, the rows and the requests: most do    *)
(* nothing, or one of a few things.                                         *)

Unlimited == AuthAttempts = None /\ CastAttempts = None

FewerShots ==
    /\ shots' = [i \in Instances |-> shots'[i]]
    /\ \A i \in Instances : \A x : BagIn(x, shots'[i]) => BagIn(x, shots[i])

\* Executions and broadcasts that write nothing, the clock of the sweeps, what
\* a sweep finds, the task of an instance, the network.
Quiet ==
    /\ UNCHANGED <<current, made, tracked, received, rows, saved, client, submitted, deleting>>
    /\ FewerShots
    /\ ledger \subseteq ledger'
    /\ sweep' \in Sweeps
    /\ sweep' # Idle => \A t \in sweep'.remove :
            \/ sweep # Idle /\ t \in sweep.remove
            \/ t \in ledger
            \/ ~Unlimited

Mark(r, s, b) == [r EXCEPT !.status = s, !.blob = r.blob \/ b]

\* A tracked transaction gets a status and perhaps its blob, in tracker and row.
Marked(i, t, s, b) ==
    /\ Tracks(i, t)
    /\ tracked' = [tracked EXCEPT ![i][t] = Mark(@, s, b)]
    /\ rows' = [rows EXCEPT ![t] = Mark(@, s, b)]
    /\ s = Unsent => b
    /\ s.label = "broadcasted" => \E h \in Heights : BagIn(<<t, h>>, shots[i])
    /\ FewerShots
    /\ UNCHANGED <<current, made, received, saved, client, submitted, sweep, deleting, ledger>>

Fired(i, t) ==
    /\ Tracks(i, t) /\ tracked[i][t].blob
    /\ shots' = [j \in Instances |-> shots'[j]]
    /\ \A j \in Instances : \A x :
            BagIn(x, shots'[j]) => BagIn(x, shots[j]) \/ (j = i /\ x = <<t, latest>>)
    /\ UNCHANGED <<current, made, tracked, received, rows, saved, client, submitted, sweep,
                   deleting, ledger>>

\* A tracker goes: its cannon has no target, or a sweep decided so.
Forgotten(i, t) ==
    /\ tracked' = [tracked EXCEPT ![i] = Without(@, t)]
    /\ deleting' = deleting \cup {t}
    /\ \/ ~HasTarget /\ sweep' = sweep
       \/ /\ sweep # Idle /\ t \in sweep.remove
          /\ sweep' = [sweep EXCEPT !.remove = @ \ {t}]
    /\ UNCHANGED <<current, made, received, shots, rows, saved, client, submitted, ledger>>

\* A request takes an index.
Taken(c, t, r) ==
    /\ Submission(c, t)
    /\ ~Tracks(current, t)
    /\ Take(current, c, t, r)
    /\ r \in Trackers
    /\ r.index = received[current]
    /\ r.status # Authorized => r.blob
    /\ UNCHANGED <<current, made, tracked, shots, rows, saved, sweep, deleting, ledger>>

\* Rows go.
Wiped(t) ==
    /\ t \in ledger \cup deleting
    /\ rows' = [rows EXCEPT ![t] = NoRow]
    /\ deleting' \subseteq deleting
    /\ submitted' \in [Txs -> Nat]
    /\ \A u \in Txs : submitted'[u] = 0 => submitted[u] = 0
    /\ UNCHANGED <<current, made, tracked, received, shots, saved, client, sweep, ledger>>

Effect ==
    \/ Quiet
    \/ \E i \in Instances, t \in Txs, s \in Statuses, b \in BOOLEAN : Marked(i, t, s, b)
    \/ \E i \in Instances, t \in Txs : Fired(i, t) \/ Forgotten(i, t)
    \/ \E c \in Clients, t \in Txs : ProxyResult(c, t) \/ \E r : Taken(c, t, r)
    \/ \E t \in Txs : Wiped(t)
    \/ \E c \in Clients : SaveCount(c) \/ StoreHead(c) \/ StoreBody(c) \/ Insert(c)
    \/ NewInstance \/ InsertEnv \/ Restart

LEMMA ShotsKept ==
    ASSUME Typed, UNCHANGED shots
    PROVE  FewerShots
  BY DEF Typed, FewerShots

LEMMA ShotTaken ==
    ASSUME Typed, NEW i \in Instances, NEW x,
           shots' = [shots EXCEPT ![i] = Minus(@, x)]
    PROVE  FewerShots
  <1>1. shots' = [j \in Instances |-> IF j = i THEN Minus(shots[j], x) ELSE shots[j]]
    BY DEF Typed
  <1> QED
    BY <1>1, MinusIn DEF FewerShots

LEMMA Calm ==
    ASSUME Typed,
           UNCHANGED <<current, made, tracked, received, rows, saved, client, submitted,
                       sweep, deleting>>,
           FewerShots, ledger \subseteq ledger'
    PROVE  Quiet
  BY DEF Quiet, Typed

\* Statuses are written to trackers and rows alike.
LEMMA Written ==
    ASSUME Typed, NEW i \in Instances, NEW t \in Txs, NEW s \in Statuses, WriteStatus(i, t, s),
           s # Unsent,
           s.label = "broadcasted" =>
                \E h \in Heights : BagIn(<<t, h>>, shots[i]),
           FewerShots,
           UNCHANGED <<current, made, received, saved, client, submitted, sweep, deleting, ledger>>
    PROVE  Effect
  <1>1. CASE Tracks(i, t)
    <2>1. tracked[i][t] \in Trackers /\ rows[t] \in Rows
      BY <1>1, MapFacts DEF Typed, Tracks
    <2>2. tracked' = [tracked EXCEPT ![i][t] = Mark(@, s, FALSE)]
      <3>1. tracked' = [tracked EXCEPT ![i] = [@ EXCEPT ![t] = [tracked[i][t] EXCEPT !.status = s]]]
        BY <1>1 DEF WriteStatus
      <3>2. [tracked[i][t] EXCEPT !.status = s]
                = Mark(tracked[i][t], s, FALSE)
        BY <2>1 DEF Trackers, Mark
      <3> QED
        BY <3>1, <3>2
    <2>3. rows' = [rows EXCEPT ![t] = Mark(@, s, FALSE)]
      <3>1. rows' = [rows EXCEPT ![t] = [rows[t] EXCEPT !.status = s]]
        BY <1>1 DEF WriteStatus
      <3>2. [rows[t] EXCEPT !.status = s] = Mark(rows[t], s, FALSE)
        BY <2>1 DEF Rows, Mark
      <3> QED
        BY <3>1, <3>2
    <2>4. Marked(i, t, s, FALSE)
      BY <1>1, <2>2, <2>3 DEF Marked
    <2> QED
      BY <2>4 DEF Effect
  <1>2. CASE ~Tracks(i, t)
    <2>1. UNCHANGED <<tracked, rows>>
      BY <1>2 DEF WriteStatus
    <2>2. Quiet
      BY <2>1, Calm
    <2> QED
      BY <2>2 DEF Effect
  <1> QED
    BY <1>1, <1>2

\* The requests.
LEMMA RequestEffect ==
    ASSUME Typed, NEW c \in Clients, Request(c) \/ Serve(c)
    PROVE  Effect
  <1>1. CASE \E t \in Txs : ProxyAuth(c, t) \/ ProxyBroadcast(c, t)
    <2>1. PICK t \in Txs : ProxyAuth(c, t) \/ ProxyBroadcast(c, t)
      BY <1>1
    <2>2. received[current] \in Nat
      BY DEF Typed
    <2>3. Taken(c, t, [index |-> received[current], auth |-> TRUE, blob |-> FALSE,
                       status |-> Authorized])
          \/ Taken(c, t, [index |-> received[current], auth |-> FALSE, blob |-> TRUE,
                          status |-> Unsent])
      BY <2>1, <2>2, StatusKinds DEF ProxyAuth, ProxyBroadcast, Taken, Rest, disk, network, Trackers
    <2> QED
      BY <2>3 DEF Effect
  <1>2. CASE \E t \in Txs : ProxyResult(c, t)
    BY <1>2 DEF Effect
  <1>3. CASE \E t \in Txs : ProxyKnown(c, t)
    <2>1. PICK t \in Txs : ProxyKnown(c, t)
      BY <1>3
    <2>2. submitted \in [Txs -> Nat] /\ submitted' = [submitted EXCEPT ![t] = @ + 1]
      BY <2>1 DEF ProxyKnown, Submission, Typed
    <2>3. submitted' \in [Txs -> Nat] /\ \A u \in Txs : submitted'[u] = 0 => submitted[u] = 0
      BY <2>2
    <2>4. Wiped(t)
      BY <2>1, <2>3 DEF ProxyKnown, Wiped, memory, network
    <2> QED
      BY <2>4 DEF Effect
  <1>4. CASE Serve(c)
    BY <1>4 DEF Serve, Effect
  <1> QED
    BY <1>1, <1>2, <1>3, <1>4 DEF Request

\* The task of an instance.
LEMMA TaskEffect ==
    ASSUME Typed, NEW i \in Instances, TaskStep(i)
    PROVE  Effect
  <1>1. CASE RecvAuth(i) \/ Spawn(i) \/ Drop(i)
    <2>1. UNCHANGED <<current, made, tracked, received, shots, rows, saved, client, submitted,
                      sweep, deleting, ledger>>
      BY <1>1 DEF RecvAuth, Spawn, Drop, disk, network
    <2> QED
      BY <2>1, ShotsKept, Calm DEF Effect
  <1>2. CASE RecvTx(i)
    <2> DEFINE t == Head(txs[i])
    <2>1. CASE ~Sendable(i, t)
      <3>1. UNCHANGED <<current, made, tracked, received, shots, rows, saved, client, submitted,
                        sweep, deleting, ledger>>
        BY <1>2, <2>1 DEF RecvTx, disk, network
      <3> QED
        BY <3>1, ShotsKept, Calm DEF Effect
    <2>2. CASE Sendable(i, t)
      <3>1. t \in Txs
        BY <2>2, MapFacts DEF Sendable, Tracks, Typed
      <3>2. UNCHANGED <<current, made, received, rows, saved, client, submitted, sweep, ledger>>
        BY <1>2 DEF RecvTx, disk, network
      <3>3. CASE ~HasTarget
        <4>1. Forgotten(i, t)
          BY <1>2, <2>2, <3>2, <3>3 DEF RecvTx, Forgotten
        <4> QED
          BY <3>1, <4>1 DEF Effect
      <3>4. CASE HasTarget
        <4>1. /\ shots' \in {shots, [shots EXCEPT ![i] = Plus(@, <<t, latest>>)]}
              /\ UNCHANGED <<tracked, deleting>>
          BY <1>2, <2>2, <3>4 DEF RecvTx
        <4>2. CASE shots' = shots
          BY <3>2, <4>1, <4>2, ShotsKept, Calm DEF Effect
        <4>3. CASE shots' = [shots EXCEPT ![i] = Plus(@, <<t, latest>>)]
          <5>1. shots' = [j \in Instances |->
                            IF j = i THEN Plus(shots[j], <<t, latest>>) ELSE shots[j]]
            BY <4>3 DEF Typed
          <5>2. \A j \in Instances : \A x :
                    BagIn(x, shots'[j]) => BagIn(x, shots[j]) \/ (j = i /\ x = <<t, latest>>)
            BY <5>1, PlusIn
          <5>3. Fired(i, t)
            BY <2>2, <3>2, <4>1, <5>1, <5>2 DEF Fired, Sendable
          <5> QED
            BY <3>1, <5>3 DEF Effect
        <4> QED
          BY <4>1, <4>2, <4>3
      <3> QED
        BY <3>3, <3>4
    <2> QED
      BY <2>1, <2>2
  <1>3. ASSUME NEW t \in Txs, StartExec(i, t) \/ ExecFails(i, t)
        PROVE  Effect
    <2>1. UNCHANGED <<current, made, received, shots, saved, client, submitted, sweep, deleting,
                      ledger>>
      BY <1>3 DEF StartExec, ExecFails, network
    <2>2. WriteStatus(i, t, Executing) \/ WriteStatus(i, t, Authorized)
      BY <1>3 DEF StartExec, ExecFails
    <2>3. Executing.label # "broadcasted" /\ Authorized.label # "broadcasted"
      BY StatusKinds
    <2> QED
      BY <2>1, <2>2, <2>3, ShotsKept, Written, StatusKinds
  <1>4. ASSUME NEW t \in Txs, NoCompute(i, t)
        PROVE  Effect
    <2>1. UNCHANGED <<current, made, tracked, received, shots, rows, saved, client, submitted,
                      sweep, deleting, ledger>>
      BY <1>4 DEF NoCompute, disk, network
    <2> QED
      BY <2>1, ShotsKept, Calm DEF Effect
  <1>5. ASSUME NEW t \in Txs, ExecDone(i, t)
        PROVE  Effect
    <2>1. UNCHANGED <<current, made, received, shots, saved, client, submitted, sweep, deleting,
                      ledger>>
      BY <1>5 DEF ExecDone, network
    <2>2. CASE ~Tracks(i, t)
      <3>1. UNCHANGED <<tracked, rows>>
        BY <1>5, <2>2 DEF ExecDone
      <3> QED
        BY <2>1, <3>1, ShotsKept, Calm DEF Effect
    <2>3. CASE Tracks(i, t)
      <3>1. tracked[i][t] \in Trackers /\ rows[t] \in Rows
        BY <2>3, MapFacts DEF Typed, Tracks
      <3>2. tracked' = [tracked EXCEPT ![i][t] = Mark(@, Unsent, TRUE)]
        <4>1. tracked' = [tracked EXCEPT ![i] =
                            [@ EXCEPT ![t] = [tracked[i][t] EXCEPT !.status = Unsent, !.blob = TRUE]]]
          <5> DEFINE r1 == [tracked[i][t] EXCEPT !.status = Unsent]
          <5>1. tracked' = [tracked EXCEPT ![i][t].status = Unsent, ![i][t].blob = TRUE]
            BY <1>5, <2>3 DEF ExecDone
          <5>2. tracked \in [Instances -> TrackerMaps] /\ t \in DOMAIN tracked[i]
            BY <2>3 DEF Typed, Tracks
          <5>3. tracked[i] = [u \in DOMAIN tracked[i] |-> tracked[i][u]]
            BY <5>2 DEF TrackerMaps
          <5> QED
            BY <5>1, <5>2, <5>3
        <4>2. [tracked[i][t] EXCEPT !.status = Unsent, !.blob = TRUE] = Mark(tracked[i][t], Unsent, TRUE)
          BY <3>1 DEF Trackers, Mark
        <4> QED
          BY <4>1, <4>2
      <3>3. rows' = [rows EXCEPT ![t] = Mark(@, Unsent, TRUE)]
        <4>1. rows' = [rows EXCEPT ![t] = [rows[t] EXCEPT !.status = Unsent, !.blob = TRUE]]
          BY <1>5, <2>3 DEF ExecDone, Typed
        <4>2. [rows[t] EXCEPT !.status = Unsent, !.blob = TRUE] = Mark(rows[t], Unsent, TRUE)
          BY <3>1 DEF Rows, Mark
        <4> QED
          BY <4>1, <4>2
      <3>4. Marked(i, t, Unsent, TRUE)
        <4>1. Unsent.label # "broadcasted"
          BY StatusKinds
        <4> QED
          BY <2>1, <2>3, <3>2, <3>3, <4>1, ShotsKept DEF Marked
      <3> QED
        BY <3>4, StatusKinds DEF Effect
    <2> QED
      BY <2>2, <2>3
  <1>6. ASSUME NEW t \in Txs, NEW h \in Heights, Acked(i, t, h)
        PROVE  Effect
    <2>1. UNCHANGED <<current, made, received, saved, client, submitted, sweep, deleting, ledger>>
      BY <1>6 DEF Acked, network
    <2>2. /\ WriteStatus(i, t, Broadcasted(h))
          /\ BagIn(<<t, h>>, shots[i])
          /\ shots' = [shots EXCEPT ![i] = Minus(@, <<t, h>>)]
      BY <1>6 DEF Acked, Shot
    <2>3. Broadcasted(h) \in Statuses /\ Broadcasted(h) # Unsent
      <3>1. Broadcasted(h).label = "broadcasted" /\ Unsent.label = "unsent"
        BY StatusKinds
      <3> QED
        BY <3>1, StatusKinds
    <2>4. FewerShots
      BY <2>2, ShotTaken
    <2> QED
      BY <2>1, <2>2, <2>3, <2>4, Written
  <1>7. ASSUME NEW t \in Txs, NEW h \in Heights, NodeTakes(i, t, h) \/ ShotEnds(i, t, h)
        PROVE  Effect
    <2>1. UNCHANGED <<current, made, tracked, received, rows, saved, client, submitted,
                      sweep, deleting, ledger>>
      BY <1>7 DEF NodeTakes, ShotEnds, memory, disk, network
    <2>2. UNCHANGED shots \/ shots' = [shots EXCEPT ![i] = Minus(@, <<t, h>>)]
      BY <1>7 DEF NodeTakes, ShotEnds, memory
    <2>3. FewerShots
      BY <2>2, ShotsKept, ShotTaken
    <2> QED
      BY <2>1, <2>3, Calm DEF Effect
  <1> QED
    BY <1>1, <1>2, <1>3, <1>4, <1>5, <1>6, <1>7 DEF TaskStep

\* A sweep has nothing to give up where there are no limits.
LEMMA NothingToGiveUp ==
    ASSUME Unlimited
    PROVE  \A i, expired : Pending(i, expired).remove = {}
  BY DEF Unlimited, Pending, Over

\* The tracking task.
LEMMA SweepEffect ==
    ASSUME Typed, SweepStep
    PROVE  Effect
  <1>1. ASSUME NEW expired \in SUBSET Txs, Sweep(expired)
        PROVE  Effect
    <2> DEFINE p == Pending(current, expired)
    <2>1. /\ UNCHANGED <<current, made, tracked, received, shots, rows, saved, client, submitted,
                         deleting, ledger>>
          /\ sweep' = [step |-> "confirm", inst |-> current, confirm |-> p.confirm,
                       remove |-> p.remove]
      BY <1>1 DEF Sweep, disk, network
    <2>2. DOMAIN tracked[current] \subseteq Txs /\ current \in Instances
      BY MapFacts DEF Typed
    <2>3. p.confirm \subseteq Txs /\ p.remove \subseteq Txs
      BY <2>2 DEF Pending
    <2>4. Unlimited => p.remove = {}
      BY NothingToGiveUp
    <2> HIDE DEF p
    <2>5. sweep' \in Sweeps
      BY <2>1, <2>2, <2>3 DEF Sweeps
    <2>6. sweep'.remove = p.remove
      BY <2>1
    <2>7. Quiet
      BY <2>1, <2>4, <2>5, <2>6, ShotsKept DEF Quiet
    <2> QED
      BY <2>7 DEF Effect
  <1>2. ASSUME NEW t \in Txs, Confirm(t)
        PROVE  Effect
    <2>1. /\ sweep.step = "confirm"
          /\ UNCHANGED <<current, made, tracked, received, shots, rows, saved, client, submitted,
                         deleting, ledger>>
      BY <1>2 DEF Confirm, memory, disk, network
    <2>2. sweep # Idle /\ sweep \in [step : {"confirm"}, inst : Instances,
                                     confirm : SUBSET Txs, remove : SUBSET Txs]
      BY <2>1 DEF Typed, Sweeps, Idle
    <2>3. PICK found \in BOOLEAN :
            /\ found => t \in ledger
            /\ sweep' = [sweep EXCEPT !.confirm = @ \ {t},
                                      !.remove = IF found THEN @ \cup {t} ELSE @]
      BY <1>2 DEF Confirm
    <2>4. sweep' \in Sweeps /\ sweep'.remove = IF found THEN sweep.remove \cup {t} ELSE sweep.remove
      BY <2>2, <2>3 DEF Sweeps
    <2>5. Quiet
      BY <2>1, <2>2, <2>3, <2>4, ShotsKept DEF Quiet
    <2> QED
      BY <2>5 DEF Effect
  <1>3. ASSUME NEW t \in Txs, Forget(t)
        PROVE  Effect
    <2>1. sweep # Idle /\ sweep.inst \in Instances
      BY <1>3 DEF Forget, Typed, Sweeps, Idle
    <2>2. Forgotten(sweep.inst, t)
      BY <1>3, <2>1 DEF Forget, Forgotten, disk, network
    <2> QED
      BY <2>1, <2>2 DEF Effect
  <1>4. ASSUME NEW t \in Txs, DeleteRows(t)
        PROVE  Effect
    <2>1. Wiped(t)
      BY <1>4 DEF DeleteRows, Wiped, memory, network, Typed
    <2> QED
      BY <2>1 DEF Effect
  <1>5. CASE SweepEnds
    <2>1. /\ UNCHANGED <<current, made, tracked, received, shots, rows, saved, client, submitted,
                         deleting, ledger>>
          /\ sweep' = Idle
      BY <1>5 DEF SweepEnds, memory, disk, network
    <2>2. Quiet
      BY <2>1, ShotsKept DEF Quiet, Sweeps
    <2> QED
      BY <2>2 DEF Effect
  <1> QED
    BY <1>1, <1>2, <1>3, <1>4, <1>5 DEF SweepStep

LEMMA StepEffect ==
    ASSUME Typed, [Next]_vars
    PROVE  Effect
  <1>1. CASE UNCHANGED vars
    BY <1>1, ShotsKept, Calm DEF Effect, vars, memory, disk, network
  <1>2. ASSUME NEW S, Block(S)
        PROVE  Effect
    BY <1>2, ShotsKept, Calm DEF Block, Effect, memory, disk
  <1>3. CASE Report
    BY <1>3, ShotsKept, Calm DEF Report, Effect, memory, disk
  <1> QED
    BY <1>1, <1>2, <1>3, RequestEffect, TaskEffect, SweepEffect DEF Next, Effect

-----------------------------------------------------------------------------

LEMMA TypedInit ==
    ASSUME Init
    PROVE  Typed
  <1>1. <<>> \in TrackerMaps
    BY EmptyMap
  <1>2. NoRow \in Rows
    BY DEF NoRow, Rows, Optional
  <1>3. 1 \in Instances
    BY CannonAssumption DEF Instances
  <1> QED
    BY <1>1, <1>2, <1>3 DEF Init, Typed, Optional, Requests, Sweeps

\* What the rows become when the control plane crashes.
LEMMA CrashRows ==
    ASSUME Typed, NEW rs \in RowsAtCrash
    PROVE  /\ rs \in [Txs -> Rows]
           /\ \A t \in Txs : /\ rs[t].index = rows[t].index
                             /\ rs[t].auth = rows[t].auth /\ rs[t].blob = rows[t].blob
                             /\ rs[t].status \in {rows[t].status, Unsent}
                             /\ ~Tracks(current, t) => rs[t] = rows[t]
  <1>1. CASE rs = rows
    BY <1>1 DEF Typed
  <1>2. CASE \E t \in Txs : Exec(current, t, "rpc") /\ Tracks(current, t)
                            /\ rs = [rows EXCEPT ![t].status = Unsent]
    <2>1. PICK t \in Txs : Exec(current, t, "rpc") /\ Tracks(current, t)
                           /\ rs = [rows EXCEPT ![t].status = Unsent]
      BY <1>2
    <2>2. rows \in [Txs -> Rows] /\ Unsent \in Optional(Statuses)
      BY StatusKinds DEF Typed, Optional
    <2>3. rs = [rows EXCEPT ![t] = [rows[t] EXCEPT !.status = Unsent]]
          /\ [rows[t] EXCEPT !.status = Unsent] \in Rows
      BY <2>1, <2>2 DEF Rows
    <2> QED
      BY <2>1, <2>2, <2>3 DEF Rows
  <1> QED
    BY <1>1, <1>2 DEF RowsAtCrash

LEMMA RestoredCountType ==
    ASSUME Typed
    PROVE  RestoredCount \in Nat
  BY DEF Typed, Optional, RestoredCount

LEMMA TypedStep ==
    ASSUME Typed, [Next]_vars
    PROVE  Typed'
  <1>1. CASE Quiet
    BY <1>1 DEF Quiet, FewerShots, Typed
  <1>2. ASSUME NEW i \in Instances, NEW t \in Txs, NEW s \in Statuses, NEW b \in BOOLEAN,
               Marked(i, t, s, b)
        PROVE  Typed'
    <2>1. tracked[i] \in TrackerMaps /\ tracked[i][t] \in Trackers /\ rows[t] \in Rows
      BY <1>2, MapFacts DEF Typed, Marked, Tracks
    <2>2. Mark(tracked[i][t], s, b) \in Trackers
      BY <2>1 DEF Mark, Trackers
    <2>3. Mark(rows[t], s, b) \in Rows
      BY <2>1 DEF Mark, Rows, Optional
    <2>4. [tracked[i] EXCEPT ![t] = Mark(tracked[i][t], s, b)] \in TrackerMaps
      BY <2>1, <2>2 DEF TrackerMaps
    <2>5. tracked' = [tracked EXCEPT ![i] = [tracked[i] EXCEPT ![t] = Mark(tracked[i][t], s, b)]]
      BY <1>2 DEF Marked
    <2> QED
      BY <1>2, <2>3, <2>4, <2>5 DEF Marked, FewerShots, Typed
  <1>3. ASSUME NEW i \in Instances, NEW t \in Txs, Fired(i, t)
        PROVE  Typed'
    BY <1>3 DEF Fired, Typed
  <1>4. ASSUME NEW i \in Instances, NEW t \in Txs, Forgotten(i, t)
        PROVE  Typed'
    <2>1. Without(tracked[i], t) \in TrackerMaps
      BY MapWithout DEF Typed
    <2>2. sweep' \in Sweeps
      <3>1. CASE sweep' = sweep
        BY <3>1 DEF Typed
      <3>2. CASE sweep # Idle /\ sweep' = [sweep EXCEPT !.remove = @ \ {t}]
        <4>1. sweep \in [step : {"confirm"}, inst : Instances,
                         confirm : SUBSET Txs, remove : SUBSET Txs]
          BY <3>2 DEF Typed, Sweeps
        <4> QED
          BY <3>2, <4>1 DEF Sweeps
      <3> QED
        BY <1>4, <3>1, <3>2 DEF Forgotten
    <2> QED
      BY <1>4, <2>1, <2>2 DEF Forgotten, Typed
  <1>5. ASSUME NEW c \in Clients, NEW t \in Txs, NEW r, Taken(c, t, r)
        PROVE  Typed'
    <2>1. [step |-> "count", inst |-> current, tx |-> t, tracker |-> r] \in Requests
      BY <1>5 DEF Taken, Requests, Typed
    <2>2. client' \in [Clients -> Requests]
      BY <1>5, <2>1 DEF Taken, Take, Typed
    <2>3. received' \in [Instances -> Nat] /\ submitted' \in [Txs -> Nat]
      BY <1>5 DEF Taken, Take, Submission, Typed
    <2> QED
      BY <1>5, <2>2, <2>3 DEF Taken, Typed
  <1>6. ASSUME NEW c \in Clients, NEW t \in Txs, ProxyResult(c, t)
        PROVE  Typed'
    <2>1. tracked[current][t] \in Trackers /\ Unsent \in Statuses
      BY <1>6, MapFacts, StatusKinds DEF ProxyResult, Tracks, Typed
    <2>2. [tracked[current][t] EXCEPT !.status = Unsent, !.blob = TRUE] \in Trackers
      BY <2>1 DEF Trackers
    <2>3. client' \in [Clients -> Requests]
      BY <1>6, <2>2 DEF ProxyResult, Requests, Typed
    <2>4. submitted' \in [Txs -> Nat]
      BY <1>6 DEF ProxyResult, Submission, Typed
    <2> QED
      BY <1>6, <2>3, <2>4 DEF ProxyResult, memory, Typed
  <1>7. ASSUME NEW t \in Txs, Wiped(t)
        PROVE  Typed'
    <2>1. NoRow \in Rows
      BY DEF NoRow, Rows, Optional
    <2> QED
      BY <1>7, <2>1 DEF Wiped, Typed
  <1>8. ASSUME NEW c \in Clients, SaveCount(c) \/ StoreHead(c) \/ StoreBody(c) \/ Insert(c)
        PROVE  Typed'
    <2>1. client[c] \in [step : {"count", "head", "body", "insert"}, inst : Instances,
                         tx : Txs, tracker : Trackers]
      BY <1>8 DEF Typed, Requests, Idle, SaveCount, StoreHead, StoreBody, Insert
    <2> DEFINE t == client[c].tx
               r == client[c].tracker
    <2>2. t \in Txs /\ r \in Trackers /\ rows[t] \in Rows /\ client[c].inst \in Instances
          /\ r.index \in Nat /\ r.status \in Statuses /\ r.auth \in BOOLEAN /\ r.blob \in BOOLEAN
      BY <2>1 DEF Typed, Trackers
    <2>3. \A st \in {"count", "head", "body", "insert"} : [client[c] EXCEPT !.step = st] \in Requests
      BY <2>1 DEF Requests
    <2>4. CASE StoreHead(c)
      <3>1. rows' = [rows EXCEPT ![t] = [[rows[t] EXCEPT !.index = r.index] EXCEPT !.status = r.status]]
        BY <2>4, <2>2 DEF StoreHead, Typed
      <3>2. [[rows[t] EXCEPT !.index = r.index] EXCEPT !.status = r.status] \in Rows
        BY <2>2 DEF Rows, Optional
      <3>3. client' = [client EXCEPT ![c] = [client[c] EXCEPT !.step = "body"]]
        BY <2>4 DEF StoreHead
      <3> QED
        BY <2>2, <2>3, <2>4, <3>1, <3>2, <3>3 DEF StoreHead, Typed, memory
    <2>5. CASE StoreBody(c)
      <3>1. rows' = [rows EXCEPT ![t] = [[rows[t] EXCEPT !.auth = rows[t].auth \/ r.auth]
                                                 EXCEPT !.blob = rows[t].blob \/ r.blob]]
        BY <2>5, <2>2 DEF StoreBody, Typed, Rows
      <3>2. [[rows[t] EXCEPT !.auth = rows[t].auth \/ r.auth]
                     EXCEPT !.blob = rows[t].blob \/ r.blob] \in Rows
        BY <2>2 DEF Rows, Optional
      <3>3. client' = [client EXCEPT ![c] = [client[c] EXCEPT !.step = "insert"]]
        BY <2>5 DEF StoreBody
      <3> QED
        BY <2>2, <2>3, <2>5, <3>1, <3>2, <3>3 DEF StoreBody, Typed, memory
    <2>6. CASE Insert(c)
      <3>1. tracked' = [tracked EXCEPT ![client[c].inst] = With(@, t, r)]
            /\ client' = [client EXCEPT ![c] = Idle]
        BY <2>6 DEF Insert
      <3>2. With(tracked[client[c].inst], t, r) \in TrackerMaps
        BY <2>2, MapWith DEF Typed
      <3>3. tracked' \in [Instances -> TrackerMaps] /\ client' \in [Clients -> Requests]
        BY <3>1, <3>2 DEF Typed, Requests
      <3> QED
        BY <2>6, <3>3 DEF Insert, Typed, disk
    <2>7. CASE SaveCount(c)
      <3>1. client' = [client EXCEPT ![c] = [client[c] EXCEPT !.step = "head"]]
            /\ saved' = r.index
        BY <2>7 DEF SaveCount
      <3> QED
        BY <2>2, <2>3, <2>7, <3>1 DEF SaveCount, Typed, memory, Optional
    <2> QED
      BY <1>8, <2>4, <2>5, <2>6, <2>7
  <1>9. CASE NewInstance
    <2>1. made' \in Instances /\ current <= made' /\ current' = current
      BY <1>9, CannonAssumption DEF NewInstance, Typed, Instances
    <2>2. tracked' \in [Instances -> TrackerMaps]
      <3>1. Restored(rows) \in TrackerMaps
        BY MapRestored DEF Typed
      <3> QED
        BY <1>9, <3>1 DEF NewInstance, Typed
    <2>3. received' \in [Instances -> Nat]
      BY <1>9, RestoredCountType DEF NewInstance, Typed
    <2> QED
      BY <1>9, <2>1, <2>2, <2>3 DEF NewInstance, disk, Typed
  <1>10. CASE InsertEnv
    BY <1>10, CannonAssumption DEF InsertEnv, disk, Typed, Instances
  <1>11. CASE Restart
    <2>1. rows' \in [Txs -> Rows]
      BY <1>11, CrashRows DEF Restart
    <2>2. Restored(rows') \in TrackerMaps
      BY <2>1, MapRestored
    <2>3. <<>> \in TrackerMaps
      BY EmptyMap
    <2>4. 1 \in Instances
      BY CannonAssumption DEF Instances
    <2>5. tracked' \in [Instances -> TrackerMaps]
      BY <1>11, <2>2, <2>3 DEF Restart
    <2>6. received' \in [Instances -> Nat]
      BY <1>11, RestoredCountType DEF Restart
    <2>7. client' \in [Clients -> Requests] /\ sweep' \in Sweeps /\ deleting' \subseteq Txs
      BY <1>11 DEF Restart, Requests, Sweeps
    <2> QED
      BY <1>11, <2>1, <2>4, <2>5, <2>6, <2>7 DEF Restart, Typed
  <1> QED
    BY <1>1, <1>2, <1>3, <1>4, <1>5, <1>6, <1>7, <1>8, <1>9, <1>10, <1>11, StepEffect DEF Effect

\* The requests being served, with the tracker they carry.
LEMMA Served ==
    ASSUME Typed, NEW c \in Clients, client[c] # Idle
    PROVE  /\ client[c].step \in {"count", "head", "body", "insert"}
           /\ client[c].inst \in Instances /\ client[c].tx \in Txs
           /\ client[c].tracker \in Trackers
           /\ \A st \in {"head", "body", "insert"} :
                /\ [client[c] EXCEPT !.step = st] # Idle
                /\ [client[c] EXCEPT !.step = st].inst = client[c].inst
                /\ [client[c] EXCEPT !.step = st].tx = client[c].tx
                /\ [client[c] EXCEPT !.step = st].tracker = client[c].tracker
                /\ [client[c] EXCEPT !.step = st].step = st
  <1>1. client[c] \in [step : {"count", "head", "body", "insert"}, inst : Instances,
                       tx : Txs, tracker : Trackers]
    BY DEF Typed, Requests
  <1> QED
    BY <1>1 DEF Idle

\* The rest of the types: channels, bags, tasks, counters and the network.
Bag(B, S) == IsABag(B) /\ BagToSet(B) \subseteq S
Execs == Txs \X {"new", "rpc"}
Shots == Txs \X Heights

WorkTyped ==
    /\ auths \in [Instances -> Seq(Txs)] /\ txs \in [Instances -> Seq(Txs)]
    /\ DOMAIN execs = Instances /\ \A i \in Instances : Bag(execs[i], Execs)
    /\ DOMAIN shots = Instances /\ \A i \in Instances : Bag(shots[i], Shots)
    /\ run \in [Instances -> {"waiting", "running", "stopped"}]
    /\ holds \in [Instances -> Optional(Instances)]
    /\ attempts \in [Txs -> Nat]
    /\ chain \in 0 .. MaxHeight /\ latest \in Heights
    /\ ledger \subseteq mempool /\ mempool \subseteq Txs

LEMMA PlusBag ==
    ASSUME NEW S, NEW B, Bag(B, S), NEW x \in S
    PROVE  Bag(Plus(B, x), S)
  BY DEF Bag, IsABag, BagToSet, Plus, (+), SetToBag

LEMMA MinusBag ==
    ASSUME NEW S, NEW B, Bag(B, S), NEW x
    PROVE  Bag(Minus(B, x), S)
  BY DEF Bag, IsABag, BagToSet, Minus, (-), SetToBag

LEMMA EmptyBagIs == \A S : Bag(EmptyBag, S)
  BY DEF Bag, IsABag, BagToSet, EmptyBag, SetToBag

LEMMA WorkInit ==
    ASSUME Init
    PROVE  WorkTyped
  <1>1. <<>> \in Seq(Txs)
    OBVIOUS
  <1> QED
    BY <1>1, EmptyBagIs, CannonAssumption DEF Init, WorkTyped, Heights, Optional

\* The transactions a sweep queues.
LEMMA Ordered ==
    ASSUME NEW i, NEW S \in SUBSET Txs, NEW s \in ByIndex(i, S)
    PROVE  s \in Seq(Txs)
  <1>1. Cardinality(S) \in Nat
    BY CannonAssumption, FS_Subset, FS_CardinalityType
  <1>2. s \in [1 .. Cardinality(S) -> S]
    BY DEF ByIndex
  <1>3. s \in [1 .. Cardinality(S) -> Txs]
    BY <1>2
  <1> HIDE DEF ByIndex
  <1> QED
    BY <1>1, <1>3

LEMMA WorkStep ==
    ASSUME Typed, WorkTyped, [Next]_vars
    PROVE  WorkTyped'
  <1>1. ASSUME UNCHANGED <<auths, txs, execs, shots, run, holds, chain, latest, mempool, ledger>>,
               attempts' \in [Txs -> Nat]
        PROVE  WorkTyped'
    BY <1>1 DEF WorkTyped
  <1>2. ASSUME NEW t, NEW n \in Nat, attempts' = [attempts EXCEPT ![t] = n]
        PROVE  attempts' \in [Txs -> Nat]
    BY <1>2 DEF WorkTyped
  <1>3. ASSUME NEW c \in Clients, Request(c) \/ Serve(c)
        PROVE  WorkTyped'
    <2>1. CASE \E t \in Txs : ProxyAuth(c, t) \/ ProxyBroadcast(c, t)
      BY <1>1, <2>1 DEF ProxyAuth, ProxyBroadcast, Rest, disk, network, WorkTyped
    <2>2. CASE \E t \in Txs : ProxyResult(c, t) \/ ProxyKnown(c, t)
      BY <1>1, <1>2, <2>2 DEF ProxyResult, ProxyKnown, memory, network
    <2>3. CASE SaveCount(c) \/ StoreHead(c) \/ StoreBody(c)
      BY <1>1, <2>3 DEF SaveCount, StoreHead, StoreBody, memory, network, WorkTyped
    <2>4. CASE Insert(c)
      <3>1. client[c] # Idle
        BY <2>4 DEF Insert, Idle
      <3>2. client[c].tx \in Txs /\ client[c].inst \in Instances
        BY <3>1, Served
      <3> DEFINE i == client[c].inst
                 t == client[c].tx
      <3>3. \/ auths' = [auths EXCEPT ![i] = Append(@, t)] /\ txs' = txs
            \/ txs' = [txs EXCEPT ![i] = Append(@, t)] /\ auths' = auths
        BY <2>4 DEF Insert
      <3> HIDE DEF i, t
      <3>4. /\ auths \in [Instances -> Seq(Txs)] /\ txs \in [Instances -> Seq(Txs)]
            /\ Append(auths[i], t) \in Seq(Txs) /\ Append(txs[i], t) \in Seq(Txs)
        BY <3>2 DEF WorkTyped, i, t
      <3>5. auths' \in [Instances -> Seq(Txs)] /\ txs' \in [Instances -> Seq(Txs)]
        <4>1. CASE auths' = [auths EXCEPT ![i] = Append(@, t)] /\ txs' = txs
          BY <3>4, <4>1
        <4>2. CASE txs' = [txs EXCEPT ![i] = Append(@, t)] /\ auths' = auths
          BY <3>4, <4>2
        <4> QED
          BY <3>3, <4>1, <4>2
      <3> QED
        BY <2>4, <3>5 DEF Insert, WorkTyped, disk, network
    <2> QED
      BY <1>3, <2>1, <2>2, <2>3, <2>4 DEF Request, Serve
  <1>4. ASSUME NEW i \in Instances, TaskStep(i)
        PROVE  WorkTyped'
    <2>1. CASE RecvAuth(i)
      <3> DEFINE t == Head(auths[i])
      <3>1. execs' = execs \/ (Tracks(i, t) /\ execs' = [execs EXCEPT ![i] = Plus(@, <<t, "new">>)])
        BY <2>1 DEF RecvAuth, WorkTyped
      <3>2. Tracks(i, t) => <<t, "new">> \in Execs
        BY MapFacts DEF Tracks, Execs, Typed
      <3> HIDE DEF t
      <3>3. DOMAIN execs' = Instances /\ \A j \in Instances : Bag(execs'[j], Execs)
        <4>1. CASE execs' = execs
          BY <4>1 DEF WorkTyped
        <4>2. CASE Tracks(i, t) /\ execs' = [execs EXCEPT ![i] = Plus(@, <<t, "new">>)]
          BY <3>2, <4>2, PlusBag DEF WorkTyped
        <4> QED
          BY <3>1, <4>1, <4>2
      <3>4. auths' \in [Instances -> Seq(Txs)]
        BY <2>1 DEF RecvAuth, WorkTyped
      <3> QED
        BY <2>1, <3>3, <3>4 DEF RecvAuth, WorkTyped, disk, network
    <2>2. CASE RecvTx(i)
      <3> DEFINE t == Head(txs[i])
      <3>1. shots' = shots \/ (Tracks(i, t) /\ shots' = [shots EXCEPT ![i] = Plus(@, <<t, latest>>)])
        BY <2>2 DEF RecvTx, Sendable
      <3>2. Tracks(i, t) => <<t, latest>> \in Shots
        BY MapFacts DEF Tracks, Shots, Typed, WorkTyped
      <3> HIDE DEF t
      <3>3. DOMAIN shots' = Instances /\ \A j \in Instances : Bag(shots'[j], Shots)
        <4>1. CASE shots' = shots
          BY <4>1 DEF WorkTyped
        <4>2. CASE Tracks(i, t) /\ shots' = [shots EXCEPT ![i] = Plus(@, <<t, latest>>)]
          BY <3>2, <4>2, PlusBag DEF WorkTyped
        <4> QED
          BY <3>1, <4>1, <4>2
      <3>4. txs' \in [Instances -> Seq(Txs)]
        BY <2>2 DEF RecvTx, WorkTyped
      <3> QED
        BY <2>2, <3>3, <3>4 DEF RecvTx, WorkTyped, disk, network
    <2>3. CASE Spawn(i) \/ Drop(i)
      <3>1. run' \in [Instances -> {"waiting", "running", "stopped"}]
        BY <2>3 DEF Spawn, Drop, WorkTyped
      <3>2. holds' \in [Instances -> Optional(Instances)]
        BY <2>3 DEF Spawn, Drop, WorkTyped, Typed, Optional
      <3> QED
        BY <2>3, <3>1, <3>2 DEF Spawn, Drop, WorkTyped, disk, network
    <2>4. ASSUME NEW t \in Txs, StartExec(i, t)
          PROVE  WorkTyped'
      <3>1. attempts' \in [Txs -> Nat]
        BY <2>4 DEF StartExec, IncAttempts, WorkTyped
      <3>2. DOMAIN execs' = Instances /\ \A j \in Instances : Bag(execs'[j], Execs)
        <4>1. <<t, "rpc">> \in Execs
          BY DEF Execs
        <4>2. Bag(Plus(Minus(execs[i], <<t, "new">>), <<t, "rpc">>), Execs)
          BY <4>1, PlusBag, MinusBag DEF WorkTyped
        <4> QED
          BY <2>4, <4>2 DEF StartExec, WorkTyped
      <3> QED
        BY <2>4, <3>1, <3>2 DEF StartExec, WorkTyped, network
    <2>5. ASSUME NEW t \in Txs, NEW ph, execs' = [execs EXCEPT ![i] = Minus(@, <<t, ph>>)]
          PROVE  DOMAIN execs' = Instances /\ \A j \in Instances : Bag(execs'[j], Execs)
      BY <2>5, MinusBag DEF WorkTyped
    <2>6. ASSUME NEW t \in Txs, NoCompute(i, t) \/ ExecDone(i, t) \/ ExecFails(i, t)
          PROVE  WorkTyped'
      <3>1. attempts' \in [Txs -> Nat]
        BY <1>2, <2>6 DEF NoCompute, ExecDone, ExecFails, WorkTyped, disk
      <3>2. DOMAIN execs' = Instances /\ \A j \in Instances : Bag(execs'[j], Execs)
        BY <2>5, <2>6 DEF NoCompute, ExecDone, ExecFails
      <3> QED
        BY <2>6, <3>1, <3>2 DEF NoCompute, ExecDone, ExecFails, WorkTyped, disk, network
    <2>7. ASSUME NEW t \in Txs, NEW h \in Heights,
                 shots' = [shots EXCEPT ![i] = Minus(@, <<t, h>>)] \/ shots' = shots
          PROVE  DOMAIN shots' = Instances /\ \A j \in Instances : Bag(shots'[j], Shots)
      <3>1. CASE shots' = shots
        BY <3>1 DEF WorkTyped
      <3>2. CASE shots' = [shots EXCEPT ![i] = Minus(@, <<t, h>>)]
        BY <3>2, MinusBag DEF WorkTyped
      <3> QED
        BY <2>7, <3>1, <3>2
    <2>8. ASSUME NEW t \in Txs, NEW h \in Heights,
                 NodeTakes(i, t, h) \/ Acked(i, t, h) \/ ShotEnds(i, t, h)
          PROVE  WorkTyped'
      <3>1. attempts' \in [Txs -> Nat]
        <4>1. attempts' = attempts \/ IncAttempts(t)
          BY <2>8 DEF NodeTakes, Acked, ShotEnds, disk
        <4>2. CASE attempts' = attempts
          BY <4>2 DEF WorkTyped
        <4>3. CASE IncAttempts(t)
          BY <4>3, CannonAssumption DEF IncAttempts, WorkTyped
        <4> QED
          BY <4>1, <4>2, <4>3
      <3>2. DOMAIN shots' = Instances /\ \A j \in Instances : Bag(shots'[j], Shots)
        BY <2>7, <2>8 DEF NodeTakes, Acked, ShotEnds, memory
      <3>3. ledger' = ledger /\ mempool' \in {mempool, mempool \cup {t}}
        BY <2>8 DEF NodeTakes, Acked, ShotEnds, network
      <3> QED
        BY <2>8, <3>1, <3>2, <3>3 DEF NodeTakes, Acked, ShotEnds, WorkTyped, memory, disk, network
    <2> QED
      BY <1>4, <2>1, <2>2, <2>3, <2>4, <2>6, <2>8 DEF TaskStep
  <1>5. CASE SweepStep
    <2>1. ASSUME NEW expired \in SUBSET Txs, Sweep(expired)
          PROVE  WorkTyped'
      <3> DEFINE p == Pending(current, expired)
      <3>1. p.execute \in SUBSET Txs /\ p.cast \in SUBSET Txs /\ current \in Instances
        BY MapFacts DEF Pending, Typed
      <3>2. /\ \E s \in ByIndex(current, p.execute) : auths' = [auths EXCEPT ![current] = @ \o s]
            /\ \E s \in ByIndex(current, p.cast) : txs' = [txs EXCEPT ![current] = @ \o s]
            /\ UNCHANGED <<execs, shots, run, holds, disk, network>>
        BY <2>1 DEF Sweep
      <3> HIDE DEF p
      <3>3. auths' \in [Instances -> Seq(Txs)] /\ txs' \in [Instances -> Seq(Txs)]
        <4>1. PICK s \in Seq(Txs) : auths' = [auths EXCEPT ![current] = @ \o s]
          BY <3>1, <3>2, Ordered
        <4>2. PICK u \in Seq(Txs) : txs' = [txs EXCEPT ![current] = @ \o u]
          BY <3>1, <3>2, Ordered
        <4> QED
          BY <3>1, <4>1, <4>2 DEF WorkTyped
      <3> QED
        BY <3>2, <3>3 DEF WorkTyped, disk, network
    <2>2. ASSUME NEW t \in Txs, Confirm(t) \/ Forget(t) \/ DeleteRows(t)
          PROVE  WorkTyped'
      <3>1. attempts' \in [Txs -> Nat]
        BY <1>2, <2>2 DEF Confirm, Forget, DeleteRows, WorkTyped, disk
      <3> QED
        BY <1>1, <2>2, <3>1 DEF Confirm, Forget, DeleteRows, memory, disk, network
    <2>3. CASE SweepEnds
      BY <2>3 DEF SweepEnds, memory, disk, network, WorkTyped
    <2> QED
      BY <1>5, <2>1, <2>2, <2>3 DEF SweepStep
  <1>6. CASE NewInstance
    BY <1>6 DEF NewInstance, WorkTyped, disk, network
  <1>7. CASE InsertEnv
    BY <1>7 DEF InsertEnv, WorkTyped, disk, Heights
  <1>8. CASE Restart
    BY <1>8, EmptyBagIs DEF Restart, WorkTyped, Heights, Optional
  <1>9. ASSUME NEW S \in SUBSET (mempool \ ledger), Block(S)
        PROVE  WorkTyped'
    BY <1>9, CannonAssumption DEF Block, WorkTyped, Heights, memory, disk
  <1>10. CASE Report
    BY <1>10, CannonAssumption DEF Report, WorkTyped, Heights, memory, disk
  <1>11. CASE UNCHANGED vars
    BY <1>11 DEF vars, memory, disk, network, WorkTyped
  <1> QED
    BY <1>3, <1>4, <1>5, <1>6, <1>7, <1>8, <1>9, <1>10, <1>11 DEF Next

LEMMA TypesHold ==
    ASSUME Typed, WorkTyped
    PROVE  TypeOK
  <1>1. \A i \in Instances : /\ DOMAIN tracked[i] \subseteq Txs
                             /\ tracked[i] \in [DOMAIN tracked[i] -> Trackers]
    BY DEF Typed, TrackerMaps
  <1> QED
    BY <1>1 DEF Typed, WorkTyped, Bag, Execs, Shots, TypeOK

\* The type invariant, for any transactions, requests, instances, limits and
\* heights.
THEOREM CannonTypeCorrect == Spec => []TypeOK
  <1>1. Init => Typed /\ WorkTyped
    BY TypedInit, WorkInit
  <1>2. Typed /\ WorkTyped /\ [Next]_vars => Typed' /\ WorkTyped'
    BY TypedStep, WorkStep
  <1>3. Typed /\ WorkTyped => TypeOK
    BY TypesHold
  <1> QED
    BY <1>1, <1>2, <1>3, PTL DEF Spec

-----------------------------------------------------------------------------
(* The indexes, where a cannon has one instance.                            *)

\* What a step of a request being served makes of the requests.
LEMMA Serving ==
    ASSUME Typed, NEW c \in Clients, SaveCount(c) \/ StoreHead(c) \/ StoreBody(c)
    PROVE  /\ client[c] # Idle /\ client'[c] # Idle
           /\ \A d \in Clients : /\ client'[d] # Idle <=> client[d] # Idle
                                 /\ d # c => client'[d] = client[d]
                                 /\ client[d] # Idle => /\ client'[d].inst = client[d].inst
                                                        /\ client'[d].tx = client[d].tx
                                                        /\ client'[d].tracker = client[d].tracker
  <1>1. client[c] # Idle
    BY DEF SaveCount, StoreHead, StoreBody, Idle
  <1>2. PICK st \in {"head", "body", "insert"} : client' = [client EXCEPT ![c] = [client[c] EXCEPT !.step = st]]
    BY DEF SaveCount, StoreHead, StoreBody
  <1>3. client' = [d \in Clients |-> IF d = c THEN [client[c] EXCEPT !.step = st] ELSE client[d]]
    BY <1>2 DEF Typed
  <1> QED
    BY <1>1, <1>3, Served

\* What a new request makes of the requests.
Begins(c, t, r) ==
    \E st \in {"count", "head"} :
        client' = [client EXCEPT ![c] = [step |-> st, inst |-> current, tx |-> t, tracker |-> r]]

LEMMA Beginning ==
    ASSUME Typed, NEW c \in Clients, NEW t, NEW r, Begins(c, t, r)
    PROVE  /\ client'[c] # Idle /\ client'[c].inst = current
           /\ client'[c].tx = t /\ client'[c].tracker = r
           /\ client'[c].step \in {"count", "head"}
           /\ \A d \in Clients \ {c} : client'[d] = client[d]
  <1>0. PICK st \in {"count", "head"} :
            client' = [client EXCEPT ![c] = [step |-> st, inst |-> current, tx |-> t, tracker |-> r]]
    BY DEF Begins
  <1> DEFINE n == [step |-> st, inst |-> current, tx |-> t, tracker |-> r]
  <1>1. n.step = st /\ n.inst = current /\ n.tx = t /\ n.tracker = r /\ n # Idle
    BY DEF Idle
  <1>2. client' = [client EXCEPT ![c] = n]
    BY <1>0
  <1> HIDE DEF n
  <1>3. client'[c] = n /\ \A d \in Clients \ {c} : client'[d] = client[d]
    BY <1>2 DEF Typed
  <1> QED
    BY <1>1, <1>3

\* The transaction has the index, in its tracker or in a request.
Holds(map, requests, t, n) ==
    \/ t \in DOMAIN map /\ map[t].index = n
    \/ \E c \in Clients : /\ requests[c] # Idle
                          /\ requests[c].tx = t /\ requests[c].tracker.index = n

\* Indexes are below the count, and no two transactions hold the same.
IndexesHeld ==
    \A t, u \in Txs, n \in Nat :
        Holds(tracked[1], client, t, n)
            => n < received[1] /\ (Holds(tracked[1], client, u, n) => t = u)

\* The tracker of a request after it is put into the map.
LEMMA InsertedMaps ==
    ASSUME Typed, NEW c \in Clients, Insert(c)
    PROVE  /\ client[c] # Idle /\ client[c].step = "insert"
           /\ DOMAIN tracked'[client[c].inst] = DOMAIN tracked[client[c].inst] \cup {client[c].tx}
           /\ tracked'[client[c].inst][client[c].tx] = client[c].tracker
           /\ \A u \in DOMAIN tracked[client[c].inst] \ {client[c].tx} :
                tracked'[client[c].inst][u] = tracked[client[c].inst][u]
           /\ \A j \in Instances \ {client[c].inst} : tracked'[j] = tracked[j]
           /\ client'[c] = Idle
           /\ \A d \in Clients \ {c} : client'[d] = client[d]
  <1> DEFINE i == client[c].inst
             t == client[c].tx
             r == client[c].tracker
  <1>1. client[c] # Idle /\ client[c].step = "insert"
    BY DEF Insert, Idle
  <1>2. i \in Instances /\ t \in Txs /\ r \in Trackers
    BY <1>1, Served
  <1>3. tracked' = [tracked EXCEPT ![i] = With(tracked[i], t, r)]
        /\ client' = [client EXCEPT ![c] = Idle]
    BY DEF Insert
  <1> HIDE DEF i, t, r
  <1>4. tracked[i] \in TrackerMaps
    BY <1>2 DEF Typed
  <1>5. tracked'[i] = With(tracked[i], t, r) /\ \A j \in Instances \ {i} : tracked'[j] = tracked[j]
    BY <1>2, <1>3 DEF Typed
  <1>6. /\ DOMAIN tracked'[i] = DOMAIN tracked[i] \cup {t}
        /\ tracked'[i][t] = r
        /\ \A u \in DOMAIN tracked[i] \ {t} : tracked'[i][u] = tracked[i][u]
    BY <1>5 DEF With
  <1>7. client'[c] = Idle /\ \A d \in Clients \ {c} : client'[d] = client[d]
    BY <1>3 DEF Typed
  <1> QED
    BY <1>1, <1>5, <1>6, <1>7 DEF i, t, r

\* A step hands indexes on, or takes the next one for one transaction.
LEMMA IndexesHandedOn ==
    ASSUME Typed, made = 1, Alone, Effect
    PROVE  \/ /\ received'[1] = received[1]
              /\ \A t \in Txs, n \in Nat :
                    Holds(tracked'[1], client', t, n) => Holds(tracked[1], client, t, n)
           \/ /\ received'[1] = received[1] + 1
              /\ \E t0 \in Txs : \A t \in Txs, n \in Nat :
                    Holds(tracked'[1], client', t, n)
                        => Holds(tracked[1], client, t, n) \/ (t = t0 /\ n = received[1])
  <1> DEFINE good == /\ received'[1] = received[1]
                     /\ \A t \in Txs, n \in Nat :
                          Holds(tracked'[1], client', t, n) => Holds(tracked[1], client, t, n)
  <1>0. 1 \in Instances /\ current = 1 /\ made = 1
    BY CannonAssumption DEF Instances, Typed
  <1>1. ASSUME UNCHANGED <<tracked, received, client>>
        PROVE  good
    BY <1>1
  <1>2. ASSUME NEW i \in Instances, NEW t \in Txs, NEW s \in Statuses, NEW b \in BOOLEAN,
               Marked(i, t, s, b)
        PROVE  good
    <2>0. CASE i # 1
      BY <1>0, <1>2, <2>0 DEF Typed, Marked, Holds
    <2> SUFFICES ASSUME i = 1
                 PROVE  good
      BY <2>0
    <2>1. tracked[1] \in TrackerMaps /\ t \in DOMAIN tracked[1]
      BY <1>0, <1>2 DEF Typed, Marked, Tracks
    <2>2. tracked[1][t] \in Trackers
      BY <2>1, MapFacts
    <2>3. Mark(tracked[1][t], s, b).index = tracked[1][t].index
      BY <2>2 DEF Mark, Trackers
    <2>4. tracked'[1] = [tracked[1] EXCEPT ![t] = Mark(tracked[1][t], s, b)]
      BY <1>0, <1>2, <2>1 DEF Marked, Typed
    <2>5. DOMAIN tracked'[1] = DOMAIN tracked[1]
          /\ \A u \in DOMAIN tracked[1] : tracked'[1][u].index = tracked[1][u].index
      BY <2>1, <2>3, <2>4 DEF TrackerMaps
    <2>6. UNCHANGED <<received, client>>
      BY <1>2 DEF Marked
    <2> QED
      BY <2>5, <2>6 DEF Holds
  <1>3. ASSUME NEW i \in Instances, NEW t \in Txs, Forgotten(i, t)
        PROVE  good
    <2>0. CASE i # 1
      BY <1>0, <1>3, <2>0 DEF Typed, Forgotten, Holds
    <2> SUFFICES ASSUME i = 1
                 PROVE  good
      BY <2>0
    <2>1. tracked[1] \in TrackerMaps
      BY <1>0 DEF Typed
    <2>2. tracked'[1] = Without(tracked[1], t) /\ UNCHANGED <<received, client>>
      BY <1>0, <1>3, <2>1 DEF Forgotten, Typed
    <2>3. /\ DOMAIN tracked'[1] \subseteq DOMAIN tracked[1]
          /\ \A u \in DOMAIN tracked'[1] : tracked'[1][u] = tracked[1][u]
      BY <2>2 DEF Without, Restrict
    <2> QED
      BY <2>2, <2>3 DEF Holds
  <1>4. ASSUME NEW c \in Clients, NEW t \in Txs, ProxyResult(c, t)
        PROVE  good
    <2> DEFINE r == [tracked[current][t] EXCEPT !.status = Unsent, !.blob = TRUE]
    <2>1. /\ Begins(c, t, r)
          /\ UNCHANGED <<tracked, received>> /\ t \in DOMAIN tracked[1]
      BY <1>0, <1>4 DEF ProxyResult, memory, Tracks, Begins
    <2>2. tracked[1][t] \in Trackers
      BY <1>0, <2>1, MapFacts DEF Typed
    <2>3. r.index = tracked[1][t].index
      BY <1>0, <2>2 DEF Trackers
    <2> HIDE DEF r
    <2>4. client'[c].tx = t /\ client'[c].tracker = r /\ \A d \in Clients \ {c} : client'[d] = client[d]
      BY <2>1, Beginning
    <2>5. ASSUME NEW u \in Txs, NEW n \in Nat, NEW d \in Clients, client'[d] # Idle,
                 client'[d].tx = u, client'[d].tracker.index = n
          PROVE  Holds(tracked[1], client, u, n)
      BY <2>1, <2>3, <2>4, <2>5 DEF Holds
    <2> QED
      BY <2>1, <2>5 DEF Holds
  <1>5. ASSUME NEW c \in Clients, SaveCount(c) \/ StoreHead(c) \/ StoreBody(c)
        PROVE  good
    <2>1. UNCHANGED <<tracked, received>>
      BY <1>5 DEF SaveCount, StoreHead, StoreBody, memory
    <2>2. \A d \in Clients : client'[d] # Idle =>
                /\ client[d] # Idle
                /\ client'[d].tx = client[d].tx /\ client'[d].tracker = client[d].tracker
      BY <1>5, Serving
    <2> QED
      BY <2>1, <2>2 DEF Holds
  <1>6. ASSUME NEW c \in Clients, Insert(c)
        PROVE  good
    <2> DEFINE t0 == client[c].tx
               r == client[c].tracker
    <2>1. client[c] # Idle
      BY <1>6 DEF Insert, Idle
    <2>0. CASE client[c].inst # 1
      <3>1. /\ tracked'[1] = tracked[1] /\ received' = received
            /\ client'[c] = Idle /\ \A d \in Clients \ {c} : client'[d] = client[d]
        BY <1>0, <1>6, <2>0, InsertedMaps DEF Insert
      <3> QED
        BY <3>1 DEF Holds
    <2> SUFFICES ASSUME client[c].inst = 1
                 PROVE  good
      BY <2>0
    <2>2. t0 \in Txs /\ r \in Trackers
      BY <1>0, <2>1, Served
    <2>3. /\ tracked'[1] = With(tracked[1], t0, r)
          /\ client' = [client EXCEPT ![c] = Idle] /\ received' = received
      BY <1>0, <1>6, <2>2 DEF Insert, Typed
    <2>4. tracked[1] \in TrackerMaps
      BY <1>0 DEF Typed
    <2>5. /\ DOMAIN tracked'[1] = DOMAIN tracked[1] \cup {t0}
          /\ tracked'[1][t0] = r
          /\ \A u \in DOMAIN tracked[1] \ {t0} : tracked'[1][u] = tracked[1][u]
      <3> HIDE DEF t0, r
      <3> QED
        BY <2>2, <2>3, <2>4, MapWith
    <2>6. client'[c] = Idle /\ \A d \in Clients \ {c} : client'[d] = client[d]
      BY <2>3 DEF Typed
    <2>7. ASSUME NEW u \in Txs, NEW n \in Nat, u \in DOMAIN tracked'[1], tracked'[1][u].index = n
          PROVE  Holds(tracked[1], client, u, n)
      <3>1. CASE u = t0
        BY <2>1, <2>5, <2>7, <3>1 DEF Holds
      <3>2. CASE u # t0
        BY <2>5, <2>7, <3>2 DEF Holds
      <3> QED
        BY <3>1, <3>2
    <2>8. ASSUME NEW u \in Txs, NEW n \in Nat, NEW d \in Clients, client'[d] # Idle,
                 client'[d].tx = u, client'[d].tracker.index = n
          PROVE  Holds(tracked[1], client, u, n)
      BY <2>6, <2>8 DEF Holds
    <2> QED
      BY <2>3, <2>7, <2>8 DEF Holds
  <1>7. ASSUME NEW c \in Clients, NEW t0 \in Txs, NEW r, Taken(c, t0, r)
        PROVE  /\ received'[1] = received[1] + 1
               /\ \A t \in Txs, n \in Nat :
                    Holds(tracked'[1], client', t, n)
                        => Holds(tracked[1], client, t, n) \/ (t = t0 /\ n = received[1])
    <2>1. /\ Begins(c, t0, r)
          /\ tracked' = tracked /\ r.index = received[1]
          /\ received'[1] = received[1] + 1
      BY <1>0, <1>7 DEF Taken, Take, Typed, Begins
    <2>2. client'[c].tx = t0 /\ client'[c].tracker = r /\ \A d \in Clients \ {c} : client'[d] = client[d]
      BY <2>1, Beginning
    <2>3. ASSUME NEW u \in Txs, NEW n \in Nat, NEW d \in Clients, client'[d] # Idle,
                 client'[d].tx = u, client'[d].tracker.index = n
          PROVE  Holds(tracked[1], client, u, n) \/ (u = t0 /\ n = received[1])
      BY <2>1, <2>2, <2>3 DEF Holds
    <2> QED
      BY <2>1, <2>3 DEF Holds
  <1>8. ~(NewInstance \/ InsertEnv \/ Restart)
    BY <1>0 DEF NewInstance, InsertEnv, Alone
  <1>9. ASSUME Quiet \/ (\E i \in Instances, t \in Txs : Fired(i, t)) \/ (\E t \in Txs : Wiped(t))
        PROVE  good
    BY <1>1, <1>9 DEF Quiet, Fired, Wiped
  <1> QED
    BY <1>2, <1>3, <1>4, <1>5, <1>6, <1>7, <1>8, <1>9 DEF Effect

LEMMA IndexesHeldStep ==
    ASSUME Typed, IndexesHeld, made = 1, [Next /\ Alone]_vars
    PROVE  IndexesHeld' /\ made' = 1
  <1>1. CASE UNCHANGED vars
    BY <1>1 DEF vars, memory, IndexesHeld, Holds
  <1> SUFFICES ASSUME Next, Alone
               PROVE  IndexesHeld'
    BY <1>1 DEF Alone
  <1>0. Effect
    BY StepEffect
  <1>2. received[1] \in Nat
    BY CannonAssumption DEF Typed, Instances
  <1>3. CASE /\ received'[1] = received[1]
             /\ \A t \in Txs, n \in Nat :
                    Holds(tracked'[1], client', t, n) => Holds(tracked[1], client, t, n)
    BY <1>3 DEF IndexesHeld
  <1>4. CASE /\ received'[1] = received[1] + 1
             /\ \E t0 \in Txs : \A t \in Txs, n \in Nat :
                    Holds(tracked'[1], client', t, n)
                        => Holds(tracked[1], client, t, n) \/ (t = t0 /\ n = received[1])
    <2>1. PICK t0 \in Txs : \A t \in Txs, n \in Nat :
                    Holds(tracked'[1], client', t, n)
                        => Holds(tracked[1], client, t, n) \/ (t = t0 /\ n = received[1])
      BY <1>4
    <2>2. ASSUME NEW t \in Txs, NEW u \in Txs, NEW n \in Nat,
                 Holds(tracked'[1], client', t, n)
          PROVE  n < received'[1] /\ (Holds(tracked'[1], client', u, n) => t = u)
      <3>1. Holds(tracked[1], client, t, n) => n < received[1]
        BY DEF IndexesHeld
      <3>2. Holds(tracked[1], client, u, n) => n < received[1]
        BY DEF IndexesHeld
      <3>3. Holds(tracked[1], client, t, n) /\ Holds(tracked[1], client, u, n) => t = u
        BY DEF IndexesHeld
      <3> QED
        BY <1>2, <1>4, <2>1, <2>2, <3>1, <3>2, <3>3
    <2> QED
      BY <2>2 DEF IndexesHeld
  <1> QED
    BY <1>0, <1>3, <1>4, IndexesHandedOn

LEMMA IndexesHeldUnique ==
    ASSUME Typed, IndexesHeld, made = 1
    PROVE  IndexesUnique
  <1>1. current = 1 /\ 1 \in Instances
    BY CannonAssumption DEF Instances, Typed
  <1>2. DOMAIN tracked[1] \subseteq Txs /\ \A t \in DOMAIN tracked[1] : tracked[1][t].index \in Nat
    BY <1>1, MapFacts DEF Typed, Trackers
  <1>3. \A t \in DOMAIN tracked[1] : Holds(tracked[1], client, t, tracked[1][t].index)
    BY DEF Holds
  <1>4. ASSUME NEW t \in DOMAIN tracked[1], NEW u \in DOMAIN tracked[1], t # u,
               tracked[1][t].index = tracked[1][u].index
        PROVE  FALSE
    <2>1. Holds(tracked[1], client, t, tracked[1][t].index)
          /\ Holds(tracked[1], client, u, tracked[1][t].index)
      BY <1>3, <1>4
    <2> QED
      BY <1>2, <1>4, <2>1 DEF IndexesHeld
  <1> QED
    BY <1>1, <1>4 DEF IndexesUnique

LEMMA IndexesHeldInit ==
    ASSUME Init
    PROVE  IndexesHeld /\ made = 1
  <1>1. 1 \in Instances
    BY CannonAssumption DEF Instances
  <1>2. tracked[1] = <<>> /\ \A c \in Clients : client[c] = Idle
    BY <1>1 DEF Init
  <1> QED
    BY <1>2 DEF Init, IndexesHeld, Holds

\* Until an apply replaces a cannon's first instance or the control plane
\* restarts, no two of its transactions have the same index, however requests
\* interleave (tracker.rs: they are ordered by it).
THEOREM IndexesStayUnique == Init /\ [][Next /\ Alone]_vars => []IndexesUnique
  <1> DEFINE I == Typed /\ IndexesHeld /\ made = 1
  <1>1. Init => I
    BY TypedInit, IndexesHeldInit
  <1>2. I /\ [Next /\ Alone]_vars => I'
    BY TypedStep, IndexesHeldStep
  <1>3. I => IndexesUnique
    BY IndexesHeldUnique
  <1> QED
    BY <1>1, <1>2, <1>3, PTL

-----------------------------------------------------------------------------
(* The rows, where transactions have a target and may be tried without      *)
(* limit: what is forgotten is in a block.                                  *)

Confirmed ==
    /\ deleting \subseteq ledger
    /\ sweep # Idle => sweep.remove \subseteq ledger

\* A restart finds the transaction in the rows, with all that r has.
Restorable(row) == row.index # None /\ row.status # None
Saved(row, r) == Restorable(row) /\ (r.auth => row.auth) /\ (r.blob => row.blob)

\* Tracked transactions are in the rows, and so are those of a request as far
\* as it has come.
Persisted ==
    /\ Confirmed
    /\ \A i \in Instances : \A t \in DOMAIN tracked[i] \ ledger : Saved(rows[t], tracked[i][t])
    /\ \A c \in Clients : client[c] # Idle /\ client[c].tx \notin ledger =>
            /\ client[c].step \in {"body", "insert"} => Restorable(rows[client[c].tx])
            /\ client[c].step = "insert" => Saved(rows[client[c].tx], client[c].tracker)

TriedForEver == HasTarget /\ Unlimited

\* A row keeps what it has.
Grows(row, next) ==
    /\ Restorable(row) => Restorable(next)
    /\ row.auth => next.auth
    /\ row.blob => next.blob

LEMMA LedgerGrows ==
    ASSUME Effect
    PROVE  ledger \subseteq ledger'
  BY DEF Effect, Quiet, Marked, Fired, Forgotten, Taken, ProxyResult, Wiped, SaveCount, StoreHead, StoreBody,
         Insert, NewInstance, InsertEnv, Restart, network

LEMMA SavedGrows ==
    ASSUME NEW row, NEW next, NEW r, Saved(row, r), Grows(row, next)
    PROVE  Saved(next, r)
  BY DEF Saved, Grows

LEMMA MarkedRow ==
    ASSUME NEW row \in Rows, NEW s \in Statuses, NEW b \in BOOLEAN
    PROVE  Grows(row, Mark(row, s, b)) /\ (b => Mark(row, s, b).blob)
  BY NoneAssumption DEF Grows, Restorable, Mark, Rows

LEMMA MarkedTracker ==
    ASSUME NEW r \in Trackers, NEW s \in Statuses, NEW b \in BOOLEAN
    PROVE  /\ Mark(r, s, b) \in Trackers /\ Mark(r, s, b).index = r.index
           /\ Mark(r, s, b).auth = r.auth /\ Mark(r, s, b).blob = (r.blob \/ b)
           /\ Mark(r, s, b).status = s
  BY DEF Mark, Trackers

\* The trackers and the row after a status is written.
LEMMA MarkedMaps ==
    ASSUME Typed, NEW i \in Instances, NEW t \in Txs, NEW s \in Statuses, NEW b \in BOOLEAN,
           Marked(i, t, s, b)
    PROVE  /\ t \in DOMAIN tracked[i]
           /\ tracked'[i][t] = Mark(tracked[i][t], s, b)
           /\ rows'[t] = Mark(rows[t], s, b)
           /\ \A j \in Instances :
                /\ DOMAIN tracked'[j] = DOMAIN tracked[j]
                /\ \A u \in DOMAIN tracked[j] : j # i \/ u # t => tracked'[j][u] = tracked[j][u]
           /\ \A u \in Txs \ {t} : rows'[u] = rows[u]
  <1>1. t \in DOMAIN tracked[i] /\ tracked[i] \in TrackerMaps
    BY DEF Marked, Tracks, Typed
  <1>2. tracked' = [tracked EXCEPT ![i] = [tracked[i] EXCEPT ![t] = Mark(tracked[i][t], s, b)]]
    BY DEF Marked
  <1>3. rows' = [rows EXCEPT ![t] = Mark(rows[t], s, b)]
    BY DEF Marked
  <1>4. /\ tracked'[i] = [tracked[i] EXCEPT ![t] = Mark(tracked[i][t], s, b)]
        /\ \A j \in Instances \ {i} : tracked'[j] = tracked[j]
    BY <1>2 DEF Typed
  <1>5. /\ tracked'[i][t] = Mark(tracked[i][t], s, b)
        /\ DOMAIN tracked'[i] = DOMAIN tracked[i]
        /\ \A u \in DOMAIN tracked[i] \ {t} : tracked'[i][u] = tracked[i][u]
    BY <1>1, <1>4
  <1> QED
    BY <1>1, <1>3, <1>4, <1>5 DEF Typed

\* The trackers after one is forgotten.
LEMMA ForgottenMaps ==
    ASSUME Typed, NEW i \in Instances, NEW t \in Txs, Forgotten(i, t)
    PROVE  /\ DOMAIN tracked'[i] = DOMAIN tracked[i] \ {t}
           /\ \A u \in DOMAIN tracked'[i] : tracked'[i][u] = tracked[i][u]
           /\ \A j \in Instances \ {i} : tracked'[j] = tracked[j]
  <1>1. tracked'[i] = Without(tracked[i], t) /\ \A j \in Instances \ {i} : tracked'[j] = tracked[j]
    BY DEF Forgotten, Typed
  <1> QED
    BY <1>1 DEF Without, Restrict

\* The rows while a request is served.
LEMMA StoredRows ==
    ASSUME Typed, NEW c \in Clients, SaveCount(c) \/ StoreHead(c) \/ StoreBody(c)
    PROVE  /\ \A u \in Txs \ {client[c].tx} : rows'[u] = rows[u]
           /\ client[c].tx \in Txs
           /\ SaveCount(c) => /\ rows' = rows
                              /\ client'[c].step = "head"
           /\ StoreHead(c) => /\ rows'[client[c].tx].index = client[c].tracker.index
                              /\ rows'[client[c].tx].status = client[c].tracker.status
                              /\ rows'[client[c].tx].auth = rows[client[c].tx].auth
                              /\ rows'[client[c].tx].blob = rows[client[c].tx].blob
                              /\ client[c].step = "head" /\ client'[c].step = "body"
           /\ StoreBody(c) =>
                /\ rows'[client[c].tx].index = rows[client[c].tx].index
                /\ rows'[client[c].tx].status = rows[client[c].tx].status
                /\ rows'[client[c].tx].auth = (rows[client[c].tx].auth \/ client[c].tracker.auth)
                /\ rows'[client[c].tx].blob = (rows[client[c].tx].blob \/ client[c].tracker.blob)
                /\ client[c].step = "body" /\ client'[c].step = "insert"
  <1> DEFINE t == client[c].tx
             r == client[c].tracker
  <1>1. client[c] # Idle
    BY Serving
  <1>2. t \in Txs /\ rows \in [Txs -> Rows]
    BY <1>1, Served DEF Typed
  <1>3. CASE StoreHead(c)
    <2>1. client[c].step = "head" /\ ~StoreBody(c) /\ ~SaveCount(c)
      BY <1>3 DEF SaveCount, StoreHead, StoreBody
    <2>2. client' = [client EXCEPT ![c] = [client[c] EXCEPT !.step = "body"]]
      BY <1>3 DEF StoreHead
    <2>3. client'[c].step = "body"
      BY <1>1, <2>2, Served DEF Typed
    <2>4. rows' = [rows EXCEPT ![t] = [[rows[t] EXCEPT !.index = r.index] EXCEPT !.status = r.status]]
      BY <1>2, <1>3 DEF StoreHead
    <2> QED
      BY <1>2, <2>1, <2>3, <2>4 DEF Rows
  <1>4. CASE StoreBody(c)
    <2>1. client[c].step = "body" /\ ~StoreHead(c) /\ ~SaveCount(c)
      BY <1>4 DEF SaveCount, StoreHead, StoreBody
    <2>2. client' = [client EXCEPT ![c] = [client[c] EXCEPT !.step = "insert"]]
      BY <1>4 DEF StoreBody
    <2>3. client'[c].step = "insert"
      BY <1>1, <2>2, Served DEF Typed
    <2>4. rows' = [rows EXCEPT ![t] = [[rows[t] EXCEPT !.auth = rows[t].auth \/ r.auth]
                                               EXCEPT !.blob = rows[t].blob \/ r.blob]]
      BY <1>2, <1>4 DEF StoreBody, Rows
    <2> QED
      BY <1>2, <2>1, <2>3, <2>4 DEF Rows
  <1>5. CASE SaveCount(c)
    <2>1. rows' = rows /\ ~StoreHead(c) /\ ~StoreBody(c)
      BY <1>5 DEF SaveCount, StoreHead, StoreBody
    <2>2. client' = [client EXCEPT ![c] = [client[c] EXCEPT !.step = "head"]]
      BY <1>5 DEF SaveCount
    <2>3. client'[c].step = "head"
      BY <1>1, <2>2, Served DEF Typed
    <2> QED
      BY <1>2, <2>1, <2>3
  <1> QED
    BY <1>3, <1>4, <1>5

LEMMA RowsGrow ==
    ASSUME Typed, Confirmed, TriedForEver, Effect
    PROVE  \A t \in Txs \ ledger : Grows(rows[t], rows'[t])
  <1>0. rows \in [Txs -> Rows]
    BY DEF Typed
  <1>1. CASE rows' = rows
    BY <1>1 DEF Grows
  <1>2. ASSUME NEW i \in Instances, NEW t \in Txs, NEW s \in Statuses, NEW b \in BOOLEAN,
               Marked(i, t, s, b)
        PROVE  \A u \in Txs : Grows(rows[u], rows'[u])
    <2>1. rows'[t] = Mark(rows[t], s, b) /\ \A u \in Txs \ {t} : rows'[u] = rows[u]
      BY <1>2, MarkedMaps
    <2>2. Grows(rows[t], Mark(rows[t], s, b))
      BY <1>0, MarkedRow
    <2> QED
      BY <2>1, <2>2 DEF Grows
  <1>3. ASSUME NEW t \in Txs, Wiped(t)
        PROVE  \A u \in Txs \ ledger : Grows(rows[u], rows'[u])
    <2>1. t \in ledger
      BY <1>3 DEF Wiped, Confirmed
    <2>2. \A u \in Txs \ {t} : rows'[u] = rows[u]
      BY <1>0, <1>3 DEF Wiped
    <2> QED
      BY <2>1, <2>2 DEF Grows
  <1>4. ASSUME NEW c \in Clients, SaveCount(c) \/ StoreHead(c) \/ StoreBody(c)
        PROVE  \A u \in Txs : Grows(rows[u], rows'[u])
    <2>1. client[c].tracker \in Trackers
      BY <1>4, Serving, Served
    <2>2. client[c].tracker.index # None /\ client[c].tracker.status # None
      BY <2>1, NoneAssumption, CannonAssumption DEF Trackers
    <2> QED
      BY <1>4, <2>2, StoredRows DEF Grows, Restorable
  <1>5. CASE Restart
    <2>1. \A t \in Txs : /\ rows'[t].index = rows[t].index
                         /\ rows'[t].auth = rows[t].auth /\ rows'[t].blob = rows[t].blob
                         /\ rows'[t].status \in {rows[t].status, Unsent}
      BY <1>5, CrashRows DEF Restart
    <2>2. Unsent # None
      BY StatusKinds, NoneAssumption
    <2> QED
      BY <2>1, <2>2 DEF Grows, Restorable
  <1>6. ASSUME \/ Quiet \/ NewInstance \/ InsertEnv
               \/ \E i \in Instances, t \in Txs : Fired(i, t) \/ Forgotten(i, t)
               \/ \E c \in Clients, t \in Txs : ProxyResult(c, t) \/ \E r : Taken(c, t, r)
               \/ \E c \in Clients : Insert(c)
        PROVE  rows' = rows
    BY <1>6 DEF Quiet, NewInstance, InsertEnv, Fired, Forgotten, ProxyResult, Taken, Insert, disk
  <1> QED
    BY <1>1, <1>2, <1>3, <1>4, <1>5, <1>6 DEF Effect

LEMMA ConfirmedStep ==
    ASSUME Typed, Confirmed, TriedForEver, Effect
    PROVE  Confirmed'
  <1>0. ledger \subseteq ledger'
    BY LedgerGrows
  <1>1. CASE UNCHANGED <<sweep, deleting>>
    BY <1>0, <1>1 DEF Confirmed
  <1>2. CASE Quiet
    BY <1>2 DEF Quiet, Confirmed, TriedForEver
  <1>3. ASSUME NEW i \in Instances, NEW t \in Txs, Forgotten(i, t)
        PROVE  Confirmed'
    <2>1. /\ sweep # Idle /\ t \in sweep.remove
          /\ sweep' = [sweep EXCEPT !.remove = @ \ {t}]
          /\ deleting' = deleting \cup {t} /\ ledger' = ledger
      BY <1>3 DEF Forgotten, TriedForEver
    <2>2. sweep'.remove = sweep.remove \ {t}
      BY <2>1 DEF Typed, Sweeps
    <2> QED
      BY <2>1, <2>2 DEF Confirmed
  <1>4. ASSUME NEW t \in Txs, Wiped(t)
        PROVE  Confirmed'
    BY <1>4 DEF Wiped, Confirmed
  <1>5. CASE Restart
    BY <1>5 DEF Restart, Confirmed
  <1>6. ASSUME \/ NewInstance \/ InsertEnv
               \/ \E i \in Instances, t \in Txs : \/ Fired(i, t)
                                                  \/ \E s \in Statuses, b \in BOOLEAN : Marked(i, t, s, b)
               \/ \E c \in Clients, t \in Txs : ProxyResult(c, t) \/ \E r : Taken(c, t, r)
               \/ \E c \in Clients : SaveCount(c) \/ StoreHead(c) \/ StoreBody(c) \/ Insert(c)
        PROVE  UNCHANGED <<sweep, deleting>>
    BY <1>6 DEF Marked, NewInstance, InsertEnv, Fired, ProxyResult, Taken, SaveCount, StoreHead, StoreBody, Insert
  <1> QED
    BY <1>1, <1>2, <1>3, <1>4, <1>5, <1>6 DEF Effect

LEMMA PersistedStep ==
    ASSUME Typed, Persisted, TriedForEver, [Next]_vars
    PROVE  Persisted'
  <1> DEFINE Trackers1 == \A i \in Instances : \A t \in DOMAIN tracked'[i] \ ledger' :
                                Saved(rows'[t], tracked'[i][t])
             Requests1 == \A c \in Clients : client'[c] # Idle /\ client'[c].tx \notin ledger' =>
                            /\ client'[c].step \in {"body", "insert"} => Restorable(rows'[client'[c].tx])
                            /\ client'[c].step = "insert" =>
                                    Saved(rows'[client'[c].tx], client'[c].tracker)
  <1>0. Effect /\ ledger \subseteq ledger'
    BY StepEffect, LedgerGrows
  <1>1. Confirmed'
    BY <1>0, ConfirmedStep DEF Persisted
  <1>2. \A t \in Txs \ ledger : Grows(rows[t], rows'[t])
    BY <1>0, RowsGrow DEF Persisted
  <1>3. \A i \in Instances : DOMAIN tracked[i] \subseteq Txs
    BY MapFacts DEF Typed
  <1>4. ASSUME NEW i \in Instances, NEW t, t \in DOMAIN tracked[i], t \notin ledger',
               tracked'[i][t] = tracked[i][t]
        PROVE  Saved(rows'[t], tracked'[i][t])
    <2>1. t \in Txs \ ledger /\ Saved(rows[t], tracked[i][t])
      BY <1>0, <1>3, <1>4 DEF Persisted
    <2> QED
      BY <1>2, <1>4, <2>1, SavedGrows
  <1>5. ASSUME NEW c \in Clients, client'[c] = client[c], client'[c] # Idle,
               client'[c].tx \notin ledger'
        PROVE  /\ client'[c].step \in {"body", "insert"} => Restorable(rows'[client'[c].tx])
               /\ client'[c].step = "insert" => Saved(rows'[client'[c].tx], client'[c].tracker)
    <2> DEFINE t == client[c].tx
    <2>1. t \in Txs \ ledger
      BY <1>0, <1>5, Served
    <2>2. /\ client[c].step \in {"body", "insert"} => Restorable(rows[t])
          /\ client[c].step = "insert" => Saved(rows[t], client[c].tracker)
      BY <1>5, <2>1 DEF Persisted
    <2>3. Grows(rows[t], rows'[t])
      BY <1>2, <2>1
    <2> HIDE DEF t
    <2>4. client[c].step \in {"body", "insert"} => Restorable(rows'[t])
      BY <2>2, <2>3 DEF Grows
    <2>5. client[c].step = "insert" => Saved(rows'[t], client[c].tracker)
      BY <2>2, <2>3, SavedGrows
    <2> QED
      BY <1>5, <2>4, <2>5 DEF t
  <1>6. ASSUME UNCHANGED tracked
        PROVE  Trackers1
    BY <1>4, <1>6
  <1>7. ASSUME UNCHANGED client
        PROVE  Requests1
    BY <1>5, <1>7
  <1>8. Trackers1 /\ Requests1 => Persisted'
    BY <1>1 DEF Persisted
  <1> HIDE DEF Trackers1, Requests1
  <1>9. ASSUME \/ Quiet \/ InsertEnv
               \/ \E i \in Instances, t \in Txs : Fired(i, t)
               \/ \E t \in Txs : Wiped(t)
        PROVE  UNCHANGED <<tracked, client>>
    BY <1>9 DEF Quiet, InsertEnv, Fired, Wiped
  <1>10. ASSUME NEW i \in Instances, NEW t \in Txs, NEW s \in Statuses, NEW b \in BOOLEAN,
                Marked(i, t, s, b)
         PROVE  Trackers1 /\ Requests1
    <2>1. UNCHANGED client
      BY <1>10 DEF Marked
    <2>2. /\ t \in DOMAIN tracked[i]
          /\ tracked'[i][t] = Mark(tracked[i][t], s, b)
          /\ rows'[t] = Mark(rows[t], s, b)
          /\ \A j \in Instances :
                /\ DOMAIN tracked'[j] = DOMAIN tracked[j]
                /\ \A u \in DOMAIN tracked[j] : j # i \/ u # t => tracked'[j][u] = tracked[j][u]
      BY <1>10, MarkedMaps
    <2>3. ASSUME t \notin ledger'
          PROVE  Saved(rows'[t], tracked'[i][t])
      <3>1. Saved(rows[t], tracked[i][t])
        BY <1>0, <2>2, <2>3 DEF Persisted
      <3>2. tracked[i][t] \in Trackers /\ rows[t] \in Rows
        BY <2>2, MapFacts DEF Typed
      <3>3. /\ Mark(tracked[i][t], s, b).auth = tracked[i][t].auth
            /\ Mark(tracked[i][t], s, b).blob = (tracked[i][t].blob \/ b)
        BY <3>2, MarkedTracker
      <3>4. Grows(rows[t], rows'[t]) /\ (b => rows'[t].blob)
        BY <2>2, <3>2, MarkedRow
      <3> QED
        BY <2>2, <3>1, <3>3, <3>4 DEF Saved, Grows
    <2>4. ASSUME NEW j \in Instances, NEW u \in DOMAIN tracked'[j], u \notin ledger'
          PROVE  Saved(rows'[u], tracked'[j][u])
      <3>1. CASE j = i /\ u = t
        BY <2>3, <2>4, <3>1
      <3>2. CASE j # i \/ u # t
        BY <1>4, <2>2, <2>4, <3>2
      <3> QED
        BY <3>1, <3>2
    <2> QED
      BY <1>7, <2>1, <2>4 DEF Trackers1
  <1>11. ASSUME NEW i \in Instances, NEW t \in Txs, Forgotten(i, t)
         PROVE  Trackers1 /\ Requests1
    <2>1. UNCHANGED client
      BY <1>11 DEF Forgotten
    <2>2. \A j \in Instances : \A u \in DOMAIN tracked'[j] :
                u \in DOMAIN tracked[j] /\ tracked'[j][u] = tracked[j][u]
      BY <1>11, ForgottenMaps
    <2> QED
      BY <1>4, <1>7, <2>1, <2>2 DEF Trackers1
  <1>12. ASSUME NEW c \in Clients, NEW t \in Txs,
                ProxyResult(c, t) \/ \E r : Taken(c, t, r)
         PROVE  Trackers1 /\ Requests1
    <2>1. UNCHANGED tracked
      BY <1>12 DEF ProxyResult, Taken, memory
    <2>2. \E r : Begins(c, t, r)
      BY <1>12 DEF ProxyResult, Taken, Take, Begins
    <2>3. client'[c].step \in {"count", "head"} /\ \A d \in Clients \ {c} : client'[d] = client[d]
      BY <2>2, Beginning
    <2>4. Requests1
      BY <1>5, <2>3 DEF Requests1
    <2> QED
      BY <1>6, <2>1, <2>4
  <1>13. ASSUME NEW c \in Clients, SaveCount(c) \/ StoreHead(c) \/ StoreBody(c)
         PROVE  Trackers1 /\ Requests1
    <2> DEFINE t == client[c].tx
               r == client[c].tracker
    <2>1. UNCHANGED tracked
      BY <1>13 DEF SaveCount, StoreHead, StoreBody, memory
    <2>2. /\ client[c] # Idle
          /\ client'[c].tx = t /\ client'[c].tracker = r
          /\ \A d \in Clients \ {c} : client'[d] = client[d]
      BY <1>13, Serving
    <2>3. t \in Txs /\ r \in Trackers /\ r.index # None /\ r.status # None
      BY <2>2, Served, NoneAssumption, CannonAssumption DEF Trackers
    <2>4. ASSUME StoreHead(c), t \notin ledger'
          PROVE  Restorable(rows'[t]) /\ client'[c].step = "body"
      BY <2>3, <2>4, StoredRows DEF Restorable
    <2>5. ASSUME StoreBody(c), t \notin ledger'
          PROVE  Saved(rows'[t], r)
      <3>1. Restorable(rows[t])
        <4>1. client[c].step = "body" /\ t \notin ledger
          BY <1>0, <2>5 DEF StoreBody
        <4> QED
          BY <2>2, <4>1 DEF Persisted
      <3>2. /\ rows'[t].index = rows[t].index /\ rows'[t].status = rows[t].status
            /\ rows'[t].auth = (rows[t].auth \/ r.auth)
            /\ rows'[t].blob = (rows[t].blob \/ r.blob)
        BY <2>5, StoredRows
      <3> QED
        BY <3>1, <3>2 DEF Saved, Restorable
    <2>6. ASSUME t \notin ledger'
          PROVE  /\ client'[c].step \in {"body", "insert"} => Restorable(rows'[client'[c].tx])
                 /\ client'[c].step = "insert" => Saved(rows'[client'[c].tx], client'[c].tracker)
      <3>1. CASE StoreHead(c)
        <4> HIDE DEF t, r
        <4> QED
          BY <2>2, <2>4, <2>6, <3>1
      <3>2. CASE StoreBody(c)
        <4> HIDE DEF t, r
        <4> QED
          BY <2>2, <2>5, <2>6, <3>2 DEF Saved
      <3>3. CASE SaveCount(c)
        BY <1>13, <3>3, StoredRows
      <3> QED
        BY <1>13, <3>1, <3>2, <3>3
    <2>7. Requests1
      <3> SUFFICES ASSUME NEW d \in Clients, client'[d] # Idle, client'[d].tx \notin ledger'
                   PROVE  /\ client'[d].step \in {"body", "insert"} => Restorable(rows'[client'[d].tx])
                          /\ client'[d].step = "insert" =>
                                Saved(rows'[client'[d].tx], client'[d].tracker)
        BY DEF Requests1
      <3>1. CASE d = c
        BY <2>2, <2>6, <3>1
      <3>2. CASE d # c
        BY <1>5, <2>2, <3>2
      <3> QED
        BY <3>1, <3>2
    <2> QED
      BY <1>6, <2>1, <2>7
  <1>14. ASSUME NEW c \in Clients, Insert(c)
         PROVE  Trackers1 /\ Requests1
    <2> DEFINE i == client[c].inst
               t == client[c].tx
               r == client[c].tracker
    <2>1. /\ client[c] # Idle /\ client[c].step = "insert"
          /\ DOMAIN tracked'[i] = DOMAIN tracked[i] \cup {t}
          /\ tracked'[i][t] = r
          /\ \A u \in DOMAIN tracked[i] \ {t} : tracked'[i][u] = tracked[i][u]
          /\ \A j \in Instances \ {i} : tracked'[j] = tracked[j]
          /\ client'[c] = Idle
          /\ \A d \in Clients \ {c} : client'[d] = client[d]
      BY <1>14, InsertedMaps
    <2>2. Requests1
      BY <1>5, <2>1 DEF Requests1
    <2>3. ASSUME t \notin ledger'
          PROVE  Saved(rows'[t], r)
      <3>1. t \in Txs /\ t \notin ledger
        BY <1>0, <2>1, <2>3, Served
      <3>2. Saved(rows[t], r)
        BY <2>1, <3>1 DEF Persisted
      <3> QED
        BY <1>2, <3>1, <3>2, SavedGrows
    <2> HIDE DEF i, t, r
    <2>4. ASSUME NEW j \in Instances, NEW u \in DOMAIN tracked'[j], u \notin ledger'
          PROVE  Saved(rows'[u], tracked'[j][u])
      <3>1. CASE j = i /\ u = t
        BY <2>1, <2>3, <2>4, <3>1
      <3>2. CASE j # i \/ u # t
        <4>1. u \in DOMAIN tracked[j] /\ tracked'[j][u] = tracked[j][u]
          BY <2>1, <2>4, <3>2
        <4> QED
          BY <1>4, <2>4, <4>1
      <3> QED
        BY <3>1, <3>2
    <2> QED
      BY <2>2, <2>4 DEF Trackers1
  <1>15. ASSUME NewInstance
         PROVE  Trackers1 /\ Requests1
    <2>1. /\ tracked' = [tracked EXCEPT ![made'] = Restored(rows)]
          /\ UNCHANGED <<rows, client, ledger>>
      BY <1>15 DEF NewInstance, disk, network
    <2>2. ASSUME NEW j \in Instances, NEW u \in DOMAIN tracked'[j], u \notin ledger'
          PROVE  Saved(rows'[u], tracked'[j][u])
      <3>1. CASE j = made'
        <4>1. tracked'[j] = Restored(rows)
          BY <2>1, <3>1 DEF Typed
        <4>2. Restorable(rows[u]) /\ Restored(rows)[u] = rows[u]
          BY <2>2, <4>1, MapRestored DEF Restorable, Typed
        <4> QED
          BY <2>1, <4>1, <4>2 DEF Saved
      <3>2. CASE j # made'
        <4>1. tracked'[j] = tracked[j]
          BY <2>1, <3>2 DEF Typed
        <4> QED
          BY <1>4, <2>2, <4>1
      <3> QED
        BY <3>1, <3>2
    <2> QED
      BY <1>7, <2>1, <2>2 DEF Trackers1
  <1>16. ASSUME Restart
         PROVE  Trackers1 /\ Requests1
    <2>1. /\ tracked' = [i \in Instances |-> IF i = 1 THEN Restored(rows') ELSE <<>>]
          /\ client' = [c \in Clients |-> Idle]
          /\ rows' \in RowsAtCrash
      BY <1>16 DEF Restart
    <2>2. rows' \in [Txs -> Rows]
      BY <2>1, CrashRows
    <2>3. ASSUME NEW j \in Instances, NEW u \in DOMAIN tracked'[j], u \notin ledger'
          PROVE  Saved(rows'[u], tracked'[j][u])
      <3>1. CASE j = 1
        <4>1. tracked'[j] = Restored(rows')
          BY <2>1, <3>1
        <4>2. Restorable(rows'[u]) /\ Restored(rows')[u] = rows'[u]
          BY <2>2, <2>3, <4>1, MapRestored DEF Restorable
        <4> QED
          BY <4>1, <4>2 DEF Saved
      <3>2. CASE j # 1
        BY <2>1, <2>3, <3>2
      <3> QED
        BY <3>1, <3>2
    <2>4. Requests1
      BY <2>1 DEF Requests1
    <2> QED
      BY <2>3, <2>4 DEF Trackers1
  <1>17. Trackers1 /\ Requests1
    BY <1>0, <1>6, <1>7, <1>9, <1>10, <1>11, <1>12, <1>13, <1>14, <1>15, <1>16 DEF Effect
  <1> QED
    BY <1>8, <1>17

LEMMA PersistedInit ==
    ASSUME Init
    PROVE  Persisted
  BY DEF Init, Persisted, Confirmed

LEMMA PersistedRestores ==
    ASSUME Typed, Persisted
    PROVE  TrackedIsPersisted
  <1>1. \A i \in Instances : DOMAIN tracked[i] \subseteq Txs
    BY MapFacts DEF Typed
  <1> QED
    BY <1>1, MapRestored DEF Persisted, Saved, Restorable, TrackedIsPersisted, Typed

\* A tracker goes only when its transaction is in a block.
LEMMA AcceptedStep ==
    ASSUME Typed, Persisted, TriedForEver, [Next]_vars
    PROVE  KeepsAccepted
  <1> SUFFICES ASSUME made' = 1, NEW t \in DOMAIN tracked[current], t \notin ledger
               PROVE  t \in DOMAIN tracked'[current']
    BY DEF KeepsAccepted
  <1>0. Effect /\ current \in Instances
    BY StepEffect DEF Typed
  <1>1. CASE UNCHANGED <<tracked, current>>
    BY <1>1
  <1>2. ASSUME NEW i \in Instances, NEW u \in Txs, NEW s \in Statuses, NEW b \in BOOLEAN,
               Marked(i, u, s, b)
        PROVE  t \in DOMAIN tracked'[current']
    <2>1. DOMAIN tracked'[current] = DOMAIN tracked[current]
      BY <1>0, <1>2, MarkedMaps
    <2> QED
      BY <1>2, <2>1 DEF Marked
  <1>3. ASSUME NEW i \in Instances, NEW u \in Txs, Forgotten(i, u)
        PROVE  t \in DOMAIN tracked'[current']
    <2>1. u # t /\ current' = current
      BY <1>3 DEF Forgotten, TriedForEver, Persisted, Confirmed
    <2>2. /\ DOMAIN tracked'[i] = DOMAIN tracked[i] \ {u}
          /\ \A j \in Instances \ {i} : tracked'[j] = tracked[j]
      BY <1>3, ForgottenMaps
    <2> QED
      BY <1>0, <2>1, <2>2
  <1>4. ASSUME NEW c \in Clients, Insert(c)
        PROVE  t \in DOMAIN tracked'[current']
    <2> DEFINE i == client[c].inst
    <2>1. /\ DOMAIN tracked'[i] = DOMAIN tracked[i] \cup {client[c].tx}
          /\ \A j \in Instances \ {i} : tracked'[j] = tracked[j]
      BY <1>4, InsertedMaps
    <2>2. current' = current
      BY <1>4 DEF Insert
    <2> HIDE DEF i
    <2> QED
      BY <1>0, <2>1, <2>2
  <1>5. ~NewInstance /\ ~InsertEnv
    BY CannonAssumption DEF NewInstance, InsertEnv, Typed, Instances
  <1>6. CASE Restart
    <2>1. /\ current' = 1 /\ tracked'[1] = Restored(rows') /\ rows' \in RowsAtCrash
      BY <1>6, CannonAssumption DEF Restart, Instances
    <2>2. rows' \in [Txs -> Rows]
      BY <2>1, CrashRows
    <2>3. t \in Txs /\ Saved(rows[t], tracked[current][t])
      BY <1>0, MapFacts DEF Typed, Persisted
    <2>4. Grows(rows[t], rows'[t])
      BY <1>0, <2>3, RowsGrow DEF Persisted
    <2>5. Restorable(rows'[t])
      BY <2>3, <2>4 DEF Saved, Grows
    <2> QED
      BY <2>1, <2>2, <2>3, <2>5, MapRestored DEF Restorable
  <1>7. ASSUME \/ Quiet
               \/ \E i \in Instances, u \in Txs : Fired(i, u)
               \/ \E u \in Txs : Wiped(u)
               \/ \E c \in Clients, u \in Txs : ProxyResult(c, u) \/ \E r : Taken(c, u, r)
               \/ \E c \in Clients : SaveCount(c) \/ StoreHead(c) \/ StoreBody(c)
        PROVE  UNCHANGED <<tracked, current>>
    BY <1>7 DEF Quiet, Fired, Wiped, ProxyResult, Taken, SaveCount, StoreHead, StoreBody, memory
  <1> QED
    BY <1>0, <1>1, <1>2, <1>3, <1>4, <1>5, <1>6, <1>7 DEF Effect

\* Where transactions have a target and no limit of tries, a restart finds
\* every tracked transaction that is not in a block, with all it has, in
\* whatever order requests, results, sweeps, applies and crashes come.
THEOREM TrackedStaysPersisted ==
    ASSUME TriedForEver
    PROVE  Spec => []TrackedIsPersisted
  <1>1. Init => Typed /\ Persisted
    BY TypedInit, PersistedInit
  <1>2. Typed /\ Persisted /\ [Next]_vars => Typed' /\ Persisted'
    BY TypedStep, PersistedStep
  <1>3. Typed /\ Persisted => TrackedIsPersisted
    BY PersistedRestores
  <1> QED
    BY <1>1, <1>2, <1>3, PTL DEF Spec

\* In the same circumstances no step of a cannon's first instance, a restart
\* included, loses a transaction that is not in a block.
THEOREM AcceptedStays ==
    ASSUME TriedForEver
    PROVE  Spec => AcceptedIsKept
  <1>1. Init => Typed /\ Persisted
    BY TypedInit, PersistedInit
  <1>2. Typed /\ Persisted /\ [Next]_vars => Typed' /\ Persisted'
    BY TypedStep, PersistedStep
  <1>3. Typed /\ Persisted /\ [Next]_vars => [KeepsAccepted]_vars
    BY AcceptedStep
  <1> QED
    BY <1>1, <1>2, <1>3, PTL DEF Spec, AcceptedIsKept

-----------------------------------------------------------------------------
(* What the rows say, where a transaction is submitted once.                *)

Agrees(row, r) == row.index = r.index /\ row.status = r.status

\* While there is one instance its trackers and the rows say the same, and a
\* request is for a transaction that has no tracker yet.
FirstFollows ==
    made = 1 =>
        /\ \A t \in DOMAIN tracked[1] \ ledger : Agrees(rows[t], tracked[1][t])
        /\ \A c \in Clients : client[c] # Idle =>
                /\ client[c].inst = 1
                /\ client[c].tx \notin DOMAIN tracked[1]
                /\ client[c].tx \notin ledger /\ client[c].step \in {"body", "insert"}
                        => Agrees(rows[client[c].tx], client[c].tracker)

\* A transaction not submitted is nowhere.
Fresh(t) ==
    /\ \A i \in Instances : t \notin DOMAIN tracked[i]
    /\ \A c \in Clients : client[c] # Idle => client[c].tx # t
    /\ rows[t] = NoRow
UnsubmittedFresh == \A t \in Txs : submitted[t] = 0 => Fresh(t)

\* Requests being served are for different transactions.
RequestsDiffer ==
    \A c, d \in Clients : client[c] # Idle /\ client[d] # Idle /\ c # d
                                => client[c].tx # client[d].tx

\* Instances not made have no trackers, and no request works for them.
NoneAhead ==
    /\ \A i \in Instances : i > made => DOMAIN tracked[i] = {}
    /\ \A c \in Clients : client[c] # Idle => client[c].inst <= made

SubmittedOnce == UnsubmittedFresh /\ RequestsDiffer /\ NoneAhead

LEMMA SubmissionsGrow ==
    ASSUME Typed, Effect
    PROVE  \A t \in Txs : submitted'[t] = 0 => submitted[t] = 0
  <1>1. ASSUME NEW c \in Clients, NEW t \in Txs, Submission(c, t)
        PROVE  \A u \in Txs : submitted'[u] = 0 => submitted[u] = 0
    BY <1>1 DEF Submission, Typed
  <1>2. ASSUME NEW c \in Clients, NEW t \in Txs, ProxyResult(c, t) \/ \E r : Taken(c, t, r)
        PROVE  \A u \in Txs : submitted'[u] = 0 => submitted[u] = 0
    BY <1>1, <1>2 DEF ProxyResult, Taken
  <1> QED
    BY <1>2 DEF Effect, Quiet, Marked, Fired, Forgotten, Wiped, SaveCount, StoreHead, StoreBody,
         Insert, NewInstance, InsertEnv, Restart

\* Where transactions are submitted once no request brings a second result.
LEMMA NoSecondResult ==
    ASSUME Typed, SubmittedOnce, Once, NEW c \in Clients, NEW t \in Txs
    PROVE  ~ProxyResult(c, t)
  <1>1. SUFFICES ASSUME ProxyResult(c, t)
                 PROVE  FALSE
    OBVIOUS
  <1>2. submitted[t] = 0 /\ t \in DOMAIN tracked[current] /\ current \in Instances
    BY <1>1 DEF ProxyResult, Submission, Once, Typed, Tracks
  <1> QED
    BY <1>2 DEF SubmittedOnce, UnsubmittedFresh, Fresh

\* A new request is for a fresh transaction.
LEMMA TakenFresh ==
    ASSUME Typed, SubmittedOnce, Once, NEW c \in Clients, NEW t \in Txs, NEW r, Taken(c, t, r)
    PROVE  submitted[t] = 0 /\ Fresh(t) /\ submitted'[t] # 0
  <1>1. submitted[t] = 0 /\ submitted'[t] = 1
    BY DEF Taken, Submission, Once, Typed
  <1> QED
    BY <1>1 DEF SubmittedOnce, UnsubmittedFresh

LEMMA SubmittedOnceStep ==
    ASSUME Typed, SubmittedOnce, Once, Effect
    PROVE  SubmittedOnce'
  <1>0. \A t \in Txs : submitted'[t] = 0 => submitted[t] = 0 /\ Fresh(t)
    BY SubmissionsGrow DEF SubmittedOnce, UnsubmittedFresh
  <1>1. CASE UNCHANGED <<made, tracked, client, rows>>
    BY <1>0, <1>1 DEF SubmittedOnce, UnsubmittedFresh, RequestsDiffer, NoneAhead, Fresh
  <1>2. ASSUME NEW i \in Instances, NEW t \in Txs, NEW s \in Statuses, NEW b \in BOOLEAN,
               Marked(i, t, s, b)
        PROVE  SubmittedOnce'
    <2>1. /\ t \in DOMAIN tracked[i]
          /\ \A j \in Instances : DOMAIN tracked'[j] = DOMAIN tracked[j]
          /\ \A u \in Txs \ {t} : rows'[u] = rows[u]
      BY <1>2, MarkedMaps
    <2>2. UNCHANGED <<made, client>>
      BY <1>2 DEF Marked
    <2>3. \A u \in Txs : submitted'[u] = 0 => u # t
      BY <1>0, <2>1 DEF Fresh
    <2> QED
      BY <1>0, <2>1, <2>2, <2>3 DEF SubmittedOnce, UnsubmittedFresh, RequestsDiffer, NoneAhead, Fresh
  <1>3. ASSUME NEW i \in Instances, NEW t \in Txs, Forgotten(i, t)
        PROVE  SubmittedOnce'
    <2>1. \A j \in Instances : DOMAIN tracked'[j] \subseteq DOMAIN tracked[j]
      BY <1>3, ForgottenMaps
    <2>2. UNCHANGED <<made, client, rows>>
      BY <1>3 DEF Forgotten
    <2> QED
      BY <1>0, <2>1, <2>2 DEF SubmittedOnce, UnsubmittedFresh, RequestsDiffer, NoneAhead, Fresh
  <1>4. ASSUME NEW c \in Clients, NEW t \in Txs, NEW r, Taken(c, t, r)
        PROVE  SubmittedOnce'
    <2>1. Fresh(t) /\ submitted'[t] # 0
      BY <1>4, TakenFresh
    <2>2. /\ client'[c] # Idle /\ client'[c].tx = t /\ client'[c].inst = current
          /\ \A d \in Clients \ {c} : client'[d] = client[d]
      <3>1. Begins(c, t, r)
        BY <1>4 DEF Taken, Take, Begins
      <3> QED
        BY <3>1, Beginning
    <2>3. UNCHANGED <<made, tracked, rows>> /\ current <= made
      BY <1>4 DEF Taken, Typed, Instances
    <2>4. UnsubmittedFresh' /\ NoneAhead'
      BY <1>0, <2>1, <2>2, <2>3 DEF SubmittedOnce, UnsubmittedFresh, NoneAhead, Fresh
    <2>5. RequestsDiffer'
      BY <2>1, <2>2 DEF SubmittedOnce, RequestsDiffer, Fresh
    <2> QED
      BY <2>4, <2>5 DEF SubmittedOnce
  <1>5. ASSUME NEW t \in Txs, Wiped(t)
        PROVE  SubmittedOnce'
    <2>1. rows'[t] = NoRow /\ \A u \in Txs \ {t} : rows'[u] = rows[u]
      BY <1>5 DEF Wiped, Typed
    <2>2. UNCHANGED <<made, tracked, client>>
      BY <1>5 DEF Wiped
    <2> QED
      BY <1>0, <2>1, <2>2 DEF SubmittedOnce, UnsubmittedFresh, RequestsDiffer, NoneAhead, Fresh
  <1>6. ASSUME NEW c \in Clients, SaveCount(c) \/ StoreHead(c) \/ StoreBody(c)
        PROVE  SubmittedOnce'
    <2>1. \A u \in Txs \ {client[c].tx} : rows'[u] = rows[u]
      BY <1>6, StoredRows
    <2>2. /\ client[c] # Idle
          /\ \A d \in Clients : /\ client'[d] # Idle <=> client[d] # Idle
                                /\ client[d] # Idle => /\ client'[d].tx = client[d].tx
                                                       /\ client'[d].inst = client[d].inst
      BY <1>6, Serving
    <2>3. UNCHANGED <<made, tracked>>
      BY <1>6 DEF SaveCount, StoreHead, StoreBody, memory
    <2>4. \A u \in Txs : submitted'[u] = 0 => u # client[c].tx
      BY <1>0, <2>2 DEF Fresh
    <2> QED
      BY <1>0, <2>1, <2>2, <2>3, <2>4
         DEF SubmittedOnce, UnsubmittedFresh, RequestsDiffer, NoneAhead, Fresh
  <1>7. ASSUME NEW c \in Clients, Insert(c)
        PROVE  SubmittedOnce'
    <2> DEFINE i == client[c].inst
               t == client[c].tx
    <2>1. /\ client[c] # Idle
          /\ DOMAIN tracked'[i] = DOMAIN tracked[i] \cup {t}
          /\ \A j \in Instances \ {i} : tracked'[j] = tracked[j]
          /\ client'[c] = Idle
          /\ \A d \in Clients \ {c} : client'[d] = client[d]
      BY <1>7, InsertedMaps
    <2>2. UNCHANGED <<made, rows>> /\ i <= made /\ i \in Instances
      BY <1>7, <2>1, Served DEF Insert, disk, SubmittedOnce, NoneAhead
    <2>3. \A u \in Txs : submitted'[u] = 0 => u # t
      BY <1>0, <2>1 DEF Fresh
    <2> HIDE DEF i, t
    <2>4. UnsubmittedFresh' /\ RequestsDiffer'
      BY <1>0, <2>1, <2>2, <2>3 DEF SubmittedOnce, UnsubmittedFresh, RequestsDiffer, Fresh
    <2>5. NoneAhead'
      <3>1. \A j \in Instances : j > made => j # i
        BY <2>2 DEF Instances, Typed
      <3>2. \A j \in Instances : j > made' => DOMAIN tracked'[j] = {}
        BY <2>1, <2>2, <3>1 DEF SubmittedOnce, NoneAhead
      <3>3. \A d \in Clients : client'[d] # Idle => client'[d].inst <= made'
        BY <2>1, <2>2 DEF SubmittedOnce, NoneAhead
      <3> QED
        BY <3>2, <3>3 DEF NoneAhead
    <2> QED
      BY <2>4, <2>5 DEF SubmittedOnce
  <1>8. CASE NewInstance
    <2>1. /\ made \in Nat /\ made' = made + 1 /\ made' \in Instances
          /\ UNCHANGED <<client, rows>>
          /\ tracked'[made'] = Restored(rows)
          /\ \A j \in Instances \ {made'} : tracked'[j] = tracked[j]
      BY <1>8, CannonAssumption DEF NewInstance, Typed, Instances, disk
    <2>2. \A u \in DOMAIN Restored(rows) : u \in Txs /\ rows[u] # NoRow
      BY MapRestored DEF Typed, NoRow
    <2>3. UnsubmittedFresh'
      BY <1>0, <2>1, <2>2 DEF UnsubmittedFresh, Fresh
    <2>4. NoneAhead'
      <3>1. ASSUME NEW j \in Instances, j > made'
            PROVE  DOMAIN tracked'[j] = {}
        <4>1. j # made' /\ j > made
          BY <2>1, <3>1 DEF Instances
        <4> QED
          BY <2>1, <4>1 DEF SubmittedOnce, NoneAhead
      <3>2. ASSUME NEW c \in Clients, client'[c] # Idle
            PROVE  client'[c].inst <= made'
        <4>1. client[c].inst \in Nat /\ client[c].inst <= made
          BY <2>1, <3>2, Served DEF SubmittedOnce, NoneAhead, Instances
        <4> QED
          BY <2>1, <4>1
      <3> QED
        BY <3>1, <3>2 DEF NoneAhead
    <2>5. RequestsDiffer'
      BY <2>1 DEF SubmittedOnce, RequestsDiffer
    <2> QED
      BY <2>3, <2>4, <2>5 DEF SubmittedOnce
  <1>9. CASE Restart
    <2>1. /\ made' = 1 /\ \A c \in Clients : client'[c] = Idle
          /\ tracked' = [i \in Instances |-> IF i = 1 THEN Restored(rows') ELSE <<>>]
          /\ rows' \in RowsAtCrash
      BY <1>9 DEF Restart
    <2>2. rows' \in [Txs -> Rows] /\ current \in Instances
          /\ \A t \in Txs : ~Tracks(current, t) => rows'[t] = rows[t]
      BY <2>1, CrashRows DEF Typed
    <2>3. ASSUME NEW t \in Txs, submitted'[t] = 0
          PROVE  rows'[t] = NoRow /\ t \notin DOMAIN Restored(rows')
      <3>1. rows'[t] = NoRow
        BY <1>0, <2>2, <2>3 DEF Fresh, Tracks
      <3> QED
        BY <2>2, <3>1, MapRestored DEF NoRow
    <2>4. UnsubmittedFresh'
      BY <2>1, <2>3 DEF UnsubmittedFresh, Fresh
    <2>5. NoneAhead' /\ RequestsDiffer'
      BY <2>1 DEF NoneAhead, RequestsDiffer, Instances
    <2> QED
      BY <2>4, <2>5 DEF SubmittedOnce
  <1>10. ASSUME Quiet \/ InsertEnv \/ (\E i \in Instances, t \in Txs : Fired(i, t))
         PROVE  UNCHANGED <<made, tracked, client, rows>>
    BY <1>10 DEF Quiet, InsertEnv, Fired, disk
  <1> QED
    BY <1>1, <1>2, <1>3, <1>4, <1>5, <1>6, <1>7, <1>8, <1>9, <1>10, NoSecondResult DEF Effect

LEMMA FirstFollowsStep ==
    ASSUME Typed, Confirmed, SubmittedOnce, FirstFollows, TriedForEver, Once, Effect
    PROVE  FirstFollows'
  <1> DEFINE Trackers1 == \A t \in DOMAIN tracked'[1] \ ledger' : Agrees(rows'[t], tracked'[1][t])
             Request1(c) == client'[c] # Idle =>
                /\ client'[c].inst = 1
                /\ client'[c].tx \notin DOMAIN tracked'[1]
                /\ client'[c].tx \notin ledger' /\ client'[c].step \in {"body", "insert"}
                        => Agrees(rows'[client'[c].tx], client'[c].tracker)
  <1> SUFFICES ASSUME made' = 1
               PROVE  Trackers1 /\ \A c \in Clients : Request1(c)
    BY DEF FirstFollows
  <1>0. /\ ledger \subseteq ledger'
        /\ 1 \in Instances /\ DOMAIN tracked[1] \subseteq Txs
    BY LedgerGrows, CannonAssumption, MapFacts DEF Instances, Typed
  \* What holds while the instance is the first, for whatever is left alone.
  <1>1. ASSUME made = 1, NEW t \in DOMAIN tracked[1], t \notin ledger',
               rows'[t] = rows[t], tracked'[1][t] = tracked[1][t]
        PROVE  Agrees(rows'[t], tracked'[1][t])
    BY <1>0, <1>1 DEF FirstFollows
  <1>2. ASSUME made = 1, NEW c \in Clients, client[c] # Idle,
               client'[c].inst = client[c].inst, client'[c].tx = client[c].tx,
               client'[c].tracker = client[c].tracker, client'[c].step = client[c].step,
               client[c].tx \notin DOMAIN tracked'[1], 
               client[c].tx \notin ledger' => rows'[client[c].tx] = rows[client[c].tx]
        PROVE  Request1(c)
    BY <1>0, <1>2 DEF FirstFollows
  <1> HIDE DEF Request1
  <1>3. ASSUME UNCHANGED <<made, tracked, client, rows>>
        PROVE  Trackers1 /\ \A c \in Clients : Request1(c)
    <2>1. made = 1 /\ Trackers1
      BY <1>1, <1>3
    <2>2. ASSUME NEW c \in Clients
          PROVE  Request1(c)
      <3>1. CASE client[c] = Idle
        BY <1>3, <3>1 DEF Request1
      <3>2. CASE client[c] # Idle
        <4>1. client[c].tx \notin DOMAIN tracked'[1]
          BY <1>3, <2>1, <3>2 DEF FirstFollows
        <4> QED
          BY <1>2, <1>3, <2>1, <3>2, <4>1
      <3> QED
        BY <3>1, <3>2
    <2> QED
      BY <2>1, <2>2
  <1>4. ASSUME NEW i \in Instances, NEW t \in Txs, NEW s \in Statuses, NEW b \in BOOLEAN,
               Marked(i, t, s, b)
        PROVE  Trackers1 /\ \A c \in Clients : Request1(c)
    <2>1. /\ t \in DOMAIN tracked[i]
          /\ tracked'[i][t] = Mark(tracked[i][t], s, b)
          /\ rows'[t] = Mark(rows[t], s, b)
          /\ \A j \in Instances :
                /\ DOMAIN tracked'[j] = DOMAIN tracked[j]
                /\ \A u \in DOMAIN tracked[j] : j # i \/ u # t => tracked'[j][u] = tracked[j][u]
          /\ \A u \in Txs \ {t} : rows'[u] = rows[u]
      BY <1>4, MarkedMaps
    <2>2. made = 1 /\ UNCHANGED <<client, ledger>>
      BY <1>4 DEF Marked
    <2>3. i = 1
      BY <2>1, <2>2 DEF SubmittedOnce, NoneAhead, Instances
    <2>4. ASSUME t \notin ledger
          PROVE  Agrees(rows'[t], tracked'[1][t])
      <3>1. Agrees(rows[t], tracked[1][t])
        BY <2>1, <2>2, <2>3, <2>4 DEF FirstFollows
      <3>2. tracked[1][t] \in Trackers /\ rows[t] \in Rows
        BY <1>0, <2>1, <2>3, MapFacts DEF Typed
      <3> QED
        BY <2>1, <2>3, <3>1, <3>2 DEF Agrees, Mark, Trackers, Rows
    <2>5. Trackers1
      <3> SUFFICES ASSUME NEW u \in DOMAIN tracked'[1], u \notin ledger'
                   PROVE  Agrees(rows'[u], tracked'[1][u])
        OBVIOUS
      <3>1. CASE u = t
        BY <2>2, <2>4, <3>1
      <3>2. CASE u # t
        BY <1>0, <1>1, <2>1, <2>2, <2>3, <3>2
      <3> QED
        BY <3>1, <3>2
    <2>6. ASSUME NEW c \in Clients
          PROVE  Request1(c)
      <3>1. CASE client[c] = Idle
        BY <2>2, <3>1 DEF Request1
      <3>2. CASE client[c] # Idle
        <4>1. client[c].tx \notin DOMAIN tracked[1] /\ client[c].tx \in Txs
          BY <2>2, <3>2, Served DEF FirstFollows
        <4>2. client[c].tx \notin DOMAIN tracked'[1] /\ rows'[client[c].tx] = rows[client[c].tx]
          BY <1>0, <2>1, <2>3, <4>1
        <4> QED
          BY <1>2, <2>2, <3>2, <4>2
      <3> QED
        BY <3>1, <3>2
    <2> QED
      BY <2>5, <2>6
  <1>5. ASSUME NEW i \in Instances, NEW t \in Txs, Forgotten(i, t)
        PROVE  Trackers1 /\ \A c \in Clients : Request1(c)
    <2>1. /\ DOMAIN tracked'[1] \subseteq DOMAIN tracked[1]
          /\ \A u \in DOMAIN tracked'[1] : tracked'[1][u] = tracked[1][u]
      BY <1>0, <1>5, ForgottenMaps
    <2>2. made = 1 /\ UNCHANGED <<client, ledger, rows>>
      BY <1>5 DEF Forgotten
    <2>3. Trackers1
      BY <1>1, <2>1, <2>2
    <2>4. ASSUME NEW c \in Clients
          PROVE  Request1(c)
      <3>1. CASE client[c] = Idle
        BY <2>2, <3>1 DEF Request1
      <3>2. CASE client[c] # Idle
        <4>1. client[c].tx \notin DOMAIN tracked'[1]
          BY <2>1, <2>2, <3>2 DEF FirstFollows
        <4> QED
          BY <1>2, <2>2, <3>2, <4>1
      <3> QED
        BY <3>1, <3>2
    <2> QED
      BY <2>3, <2>4
  <1>6. ASSUME NEW c \in Clients, NEW t \in Txs, NEW r, Taken(c, t, r)
        PROVE  Trackers1 /\ \A d \in Clients : Request1(d)
    <2>1. made = 1 /\ current = 1 /\ UNCHANGED <<tracked, rows, ledger>>
      BY <1>6 DEF Taken, Typed, Instances
    <2>2. Fresh(t) /\ Begins(c, t, r)
      BY <1>6, TakenFresh DEF Taken, Take, Begins
    <2>3. /\ client'[c] # Idle /\ client'[c].tx = t /\ client'[c].inst = 1
          /\ client'[c].step \in {"count", "head"}
          /\ \A d \in Clients \ {c} : client'[d] = client[d]
      BY <2>1, <2>2, Beginning
    <2>4. Trackers1
      BY <1>1, <2>1
    <2>5. ASSUME NEW d \in Clients
          PROVE  Request1(d)
      <3>1. CASE d = c
        BY <1>0, <2>1, <2>2, <2>3, <3>1 DEF Request1, Fresh
      <3>2. CASE d # c /\ client[d] = Idle
        BY <2>3, <3>2 DEF Request1
      <3>3. CASE d # c /\ client[d] # Idle
        <4>1. client[d].tx \notin DOMAIN tracked'[1]
          BY <2>1, <3>3 DEF FirstFollows
        <4> QED
          BY <1>2, <2>1, <2>3, <3>3, <4>1
      <3> QED
        BY <3>1, <3>2, <3>3
    <2> QED
      BY <2>4, <2>5
  <1>7. ASSUME NEW t \in Txs, Wiped(t)
        PROVE  Trackers1 /\ \A c \in Clients : Request1(c)
    <2>1. made = 1 /\ UNCHANGED <<tracked, client, ledger>> /\ t \in ledger
          /\ \A u \in Txs \ {t} : rows'[u] = rows[u]
      BY <1>7 DEF Wiped, Typed, Confirmed
    <2>2. Trackers1
      BY <1>0, <1>1, <2>1
    <2>3. ASSUME NEW c \in Clients
          PROVE  Request1(c)
      <3>1. CASE client[c] = Idle
        BY <2>1, <3>1 DEF Request1
      <3>2. CASE client[c] # Idle
        <4>1. client[c].tx \notin DOMAIN tracked'[1] /\ client[c].tx \in Txs
          BY <2>1, <3>2, Served DEF FirstFollows
        <4> QED
          BY <1>2, <2>1, <3>2, <4>1
      <3> QED
        BY <3>1, <3>2
    <2> QED
      BY <2>2, <2>3
  <1>8. ASSUME NEW c \in Clients, SaveCount(c) \/ StoreHead(c) \/ StoreBody(c)
        PROVE  Trackers1 /\ \A d \in Clients : Request1(d)
    <2> DEFINE t == client[c].tx
               r == client[c].tracker
    <2>1. /\ client[c] # Idle
          /\ \A d \in Clients : /\ client'[d] # Idle <=> client[d] # Idle
                                /\ d # c => client'[d] = client[d]
                                /\ client[d] # Idle => /\ client'[d].inst = client[d].inst
                                                       /\ client'[d].tx = client[d].tx
                                                       /\ client'[d].tracker = client[d].tracker
      BY <1>8, Serving
    <2>2. made = 1 /\ UNCHANGED <<tracked, ledger>>
      BY <1>8 DEF SaveCount, StoreHead, StoreBody, memory, network
    <2>3. \A u \in Txs \ {t} : rows'[u] = rows[u]
      BY <1>8, StoredRows
    <2>4. t \notin DOMAIN tracked[1] /\ client[c].inst = 1
      BY <2>1, <2>2 DEF FirstFollows
    <2>5. Trackers1
      BY <1>0, <1>1, <2>2, <2>3, <2>4
    <2>6. ASSUME t \notin ledger, client'[c].step \in {"body", "insert"}
          PROVE  Agrees(rows'[t], r)
      <3>0. ~SaveCount(c)
        BY <1>8, <2>6, StoredRows
      <3>1. CASE StoreHead(c)
        BY <3>1, StoredRows DEF Agrees
      <3>2. CASE StoreBody(c)
        <4>1. rows'[t].index = rows[t].index /\ rows'[t].status = rows[t].status
              /\ client[c].step = "body"
          BY <3>2, StoredRows
        <4>2. Agrees(rows[t], r)
          BY <2>1, <2>2, <2>6, <4>1 DEF FirstFollows
        <4> QED
          BY <4>1, <4>2 DEF Agrees
      <3> QED
        BY <1>8, <3>0, <3>1, <3>2
    <2>7. ASSUME NEW d \in Clients
          PROVE  Request1(d)
      <3>1. CASE d = c
        BY <2>1, <2>2, <2>4, <2>6, <3>1 DEF Request1
      <3>2. CASE d # c /\ client[d] = Idle
        BY <2>1, <3>2 DEF Request1
      <3>3. CASE d # c /\ client[d] # Idle
        <4>1. client[d].tx \notin DOMAIN tracked'[1] /\ client[d].tx \in Txs
          BY <2>2, <3>3, Served DEF FirstFollows
        <4>2. client[d].tx # t
          BY <2>1, <3>3 DEF SubmittedOnce, RequestsDiffer
        <4>3. client'[d] = client[d] /\ rows'[client[d].tx] = rows[client[d].tx]
          BY <2>1, <2>3, <3>3, <4>1, <4>2
        <4> QED
          BY <1>2, <2>2, <3>3, <4>1, <4>3
      <3> QED
        BY <3>1, <3>2, <3>3
    <2> QED
      BY <2>5, <2>7
  <1>9. ASSUME NEW c \in Clients, Insert(c)
        PROVE  Trackers1 /\ \A d \in Clients : Request1(d)
    <2> DEFINE i == client[c].inst
               t == client[c].tx
               r == client[c].tracker
    <2>1. /\ client[c] # Idle /\ client[c].step = "insert"
          /\ DOMAIN tracked'[i] = DOMAIN tracked[i] \cup {t}
          /\ tracked'[i][t] = r
          /\ \A u \in DOMAIN tracked[i] \ {t} : tracked'[i][u] = tracked[i][u]
          /\ client'[c] = Idle
          /\ \A d \in Clients \ {c} : client'[d] = client[d]
      BY <1>9, InsertedMaps
    <2>2. made = 1 /\ UNCHANGED <<rows, ledger>>
      BY <1>9 DEF Insert, disk, network
    <2>3. i = 1 /\ (t \notin ledger => Agrees(rows[t], r))
      BY <2>1, <2>2 DEF FirstFollows
    <2>4. \A d \in Clients \ {c} : client[d] # Idle => client[d].tx # t
      BY <2>1 DEF SubmittedOnce, RequestsDiffer
    <2> HIDE DEF i, t, r
    <2>5. Trackers1
      <3> SUFFICES ASSUME NEW u \in DOMAIN tracked'[1], u \notin ledger'
                   PROVE  Agrees(rows'[u], tracked'[1][u])
        OBVIOUS
      <3>1. CASE u = t
        BY <2>1, <2>2, <2>3, <3>1
      <3>2. CASE u # t
        BY <1>1, <2>1, <2>2, <2>3, <3>2
      <3> QED
        BY <3>1, <3>2
    <2>6. ASSUME NEW d \in Clients
          PROVE  Request1(d)
      <3>1. CASE d = c
        BY <2>1, <3>1 DEF Request1
      <3>2. CASE d # c /\ client[d] = Idle
        BY <2>1, <3>2 DEF Request1
      <3>3. CASE d # c /\ client[d] # Idle
        <4>1. client[d].tx \notin DOMAIN tracked[1]
          BY <2>2, <3>3 DEF FirstFollows
        <4>2. client[d].tx \notin DOMAIN tracked'[1]
          BY <2>1, <2>3, <2>4, <3>3, <4>1
        <4> QED
          BY <1>2, <2>1, <2>2, <3>3, <4>2
      <3> QED
        BY <3>1, <3>2, <3>3
    <2> QED
      BY <2>5, <2>6
  <1>10. ~NewInstance
    BY DEF NewInstance, Typed, Instances
  <1>11. ASSUME Restart
         PROVE  Trackers1 /\ \A c \in Clients : Request1(c)
    <2>1. tracked'[1] = Restored(rows') /\ rows' \in [Txs -> Rows]
          /\ \A c \in Clients : client'[c] = Idle
      BY <1>0, <1>11, CrashRows DEF Restart
    <2>2. \A t \in DOMAIN tracked'[1] : tracked'[1][t] = rows'[t]
      BY <2>1, MapRestored
    <2> QED
      BY <2>1, <2>2 DEF Agrees, Request1
  <1>12. ASSUME Quiet \/ InsertEnv \/ (\E i \in Instances, t \in Txs : Fired(i, t))
         PROVE  UNCHANGED <<made, tracked, client, rows>>
    BY <1>12 DEF Quiet, InsertEnv, Fired, disk
  <1> HIDE DEF Trackers1
  <1> QED
    BY <1>3, <1>4, <1>5, <1>6, <1>7, <1>8, <1>9, <1>10, <1>11, <1>12, NoSecondResult DEF Effect

LEMMA FollowInit ==
    ASSUME Init
    PROVE  SubmittedOnce /\ FirstFollows
  <1>1. 1 \in Instances
    BY CannonAssumption DEF Instances
  <1> QED
    BY <1>1 DEF Init, SubmittedOnce, UnsubmittedFresh, Fresh, RequestsDiffer, NoneAhead, FirstFollows

\* What the tracking, the rows and the requests of a first instance are.
FollowInv == Persisted /\ SubmittedOnce /\ FirstFollows

LEMMA FollowKept ==
    ASSUME FollowInv, UNCHANGED vars
    PROVE  FollowInv'
  BY DEF vars, memory, disk, network, FollowInv, Persisted, Confirmed, Saved, Restorable,
         SubmittedOnce, UnsubmittedFresh, Fresh, RequestsDiffer, NoneAhead, FirstFollows, Agrees

LEMMA FollowStep ==
    ASSUME Typed, FollowInv, TriedForEver, [Next /\ Once]_vars
    PROVE  FollowInv'
  <1>0. CASE UNCHANGED vars
    BY <1>0, FollowKept
  <1> SUFFICES ASSUME Next, Once
               PROVE  FollowInv'
    BY <1>0
  <1>1. Persisted'
    BY PersistedStep DEF FollowInv
  <1>2. SubmittedOnce' /\ FirstFollows'
    BY StepEffect, SubmittedOnceStep, FirstFollowsStep DEF FollowInv, Persisted
  <1> QED
    BY <1>1, <1>2 DEF FollowInv

LEMMA FollowRows ==
    ASSUME Typed, FollowInv
    PROVE  RowsFollowTrackers
  <1> SUFFICES ASSUME made = 1, NEW t \in DOMAIN tracked[current] \ ledger
               PROVE  /\ rows[t].index = tracked[current][t].index
                      /\ rows[t].status = tracked[current][t].status
                      /\ tracked[current][t].auth => rows[t].auth
                      /\ tracked[current][t].blob => rows[t].blob
    BY DEF RowsFollowTrackers
  <1>1. current = 1 /\ 1 \in Instances
    BY CannonAssumption DEF Typed, Instances
  <1>2. Agrees(rows[t], tracked[1][t]) /\ Saved(rows[t], tracked[1][t])
    BY <1>1 DEF FollowInv, FirstFollows, Persisted
  <1> QED
    BY <1>1, <1>2 DEF Agrees, Saved

\* Where moreover transactions are submitted once, the rows of what a first
\* instance tracks say what its trackers say, index and status included,
\* through executions, broadcasts, sweeps and restarts.
THEOREM RowsStayTrackers ==
    ASSUME TriedForEver
    PROVE  Init /\ [][Next /\ Once]_vars => []RowsFollowTrackers
  <1>1. Init => Typed /\ FollowInv
    BY TypedInit, PersistedInit, FollowInit DEF FollowInv
  <1>2. Typed /\ FollowInv /\ [Next /\ Once]_vars => Typed' /\ FollowInv'
    BY TypedStep, FollowStep
  <1>3. Typed /\ FollowInv => RowsFollowTrackers
    BY FollowRows
  <1> QED
    BY <1>1, <1>2, <1>3, PTL

-----------------------------------------------------------------------------
(* What is broadcast, where requests are served one at a time.              *)

OneRequest == \A c, d \in Clients : client[c] # Idle /\ client[d] # Idle => c = d

HasBlob(map, t) == t \in DOMAIN map /\ map[t].blob

\* Broadcasts under way are of transactions that are there, and a request
\* without a transaction is for one that is not tracked.
SentInv ==
    /\ Confirmed
    /\ \A t \in DOMAIN tracked[1] \ ledger :
            tracked[1][t].status.label \in {"unsent", "broadcasted"} => tracked[1][t].blob
    /\ \A t \in Txs \ ledger : (\E h : BagIn(<<t, h>>, shots[1])) => HasBlob(tracked[1], t)
    /\ \A c \in Clients : client[c] # Idle =>
            /\ client[c].tracker.status # Authorized => client[c].tracker.blob
            /\ ~client[c].tracker.blob => client[c].tx \notin DOMAIN tracked[1]

LEMMA SentStep ==
    ASSUME Typed, SentInv, TriedForEver, made = 1, OneRequest, Next, Alone
    PROVE  SentInv'
  <1> DEFINE Trackers1 == \A t \in DOMAIN tracked'[1] \ ledger' :
                tracked'[1][t].status.label \in {"unsent", "broadcasted"} => tracked'[1][t].blob
             Shots1 == \A t \in Txs \ ledger' :
                (\E h : BagIn(<<t, h>>, shots'[1])) => HasBlob(tracked'[1], t)
             Requests1 == \A c \in Clients : client'[c] # Idle =>
                /\ client'[c].tracker.status # Authorized => client'[c].tracker.blob
                /\ ~client'[c].tracker.blob => client'[c].tx \notin DOMAIN tracked'[1]
  <1>0. /\ Effect /\ ledger \subseteq ledger'
        /\ 1 \in Instances /\ current = 1 /\ made = 1
        /\ tracked[1] \in TrackerMaps /\ DOMAIN tracked[1] \subseteq Txs
    <2>1. 1 \in Instances /\ current = 1 /\ made = 1
      BY CannonAssumption DEF Instances, Typed
    <2> QED
      BY <2>1, StepEffect, LedgerGrows, MapFacts DEF Typed
  <1>1. Confirmed'
    BY <1>0, ConfirmedStep DEF SentInv
  <1> SUFFICES Trackers1 /\ Shots1 /\ Requests1
    BY <1>1 DEF SentInv
  <1>2. ASSUME UNCHANGED <<tracked, client>>, FewerShots
        PROVE  Trackers1 /\ Shots1 /\ Requests1
    BY <1>0, <1>2 DEF SentInv, FewerShots
  <1>3. ASSUME NEW i \in Instances, NEW t \in Txs, NEW s \in Statuses, NEW b \in BOOLEAN,
               Marked(i, t, s, b)
        PROVE  Trackers1 /\ Shots1 /\ Requests1
    <2>0. CASE i # 1
      <3>1. tracked'[1] = tracked[1] /\ UNCHANGED <<client, ledger>> /\ FewerShots
        BY <1>0, <1>3, <2>0 DEF Marked, Typed
      <3> QED
        BY <1>0, <3>1 DEF SentInv, FewerShots
    <2> SUFFICES ASSUME i = 1
                 PROVE  Trackers1 /\ Shots1 /\ Requests1
      BY <2>0
    <2>1. /\ t \in DOMAIN tracked[1]
          /\ tracked'[1][t] = Mark(tracked[1][t], s, b)
          /\ DOMAIN tracked'[1] = DOMAIN tracked[1]
          /\ \A u \in DOMAIN tracked[1] \ {t} : tracked'[1][u] = tracked[1][u]
      BY <1>0, <1>3, MarkedMaps
    <2>2. tracked[1][t] \in Trackers
      BY <1>0, <2>1, MapFacts
    <2>3. tracked'[1][t].status = s /\ tracked'[1][t].blob = (tracked[1][t].blob \/ b)
      BY <2>1, <2>2, MarkedTracker
    <2>4. UNCHANGED <<client, ledger>> /\ FewerShots /\ (s = Unsent => b)
          /\ (s.label = "broadcasted" =>
                    \E h \in Heights : BagIn(<<t, h>>, shots[1]))
      BY <1>3, <2>1 DEF Marked
    <2>5. s.label = "unsent" => s = Unsent
      BY DEF Statuses, Authorized, Executing, Unsent, Broadcasted
    <2>6. t \notin ledger /\ s.label = "broadcasted" => tracked[1][t].blob
      BY <1>0, <2>1, <2>4 DEF SentInv, HasBlob
    <2>7. Trackers1
      BY <2>1, <2>3, <2>4, <2>5, <2>6 DEF SentInv
    <2>8. \A u \in Txs : HasBlob(tracked[1], u) => HasBlob(tracked'[1], u)
      BY <2>1, <2>3 DEF HasBlob
    <2>9. Shots1
      BY <1>0, <2>4, <2>8 DEF SentInv, FewerShots
    <2>10. Requests1
      BY <2>1, <2>4 DEF SentInv
    <2> QED
      BY <2>7, <2>9, <2>10
  <1>4. ASSUME NEW i \in Instances, NEW t \in Txs, Fired(i, t)
        PROVE  Trackers1 /\ Shots1 /\ Requests1
    <2>1. UNCHANGED <<tracked, client, ledger>> /\ (i = 1 => HasBlob(tracked[1], t))
      BY <1>0, <1>4 DEF Fired, HasBlob, Tracks
    <2>2. \A u, h : BagIn(<<u, h>>, shots'[1]) => BagIn(<<u, h>>, shots[1]) \/ (i = 1 /\ u = t)
      BY <1>0, <1>4 DEF Fired
    <2> QED
      BY <2>1, <2>2 DEF SentInv
  <1>5. ASSUME NEW i \in Instances, NEW t \in Txs, Forgotten(i, t)
        PROVE  Trackers1 /\ Shots1 /\ Requests1
    <2>1. /\ DOMAIN tracked'[1] = DOMAIN tracked[1] \ (IF i = 1 THEN {t} ELSE {})
          /\ \A u \in DOMAIN tracked'[1] : tracked'[1][u] = tracked[1][u]
      BY <1>0, <1>5, ForgottenMaps
    <2>2. UNCHANGED <<client, ledger, shots>> /\ t \in ledger
      BY <1>5 DEF Forgotten, SentInv, Confirmed, TriedForEver
    <2> QED
      BY <2>1, <2>2 DEF SentInv, HasBlob
  <1>6. ASSUME NEW c \in Clients, NEW t \in Txs, NEW r,
               Begins(c, t, r), UNCHANGED <<tracked, shots, ledger>>,
               r.status # Authorized => r.blob,
               ~r.blob => t \notin DOMAIN tracked[1]
        PROVE  Trackers1 /\ Shots1 /\ Requests1
    <2>1. /\ client'[c].tx = t /\ client'[c].tracker = r
          /\ \A d \in Clients \ {c} : client'[d] = client[d]
      BY <1>6, Beginning
    <2> QED
      BY <1>6, <2>1 DEF SentInv
  <1>7. ASSUME NEW c \in Clients, NEW t \in Txs, NEW r, Taken(c, t, r)
        PROVE  Trackers1 /\ Shots1 /\ Requests1
    <2>1. /\ Begins(c, t, r) /\ UNCHANGED <<tracked, shots, ledger>>
          /\ r.status # Authorized => r.blob
          /\ t \notin DOMAIN tracked[1]
      BY <1>0, <1>7 DEF Taken, Take, Begins, Tracks
    <2> QED
      BY <1>6, <2>1
  <1>8. ASSUME NEW c \in Clients, NEW t \in Txs, ProxyResult(c, t)
        PROVE  Trackers1 /\ Shots1 /\ Requests1
    <2> DEFINE r == [tracked[current][t] EXCEPT !.status = Unsent, !.blob = TRUE]
    <2>1. Begins(c, t, r) /\ UNCHANGED <<tracked, shots, ledger>> /\ t \in DOMAIN tracked[1]
      BY <1>0, <1>8 DEF ProxyResult, Begins, Tracks, memory, network
    <2>2. r.blob
      BY <1>0, <2>1, MapFacts DEF Trackers
    <2> HIDE DEF r
    <2> QED
      BY <1>6, <2>1, <2>2
  <1>9. ASSUME NEW c \in Clients, SaveCount(c) \/ StoreHead(c) \/ StoreBody(c)
        PROVE  Trackers1 /\ Shots1 /\ Requests1
    <2>1. UNCHANGED <<tracked, shots, ledger>>
      BY <1>9 DEF SaveCount, StoreHead, StoreBody, memory, network
    <2>2. \A d \in Clients : client'[d] # Idle =>
                /\ client[d] # Idle
                /\ client'[d].tx = client[d].tx /\ client'[d].tracker = client[d].tracker
      BY <1>9, Serving
    <2> QED
      BY <2>1, <2>2 DEF SentInv
  <1>10. ASSUME NEW c \in Clients, Insert(c)
         PROVE  Trackers1 /\ Shots1 /\ Requests1
    <2> DEFINE t == client[c].tx
               r == client[c].tracker
    <2>0. CASE client[c].inst # 1
      <3>1. /\ tracked'[1] = tracked[1] /\ UNCHANGED <<shots, ledger>>
            /\ client'[c] = Idle /\ \A d \in Clients \ {c} : client'[d] = client[d]
        BY <1>0, <1>10, <2>0, InsertedMaps DEF Insert, network
      <3> QED
        BY <3>1 DEF SentInv
    <2> SUFFICES ASSUME client[c].inst = 1
                 PROVE  Trackers1 /\ Shots1 /\ Requests1
      BY <2>0
    <2>1. /\ client[c] # Idle
          /\ DOMAIN tracked'[1] = DOMAIN tracked[1] \cup {t}
          /\ tracked'[1][t] = r
          /\ \A u \in DOMAIN tracked[1] \ {t} : tracked'[1][u] = tracked[1][u]
          /\ client'[c] = Idle
      <3>1. client[c] # Idle /\ client[c].inst = 1
        BY <1>0, <1>10, InsertedMaps, Served
      <3> QED
        BY <1>10, <3>1, InsertedMaps
    <2>2. UNCHANGED <<shots, ledger>>
      BY <1>10 DEF Insert, network
    <2>3. /\ r.status # Authorized => r.blob
          /\ ~r.blob => t \notin DOMAIN tracked[1]
      BY <2>1 DEF SentInv
    <2> HIDE DEF t, r
    <2>4. Trackers1
      <3>1. \A u \in DOMAIN tracked[1] \ ledger :
                tracked[1][u].status.label \in {"unsent", "broadcasted"} => tracked[1][u].blob
        BY DEF SentInv
      <3>2. r.status.label \in {"unsent", "broadcasted"} => r.blob
        BY <2>3, StatusKinds
      <3> QED
        BY <2>1, <2>2, <3>1, <3>2
    <2>5. \A u \in Txs : HasBlob(tracked[1], u) => HasBlob(tracked'[1], u)
      BY <2>1, <2>3 DEF HasBlob
    <2>6. Shots1
      BY <2>2, <2>5 DEF SentInv
    <2>7. Requests1
      BY <1>10, <2>1, InsertedMaps DEF OneRequest
    <2> QED
      BY <2>4, <2>6, <2>7
  <1>11. ~(NewInstance \/ InsertEnv \/ Restart)
    BY <1>0 DEF NewInstance, InsertEnv, Alone
  <1>12. ASSUME NEW t \in Txs, Wiped(t)
         PROVE  UNCHANGED <<tracked, client>> /\ FewerShots
    BY <1>12, ShotsKept DEF Wiped
  <1>13. ASSUME Quiet
         PROVE  UNCHANGED <<tracked, client>> /\ FewerShots
    BY <1>13 DEF Quiet
  <1> HIDE DEF Trackers1, Shots1, Requests1
  <1> QED
    BY <1>0, <1>2, <1>3, <1>4, <1>5, <1>7, <1>8, <1>9, <1>10, <1>11, <1>12, <1>13 DEF Effect

LEMMA SentInit ==
    ASSUME Init
    PROVE  SentInv /\ made = 1 /\ OneRequest
  <1>1. 1 \in Instances
    BY CannonAssumption DEF Instances
  <1>2. /\ tracked[1] = <<>> /\ shots[1] = EmptyBag
        /\ \A c \in Clients : client[c] = Idle
    BY <1>1 DEF Init
  <1>3. \A t, h : ~BagIn(<<t, h>>, shots[1])
    BY <1>2, NoneIn
  <1>4. Confirmed
    BY DEF Init, Confirmed
  <1>5. DOMAIN tracked[1] = {}
    BY <1>2
  <1> QED
    BY <1>2, <1>3, <1>4, <1>5 DEF Init, SentInv, OneRequest

LEMMA SentKept ==
    ASSUME SentInv, made = 1, OneRequest, UNCHANGED vars
    PROVE  SentInv' /\ made' = 1 /\ OneRequest'
  BY DEF vars, memory, disk, network, SentInv, Confirmed, HasBlob, OneRequest

\* SentInv, with what it depends on.
SentAlone == Typed /\ SentInv /\ made = 1 /\ OneRequest

LEMMA SentAloneStep ==
    ASSUME SentAlone, TriedForEver, [Next /\ Alone /\ Serial]_vars
    PROVE  SentAlone'
  <1>1. CASE UNCHANGED vars
    BY <1>1, SentKept, TypedStep DEF SentAlone
  <1>2. CASE Next /\ Alone /\ Serial
    BY <1>2, SentStep, TypedStep DEF SentAlone, Alone, Serial, OneRequest
  <1> QED
    BY <1>1, <1>2

LEMMA SentAloneHolds ==
    ASSUME SentAlone
    PROVE  SentHasTransaction
  <1>1. current = 1
    BY DEF SentAlone, Typed, Instances
  <1> QED
    BY <1>1 DEF SentAlone, SentInv, SentHasTransaction, Status

\* Where a cannon has a target and no limits, serves one request at a time and
\* is neither replaced nor restarted, what is unsent or broadcasted has its
\* transaction or is in a block, whatever results of executions and answers of
\* nodes come late, twice, or after the transaction was confirmed, forgotten and
\* submitted again.
THEOREM SentKeepsTransaction ==
    ASSUME TriedForEver
    PROVE  Init /\ [][Next /\ Alone /\ Serial]_vars => []SentHasTransaction
  <1>1. Init => SentAlone
    BY TypedInit, SentInit DEF SentAlone
  <1>2. SentAlone /\ [Next /\ Alone /\ Serial]_vars => SentAlone'
    BY SentAloneStep
  <1>3. SentAlone => SentHasTransaction
    BY SentAloneHolds
  <1> QED
    BY <1>1, <1>2, <1>3, PTL

-----------------------------------------------------------------------------
(* The scenarios of MCCannonScenarios.                                      *)

ScenarioInv ==
    /\ ~Draining => Typed /\ WorkTyped
    /\ Racing => IndexesHeld /\ made = 1
    /\ Overlapping => SentAlone
    /\ Restarting => FollowInv

LEMMA ScenarioInit ==
    ASSUME MCInit
    PROVE  ScenarioInv
  <1>1. CASE Init
    BY <1>1, TypedInit, WorkInit, IndexesHeldInit, SentInit, PersistedInit, FollowInit
       DEF ScenarioInv, SentAlone, FollowInv
  <1>2. CASE Draining
    BY <1>2 DEF ScenarioInv, Draining, Racing, Overlapping, Restarting
  <1> QED
    BY <1>1, <1>2 DEF MCInit

LEMMA ScenarioStep ==
    ASSUME ScenarioInv, TriedForEver, [MCNext]_<<vars, scenario>>
    PROVE  ScenarioInv'
  <1>1. /\ scenario' = scenario
        /\ ~Draining => [Next]_vars
        /\ Racing => [Next /\ Alone]_vars
        /\ Overlapping => [Next /\ Alone /\ Serial]_vars
        /\ Restarting => [Next /\ Once]_vars
    BY DEF MCNext, Racing, Overlapping, Restarting, Draining
  <1>2. ~Draining => Typed' /\ WorkTyped'
    BY <1>1, TypedStep, WorkStep DEF ScenarioInv
  <1>3. Racing => IndexesHeld' /\ made' = 1
    BY <1>1, IndexesHeldStep DEF ScenarioInv, Racing, Draining
  <1>4. Overlapping => SentAlone'
    BY <1>1, SentAloneStep DEF ScenarioInv
  <1>5. Restarting => FollowInv'
    BY <1>1, FollowStep DEF ScenarioInv, Restarting, Draining
  <1> QED
    BY <1>1, <1>2, <1>3, <1>4, <1>5 DEF ScenarioInv, Racing, Overlapping, Restarting, Draining

LEMMA ScenariosHold ==
    ASSUME TriedForEver
    PROVE  MCSpec => []ScenarioInv
  <1>1. MCInit => ScenarioInv
    BY ScenarioInit
  <1>2. ScenarioInv /\ [MCNext]_<<vars, scenario>> => ScenarioInv'
    BY ScenarioStep
  <1> QED
    BY <1>1, <1>2, PTL DEF MCSpec

\* TrackersAreSound: indexes are unique where two requests are served at a
\* time; a tracker that is to be sent or waits for a block has its transaction,
\* or the chain has it, whatever results of executions and answers come late.
THEOREM CannonsAreSound ==
    ASSUME TriedForEver
    PROVE  MCSpec => []TrackersAreSound
  <1>1. ScenarioInv => TrackersAreSound
    BY TypesHold, IndexesHeldUnique, SentAloneHolds
       DEF ScenarioInv, TrackersAreSound, Racing, Draining
  <1> QED
    BY <1>1, ScenariosHold, PTL

\* RowsFollow: what is tracked is persisted, and rows follow the trackers,
\* through restarts and applies.
THEOREM RestartsKeepRows ==
    ASSUME TriedForEver
    PROVE  MCSpec => []RowsFollow
  <1>1. ScenarioInv => RowsFollow
    BY FollowRows, PersistedRestores
       DEF ScenarioInv, FollowInv, RowsFollow, Restarting, Draining
  <1> QED
    BY <1>1, ScenariosHold, PTL

\* A cannon that restarts loses no transaction that is not in a block.
THEOREM RestartsKeepAccepted ==
    ASSUME TriedForEver
    PROVE  MCSpec => AcceptedIsKeptAgain
  <1>1. ScenarioInv /\ [MCNext]_<<vars, scenario>> => [Restarting => KeepsAccepted]_vars
    <2> SUFFICES ASSUME ScenarioInv, MCNext, Restarting
                 PROVE  KeepsAccepted
      OBVIOUS
    <2>1. Typed /\ Persisted /\ Next
      BY DEF ScenarioInv, FollowInv, MCNext, Draining, Racing, Overlapping, Restarting
    <2> QED
      BY <2>1, AcceptedStep
  <1> QED
    BY <1>1, ScenariosHold, PTL DEF MCSpec, AcceptedIsKeptAgain
=============================================================================
