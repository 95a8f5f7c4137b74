--------------------------- MODULE CannonTracker ---------------------------
(***************************************************************************)
(* A transaction cannon of an environment: the requests that hand it       *)
(* authorizations and transactions (controlplane/src/cannon/mod.rs), the   *)
(* task that executes and broadcasts them (cannon/context.rs, source.rs),  *)
(* the task that queues them again, confirms and forgets them              *)
(* (state/transactions.rs), the rows that persist them (cannon/tracker.rs) *)
(* and what a restart or a new apply of the environment makes of them.     *)
(*                                                                         *)
(* Every apply makes a new instance of the cannon with trackers, channels  *)
(* and a task of its own; the rows are shared.  What a transaction says is *)
(* left out: a tracker knows whether it has an authorization and a blob.   *)
(* Clocks are left out too: a sweep finds any of the times expired.        *)
(***************************************************************************)
EXTENDS Naturals, Sequences, FiniteSets, Bags, Functions, SequencesExt

CONSTANTS
    Txs,             \* transaction ids
    Clients,         \* requests served at the same time
    AuthAttempts,    \* sink.authorize_attempts, or None
    CastAttempts,    \* sink.broadcast_attempts, or None
    HasTarget,       \* whether the sink has a target
    MaxInstances,    \* bound on the applies between two restarts
    MaxHeight,       \* bound on the chain
    MaxQueue,        \* bound on a sweep's copies of an id in a channel (none in the code)
    MaxWork,         \* bound on executions, and on broadcasts, under way (none in the code)
    MaxAttempts,     \* attempts are counted up to here (more than the limits)
    MaxSubmissions,  \* bound on the requests per transaction
    Crashes,         \* whether the control plane may restart
    None

ASSUME CannonAssumption ==
    /\ MaxInstances \in Nat \ {0} /\ MaxHeight \in Nat
    /\ MaxQueue \in Nat \ {0} /\ MaxWork \in Nat \ {0} /\ MaxSubmissions \in Nat
    /\ AuthAttempts \in Nat \cup {None} /\ CastAttempts \in Nat \cup {None}
    /\ MaxAttempts \in Nat
    /\ \A limit \in {AuthAttempts, CastAttempts} \ {None} : limit < MaxAttempts
    /\ HasTarget \in BOOLEAN /\ Crashes \in BOOLEAN
    /\ None \notin Nat
    /\ IsFiniteSet(Txs)

Instances == 1 .. MaxInstances

VARIABLES
    current,    \* the instance in the env map
    made,       \* the last instance made
    tracked,    \* the trackers of every instance
    received,   \* its received_txs
    auths,      \* its channel of authorizations
    txs,        \* its channel of transactions
    execs,      \* its executions: bag of <<tx, "new" or "rpc">>
    shots,      \* its broadcasts under way: bag of <<tx, height>>
    run,        \* its task: "waiting", "running" or "stopped"
    holds,      \* the environment (its instance) the task looked up
    rows,       \* tx_index, tx_status, tx_auths and tx_blobs
    attempts,   \* tx_attempts
    saved,      \* the row of received_txs, or None
    client,     \* the requests being served
    submitted,  \* how often a transaction was submitted
    sweep,      \* the tracking task
    deleting,   \* transactions whose trackers are gone and whose rows are not yet
    chain,      \* height of the network
    latest,     \* the height the control plane knows, or None
    mempool,    \* transactions the network has taken
    ledger      \* and those in a block

memory == <<current, made, tracked, received, auths, txs, execs, shots, run, holds>>
disk == <<rows, attempts, saved>>
network == <<chain, latest, mempool, ledger>>
vars == <<memory, disk, client, submitted, sweep, deleting, network>>

Authorized == [label |-> "authorized"]
Executing == [label |-> "executing"]
Unsent == [label |-> "unsent"]
Broadcasted(h) == [label |-> "broadcasted", height |-> h]
Statuses == {Authorized, Executing, Unsent}
                \cup {Broadcasted(h) : h \in 1 .. MaxHeight \cup {None}}

ASSUME NoneAssumption == None \notin Statuses

NoRow == [index |-> None, status |-> None, auth |-> FALSE, blob |-> FALSE]
Idle == [step |-> "idle"]
Without(f, t) == Restrict(f, DOMAIN f \ {t})
With(f, t, r) == [x \in DOMAIN f \cup {t} |-> IF x = t THEN r ELSE f[x]]
Plus(bag, x) == bag (+) SetToBag({x})
Minus(bag, x) == bag (-) SetToBag({x})

Tracks(i, t) == t \in DOMAIN tracked[i]
Status(i, t) == tracked[i][t].status
Running(i) == run[i] = "running"

\* Mutant: only the tracker is written.
WriteTracker(i, t, s) ==
    /\ tracked' = IF Tracks(i, t) THEN [tracked EXCEPT ![i][t].status = s] ELSE tracked
    /\ UNCHANGED rows

\* write_tx_status: the row and the tracker, if there is a tracker.
WriteStatus(i, t, s) ==
    IF Tracks(i, t)
    THEN /\ tracked' = [tracked EXCEPT ![i][t].status = s]
         /\ rows' = [rows EXCEPT ![t].status = s]
    ELSE UNCHANGED <<tracked, rows>>

IncAttempts(t) ==
    attempts' = [attempts EXCEPT ![t] = IF @ < MaxAttempts THEN @ + 1 ELSE @]

(***************************************************************************)
(* Requests: proxy_auth and proxy_broadcast look, take an index, write the *)
(* rows and put the tracker into the map of the instance they looked up.   *)
(***************************************************************************)

\* inc_received_txs: the index is the count before this transaction (fetch_add);
\* it is saved in a step of its own.
Take(i, c, t, tracker) ==
    /\ received' = [received EXCEPT ![i] = @ + 1]
    /\ client' = [client EXCEPT ![c] =
            [step |-> "count", inst |-> i, tx |-> t, tracker |-> tracker]]

Submission(c, t) ==
    /\ client[c] = Idle
    /\ submitted[t] < MaxSubmissions
    /\ submitted' = [submitted EXCEPT ![t] = @ + 1]

Rest == <<current, made, tracked, auths, txs, execs, shots, run, holds>>

ProxyAuth(c, t) ==
    /\ Submission(c, t)
    /\ ~Tracks(current, t)
    /\ Take(current, c, t, [index |-> received[current], auth |-> TRUE, blob |-> FALSE,
                            status |-> Authorized])
    /\ UNCHANGED <<Rest, disk, sweep, deleting, network>>

ProxyBroadcast(c, t) ==
    /\ Submission(c, t)
    /\ ~Tracks(current, t)
    /\ Take(current, c, t, [index |-> received[current], auth |-> FALSE, blob |-> TRUE,
                            status |-> Unsent])
    /\ UNCHANGED <<Rest, disk, sweep, deleting, network>>

\* The transaction is being executed: this is its result.
ProxyResult(c, t) ==
    /\ Submission(c, t)
    /\ Tracks(current, t)
    /\ Status(current, t) = Executing
    /\ attempts' = [attempts EXCEPT ![t] = 0]
    /\ client' = [client EXCEPT ![c] =
            [step |-> "head", inst |-> current, tx |-> t,
             tracker |-> [tracked[current][t] EXCEPT !.status = Unsent, !.blob = TRUE]]]
    /\ UNCHANGED <<memory, rows, saved, sweep, deleting, network>>

\* The cache has the transaction in a block: its rows go, the request is refused.
ProxyKnown(c, t) ==
    /\ Submission(c, t)
    /\ t \in ledger /\ latest # None
    /\ rows' = [rows EXCEPT ![t] = NoRow]
    /\ attempts' = [attempts EXCEPT ![t] = 0]
    /\ UNCHANGED <<memory, saved, client, sweep, deleting, network>>

SaveCount(c) ==
    /\ client[c].step = "count"
    /\ saved' = client[c].tracker.index
    /\ client' = [client EXCEPT ![c].step = "head"]
    /\ UNCHANGED <<memory, rows, attempts, submitted, sweep, deleting, network>>

\* TransactionTracker::write, in two parts.
StoreHead(c) ==
    /\ client[c].step = "head"
    /\ LET r == client[c].tracker IN
        rows' = [rows EXCEPT ![client[c].tx].index = r.index, ![client[c].tx].status = r.status]
    /\ client' = [client EXCEPT ![c].step = "body"]
    /\ UNCHANGED <<memory, attempts, saved, submitted, sweep, deleting, network>>

StoreBody(c) ==
    /\ client[c].step = "body"
    /\ LET r == client[c].tracker IN
        rows' = [rows EXCEPT ![client[c].tx].auth = @ \/ r.auth,
                             ![client[c].tx].blob = @ \/ r.blob]
    /\ client' = [client EXCEPT ![c].step = "insert"]
    /\ UNCHANGED <<memory, attempts, saved, submitted, sweep, deleting, network>>

\* The tracker is in the map and its id in the channel.
Insert(c) ==
    /\ client[c].step = "insert"
    /\ LET i == client[c].inst
           t == client[c].tx
           r == client[c].tracker
       IN /\ tracked' = [tracked EXCEPT ![i] = With(@, t, r)]
          /\ IF r.status = Authorized
             THEN auths' = [auths EXCEPT ![i] = Append(@, t)] /\ UNCHANGED txs
             ELSE txs' = [txs EXCEPT ![i] = Append(@, t)] /\ UNCHANGED auths
    /\ client' = [client EXCEPT ![c] = Idle]
    /\ UNCHANGED <<current, made, received, execs, shots, run, holds, disk,
                   submitted, sweep, deleting, network>>

(***************************************************************************)
(* The task of an instance: ExecutionContext::spawn.                       *)
(***************************************************************************)

\* An authorization is received; whether it is executed is decided here.
RecvAuth(i) ==
    /\ Running(i)
    /\ auths[i] # <<>>
    /\ BagCardinality(execs[i]) < MaxWork
    /\ LET t == Head(auths[i]) IN
        execs' = IF Tracks(i, t) /\ Status(i, t) = Authorized /\ tracked[i][t].auth
                 THEN [execs EXCEPT ![i] = Plus(@, <<t, "new">>)] ELSE execs
    /\ auths' = [auths EXCEPT ![i] = Tail(@)]
    /\ UNCHANGED <<current, made, tracked, received, txs, shots, run, holds, disk,
                   client, submitted, sweep, deleting, network>>

Exec(i, t, phase) == Running(i) /\ BagIn(<<t, phase>>, execs[i])

\* ComputeTarget::execute finds an agent and asks it...
StartExec(i, t) ==
    /\ Exec(i, t, "new")
    /\ WriteStatus(i, t, Executing)
    /\ IncAttempts(t)
    /\ execs' = [execs EXCEPT ![i] = Plus(Minus(@, <<t, "new">>), <<t, "rpc">>)]
    /\ UNCHANGED <<current, made, received, auths, txs, shots, run, holds, saved,
                   client, submitted, sweep, deleting, network>>

\* ...or there is none: the tracking task queues the authorization again.
NoCompute(i, t) ==
    /\ Exec(i, t, "new")
    /\ execs' = [execs EXCEPT ![i] = Minus(@, <<t, "new">>)]
    /\ UNCHANGED <<current, made, tracked, received, auths, txs, shots, run, holds, disk,
                   client, submitted, sweep, deleting, network>>

\* Mutant: the result is not kept.
ExecDoneNoBlob(i, t) ==
    /\ Exec(i, t, "rpc")
    /\ execs' = [execs EXCEPT ![i] = Minus(@, <<t, "rpc">>)]
    /\ WriteStatus(i, t, Unsent)
    /\ UNCHANGED <<current, made, received, auths, txs, shots, run, holds, attempts, saved,
                   client, submitted, sweep, deleting, network>>

ExecDone(i, t) ==
    /\ Exec(i, t, "rpc")
    /\ execs' = [execs EXCEPT ![i] = Minus(@, <<t, "rpc">>)]
    /\ IF Tracks(i, t)
       THEN /\ tracked' = [tracked EXCEPT ![i][t].status = Unsent, ![i][t].blob = TRUE]
            /\ rows' = [rows EXCEPT ![t].status = Unsent, ![t].blob = TRUE]
            /\ attempts' = [attempts EXCEPT ![t] = 0]
       ELSE UNCHANGED <<tracked, rows, attempts>>
    /\ UNCHANGED <<current, made, received, auths, txs, shots, run, holds, saved,
                   client, submitted, sweep, deleting, network>>

\* The agent or the connection fails, or the answer is too late.
ExecFails(i, t) ==
    /\ Exec(i, t, "rpc")
    /\ execs' = [execs EXCEPT ![i] = Minus(@, <<t, "rpc">>)]
    /\ WriteStatus(i, t, Authorized)
    /\ UNCHANGED <<current, made, received, auths, txs, shots, run, holds, attempts, saved,
                   client, submitted, sweep, deleting, network>>

Sendable(i, t) ==
    /\ Tracks(i, t)
    /\ Status(i, t).label \in {"unsent", "broadcasted"}
    /\ tracked[i][t].blob

\* A transaction is received: fire_tx up to its first await.  Without a target
\* its tracker goes; when no node is left to take it nothing happens.
RecvTx(i) ==
    /\ Running(i)
    /\ txs[i] # <<>>
    /\ BagCardinality(shots[i]) < MaxWork
    /\ txs' = [txs EXCEPT ![i] = Tail(@)]
    /\ LET t == Head(txs[i]) IN
        IF ~Sendable(i, t) THEN UNCHANGED <<shots, tracked, deleting>>
        ELSE IF ~HasTarget
        THEN /\ tracked' = [tracked EXCEPT ![i] = Without(@, t)]
             /\ deleting' = deleting \cup {t}
             /\ UNCHANGED shots
        ELSE /\ shots' \in {shots, [shots EXCEPT ![i] = Plus(@, <<t, latest>>)]}
             /\ UNCHANGED <<tracked, deleting>>
    /\ UNCHANGED <<current, made, received, auths, execs, run, holds, disk,
                   client, submitted, sweep, network>>

Shot(i, t, h) == Running(i) /\ BagIn(<<t, h>>, shots[i])

\* A node takes the transaction; its answer may come late, or never.
NodeTakes(i, t, h) ==
    /\ Shot(i, t, h)
    /\ t \notin mempool
    /\ mempool' = mempool \cup {t}
    /\ UNCHANGED <<memory, disk, client, submitted, sweep, deleting, chain, latest, ledger>>

\* The control plane hears from an agent, or from an external node, that it has
\* the transaction (an agent says so too when its ledger has it): whatever has
\* become of the transaction since, update_status.
Acked(i, t, h) ==
    /\ Shot(i, t, h)
    /\ t \in mempool
    /\ shots' = [shots EXCEPT ![i] = Minus(@, <<t, h>>)]
    /\ WriteStatus(i, t, Broadcasted(h))
    /\ IncAttempts(t)
    /\ UNCHANGED <<current, made, received, auths, txs, execs, run, holds, saved,
                   client, submitted, sweep, deleting, network>>

\* No node is heard to take it, or an external node says that its ledger has it.
ShotEnds(i, t, h) ==
    /\ Shot(i, t, h)
    /\ shots' = [shots EXCEPT ![i] = Minus(@, <<t, h>>)]
    /\ UNCHANGED <<current, made, tracked, received, auths, txs, execs, run, holds, disk,
                   client, submitted, sweep, deleting, network>>

(***************************************************************************)
(* tracking_task.                                                          *)
(***************************************************************************)

\* Mutant: no limit is a limit of none.
OverNone(limit, t) == limit = None \/ attempts[t] > limit
Over(limit, t) == limit # None /\ attempts[t] > limit

HeightChanged(h) ==
    IF h # None /\ latest # None THEN latest > h ELSE h # latest

\* get_pending_transactions, for the transactions whose times have expired.
WaitsForCompute(i, t, expired) ==
    \/ Status(i, t) = Authorized
    \/ Status(i, t) = Executing /\ t \in expired
\* Mutant: unsent transactions are not queued again.
ExpiredForNodes(i, t, expired) ==
    Status(i, t).label = "broadcasted" /\ HeightChanged(Status(i, t).height) /\ t \in expired
WaitsForNodes(i, t, expired) ==
    \/ Status(i, t) = Unsent
    \/ Status(i, t).label = "broadcasted" /\ HeightChanged(Status(i, t).height) /\ t \in expired

Pending(i, expired) ==
    LET all == DOMAIN tracked[i]
        compute == {t \in all : WaitsForCompute(i, t, expired)}
        nodes == {t \in all : WaitsForNodes(i, t, expired)}
    IN [execute |-> {t \in compute : ~Over(AuthAttempts, t)},
        cast |-> {t \in nodes : ~Over(CastAttempts, t)},
        confirm |-> {t \in all : /\ HasTarget
                                 /\ Status(i, t).label = "broadcasted"
                                 /\ HeightChanged(Status(i, t).height)},
        remove |-> {t \in compute : Over(AuthAttempts, t)}
                        \cup {t \in nodes : Over(CastAttempts, t)}]

\* sorted_by_index: transactions with the same index come in any order.
ByIndex(i, S) ==
    {s \in [1 .. Cardinality(S) -> S] :
        /\ Range(s) = S
        /\ \A j, k \in DOMAIN s : j < k => tracked[i][s[j]].index <= tracked[i][s[k]].index}

Copies(channel, t) == Len(SelectSeq(channel, LAMBDA u : u = t))

Sweep(expired) ==
    /\ sweep = Idle
    /\ LET i == current
           p == Pending(i, expired)
       IN /\ \E found \in ByIndex(i, p.execute) : auths' = [auths EXCEPT ![i] = @ \o found]
          /\ \E found \in ByIndex(i, p.cast) : txs' = [txs EXCEPT ![i] = @ \o found]
          /\ \A t \in p.execute : Copies(auths[i], t) < MaxQueue
          /\ \A t \in p.cast : Copies(txs[i], t) < MaxQueue
          /\ sweep' = [step |-> "confirm", inst |-> i, confirm |-> p.confirm,
                       remove |-> p.remove]
    /\ UNCHANGED <<current, made, tracked, received, execs, shots, run, holds, disk,
                   client, submitted, deleting, network>>

\* The cache or a node knows the block of the transaction, or nobody answers.
Confirm(t) ==
    /\ sweep.step = "confirm"
    /\ t \in sweep.confirm
    /\ \E found \in BOOLEAN :
        /\ found => t \in ledger
        /\ sweep' = [sweep EXCEPT !.confirm = @ \ {t},
                                  !.remove = IF found THEN @ \cup {t} ELSE @]
    /\ UNCHANGED <<memory, disk, client, submitted, deleting, network>>

Forget(t) ==
    /\ sweep.step = "confirm"
    /\ sweep.confirm = {}
    /\ t \in sweep.remove
    /\ tracked' = [tracked EXCEPT ![sweep.inst] = Without(@, t)]
    /\ deleting' = deleting \cup {t}
    /\ sweep' = [sweep EXCEPT !.remove = @ \ {t}]
    /\ UNCHANGED <<current, made, received, auths, txs, execs, shots, run, holds, disk,
                   client, submitted, network>>

\* TransactionTracker::delete.
DeleteRows(t) ==
    /\ t \in deleting
    /\ deleting' = deleting \ {t}
    /\ rows' = [rows EXCEPT ![t] = NoRow]
    /\ attempts' = [attempts EXCEPT ![t] = 0]
    /\ UNCHANGED <<memory, saved, client, submitted, sweep, network>>

SweepEnds ==
    /\ sweep.step = "confirm"
    /\ sweep.confirm = {} /\ sweep.remove = {} /\ deleting = {}
    /\ sweep' = Idle
    /\ UNCHANGED <<memory, disk, client, submitted, deleting, network>>

(***************************************************************************)
(* Instances: CannonInstance::new, the env map, the task and its end.      *)
(***************************************************************************)

\* restore_transactions: the rows with a status and an index.
Restored(rs) ==
    [t \in {u \in Txs : rs[u].status # None /\ rs[u].index # None} |-> rs[t]]
RestoredCount == IF saved = None THEN 0 ELSE saved

\* An apply prepares its cannons...
NewInstance ==
    /\ made = current
    /\ made < MaxInstances
    /\ made' = made + 1
    /\ tracked' = [tracked EXCEPT ![made'] = Restored(rows)]
    /\ received' = [received EXCEPT ![made'] = RestoredCount]
    /\ UNCHANGED <<current, auths, txs, execs, shots, run, holds, disk,
                   client, submitted, sweep, deleting, network>>

\* ...and puts the environment into the env map, with an empty block cache.
InsertEnv ==
    /\ made # current
    /\ current' = made
    /\ latest' = None
    /\ UNCHANGED <<made, tracked, received, auths, txs, execs, shots, run, holds, disk,
                   client, submitted, sweep, deleting, chain, mempool, ledger>>

\* The task starts when the apply is done, and keeps the environment it finds.
Spawn(i) ==
    /\ i <= current
    /\ run[i] = "waiting"
    /\ run' = [run EXCEPT ![i] = "running"]
    /\ holds' = [holds EXCEPT ![i] = current]
    /\ UNCHANGED <<current, made, tracked, received, auths, txs, execs, shots, disk,
                   client, submitted, sweep, deleting, network>>

\* Nobody holds the environment of an instance any more: it is dropped, and
\* its task is aborted.
Drop(i) ==
    /\ i < current
    /\ run[i] # "stopped"
    /\ \A c \in Clients : client[c] # Idle => client[c].inst # i
    /\ sweep # Idle => sweep.inst # i
    /\ \A j \in Instances : Running(j) => holds[j] # i
    /\ run' = [run EXCEPT ![i] = "stopped"]
    /\ UNCHANGED <<current, made, tracked, received, auths, txs, execs, shots, holds, disk,
                   client, submitted, sweep, deleting, network>>

\* Rows as a crash may leave them: the status of an execution's result is
\* written before its blob.
RowsAtCrash ==
    {rows} \cup {[rows EXCEPT ![t].status = Unsent] :
                    t \in {u \in Txs : Exec(current, u, "rpc") /\ Tracks(current, u)}}

Restart ==
    /\ Crashes
    /\ rows' \in RowsAtCrash
    /\ current' = 1 /\ made' = 1
    /\ tracked' = [i \in Instances |-> IF i = 1 THEN Restored(rows') ELSE <<>>]
    /\ received' = [i \in Instances |-> IF i = 1 THEN RestoredCount ELSE 0]
    /\ auths' = [i \in Instances |-> <<>>]
    /\ txs' = [i \in Instances |-> <<>>]
    /\ execs' = [i \in Instances |-> EmptyBag]
    /\ shots' = [i \in Instances |-> EmptyBag]
    /\ run' = [i \in Instances |-> "waiting"]
    /\ holds' = [i \in Instances |-> None]
    /\ client' = [c \in Clients |-> Idle]
    /\ sweep' = Idle
    /\ deleting' = {}
    /\ latest' = None
    /\ UNCHANGED <<attempts, saved, submitted, chain, mempool, ledger>>

(***************************************************************************)
(* The network.                                                            *)
(***************************************************************************)

\* A block with transactions of the mempool; its height is reported.
Block(S) ==
    /\ chain < MaxHeight
    /\ chain' = chain + 1
    /\ latest' = chain'
    /\ ledger' = ledger \cup S
    /\ UNCHANGED <<memory, disk, client, submitted, sweep, deleting, mempool>>

\* The height is reported again, after an apply or a restart.
Report ==
    /\ chain > 0
    /\ latest # chain
    /\ latest' = chain
    /\ UNCHANGED <<memory, disk, client, submitted, sweep, deleting, chain, mempool, ledger>>

-----------------------------------------------------------------------------

Init ==
    /\ current = 1 /\ made = 1
    /\ tracked = [i \in Instances |-> <<>>]
    /\ received = [i \in Instances |-> 0]
    /\ auths = [i \in Instances |-> <<>>]
    /\ txs = [i \in Instances |-> <<>>]
    /\ execs = [i \in Instances |-> EmptyBag]
    /\ shots = [i \in Instances |-> EmptyBag]
    /\ run = [i \in Instances |-> "waiting"]
    /\ holds = [i \in Instances |-> None]
    /\ rows = [t \in Txs |-> NoRow]
    /\ attempts = [t \in Txs |-> 0]
    /\ saved = None
    /\ client = [c \in Clients |-> Idle]
    /\ submitted = [t \in Txs |-> 0]
    /\ sweep = Idle
    /\ deleting = {}
    /\ chain = 0 /\ latest = None
    /\ mempool = {} /\ ledger = {}

Request(c) ==
    \E t \in Txs : ProxyAuth(c, t) \/ ProxyBroadcast(c, t) \/ ProxyResult(c, t) \/ ProxyKnown(c, t)
Serve(c) == SaveCount(c) \/ StoreHead(c) \/ StoreBody(c) \/ Insert(c)
Heights == 1 .. MaxHeight \cup {None}

TaskStep(i) ==
    \/ RecvAuth(i) \/ RecvTx(i) \/ Spawn(i) \/ Drop(i)
    \/ \E t \in Txs : StartExec(i, t) \/ NoCompute(i, t) \/ ExecDone(i, t) \/ ExecFails(i, t)
    \/ \E t \in Txs, h \in Heights : NodeTakes(i, t, h) \/ Acked(i, t, h) \/ ShotEnds(i, t, h)

SweepStep ==
    \/ \E expired \in SUBSET Txs : Sweep(expired)
    \/ \E t \in Txs : Confirm(t) \/ Forget(t) \/ DeleteRows(t)
    \/ SweepEnds

Next ==
    \/ \E c \in Clients : Request(c) \/ Serve(c)
    \/ \E i \in Instances : TaskStep(i)
    \/ SweepStep
    \/ NewInstance \/ InsertEnv \/ Restart
    \/ \E S \in SUBSET (mempool \ ledger) : Block(S)
    \/ Report

Spec == Init /\ [][Next]_vars

\* The tasks run; sweeps come every five seconds and find every time expired
\* in the end; an execution is tried with an agent again and again, answered
\* or timed out; nodes take a broadcast; heights are reported and transactions
\* a node has taken get into a block.
FairSpec ==
    /\ Spec
    /\ SF_vars(Sweep(Txs))
    /\ WF_vars(SweepEnds)
    /\ WF_vars(Report)
    /\ WF_vars(InsertEnv)
    /\ \A c \in Clients : WF_vars(Serve(c))
    /\ \A t \in Txs :
        /\ WF_vars(Confirm(t)) /\ WF_vars(Forget(t)) /\ WF_vars(DeleteRows(t))
        /\ SF_vars(Confirm(t) /\ t \in sweep'.remove)
        /\ WF_vars(t \in mempool \ ledger /\ Block(mempool \ ledger))
    /\ \A i \in Instances :
        /\ WF_vars(RecvAuth(i)) /\ WF_vars(RecvTx(i)) /\ SF_vars(RecvTx(i) /\ shots' # shots)
        /\ WF_vars(Spawn(i)) /\ WF_vars(Drop(i))
        /\ \A t \in Txs :
            /\ SF_vars(StartExec(i, t))
            /\ WF_vars(ExecDone(i, t) \/ ExecFails(i, t))
            /\ \A h \in Heights : SF_vars(NodeTakes(i, t, h))
            /\ \A h \in Heights : SF_vars(t \notin ledger /\ Acked(i, t, h))
            /\ \A h \in Heights : WF_vars(Acked(i, t, h) \/ ShotEnds(i, t, h))

-----------------------------------------------------------------------------

Optional(S) == S \cup {None}
Trackers == [index : Nat, auth : BOOLEAN, blob : BOOLEAN, status : Statuses]
Rows == [index : Optional(Nat), status : Optional(Statuses), auth : BOOLEAN, blob : BOOLEAN]
Requests == {Idle} \cup [step : {"count", "head", "body", "insert"}, inst : Instances, tx : Txs,
                         tracker : Trackers]
Sweeps == {Idle} \cup [step : {"confirm"}, inst : Instances, confirm : SUBSET Txs,
                       remove : SUBSET Txs]

TypeOK ==
    /\ current \in Instances /\ made \in Instances \cap {current, current + 1}
    /\ \A i \in Instances :
        /\ DOMAIN tracked[i] \subseteq Txs /\ tracked[i] \in [DOMAIN tracked[i] -> Trackers]
        /\ IsABag(execs[i]) /\ BagToSet(execs[i]) \subseteq Txs \X {"new", "rpc"}
        /\ IsABag(shots[i]) /\ BagToSet(shots[i]) \subseteq Txs \X Heights
    /\ received \in [Instances -> Nat]
    /\ auths \in [Instances -> Seq(Txs)] /\ txs \in [Instances -> Seq(Txs)]
    /\ run \in [Instances -> {"waiting", "running", "stopped"}]
    /\ holds \in [Instances -> Optional(Instances)]
    /\ rows \in [Txs -> Rows]
    /\ attempts \in [Txs -> Nat]
    /\ saved \in Optional(Nat)
    /\ client \in [Clients -> Requests]
    /\ submitted \in [Txs -> Nat]
    /\ sweep \in Sweeps
    /\ deleting \subseteq Txs
    /\ chain \in 0 .. MaxHeight /\ latest \in Heights
    /\ ledger \subseteq mempool /\ mempool \subseteq Txs

\* mod.rs inc_received_txs and tracker.rs:14-15: transactions are ordered by
\* their index, so no two of a cannon have the same.
IndexesUnique ==
    \A t, u \in DOMAIN tracked[current] :
        t # u => tracked[current][t].index # tracked[current][u].index

\* tracker.rs:16-20: the authorization must be present if the transaction is
\* None, however the control plane stopped and whatever it found in its rows.
PayloadPresent ==
    \A t \in DOMAIN tracked[current] : tracked[current][t].auth \/ tracked[current][t].blob

\* context.rs, spawn: an authorized transaction without an authorization is
\* unreachable (it would be queued and aborted by every sweep for ever).
AuthorizedHasAuthorization ==
    \A t \in DOMAIN tracked[current] :
        Status(current, t) = Authorized => tracked[current][t].auth

\* context.rs, fire_tx: what is unsent or broadcasted has its transaction, or a
\* block has it and the sweeps confirm it; any other would end in
\* TransactionLost whenever it is queued.  Late results of executions, and late
\* answers of nodes to broadcasts, must not break this, whether the tracker they
\* find is the one they were sent for or a later one.
SentHasTransaction ==
    \A t \in DOMAIN tracked[current] \ ledger :
        Status(current, t).label \in {"unsent", "broadcasted"} => tracked[current][t].blob

\* "write the transaction to the store to prevent data loss": while a cannon
\* has had one instance since the control plane started, the rows of a tracked
\* transaction say what its tracker says (unless a request for it is being
\* served, or it is in a block), through executions, broadcasts, sweeps and
\* restarts, so that a restart goes on where the cannon stopped.
RowsFollowTrackers ==
    made = 1 =>
        \A t \in DOMAIN tracked[current] \ ledger :
            (\A c \in Clients : client[c] # Idle => client[c].tx # t)
            => LET r == tracked[current][t] IN
                /\ rows[t].index = r.index
                /\ rows[t].status = r.status
                /\ r.auth => rows[t].auth
                /\ r.blob => rows[t].blob

\* The same of every instance, whatever applies and restarts come between and
\* whichever instance writes the shared rows: a restart finds the transaction.
TrackedIsPersisted ==
    \A i \in Instances : \A t \in DOMAIN tracked[i] \ ledger :
        /\ t \in DOMAIN Restored(rows)
        /\ tracked[i][t].auth => rows[t].auth
        /\ tracked[i][t].blob => rows[t].blob

\* A transaction a cannon has accepted, and that may be tried without limit,
\* stays with the environment until it is in a block, through sweeps and
\* restarts (an apply may lose it: the new instance restores its trackers
\* before it replaces the old one).
KeepsAccepted ==
    made' = 1 => \A t \in DOMAIN tracked[current] :
                    t \in DOMAIN tracked'[current'] \/ t \in ledger
AcceptedIsKept == [][KeepsAccepted]_vars

\* sink.rs: the attempts are those after the first try: "0 means no additional
\* tries".
NoAdditionalTries ==
    \A t \in DOMAIN tracked[current] :
        Status(current, t).label = "broadcasted" /\ CastAttempts # None
            => attempts[t] <= CastAttempts + 1

\* A cannon without a target drains: what it accepts is executed if need be or
\* given up, whatever agents come, go, fail or answer too late, and what is
\* executed is written out and forgotten.
SinkDrains ==
    \A t \in Txs : Tracks(current, t) ~> ~Tracks(current, t)

\* transactions.rs: "any expired execution should be queued": no transaction
\* is executing for ever.
ExpiredExecutionsAreQueued ==
    \A t \in Txs :
        (Tracks(current, t) /\ Status(current, t) = Executing)
            ~> (Tracks(current, t) => Status(current, t) # Executing)

\* context.rs, fire_tx: "transaction already exists in the ledger but we'll
\* confirm it anyway".
LedgerIsConfirmed ==
    \A t \in Txs : (t \in ledger /\ Tracks(current, t)) ~> ~Tracks(current, t)

\* mod.rs, Drop: "cancel the task on drop": the task of a cannon whose
\* environment has been replaced ends.
ReplacedCannonStops ==
    \A i \in Instances : (i < current) ~> (run[i] = "stopped")
=============================================================================
