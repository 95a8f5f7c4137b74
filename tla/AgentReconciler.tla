-------------------------- MODULE AgentReconciler --------------------------
(***************************************************************************)
(* The reconciler of an agent (agent/src/reconcile): a loop that makes the *)
(* machine what the control plane last asked for.  Requests carry options; *)
(* a pass of the loop captures the requested state, fetches what the       *)
(* environment's storage is, stops a node that must not run (any more),    *)
(* prepares the storage directory and the ledger, and starts the node.     *)
(*                                                                         *)
(* A pass is a sequence of awaits: requests arrive, the node exits, the    *)
(* ledger modification ends and the agent stops between any two steps.     *)
(* Times are left out: a pass may begin at any time.  What a node is       *)
(* started with is the environment, the storage and one value for all the  *)
(* rest (keys, peers, variables); binaries and the genesis block are       *)
(* files that are there or are not yet.                                    *)
(***************************************************************************)
EXTENDS Naturals, Sequences, FiniteSets

CONSTANTS
    EnvIds,
    Storages,      \* [id, version, persist]: what an environment may be stored in
    Heights,       \* <<counter, request>> an agent may be asked for
    Confs,         \* the rest of a node's command line
    Results,       \* of a ledger modification: "ok", "failed", "error"
    Moves,         \* what else happens: "cleanup", "configure", "reboot", "handshake",
                   \*   "restart", "crash", "exit"
    MaxQueue,      \* capacity of the channel of requests
    MaxUpdates,    \* bound on the requests and restarts
    SharedLedger,  \* NODE_DATA_DIR: the ledger of storages that are not persistent
    None

ASSUME ReconcilerAssumption ==
    /\ \A s \in Storages : s = [id |-> s.id, version |-> s.version, persist |-> s.persist]
    /\ \A h \in Heights : h[1] \in Nat /\ h[2] \in {"top", "reset", "checkpoint"}
    /\ Results \subseteq {"ok", "failed", "error"}
    /\ MaxQueue \in Nat \ {0} /\ MaxUpdates \in Nat
    /\ None \notin EnvIds /\ None \notin Storages /\ None \notin Heights

VARIABLES
    info,     \* control plane: the storage of every environment, or None
    target,   \* the AgentState the agent was last given
    queue,    \* the channel of requests: their options
    opts,     \* next_opts
    pass,     \* the pass of the reconciler
    cache,    \* env_info: <<environment, storage>>, or None
    ctx,      \* AgentStateReconcilerContext with its TransfersContext
    saved,    \* the persisted last height
    dirs,     \* the version file of every storage directory, or None
    ledger,   \* whose chain a ledger directory holds, or None
    strays,   \* ledgers that an abandoned modification is still working on
    orphans,  \* node processes the agent has lost
    updates   \* requests and restarts so far

vars == <<info, target, queue, opts, pass, cache, ctx, saved, dirs, ledger, strays,
          orphans, updates>>
control == <<info, target, queue, opts, updates>>
machine == <<dirs, ledger, strays, orphans>>

Options == {"refetch_info", "force_shutdown", "clear_last_height"}
StorageIds == {s.id : s \in Storages}
Ledgers == StorageIds \cup {SharedLedger}
LedgerOf(st) == IF st.persist THEN st.id ELSE SharedLedger

Inventory == [env |-> None]
Node(e, online, h, c) == [env |-> e, online |-> online, height |-> h, conf |-> c]
IsNode(s) == s.env # None
Nodes == {Node(e, o, h, c) : e \in EnvIds, o \in BOOLEAN, h \in Heights, c \in Confs}

Command(s, st) == [env |-> s.env, storage |-> st, conf |-> s.conf]
Commands == {Command(s, st) : s \in Nodes, st \in Storages}
Processes == [command : Commands, alive : BOOLEAN, signal : BOOLEAN]
Modifications == [ledger : Ledgers, result : Results \cup {"running"}]

\* No process and no modification is None.
ASSUME NoneAssumption == None \notin Processes /\ None \notin Modifications

Idle == [step |-> "idle"]
Ends == pass' = Idle
Goes(step) == pass' = [pass EXCEPT !.step = step]
At(step) == pass.step = step

HasProcess == ctx.process # None
Alive == HasProcess /\ ctx.process.alive

(***************************************************************************)
(* What the control plane asks for.                                        *)
(***************************************************************************)

\* update_agent_state: the state is replaced, the options are queued with
\* try_send, which drops them when the channel is full.
Update(s, o) ==
    /\ updates < MaxUpdates
    /\ updates' = updates + 1
    /\ target' = s
    /\ queue' = IF Len(queue) < MaxQueue THEN Append(queue, o) ELSE queue
    /\ UNCHANGED <<opts, pass, cache, ctx, saved, machine>>

\* Environment::apply with the storage st: the agent fetches the storage again
\* when it changed, and starts from scratch when the environment is new.
Apply(e, st, h, c) ==
    /\ info' = [info EXCEPT ![e] = st]
    /\ Update(Node(e, TRUE, h, c),
              {o \in Options :
                  \/ o = "refetch_info" /\ info[e] \notin {None, st}
                  \/ o = "clear_last_height" /\ info[e] = None /\ ~st.persist})

Cleanup ==
    /\ "cleanup" \in Moves
    /\ IsNode(target)
    /\ info' = [info EXCEPT ![target.env] = None]
    /\ Update(Inventory, {})

\* Actions: another height or configuration, online or offline.
Configure(o, h, c) ==
    /\ "configure" \in Moves
    /\ IsNode(target)
    /\ Update(Node(target.env, o, h, c), {})
    /\ UNCHANGED info

Reboot ==
    /\ "reboot" \in Moves
    /\ IsNode(target)
    /\ Update(target, {"force_shutdown"})
    /\ UNCHANGED info

Handshake ==
    /\ "handshake" \in Moves
    /\ Update(target, {"refetch_info"})
    /\ UNCHANGED info

(***************************************************************************)
(* loop_forever: requests are received while the loop waits; when it stops *)
(* waiting, the rest of the channel is drained.                            *)
(***************************************************************************)

Receive ==
    /\ pass = Idle
    /\ queue # <<>>
    /\ opts' = opts \cup Head(queue)
    /\ queue' = Tail(queue)
    /\ UNCHANGED <<info, target, updates, pass, cache, ctx, saved, machine>>

Begin ==
    /\ pass = Idle
    /\ queue' = <<>>
    /\ opts' = {}
    /\ pass' = [step |-> "begun", state |-> target, storage |-> None]
    /\ cache' = IF "refetch_info" \in opts THEN None ELSE cache
    /\ LET clear == "clear_last_height" \in opts
       IN /\ ctx' = [ctx EXCEPT
                        !.shutdown = @ \/ ("force_shutdown" \in opts /\ HasProcess),
                        !.last = IF clear THEN None ELSE @]
          /\ saved' = IF clear THEN None ELSE saved
    /\ UNCHANGED <<info, target, updates, machine>>

\* The ledgers left to an abandoned modification when the transfers context
\* is dropped: its task is not aborted.
Abandoned == IF ctx.modify # None /\ ctx.modify.result = "running"
             THEN {ctx.modify.ledger} ELSE {}

NoTransfers(c) == [c EXCEPT !.pending = None, !.modify = None]

(***************************************************************************)
(* A pass for an agent in inventory.                                       *)
(***************************************************************************)

\* reconcile_inventory, when there is no process or it has exited.
ReconcileInventory ==
    /\ At("begun") /\ ~IsNode(pass.state)
    /\ ~Alive
    /\ LET gone == [ctx EXCEPT !.process = None, !.shutdown = @ /\ ~HasProcess]
       IN IF ctx.transfers
          THEN /\ ctx' = [NoTransfers(gone) EXCEPT !.transfers = FALSE,
                                !.env_state = None, !.last = None]
               /\ saved' = None
               /\ strays' = strays \cup Abandoned
          ELSE ctx' = gone /\ UNCHANGED <<saved, strays>>
    /\ Ends
    /\ UNCHANGED <<control, cache, dirs, ledger, orphans>>

(***************************************************************************)
(* A pass for a node.                                                      *)
(***************************************************************************)

\* get_env_info: what is cached for this environment, or what the control
\* plane says.
GetEnvInfo ==
    /\ At("begun") /\ IsNode(pass.state)
    /\ LET e == pass.state.env
           cached == cache # None /\ cache[1] = e
           st == IF cached THEN cache[2] ELSE info[e]
       IN /\ st # None
          /\ pass' = [pass EXCEPT !.step = "info", !.storage = st]
          /\ cache' = <<e, st>>
    /\ UNCHANGED <<control, ctx, saved, machine>>

EnvChanged(st) ==
    \/ ctx.env_state = None
    \/ <<ctx.env_state.id, ctx.env_state.version>> # <<st.id, st.version>>

\* Mutant: a height that is not the one of the ledger does not matter.
StorageOrOffline ==
    /\ HasProcess
    /\ ctx.shutdown \/ ~pass.state.online \/ EnvChanged(pass.storage)

\* Mutant: a node that is configured to be offline is left alone.
OfflineIgnored ==
    /\ HasProcess
    /\ \/ ctx.shutdown
       \/ EnvChanged(pass.storage)
       \/ ctx.last # pass.state.height /\ pass.state.height[2] # "top"

\* is_shutdown_pending.
ShutdownPending ==
    /\ HasProcess
    /\ \/ ctx.shutdown
       \/ ~pass.state.online
       \/ EnvChanged(pass.storage)
       \/ ctx.last # pass.state.height /\ pass.state.height[2] # "top"

\* EndProcessReconciler: the process is sent a signal (SIGKILL if it does not
\* end), and looked at again in the next pass.
EndProcess ==
    /\ Alive
    /\ \/ At("begun") /\ ~IsNode(pass.state)
          /\ ctx' = [ctx EXCEPT !.process.signal = TRUE]
       \/ At("info") /\ ShutdownPending
          /\ ctx' = [ctx EXCEPT !.process.signal = TRUE, !.shutdown = TRUE]
    /\ Ends
    /\ UNCHANGED <<control, cache, saved, machine>>

\* It has ended: the pass goes on without a process.
ProcessEnded ==
    /\ At("info") /\ ShutdownPending
    /\ ~Alive
    /\ ctx' = [ctx EXCEPT !.process = None, !.shutdown = FALSE]
    /\ UNCHANGED <<control, pass, cache, saved, machine>>

Offline ==
    /\ At("info") /\ ~ShutdownPending
    /\ ~pass.state.online
    /\ Ends
    /\ UNCHANGED <<control, cache, ctx, saved, machine>>

Online == At("info") /\ ~ShutdownPending /\ pass.state.online

\* The node exited by itself: the next pass starts it again.
ProcessExited ==
    /\ Online
    /\ HasProcess /\ ~Alive
    /\ ctx' = [ctx EXCEPT !.process = None]
    /\ Ends
    /\ UNCHANGED <<control, cache, saved, machine>>

\* A running node has the right command, or is shut down by the next pass.
CheckCommand ==
    /\ Online
    /\ Alive
    /\ ctx' = [ctx EXCEPT !.shutdown =
                  @ \/ ctx.process.command # Command(pass.state, pass.storage)]
    /\ Ends
    /\ UNCHANGED <<control, cache, saved, machine>>

\* Mutant: the storage is prepared before the running node is looked at.
PrepareBeforeCheck ==
    /\ Online
    /\ LET st == pass.storage
           renewed == dirs[st.id] # st.version
       IN /\ dirs' = [dirs EXCEPT ![st.id] = st.version]
          /\ ledger' = IF renewed THEN [ledger EXCEPT ![st.id] = None] ELSE ledger
          /\ ctx' = [ctx EXCEPT !.transfers = TRUE, !.env_state = st]
    /\ Goes("files")
    /\ UNCHANGED <<control, cache, saved, strays, orphans>>

\* StorageVersionReconciler: a directory of another version is deleted, a new
\* one starts new transfers, and the env state is that of new transfers.
PrepareStorage ==
    /\ Online
    /\ ~HasProcess
    /\ LET st == pass.storage
           renewed == dirs[st.id] # st.version
       IN /\ dirs' = [dirs EXCEPT ![st.id] = st.version]
          /\ ledger' = IF renewed THEN [ledger EXCEPT ![st.id] = None] ELSE ledger
          /\ strays' = IF renewed THEN strays \cup Abandoned ELSE strays
          /\ ctx' = IF renewed \/ ~ctx.transfers
                    THEN [(IF renewed THEN NoTransfers(ctx) ELSE ctx)
                            EXCEPT !.transfers = TRUE, !.env_state = st]
                    ELSE ctx
    /\ Goes("files")
    /\ UNCHANGED <<control, cache, saved, orphans>>

\* The environment's info or an address cannot be fetched, a file is not there
\* yet, there is no checkpoint, or the node cannot be spawned.
GiveUp ==
    /\ \/ At("begun") /\ IsNode(pass.state)
       \/ Online
       \/ At("files") \/ At("start")
    /\ Ends
    /\ UNCHANGED <<control, cache, ctx, saved, machine>>

(***************************************************************************)
(* LedgerReconciler.                                                       *)
(***************************************************************************)

Height == pass.state.height
Ledger == LedgerOf(pass.storage)
Realized(h) == ctx' = [ctx EXCEPT !.last = h] /\ saved' = h

\* No last height: a ledger that is not persistent is deleted.  The default
\* is not persisted.
LedgerFresh ==
    /\ At("files")
    /\ ctx.last = None
    /\ ctx' = [ctx EXCEPT !.last = <<0, "top">>]
    /\ ledger' = IF pass.storage.persist THEN ledger ELSE [ledger EXCEPT ![Ledger] = None]
    /\ UNCHANGED <<control, pass, cache, saved, dirs, strays, orphans>>

LedgerIdle == At("files") /\ ctx.last # None /\ ctx.pending = None

\* The height is realized already, or it is the top: nothing to do.
LedgerReady ==
    /\ LedgerIdle
    /\ IF ctx.last = Height THEN UNCHANGED <<ctx, saved>>
       ELSE Height[2] = "top" /\ Realized(Height)
    /\ Goes("start")
    /\ UNCHANGED <<control, cache, machine>>

LedgerReset ==
    /\ LedgerIdle
    /\ ctx.last # Height /\ Height[2] = "reset"
    /\ ledger' = [ledger EXCEPT ![Ledger] = None]
    /\ Realized(Height)
    /\ Ends
    /\ UNCHANGED <<control, cache, dirs, strays, orphans>>

\* Mutant: the node is started while the checkpoint is applied.
ModifyAndStart ==
    /\ LedgerIdle
    /\ ctx.last # Height /\ Height[2] = "checkpoint"
    /\ ctx' = [ctx EXCEPT !.pending = Height,
                          !.modify = [ledger |-> Ledger, result |-> "running"]]
    /\ Goes("start")
    /\ UNCHANGED <<control, cache, saved, machine>>

\* A checkpoint is applied by a process of its own.
LedgerModify ==
    /\ LedgerIdle
    /\ ctx.last # Height /\ Height[2] = "checkpoint"
    /\ ctx' = [ctx EXCEPT !.pending = Height,
                          !.modify = [ledger |-> Ledger, result |-> "running"]]
    /\ Ends
    /\ UNCHANGED <<control, cache, saved, machine>>

LedgerPending == At("files") /\ ctx.last # None /\ ctx.pending # None

\* It is still running, or it ended with an error that is returned by every
\* pass from now on.
LedgerWait ==
    /\ LedgerPending
    /\ ctx.modify.result \in {"running", "error"}
    /\ Ends
    /\ UNCHANGED <<control, cache, ctx, saved, machine>>

\* The height that was pending is realized, or not; the node starts.
LedgerModified ==
    /\ LedgerPending
    /\ ctx.modify.result \in {"ok", "failed"}
    /\ IF ctx.modify.result = "ok"
       THEN ctx' = [NoTransfers(ctx) EXCEPT !.last = ctx.pending] /\ saved' = ctx.pending
       ELSE ctx' = NoTransfers(ctx) /\ UNCHANGED saved
    /\ Goes("start")
    /\ UNCHANGED <<control, cache, machine>>

StartNode ==
    /\ At("start")
    /\ ctx' = [ctx EXCEPT !.shutdown = FALSE,
                  !.process = [command |-> Command(pass.state, pass.storage),
                               alive |-> TRUE, signal |-> FALSE]]
    /\ Ends
    /\ UNCHANGED <<control, cache, saved, machine>>

(***************************************************************************)
(* Processes and restarts.                                                 *)
(***************************************************************************)

ModifyEnds(r) ==
    /\ ctx.modify # None /\ ctx.modify.result = "running"
    /\ ctx' = [ctx EXCEPT !.modify.result = r]
    /\ UNCHANGED <<control, pass, cache, saved, machine>>

StrayEnds ==
    /\ \E l \in strays : strays' = strays \ {l}
    /\ UNCHANGED <<control, pass, cache, ctx, saved, dirs, ledger, orphans>>

\* A node that got a signal ends; another one may.
NodeExits ==
    /\ Alive
    /\ \/ ctx.process.signal /\ UNCHANGED updates
       \/ "exit" \in Moves /\ updates < MaxUpdates /\ updates' = updates + 1
    /\ ctx' = [ctx EXCEPT !.process.alive = FALSE]
    /\ UNCHANGED <<info, target, queue, opts, pass, cache, saved, machine>>

\* A node puts its chain into an empty ledger.
NodeWrites ==
    /\ Alive
    /\ LET l == LedgerOf(ctx.process.command.storage)
       IN ledger[l] = None /\ ledger' = [ledger EXCEPT ![l] = ctx.process.command.env]
    /\ UNCHANGED <<control, pass, cache, ctx, saved, dirs, strays, orphans>>

\* The agent stops, and its node with it unless it was killed; it hydrates its
\* context from what it has persisted.
Restart(kill) ==
    /\ (IF kill THEN "crash" ELSE "restart") \in Moves
    /\ updates < MaxUpdates
    /\ updates' = updates + 1
    /\ orphans' = IF kill /\ Alive THEN orphans \cup {ctx.process.command} ELSE orphans
    /\ strays' = strays \cup Abandoned
    /\ ctx' = [NoTransfers(ctx) EXCEPT !.transfers = FALSE, !.process = None,
                                       !.shutdown = FALSE, !.last = saved]
    /\ queue' = <<>> /\ opts' = {}
    /\ pass' = Idle
    /\ UNCHANGED <<info, target, cache, saved, dirs, ledger>>

-----------------------------------------------------------------------------

Init ==
    /\ info = [e \in EnvIds |-> None]
    /\ target = Inventory
    /\ queue = <<>> /\ opts = {}
    /\ pass = Idle
    /\ cache = None
    /\ ctx = [env_state |-> None, last |-> None, transfers |-> FALSE, pending |-> None,
              modify |-> None, process |-> None, shutdown |-> FALSE]
    /\ saved = None
    /\ dirs = [s \in StorageIds |-> None]
    /\ ledger = [l \in Ledgers |-> None]
    /\ strays = {} /\ orphans = {}
    /\ updates = 0

ControlPlane ==
    \/ \E e \in EnvIds, st \in Storages, h \in Heights, c \in Confs : Apply(e, st, h, c)
    \/ \E o \in BOOLEAN, h \in Heights, c \in Confs : Configure(o, h, c)
    \/ Cleanup \/ Reboot \/ Handshake

InfoStep == ProcessEnded \/ ProcessExited \/ CheckCommand \/ PrepareStorage
LedgerStep == LedgerFresh \/ LedgerReady \/ LedgerReset \/ LedgerModify \/ LedgerModified

Pass ==
    \/ Begin \/ ReconcileInventory \/ EndProcess \/ Offline
    \/ GetEnvInfo \/ InfoStep \/ LedgerStep \/ LedgerWait \/ StartNode \/ GiveUp

Next ==
    \/ ControlPlane \/ Receive \/ Pass
    \/ \E r \in Results : ModifyEnds(r)
    \/ StrayEnds \/ NodeExits \/ NodeWrites
    \/ \E kill \in BOOLEAN : Restart(kill)

Spec == Init /\ [][Next]_vars

\* The loop never stops; the control plane, the files and the checkpoints are
\* there again and again; a process that got a signal ends; a modification
\* ends, and not always badly.
Fairness ==
    /\ WF_vars(Pass)
    /\ SF_vars(GetEnvInfo) /\ SF_vars(InfoStep) /\ SF_vars(LedgerStep) /\ SF_vars(StartNode)
    /\ WF_vars(Alive /\ ctx.process.signal /\ NodeExits)
    /\ WF_vars(\E r \in Results : ModifyEnds(r)) /\ SF_vars(ModifyEnds("ok"))
FairSpec == Spec /\ Fairness

-----------------------------------------------------------------------------

Optional(S) == S \cup {None}

Passes == {Idle}
    \cup [step : {"begun"}, state : Nodes \cup {Inventory}, storage : {None}]
    \cup [step : {"info", "files", "start"}, state : Nodes, storage : Storages]

Contexts ==
    [env_state : Optional(Storages), last : Optional(Heights \cup {<<0, "top">>}),
     transfers : BOOLEAN, pending : Optional(Heights), modify : Optional(Modifications),
     process : Optional(Processes), shutdown : BOOLEAN]

\* The type of every variable; what is pending is being modified.
TypeOK ==
    /\ info \in [EnvIds -> Optional(Storages)]
    /\ target \in Nodes \cup {Inventory}
    /\ queue \in Seq(SUBSET Options) /\ Len(queue) <= MaxQueue /\ opts \subseteq Options
    /\ pass \in Passes /\ ctx \in Contexts
    /\ (ctx.pending = None <=> ctx.modify = None)
    /\ cache \in Optional(EnvIds \X Storages)
    /\ saved \in Optional(Heights)
    /\ dirs \in [StorageIds -> Optional({s.version : s \in Storages})]
    /\ ledger \in [Ledgers -> Optional(EnvIds)]
    /\ strays \subseteq Ledgers /\ orphans \subseteq Commands
    /\ updates \in 0 .. MaxUpdates

\* agent.rs:414: "Prevent other reconcilers from running while the node is
\* running": no checkpoint the reconciler knows of is being applied to the
\* ledger of a running node.
NodeOwnsLedger ==
    Alive => LedgerOf(ctx.process.command.storage) \notin Abandoned

\* NodeOwnsLedger, and the types.
ReconcilerSound == TypeOK /\ NodeOwnsLedger

\* The same of the modifications it has forgotten.
NoStrayModification ==
    Alive => LedgerOf(ctx.process.command.storage) \notin strays

\* Nor is its storage or its ledger deleted under it: whatever is requested
\* and whatever fails, the process has ended before anything is wiped.
KeepsFilesOfNode ==
    Alive => LET st == ctx.process.command.storage
             IN /\ dirs'[st.id] = dirs[st.id]
                /\ ledger[LedgerOf(st)] # None => ledger'[LedgerOf(st)] # None
NothingWipedUnderNode == [][KeepsFilesOfNode]_vars

\* The requested node runs: with the command of the request, on a ledger of
\* the requested height.
Runs(s) ==
    /\ Alive
    /\ ctx.process.command = Command(s, info[s.env])
    /\ s.height[2] = "top" \/ ctx.last = s.height

\* loop_forever: a requested node runs in the end, with the requested command
\* and the requested height, unless something else is requested.
RequestedNodeRuns ==
    \A s \in Nodes : (target = s /\ s.online) ~> (target # s \/ Runs(s))

\* And a node that is not requested is stopped in the end.
UnwantedNodeStops ==
    (~IsNode(target) \/ ~target.online)
        ~> (~Alive \/ (IsNode(target) /\ target.online))

\* storage.rs:345 and reconcile.rs:14: a fresh environment deletes the ledger
\* of the one before: no node runs on the chain of another environment (where
\* ledgers are not persistent).
FreshLedger ==
    Alive /\ ~ctx.process.command.storage.persist =>
        ledger[SharedLedger] \in {None, ctx.process.command.env}

\* main.rs:156: "Recover context from previous state": the chain of an
\* environment outlives the agent's restarts (unless a reset is requested).
ChainSurvives ==
    [][\A l \in Ledgers :
          ledger[l] # None /\ ledger'[l] = None =>
              \/ pass.state.env # ledger[l]
              \/ pass.state.height[2] = "reset"
              \/ dirs' # dirs]_vars

\* agent.rs:460-462: "storage_version within env_state will be guaranteed to
\* match the remote env after it succeeds": the env state is the one of the
\* environment once the storage is prepared (a node that is started with
\* another one is shut down by every pass).
EnvStateMatches == At("files") => ~EnvChanged(pass.storage)

\* db.rs:28: the process id of the node is persisted "to keep track of zombie
\* node processes": no second node is started while one is running.
OneNodeProcess == Alive => orphans = {}
=============================================================================
