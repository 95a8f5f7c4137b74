------------------------ MODULE AgentReconcilerProofs ------------------------
(***************************************************************************)
(* Who works on a ledger, for any storages, heights and requests, and with *)
(* every failure, restart and crash.                                       *)
(***************************************************************************)
EXTENDS AgentReconciler, TLAPS

\* A pass that has come to the storage has no process, and one that is about
\* to start it no modification either; nor has a process.
OneWorker ==
    /\ pass.step \in {"files", "start"} => ~HasProcess
    /\ pass.step = "start" => ctx.modify = None
    /\ HasProcess => ctx.modify = None

ReconcilerInv == TypeOK /\ OneWorker

-----------------------------------------------------------------------------

\* The fields of the records, from the types.
LEMMA Shapes ==
    ASSUME TypeOK
    PROVE  /\ pass.step \in {"idle", "begun", "info", "files", "start"}
           /\ pass.step = "begun" => pass \in [step : {"begun"}, state : Nodes \cup {Inventory},
                                               storage : {None}]
           /\ pass.step \in {"info", "files", "start"} =>
                pass \in [step : {"info", "files", "start"}, state : Nodes, storage : Storages]
  BY DEF TypeOK, Passes, Idle

LEMMA NodeShape ==
    ASSUME NEW s \in Nodes
    PROVE  /\ s.env \in EnvIds /\ s.online \in BOOLEAN /\ s.height \in Heights
           /\ s.conf \in Confs /\ IsNode(s)
  BY ReconcilerAssumption DEF Nodes, Node, IsNode

LEMMA LedgerType ==
    ASSUME NEW st \in Storages
    PROVE  LedgerOf(st) \in Ledgers /\ st.id \in StorageIds
  BY DEF LedgerOf, Ledgers, StorageIds

LEMMA StateIsNode ==
    ASSUME NEW s \in Nodes \cup {Inventory}, IsNode(s)
    PROVE  s \in Nodes
  BY DEF Inventory, IsNode

LEMMA InitHolds == Init => ReconcilerInv
  <1> SUFFICES ASSUME Init
               PROVE  ReconcilerInv
    OBVIOUS
  <1>1. ctx \in Contexts /\ ctx.modify = None /\ ctx.pending = None /\ ~HasProcess
    BY DEF Init, Contexts, Optional, HasProcess
  <1>2. pass \in Passes /\ pass.step = "idle"
    BY DEF Init, Passes, Idle
  <1> QED
    BY <1>1, <1>2, ReconcilerAssumption DEF Init, ReconcilerInv, TypeOK, OneWorker, Optional, Inventory

\* The requests of the control plane, the channel, and the beginning of a pass.
LEMMA ControlKeeps ==
    ASSUME ReconcilerInv, ControlPlane \/ Receive
    PROVE  ReconcilerInv'
  <1>1. UNCHANGED <<pass, ctx, cache, saved, dirs, ledger, strays, orphans>>
    BY DEF ControlPlane, Apply, Configure, Cleanup, Reboot, Handshake, Update, Receive, machine
  <1>2. /\ queue' \in Seq(SUBSET Options) /\ Len(queue') <= MaxQueue
        /\ opts' \subseteq Options /\ updates' \in 0 .. MaxUpdates
    <2>1. CASE Receive
      <3> DEFINE T == SUBSET Options
      <3>1. /\ queue \in Seq(T) /\ Len(queue) <= MaxQueue /\ queue # <<>> /\ queue' = Tail(queue)
            /\ opts' = opts \cup Head(queue) /\ opts \subseteq Options
            /\ updates' = updates /\ updates \in 0 .. MaxUpdates
        BY <2>1 DEF Receive, ReconcilerInv, TypeOK
      <3>2. Head(queue) \in T /\ queue' \in Seq(T) /\ Len(queue') = Len(queue) - 1 /\ Len(queue) \in Nat
        <4> HIDE DEF T
        <4> QED
          BY <3>1
      <3> QED
        BY <3>1, <3>2, ReconcilerAssumption
    <2>2. CASE \E s, o : Update(s, o) /\ o \subseteq Options
      <3>1. PICK o : o \subseteq Options
                     /\ queue' = IF Len(queue) < MaxQueue THEN Append(queue, o) ELSE queue
        BY <2>2 DEF Update
      <3>2. opts' = opts /\ updates < MaxUpdates /\ updates' = updates + 1
        BY <2>2 DEF Update
      <3>3. queue \in Seq(SUBSET Options) /\ Len(queue) <= MaxQueue /\ updates \in 0 .. MaxUpdates
        BY DEF ReconcilerInv, TypeOK
      <3>4. queue' \in Seq(SUBSET Options) /\ Len(queue') <= MaxQueue
        <4> DEFINE T == SUBSET Options
        <4>1. queue \in Seq(T) /\ o \in T /\ Len(queue) <= MaxQueue /\ MaxQueue \in Nat
          BY <3>1, <3>3, ReconcilerAssumption
        <4>2. Append(queue, o) \in Seq(T) /\ Len(Append(queue, o)) = Len(queue) + 1 /\ Len(queue) \in Nat
          <5> HIDE DEF T
          <5> QED
            BY <4>1
        <4> QED
          BY <3>1, <4>1, <4>2
      <3> QED
        BY <3>2, <3>3, <3>4, ReconcilerAssumption DEF ReconcilerInv, TypeOK
    <2> QED
      <3>1. CASE \E e \in EnvIds, st \in Storages, h \in Heights, c \in Confs : Apply(e, st, h, c)
        <4>1. PICK e \in EnvIds, st \in Storages, h \in Heights, c \in Confs : Apply(e, st, h, c)
          BY <3>1
        <4> DEFINE o == {x \in Options :
                  \/ x = "refetch_info" /\ info[e] \notin {None, st}
                  \/ x = "clear_last_height" /\ info[e] = None /\ ~st.persist}
        <4>2. Update(Node(e, TRUE, h, c), o) /\ o \subseteq Options
          BY <4>1 DEF Apply
        <4> HIDE DEF o
        <4> QED
          BY <4>2, <2>2
      <3>2. CASE \E on \in BOOLEAN, h \in Heights, c \in Confs : Configure(on, h, c)
        <4>1. PICK on \in BOOLEAN, h \in Heights, c \in Confs : Configure(on, h, c)
          BY <3>2
        <4>2. Update(Node(target.env, on, h, c), {}) /\ {} \subseteq Options
          BY <4>1 DEF Configure
        <4> QED
          BY <4>2, <2>2
      <3>3. CASE Cleanup
        BY <3>3, <2>2 DEF Cleanup
      <3>4. CASE Reboot
        BY <3>4, <2>2 DEF Reboot, Options
      <3>5. CASE Handshake
        BY <3>5, <2>2 DEF Handshake, Options
      <3> QED
        BY <2>1, <3>1, <3>2, <3>3, <3>4, <3>5 DEF ControlPlane
  <1>3. info' \in [EnvIds -> Optional(Storages)]
    <2>1. CASE \E e \in EnvIds, st \in Storages : info' = [info EXCEPT ![e] = st]
      BY <2>1 DEF ReconcilerInv, TypeOK, Optional
    <2>2. CASE Cleanup
      BY <2>2 DEF Cleanup, ReconcilerInv, TypeOK, Optional
    <2>3. CASE UNCHANGED info
      BY <2>3 DEF ReconcilerInv, TypeOK
    <2> QED
      BY <2>1, <2>2, <2>3 DEF ControlPlane, Apply, Configure, Reboot, Handshake, Receive
  <1>4. target' \in Nodes \cup {Inventory}
    <2>1. CASE UNCHANGED target \/ target' = Inventory
      BY <2>1 DEF ReconcilerInv, TypeOK
    <2>2. ASSUME NEW e \in EnvIds, NEW on \in BOOLEAN, NEW h \in Heights, NEW c \in Confs,
                 target' = Node(e, on, h, c)
          PROVE  target' \in Nodes
      BY <2>2 DEF Nodes
    <2>3. ASSUME NEW on \in BOOLEAN, NEW h \in Heights, NEW c \in Confs, Configure(on, h, c)
          PROVE  target' \in Nodes
      <3>1. target.env \in EnvIds /\ target' = Node(target.env, on, h, c)
        BY <2>3, NodeShape, StateIsNode DEF Configure, Update, ReconcilerInv, TypeOK
      <3> QED
        BY <3>1, <2>2
    <2>4. ASSUME NEW e \in EnvIds, NEW st \in Storages, NEW h \in Heights, NEW c \in Confs,
                 Apply(e, st, h, c)
          PROVE  target' \in Nodes
      <3>1. target' = Node(e, TRUE, h, c)
        BY <2>4 DEF Apply, Update
      <3> QED
        BY <3>1, <2>2
    <2> QED
      BY <2>1, <2>3, <2>4 DEF ControlPlane, Cleanup, Reboot, Handshake, Update, Receive
  <1> QED
    BY <1>1, <1>2, <1>3, <1>4 DEF ReconcilerInv, TypeOK, OneWorker, HasProcess

LEMMA BeginKeeps ==
    ASSUME ReconcilerInv, Begin
    PROVE  ReconcilerInv'
  <1>1. /\ UNCHANGED <<info, target, updates, machine>> /\ queue' = <<>> /\ opts' = {}
        /\ pass' = [step |-> "begun", state |-> target, storage |-> None]
        /\ cache' \in {None, cache} /\ saved' \in {None, saved}
    BY DEF Begin
  <1>2. \E x \in BOOLEAN, y \in {None, ctx.last} : ctx' = [ctx EXCEPT !.shutdown = x, !.last = y]
    BY DEF Begin, ReconcilerInv, TypeOK, Contexts, HasProcess
  <1>3. ctx' \in Contexts /\ ctx'.pending = ctx.pending /\ ctx'.modify = ctx.modify
        /\ ctx'.process = ctx.process
    BY <1>2 DEF ReconcilerInv, TypeOK, Contexts, Optional
  <1>4. pass' \in Passes /\ pass'.step = "begun"
    BY <1>1 DEF ReconcilerInv, TypeOK, Passes
  <1>5. OneWorker'
    BY <1>3, <1>4 DEF OneWorker, HasProcess, ReconcilerInv
  <1>6. cache' \in Optional(EnvIds \X Storages) /\ saved' \in Optional(Heights)
    BY <1>1 DEF ReconcilerInv, TypeOK, Optional
  <1>7. queue' \in Seq(SUBSET Options) /\ Len(queue') <= MaxQueue /\ opts' \subseteq Options
    BY <1>1, ReconcilerAssumption
  <1> QED
    BY <1>1, <1>3, <1>4, <1>5, <1>6, <1>7 DEF ReconcilerInv, TypeOK, machine

\* What a step of the pass does to the context, when it wipes nothing.
LEMMA ContextTypes ==
    ASSUME TypeOK
    PROVE  /\ ctx = [env_state |-> ctx.env_state, last |-> ctx.last, transfers |-> ctx.transfers,
                     pending |-> ctx.pending, modify |-> ctx.modify, process |-> ctx.process,
                     shutdown |-> ctx.shutdown]
           /\ ctx.env_state \in Optional(Storages) /\ ctx.last \in Optional(Heights \cup {<<0, "top">>})
           /\ ctx.transfers \in BOOLEAN /\ ctx.pending \in Optional(Heights)
           /\ ctx.modify \in Optional(Modifications) /\ ctx.process \in Optional(Processes)
           /\ ctx.shutdown \in BOOLEAN
           /\ HasProcess => ctx.process \in Processes
           /\ Alive => ctx.process.command \in Commands
  BY DEF TypeOK, Contexts, HasProcess, Alive, Optional, Processes

LEMMA AbandonedTypes ==
    ASSUME TypeOK
    PROVE  Abandoned \subseteq Ledgers
  BY DEF Abandoned, TypeOK, Contexts, Optional, Modifications

\* Steps that end the pass without touching the transfers.
LEMMA EndKeeps ==
    ASSUME ReconcilerInv, EndProcess \/ ProcessEnded \/ Offline \/ ProcessExited \/ CheckCommand
                            \/ GiveUp \/ LedgerWait
    PROVE  ReconcilerInv'
  <1>1. /\ UNCHANGED <<info, target, queue, opts, updates, cache, saved, dirs, ledger, strays, orphans>>
        /\ pass' = Idle \/ (pass' = pass /\ pass.step = "info")
    BY DEF EndProcess, ProcessEnded, Offline, ProcessExited, CheckCommand, GiveUp, LedgerWait,
           control, machine, Ends, At
  <1>2. /\ ctx' \in Contexts /\ ctx'.pending = ctx.pending /\ ctx'.modify = ctx.modify
        /\ ctx'.process # None => ctx.process # None
    <2>1. CASE UNCHANGED ctx
      BY <2>1 DEF ReconcilerInv, TypeOK
    <2>2. CASE \E x \in BOOLEAN, p \in {None, ctx.process} : ctx' = [ctx EXCEPT !.shutdown = x, !.process = p]
      BY <2>2, ContextTypes DEF ReconcilerInv, Contexts, Optional
    <2>3. CASE EndProcess
      <3>1. HasProcess /\ ctx.process \in Processes
        BY <2>3, ContextTypes DEF EndProcess, Alive, ReconcilerInv
      <3> DEFINE p == [ctx.process EXCEPT !.signal = TRUE]
      <3>2. p \in Processes
        BY <3>1 DEF Processes
      <3>3. \E x \in BOOLEAN : ctx' = [ctx EXCEPT !.process = p, !.shutdown = x]
        <4>1. CASE ctx' = [ctx EXCEPT !.process.signal = TRUE]
          BY <4>1, ContextTypes DEF ReconcilerInv
        <4>2. CASE ctx' = [ctx EXCEPT !.process.signal = TRUE, !.shutdown = TRUE]
          BY <4>2, ContextTypes DEF ReconcilerInv
        <4> QED
          BY <2>3, <4>1, <4>2 DEF EndProcess
      <3> HIDE DEF p
      <3> QED
        BY <3>1, <3>2, <3>3, ContextTypes DEF ReconcilerInv, Contexts, Optional, HasProcess
    <2>4. CASE ProcessEnded
      BY <2>4, <2>2 DEF ProcessEnded
    <2>5. CASE ProcessExited
      BY <2>5, ContextTypes DEF ProcessExited, Contexts, Optional, ReconcilerInv
    <2>6. CASE CheckCommand
      BY <2>6, ContextTypes DEF CheckCommand, Contexts, Optional, ReconcilerInv
    <2> QED
      BY <2>1, <2>3, <2>4, <2>5, <2>6 DEF Offline, GiveUp, LedgerWait
  <1>3. pass' \in Passes /\ pass'.step \in {"idle", "info"}
    BY <1>1 DEF ReconcilerInv, TypeOK, Passes, Idle
  <1>4. OneWorker'
    BY <1>2, <1>3 DEF OneWorker, HasProcess, ReconcilerInv
  <1>5. ctx'.pending = None <=> ctx'.modify = None
    BY <1>2 DEF ReconcilerInv, TypeOK
  <1> QED
    BY <1>1, <1>2, <1>3, <1>4, <1>5 DEF ReconcilerInv, TypeOK

LEMMA InventoryKeeps ==
    ASSUME ReconcilerInv, ReconcileInventory
    PROVE  ReconcilerInv'
  <1>1. /\ UNCHANGED <<info, target, queue, opts, updates, cache, dirs, ledger, orphans>>
        /\ pass' = Idle /\ saved' \in {None, saved} /\ strays' \in {strays, strays \cup Abandoned}
    BY DEF ReconcileInventory, control, Ends
  <1>2. /\ ctx' \in Contexts /\ (ctx'.pending = None <=> ctx'.modify = None)
        /\ ctx'.process = None
    <2> DEFINE gone == [ctx EXCEPT !.process = None, !.shutdown = @ /\ ~HasProcess]
    <2>1. /\ gone \in Contexts /\ gone.pending = ctx.pending /\ gone.modify = ctx.modify
          /\ gone.process = None
      BY ContextTypes DEF ReconcilerInv, Contexts, Optional
    <2> HIDE DEF gone
    <2>2. CASE ctx' = gone
      BY <2>1, <2>2 DEF ReconcilerInv, TypeOK
    <2>3. CASE ctx' = [NoTransfers(gone) EXCEPT !.transfers = FALSE, !.env_state = None, !.last = None]
      BY <2>1, <2>3 DEF NoTransfers, Contexts, Optional
    <2> QED
      BY <2>2, <2>3 DEF ReconcileInventory, gone
  <1>3. pass' \in Passes /\ pass'.step = "idle"
    BY <1>1 DEF Passes, Idle
  <1>4. OneWorker'
    BY <1>2, <1>3 DEF OneWorker, HasProcess
  <1>5. saved' \in Optional(Heights) /\ strays' \subseteq Ledgers
    BY <1>1, AbandonedTypes DEF ReconcilerInv, TypeOK, Optional
  <1> QED
    BY <1>1, <1>2, <1>3, <1>4, <1>5 DEF ReconcilerInv, TypeOK

LEMMA InfoKeeps ==
    ASSUME ReconcilerInv, GetEnvInfo
    PROVE  ReconcilerInv'
  <1>1. PICK st : /\ st # None /\ pass' = [pass EXCEPT !.step = "info", !.storage = st]
                  /\ cache' = <<pass.state.env, st>>
                  /\ (st = cache[2] /\ cache # None) \/ st = info[pass.state.env]
    BY DEF GetEnvInfo
  <1>2. /\ UNCHANGED <<info, target, queue, opts, updates, ctx, saved, dirs, ledger, strays, orphans>>
        /\ pass.step = "begun" /\ IsNode(pass.state)
    BY DEF GetEnvInfo, control, machine, At
  <1>3. pass \in [step : {"begun"}, state : Nodes \cup {Inventory}, storage : {None}]
    BY <1>2, Shapes DEF ReconcilerInv
  <1>4. pass.state \in Nodes /\ pass.state.env \in EnvIds
    BY <1>2, <1>3, StateIsNode, NodeShape
  <1>5. st \in Storages
    BY <1>1, <1>4 DEF ReconcilerInv, TypeOK, Optional
  <1>6. pass' \in Passes /\ pass'.step = "info"
    BY <1>1, <1>3, <1>4, <1>5 DEF Passes
  <1>7. cache' \in Optional(EnvIds \X Storages)
    BY <1>1, <1>4, <1>5 DEF Optional
  <1>8. OneWorker'
    BY <1>2, <1>6 DEF OneWorker, HasProcess, ReconcilerInv
  <1> QED
    BY <1>2, <1>6, <1>7, <1>8 DEF ReconcilerInv, TypeOK

\* A step of the pass goes on with what the pass has captured.
LEMMA GoesOn ==
    ASSUME TypeOK, pass.step \in {"info", "files"}, NEW step \in {"files", "start"}, Goes(step)
    PROVE  pass' \in Passes /\ pass'.step = step
  BY Shapes DEF Goes, Passes

LEMMA StorageKeeps ==
    ASSUME ReconcilerInv, PrepareStorage
    PROVE  ReconcilerInv'
  <1>1. /\ UNCHANGED <<info, target, queue, opts, updates, cache, saved, orphans>>
        /\ pass.step = "info" /\ ~HasProcess /\ Goes("files")
        /\ strays' \in {strays, strays \cup Abandoned}
    BY DEF PrepareStorage, Online, At, control
  <1> DEFINE st == pass.storage
  <1>2. st \in Storages
    BY <1>1, Shapes DEF ReconcilerInv
  <1>3. /\ dirs' = [dirs EXCEPT ![st.id] = st.version]
        /\ ledger' = ledger \/ ledger' = [ledger EXCEPT ![st.id] = None]
    BY DEF PrepareStorage
  <1>4. /\ ctx' \in Contexts /\ (ctx'.pending = None <=> ctx'.modify = None)
        /\ ctx'.process = None
    <2> DEFINE new(c) == [c EXCEPT !.transfers = TRUE, !.env_state = st]
    <2>1. ctx' \in {ctx, new(ctx), new(NoTransfers(ctx))}
      BY DEF PrepareStorage
    <2>2. /\ NoTransfers(ctx) \in Contexts /\ NoTransfers(ctx).process = ctx.process
          /\ NoTransfers(ctx).pending = None /\ NoTransfers(ctx).modify = None
      BY ContextTypes DEF NoTransfers, Contexts, Optional, ReconcilerInv
    <2>3. ASSUME NEW c \in Contexts
          PROVE  /\ new(c) \in Contexts /\ new(c).process = c.process
                 /\ new(c).pending = c.pending /\ new(c).modify = c.modify
      BY <1>2 DEF Contexts, Optional
    <2> HIDE DEF new
    <2>4. ctx \in Contexts /\ (ctx.pending = None <=> ctx.modify = None)
      BY DEF ReconcilerInv, TypeOK
    <2> QED
      BY <1>1, <2>1, <2>2, <2>3, <2>4 DEF HasProcess
  <1>5. pass' \in Passes /\ pass'.step = "files"
    BY <1>1, GoesOn DEF ReconcilerInv
  <1>6. OneWorker'
    BY <1>4, <1>5 DEF OneWorker, HasProcess
  <1>7. strays' \subseteq Ledgers
    BY <1>1, AbandonedTypes DEF ReconcilerInv, TypeOK
  <1>8. /\ dirs' \in [StorageIds -> Optional({s.version : s \in Storages})]
        /\ ledger' \in [Ledgers -> Optional(EnvIds)]
    BY <1>2, <1>3 DEF ReconcilerInv, TypeOK, Optional
  <1> QED
    BY <1>1, <1>4, <1>5, <1>6, <1>7, <1>8 DEF ReconcilerInv, TypeOK

LEMMA LedgerKeeps ==
    ASSUME ReconcilerInv, LedgerStep
    PROVE  ReconcilerInv'
  <1>1. /\ UNCHANGED <<info, target, queue, opts, updates, cache, dirs, strays, orphans>>
        /\ pass.step = "files" /\ ledger' \in {ledger, [ledger EXCEPT ![Ledger] = None]}
    BY DEF LedgerStep, LedgerFresh, LedgerReady, LedgerReset, LedgerModify, LedgerModified,
           LedgerIdle, LedgerPending, At, control, machine
  <1>2. /\ pass \in [step : {"info", "files", "start"}, state : Nodes, storage : Storages]
        /\ Height \in Heights /\ Height # None /\ Ledger \in Ledgers /\ ~HasProcess
    BY <1>1, Shapes, NodeShape, LedgerType, ReconcilerAssumption
       DEF ReconcilerInv, OneWorker, Height, Ledger
  <1>3. ledger' \in [Ledgers -> Optional(EnvIds)]
    BY <1>1, <1>2 DEF ReconcilerInv, TypeOK, Optional
  <1>4. ctx \in Contexts /\ (ctx.pending = None <=> ctx.modify = None) /\ ctx.process = None
    BY <1>2 DEF ReconcilerInv, TypeOK, HasProcess
  <1> DEFINE good == /\ ctx' \in Contexts /\ (ctx'.pending = None <=> ctx'.modify = None)
                     /\ ctx'.process = None /\ saved' \in Optional(Heights)
                     /\ pass' = pass \/ pass' = Idle \/ (Goes("start") /\ ctx'.modify = None)
  <1>5. ASSUME LedgerFresh PROVE good
    <2>1. ctx' = [ctx EXCEPT !.last = <<0, "top">>] /\ saved' = saved /\ pass' = pass
      BY <1>5 DEF LedgerFresh
    <2> QED
      BY <1>4, <2>1 DEF Contexts, Optional, ReconcilerInv, TypeOK
  <1>6. ASSUME Realized(Height)
        PROVE  /\ ctx' \in Contexts /\ ctx'.pending = ctx.pending /\ ctx'.modify = ctx.modify
               /\ ctx'.process = None /\ saved' \in Optional(Heights)
    BY <1>2, <1>4, <1>6 DEF Realized, Contexts, Optional
  <1>7. ASSUME LedgerReady PROVE good
    <2>1. ctx.modify = None /\ Goes("start")
      BY <1>4, <1>7 DEF LedgerReady, LedgerIdle
    <2> QED
      BY <1>4, <1>6, <1>7, <2>1 DEF LedgerReady, ReconcilerInv, TypeOK
  <1>8. ASSUME LedgerReset PROVE good
    BY <1>4, <1>6, <1>8 DEF LedgerReset, Ends
  <1>9. ASSUME LedgerModify PROVE good
    <2> DEFINE m == [ledger |-> Ledger, result |-> "running"]
    <2>1. m \in Modifications /\ m # None
      BY <1>2, NoneAssumption DEF Modifications
    <2>2. ctx' = [ctx EXCEPT !.pending = Height, !.modify = m] /\ saved' = saved /\ pass' = Idle
      BY <1>9 DEF LedgerModify, Ends
    <2> HIDE DEF m
    <2> QED
      BY <1>2, <1>4, <2>1, <2>2 DEF Contexts, Optional, ReconcilerInv, TypeOK
  <1>10. ASSUME LedgerModified PROVE good
    <2>1. /\ NoTransfers(ctx) \in Contexts /\ NoTransfers(ctx).process = ctx.process
          /\ NoTransfers(ctx).pending = None /\ NoTransfers(ctx).modify = None
      BY <1>4 DEF NoTransfers, Contexts, Optional
    <2>2. ctx.pending \in Heights /\ Goes("start")
      BY <1>4, <1>10 DEF LedgerModified, LedgerPending, Contexts, Optional
    <2>3. CASE ctx' = NoTransfers(ctx) /\ saved' = saved
      BY <1>4, <2>1, <2>2, <2>3 DEF ReconcilerInv, TypeOK
    <2>4. CASE ctx' = [NoTransfers(ctx) EXCEPT !.last = ctx.pending] /\ saved' = ctx.pending
      BY <1>4, <2>1, <2>2, <2>4 DEF Contexts, Optional
    <2> QED
      BY <1>10, <2>3, <2>4 DEF LedgerModified
  <1>11. good
    BY <1>5, <1>7, <1>8, <1>9, <1>10 DEF LedgerStep
  <1> HIDE DEF good
  <1>12. /\ pass' \in Passes /\ pass'.step \in {"idle", "files", "start"}
         /\ pass'.step = "start" => ctx'.modify = None
    BY <1>1, <1>11, GoesOn DEF good, ReconcilerInv, TypeOK, Passes, Idle
  <1>13. OneWorker'
    BY <1>11, <1>12 DEF good, OneWorker, HasProcess
  <1> QED
    BY <1>1, <1>3, <1>11, <1>12, <1>13 DEF good, ReconcilerInv, TypeOK

LEMMA StartKeeps ==
    ASSUME ReconcilerInv, StartNode
    PROVE  ReconcilerInv'
  <1> DEFINE p == [command |-> Command(pass.state, pass.storage), alive |-> TRUE, signal |-> FALSE]
  <1>1. /\ UNCHANGED <<info, target, queue, opts, updates, cache, saved, dirs, ledger, strays, orphans>>
        /\ pass.step = "start" /\ pass' = Idle /\ ctx' = [ctx EXCEPT !.shutdown = FALSE, !.process = p]
    BY DEF StartNode, At, Ends, control, machine
  <1>2. pass.state \in Nodes /\ pass.storage \in Storages
    BY <1>1, Shapes DEF ReconcilerInv
  <1>3. p \in Processes
    BY <1>2 DEF Processes, Commands
  <1>4. ctx.modify = None
    BY <1>1 DEF ReconcilerInv, OneWorker
  <1> HIDE DEF p
  <1>5. ctx' \in Contexts /\ ctx'.pending = ctx.pending /\ ctx'.modify = None
    BY <1>1, <1>3, <1>4 DEF ReconcilerInv, TypeOK, Contexts, Optional
  <1>6. pass' \in Passes /\ pass'.step = "idle"
    BY <1>1 DEF Passes, Idle
  <1>7. OneWorker'
    BY <1>5, <1>6 DEF OneWorker
  <1> QED
    BY <1>1, <1>4, <1>5, <1>6, <1>7 DEF ReconcilerInv, TypeOK

\* What happens beside the pass.
LEMMA OutsideKeeps ==
    ASSUME ReconcilerInv,
           (\E r \in Results : ModifyEnds(r)) \/ StrayEnds \/ NodeExits \/ NodeWrites
    PROVE  ReconcilerInv'
  <1>1. /\ UNCHANGED <<info, target, queue, opts, pass, cache, saved, dirs, orphans>>
        /\ updates' \in {updates, updates + 1} /\ (updates' # updates => updates < MaxUpdates)
        /\ strays' \subseteq strays
    BY DEF ModifyEnds, StrayEnds, NodeExits, NodeWrites, control, machine
  <1>2. ledger' \in [Ledgers -> Optional(EnvIds)]
    <2>1. CASE UNCHANGED ledger
      BY <2>1 DEF ReconcilerInv, TypeOK
    <2>2. CASE NodeWrites
      <3> DEFINE c == ctx.process.command
      <3>1. c \in Commands
        BY <2>2, ContextTypes DEF NodeWrites, ReconcilerInv
      <3>2. c.env \in EnvIds
        BY <3>1, NodeShape DEF Commands, Command
      <3>3. \E l : ledger' = [ledger EXCEPT ![l] = c.env]
        BY <2>2 DEF NodeWrites
      <3> QED
        BY <3>2, <3>3 DEF ReconcilerInv, TypeOK, Optional
    <2> QED
      BY <2>1, <2>2 DEF ModifyEnds, StrayEnds, NodeExits, machine
  <1>3. /\ ctx' \in Contexts /\ (ctx'.pending = None <=> ctx'.modify = None)
        /\ (ctx'.process = None <=> ctx.process = None) /\ (ctx'.modify = None <=> ctx.modify = None)
    <2>1. CASE UNCHANGED ctx
      BY <2>1 DEF ReconcilerInv, TypeOK
    <2>2. ASSUME NEW r \in Results, ModifyEnds(r)
          PROVE  /\ ctx' \in Contexts /\ ctx'.pending = ctx.pending /\ ctx'.process = ctx.process
                 /\ ctx.modify # None /\ ctx'.modify # None
      <3>1. ctx.modify \in Modifications
        BY <2>2, ContextTypes DEF ModifyEnds, ReconcilerInv, Optional
      <3> DEFINE m == [ctx.modify EXCEPT !.result = r]
      <3>2. m \in Modifications
        BY <3>1 DEF Modifications
      <3>3. ctx' = [ctx EXCEPT !.modify = m]
        BY <2>2, ContextTypes DEF ModifyEnds, ReconcilerInv
      <3> HIDE DEF m
      <3> QED
        BY <3>1, <3>2, <3>3, NoneAssumption DEF ReconcilerInv, TypeOK, Contexts, Optional
    <2>3. CASE NodeExits
      <3>1. ctx.process \in Processes /\ HasProcess
        BY <2>3, ContextTypes DEF NodeExits, Alive, ReconcilerInv
      <3> DEFINE p == [ctx.process EXCEPT !.alive = FALSE]
      <3>2. p \in Processes
        BY <3>1 DEF Processes
      <3>3. ctx' = [ctx EXCEPT !.process = p]
        BY <2>3, ContextTypes DEF NodeExits, ReconcilerInv
      <3> HIDE DEF p
      <3> QED
        BY <3>1, <3>2, <3>3, NoneAssumption DEF ReconcilerInv, TypeOK, Contexts, Optional, HasProcess
    <2> QED
      BY <2>1, <2>2, <2>3 DEF StrayEnds, NodeWrites, ReconcilerInv, TypeOK
  <1>4. OneWorker'
    BY <1>1, <1>3 DEF OneWorker, HasProcess, ReconcilerInv
  <1>5. updates' \in 0 .. MaxUpdates
    BY <1>1, ReconcilerAssumption DEF ReconcilerInv, TypeOK
  <1> QED
    BY <1>1, <1>2, <1>3, <1>4, <1>5 DEF ReconcilerInv, TypeOK

LEMMA RestartKeeps ==
    ASSUME ReconcilerInv, NEW kill \in BOOLEAN, Restart(kill)
    PROVE  ReconcilerInv'
  <1>1. /\ UNCHANGED <<info, target, cache, saved, dirs, ledger>>
        /\ updates < MaxUpdates /\ updates' = updates + 1
        /\ queue' = <<>> /\ opts' = {} /\ pass' = Idle
        /\ strays' = strays \cup Abandoned
        /\ orphans' = orphans \/ (Alive /\ orphans' = orphans \cup {ctx.process.command})
    BY DEF Restart
  <1>2. /\ NoTransfers(ctx) \in Contexts
        /\ NoTransfers(ctx).pending = None /\ NoTransfers(ctx).modify = None
    BY ContextTypes DEF NoTransfers, Contexts, Optional, ReconcilerInv
  <1>3. ctx' = [NoTransfers(ctx) EXCEPT !.transfers = FALSE, !.process = None,
                                        !.shutdown = FALSE, !.last = saved]
    BY DEF Restart
  <1>4. ctx' \in Contexts /\ ctx'.pending = None /\ ctx'.modify = None /\ ctx'.process = None
    BY <1>2, <1>3 DEF Contexts, Optional, ReconcilerInv, TypeOK
  <1>5. pass' \in Passes /\ pass'.step = "idle"
    BY <1>1 DEF Passes, Idle
  <1>6. OneWorker'
    BY <1>4, <1>5 DEF OneWorker, HasProcess
  <1>7. strays' \subseteq Ledgers /\ orphans' \subseteq Commands
    BY <1>1, AbandonedTypes, ContextTypes DEF ReconcilerInv, TypeOK
  <1>8. queue' \in Seq(SUBSET Options) /\ Len(queue') <= MaxQueue /\ updates' \in 0 .. MaxUpdates
    BY <1>1, ReconcilerAssumption DEF ReconcilerInv, TypeOK
  <1> QED
    BY <1>1, <1>4, <1>5, <1>6, <1>7, <1>8 DEF ReconcilerInv, TypeOK

LEMMA StepKeeps ==
    ASSUME ReconcilerInv, [Next]_vars
    PROVE  ReconcilerInv'
  <1>1. CASE Pass
    BY <1>1, BeginKeeps, InventoryKeeps, EndKeeps, InfoKeeps, StorageKeeps, LedgerKeeps, StartKeeps
       DEF Pass, InfoStep
  <1>2. CASE UNCHANGED vars
    BY <1>2 DEF vars, ReconcilerInv, TypeOK, OneWorker, HasProcess
  <1> QED
    BY <1>1, <1>2, ControlKeeps, OutsideKeeps, RestartKeeps DEF Next

LEMMA InvHolds == Spec => []ReconcilerInv
  BY InitHolds, StepKeeps, PTL DEF Spec

-----------------------------------------------------------------------------

(* No checkpoint the reconciler knows of is applied to the ledger of a     *)
(* running node (the modifier is waited for, and a node is ended first);   *)
(* with the types.                                                         *)
THEOREM ReconcilerIsSound == Spec => []ReconcilerSound
  <1>1. ReconcilerInv => ReconcilerSound
    BY DEF ReconcilerInv, OneWorker, ReconcilerSound, NodeOwnsLedger, Alive, Abandoned
  <1> QED
    BY <1>1, InvHolds, PTL

LEMMA StepWipesNothing ==
    ASSUME ReconcilerInv, [Next]_vars
    PROVE  KeepsFilesOfNode
  <1> SUFFICES ASSUME Alive
               PROVE  /\ UNCHANGED dirs
                      /\ \A l \in Ledgers : ledger[l] # None => ledger'[l] # None
    BY ContextTypes, LedgerType DEF KeepsFilesOfNode, Commands, Command, ReconcilerInv
  <1>1. HasProcess
    BY DEF Alive
  <1>2. CASE NodeWrites
    <2> DEFINE l == LedgerOf(ctx.process.command.storage)
    <2>1. dirs' = dirs /\ ledger[l] = None /\ ledger' = [ledger EXCEPT ![l] = ctx.process.command.env]
      BY <1>2 DEF NodeWrites
    <2> QED
      BY <2>1 DEF ReconcilerInv, TypeOK
  <1>3. ~PrepareStorage /\ ~LedgerFresh /\ ~LedgerReset
    BY <1>1 DEF ReconcilerInv, OneWorker, PrepareStorage, LedgerFresh, LedgerReset, LedgerIdle, At
  <1>4. CASE ControlPlane \/ Receive \/ (\E r \in Results : ModifyEnds(r)) \/ StrayEnds \/ NodeExits
                \/ \E kill \in BOOLEAN : Restart(kill)
    BY <1>4 DEF ControlPlane, Apply, Configure, Cleanup, Reboot, Handshake, Update, Receive,
                ModifyEnds, StrayEnds, NodeExits, Restart, machine
  <1>5. CASE Pass
    BY <1>3, <1>5 DEF Pass, Begin, ReconcileInventory, EndProcess, Offline, GetEnvInfo, InfoStep,
        ProcessEnded, ProcessExited, CheckCommand, LedgerStep, LedgerReady, LedgerModify,
        LedgerModified, LedgerWait, StartNode, GiveUp, machine
  <1>6. CASE UNCHANGED vars
    BY <1>6 DEF vars
  <1> QED
    BY <1>2, <1>4, <1>5, <1>6 DEF Next

(* Neither the storage directory nor the ledger of a running node is       *)
(* deleted, by whatever step: what wipes them looks for a process first.   *)
THEOREM NodeKeepsFiles == Spec => NothingWipedUnderNode
  BY InvHolds, StepWipesNothing, PTL DEF Spec, NothingWipedUnderNode
=============================================================================
