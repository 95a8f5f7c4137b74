----------------------------- MODULE AgentSync ------------------------------
(***************************************************************************)
(* The link of one agent and the control plane: sockets and identities     *)
(* (controlplane/src/server/agent_ws.rs, agent/src/client.rs), the         *)
(* handshake and the pushes that carry the agent's state                   *)
(* (controlplane/src/state/reconcile.rs, agent/src/rpc/control.rs,         *)
(* agent/src/state.rs), and the requests that change it.                   *)
(*                                                                         *)
(* Every call runs in tasks of its own on both sides, so that calls of one *)
(* connection overtake each other; a call's handler is cut off when the    *)
(* agent's side of its connection ends.                                    *)
(*                                                                         *)
(* A state is <<config, edit>>: the request that made the node's config    *)
(* and the last one that changed its peers.  The agent's row is written    *)
(* with its entry of the pool and equals it apart from the connection (the *)
(* row of a new agent just before; saving it and inserting the entry are   *)
(* one step here).  A nonce is the number of the connection it was made    *)
(* for: random ones that agree by chance are left out.                     *)
(***************************************************************************)
EXTENDS Naturals

CONSTANTS
    MaxConns,   \* bound on connections; the last one does not break
    MaxOps,     \* bound on requests
    Overtakes,  \* whether a state is written while a call carries the one before
    Timeouts,   \* whether a call may run into its deadline
    SlowAccept  \* whether the agent may connect again before it was accepted

ASSUME SyncAssumption ==
    /\ MaxConns \in Nat \ {0} /\ MaxOps \in Nat
    /\ Overtakes \in BOOLEAN /\ Timeouts \in BOOLEAN /\ SlowAccept \in BOOLEAN

VARIABLES
    pool,   \* the agent's entry: state, nonce, and the connection of its client
    env,    \* whether the environment of its nodes exists
    socket, \* of each connection, what handle_socket is doing and the token sent
    op,     \* of each request, its stage and the state it is to write
    calls,  \* the handshakes and pushes under way
    agent   \* the agent: state, its copy in the database, token, connection

vars == <<pool, env, socket, op, calls, agent>>

Conns == 1 .. MaxConns
Ops == 1 .. MaxOps
Inventory == <<0, 0>>
States == {Inventory} \cup {s \in Ops \X Ops : s[1] <= s[2]}
Deciding == {"hello", "new", "checked"}

\* No connection (of the agent, of the pool's client), no entry, no token.
None == 0

Calls == [conn : Conns, by : 0 .. MaxOps, state : States, token : 0 .. MaxConns,
          step : {"sent", "greeted", "saved"}]

Known == pool.nonce # None
Online == pool.client # None
Enter(c, stage) == socket' = [socket EXCEPT ![c].stage = stage]
Become(i, stage) == op' = [op EXCEPT ![i].stage = stage]

(***************************************************************************)
(* handle_socket, in the control plane.                                    *)
(***************************************************************************)

\* The handshake is sent by a task of its own; 0 stands for no request.
Handshake(c, state, token) ==
    calls' = calls \cup {[conn |-> c, by |-> 0, state |-> state, token |-> token, step |-> "sent"]}

\* Mutant: only the id is looked at.
RecognizedById(c) == Known /\ ~Online /\ socket[c].token # None

\* Mutant: the entry may be connected.
RecognizedTwice(c) == Known /\ socket[c].token = pool.nonce

Recognized(c) == Known /\ ~Online /\ socket[c].token = pool.nonce

\* Mutant: the handshake keeps the default state.
ReconnectDefault(c) ==
    /\ socket[c].stage = "hello"
    /\ Recognized(c)
    /\ pool' = [pool EXCEPT !.state = IF env THEN @ ELSE Inventory, !.client = c]
    /\ Handshake(c, Inventory, None)
    /\ Enter(c, "serving")
    /\ UNCHANGED <<env, op, agent>>

\* The agent is known by its token: its client is replaced, and its state
\* goes back to it unless the environment is gone.
Reconnect(c) ==
    /\ socket[c].stage = "hello"
    /\ Recognized(c)
    /\ LET state == IF env THEN pool.state ELSE Inventory
       IN /\ pool' = [pool EXCEPT !.state = state, !.client = c]
          /\ Handshake(c, state, None)
    /\ Enter(c, "serving")
    /\ UNCHANGED <<env, op, agent>>

NotRecognized(c) ==
    /\ socket[c].stage = "hello"
    /\ ~Recognized(c)
    /\ Enter(c, "new")
    /\ UNCHANGED <<pool, env, op, calls, agent>>

CheckOffline(c) ==
    /\ socket[c].stage = "new"
    /\ ~Online
    /\ Enter(c, "checked")
    /\ UNCHANGED <<pool, env, op, calls, agent>>

\* The id is connected: close the socket.  The connection's number is free
\* again when both sides have let it go.
Refuse(c) ==
    /\ socket[c].stage = "new"
    /\ Online
    /\ Enter(c, IF agent.conn = c THEN "refused" ELSE "none")
    /\ UNCHANGED <<pool, env, op, calls, agent>>

\* A new agent, in inventory and with a new nonce, takes the id's place.
Insert(c) ==
    /\ socket[c].stage = "checked"
    /\ pool' = [state |-> Inventory, nonce |-> c, client |-> c]
    /\ Handshake(c, Inventory, c)
    /\ Enter(c, "serving")
    /\ UNCHANGED <<env, op, agent>>

\* Mutant: the entry keeps its client.
NoticeQuietly(c) ==
    /\ socket[c].stage = "serving"
    /\ agent.conn # c \/ c < MaxConns
    /\ Enter(c, "done")
    /\ UNCHANGED <<pool, env, op, calls, agent>>

\* The loop ends, as the agent has gone or the socket failed; whichever agent
\* the id stands for is marked disconnected.
Notice(c) ==
    /\ socket[c].stage = "serving"
    /\ agent.conn # c \/ c < MaxConns
    /\ pool' = [pool EXCEPT !.client = None]
    /\ Enter(c, "done")
    /\ UNCHANGED <<env, op, calls, agent>>

Accept(c) == Reconnect(c) \/ NotRecognized(c) \/ CheckOffline(c) \/ Refuse(c) \/ Insert(c)

(***************************************************************************)
(* Requests that change the agent's state, and what they push to it.       *)
(***************************************************************************)

Begin(i, stage, state) ==
    /\ op[i].stage = "idle"
    /\ \A j \in Ops : j < i => op[j].stage # "idle"
    /\ Known
    /\ op' = [op EXCEPT ![i] = [stage |-> stage, state |-> state]]
    /\ UNCHANGED <<pool, socket, calls, agent>>

\* An apply inserts the environment, then gives the agent a node of it.
Apply(i) == Begin(i, "write", <<i, i>>) /\ env' = TRUE

\* A cleanup removes the environment, then frees the agent.
Cleanup(i) == env /\ Begin(i, "write", Inventory) /\ env' = FALSE

HasNode == env /\ pool.state # Inventory

\* update_peer_addr copies the state, changes its peers and awaits the calls
\* that clear addresses before it writes the copy.
CopyState(i) == HasNode /\ Begin(i, "write", <<pool.state[1], i>>) /\ UNCHANGED env

\* A reconcile that changes no state (a reboot, a new address).
Poke(i) == Begin(i, "queue", Inventory) /\ UNCHANGED env

\* update_agent_states
SetState(i) ==
    /\ op[i].stage = "write"
    /\ Overtakes \/ calls = {}
    /\ pool' = [pool EXCEPT !.state = op[i].state]
    /\ Become(i, "queue")
    /\ UNCHANGED <<env, socket, calls, agent>>

\* Mutant: the state the request has written is pushed.
QueueOwn(i) ==
    /\ op[i].stage = "queue"
    /\ calls' = IF Online
                THEN calls \cup {[conn |-> pool.client, by |-> i, state |-> op[i].state,
                                  token |-> None, step |-> "sent"]}
                ELSE calls
    /\ Become(i, "done")
    /\ UNCHANGED <<pool, env, socket, agent>>

\* queue_many_reconciles: what is pushed is the state the entry has by now,
\* through the client it has by now.
Queue(i) ==
    /\ op[i].stage = "queue"
    /\ calls' = IF Online
                THEN calls \cup {[conn |-> pool.client, by |-> i, state |-> pool.state,
                                  token |-> None, step |-> "sent"]}
                ELSE calls
    /\ Become(i, "done")
    /\ UNCHANGED <<pool, env, socket, agent>>

(***************************************************************************)
(* The agent.                                                              *)
(***************************************************************************)

\* One connection after the other, with the token the database has.
Connect ==
    /\ agent.conn = None
    /\ SlowAccept \/ \A c \in Conns : socket[c].stage \notin Deciding
    /\ \E c \in Conns :
        /\ \A d \in 1 .. c : socket[d].stage = "none" <=> d = c
        /\ socket' = [socket EXCEPT ![c] = [stage |-> "hello", token |-> agent.jwt]]
        /\ agent' = [agent EXCEPT !.conn = c]
    /\ UNCHANGED <<pool, env, op, calls>>

\* The agent's side of its connection ends, and with it every handler.
Close ==
    /\ socket' = [socket EXCEPT ![agent.conn].stage = IF @ = "refused" THEN "none" ELSE @]
    /\ calls' = {k \in calls : k.conn # agent.conn}
    /\ UNCHANGED <<pool, env, op>>

Closed(c) == socket[c].stage \in {"refused", "done"}

Disconnect ==
    /\ agent.conn # None
    /\ Closed(agent.conn) \/ agent.conn < MaxConns
    /\ Close
    /\ agent' = [agent EXCEPT !.conn = None]

\* The agent's process starts again from its database.
AgentRestart ==
    /\ agent.conn < MaxConns
    /\ agent' = [agent EXCEPT !.conn = None, !.state = agent.saved]
    /\ IF agent.conn = None THEN UNCHANGED <<pool, env, socket, op, calls>> ELSE Close

Advance(k, step) == calls' = (calls \ {k}) \cup {[k EXCEPT !.step = step]}

\* The handshake's handler saves the token, then awaits calls of its own.
Greet(k) ==
    /\ k.by = 0 /\ k.step = "sent"
    /\ agent' = [agent EXCEPT !.jwt = IF k.token = None THEN @ ELSE k.token]
    /\ Advance(k, "greeted")
    /\ UNCHANGED <<pool, env, socket, op>>

\* update_agent_state: first the database, then the memory.
Save(k) ==
    /\ k.step = IF k.by = 0 THEN "greeted" ELSE "sent"
    /\ agent' = [agent EXCEPT !.saved = k.state]
    /\ Advance(k, "saved")
    /\ UNCHANGED <<pool, env, socket, op>>

Store(k) ==
    /\ k.step = "saved"
    /\ agent' = [agent EXCEPT !.state = k.state]
    /\ calls' = calls \ {k}
    /\ UNCHANGED <<pool, env, socket, op>>

\* The handler of a call, while the agent's connection is the call's.
Handle(k) == k.conn = agent.conn /\ (Greet(k) \/ Save(k) \/ Store(k))

\* A call is lost with the control plane's side of its connection, or cut
\* off by its deadline.
Lose(k) ==
    /\ Timeouts \/ (k.step = "sent" /\ socket[k.conn].stage # "serving")
    /\ calls' = calls \ {k}
    /\ UNCHANGED <<pool, env, socket, op, agent>>

\* The control plane starts again from its rows: sockets, clients and requests
\* are gone, and an agent whose environment is missing is set to inventory.
ControlRestart ==
    /\ socket[MaxConns].stage = "none"
    /\ socket' = [c \in Conns |-> IF socket[c].stage = "none" THEN socket[c]
                                  ELSE [socket[c] EXCEPT !.stage = "done"]]
    /\ pool' = [pool EXCEPT !.client = None, !.state = IF env THEN @ ELSE Inventory]
    /\ op' = [i \in Ops |-> IF op[i].stage = "idle" THEN op[i] ELSE [op[i] EXCEPT !.stage = "done"]]
    /\ UNCHANGED <<env, calls, agent>>

Init ==
    /\ pool = [state |-> Inventory, nonce |-> None, client |-> None]
    /\ env = FALSE
    /\ socket = [c \in Conns |-> [stage |-> "none", token |-> None]]
    /\ op = [i \in Ops |-> [stage |-> "idle", state |-> Inventory]]
    /\ calls = {}
    /\ agent = [state |-> Inventory, saved |-> Inventory, jwt |-> None, conn |-> None]

Next ==
    \/ \E c \in Conns : Accept(c) \/ Notice(c)
    \/ \E i \in Ops : Apply(i) \/ Cleanup(i) \/ CopyState(i) \/ Poke(i) \/ SetState(i) \/ Queue(i)
    \/ Connect \/ Disconnect \/ AgentRestart \/ ControlRestart
    \/ \E k \in calls : Handle(k) \/ Lose(k)

Spec == Init /\ [][Next]_vars

\* Every task goes on: sockets are accepted, a side that has ended is noticed
\* by the other, the agent connects again, requests that have begun and calls
\* that were received are carried out.  Nothing has to break or restart, and no
\* request has to be made.
Fairness ==
    /\ \A c \in Conns : /\ WF_vars(Accept(c))
                        /\ WF_vars(agent.conn # c /\ Notice(c))
                        /\ WF_vars(agent.conn = c /\ Closed(c) /\ Disconnect)
    /\ WF_vars(Connect)
    /\ \A i \in Ops : WF_vars(SetState(i) \/ Queue(i))
    /\ \A c \in Conns, i \in 0 .. MaxOps :
        WF_vars(\E k \in calls : k.conn = c /\ k.by = i /\ (Handle(k) \/ Lose(k)))

FairSpec == Spec /\ Fairness

(***************************************************************************)
(* Properties.                                                             *)
(***************************************************************************)

\* Every variable has values the program can have.
TypeOK ==
    /\ pool \in [state : States, nonce : 0 .. MaxConns, client : 0 .. MaxConns]
    /\ env \in BOOLEAN
    /\ socket \in [Conns -> [stage : Deciding \cup {"none", "serving", "refused", "done"},
                             token : 0 .. MaxConns]]
    /\ op \in [Ops -> [stage : {"idle", "write", "queue", "done"}, state : States]]
    /\ calls \subseteq Calls
    /\ agent \in [state : States, saved : States, jwt : 0 .. MaxConns, conn : 0 .. MaxConns]

\* The agent's connection is the one the pool's client uses.
Linked == Online /\ pool.client = agent.conn
Calm == Linked /\ calls = {} /\ \A i \in Ops : op[i].stage \in {"idle", "done"}

\* Once requests and calls are over, the agent has the state the pool gives it,
\* in memory and in its database, whatever broke or restarted on the way.
Synced == Calm => agent.state = pool.state /\ agent.saved = pool.state

\* While both sides use one connection, every state a handler gives the agent is
\* the one the pool gives it at that moment.
NewestOnly ==
    [][Linked /\ Linked' /\ agent'.state # agent.state => agent'.state = pool.state]_vars

\* An agent whose handshake has arrived has the token by which it is known, so
\* that it will be recognized when it comes back.
TokenKnown ==
    Linked /\ (\A k \in calls : k.by = 0 => k.step # "sent") => agent.jwt = pool.nonce

\* A socket is served exactly when its client is the one of the pool: no agent
\* is served and taken for offline, and no client outlives its socket.
ServedIsOnline == \A c \in Conns : socket[c].stage = "serving" <=> pool.client = c

\* When connections stop breaking and requests end, the agent gets and keeps the
\* state the pool gives it.
Converges == <>[](Linked /\ agent.state = pool.state)

(***************************************************************************)
(* Statements of comments that the code does not keep; no run checks them. *)
(***************************************************************************)

\* An agent is marked disconnected when that agent disconnects
\* (controlplane/src/state/agent.rs:228).
OfflineIsGone ==
    [][\A c \in Conns : pool.client = c /\ pool'.client = None /\ socket[c].stage = "serving"
            => socket'[c].stage # "serving"]_vars

\* A new agent is only made for an id where none could be reconnected with its
\* claims (controlplane/src/server/agent_ws.rs:182).
KnownIsKept ==
    [][\A c \in Conns : Known /\ pool'.nonce = c /\ pool.nonce # c => socket[c].token # pool.nonce]_vars

\* A state copied to change its peers is written over the config it was copied
\* from (controlplane/src/env/mod.rs:664).
CopyIsCurrent ==
    [][\A i \in Ops : op[i].stage = "write" /\ op'[i].stage = "queue" /\ op[i].state[1] < op[i].state[2]
            => pool.state[1] = op[i].state[1]]_vars
=============================================================================
