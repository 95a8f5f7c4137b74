-------------------------- MODULE AgentSyncProofs --------------------------
(***************************************************************************)
(* Identities and sockets for any number of connections and requests: the  *)
(* types, that one socket at a time is served (where the agent waits to be *)
(* accepted), and that a greeted agent has the token it is known by (where *)
(* no call runs into its deadline).                                        *)
(***************************************************************************)
EXTENDS AgentSync, TLAPS

\* Configs are those of requests that have begun: a copy made by the next
\* request is of an earlier config.
BegunConfigs ==
    \A i \in Ops : op[i].stage = "idle" =>
        /\ pool.state[1] < i
        /\ \A j \in Ops : op[j].state[1] < i

\* The socket of the pool's client is served, and its agent is known.
ClientIsServed == Online => socket[pool.client].stage = "serving" /\ Known

\* Calls are made once a socket is served.
CallsAreServed == \A k \in calls : socket[k.conn].stage \in {"serving", "done"}

\* A socket whose claims are still to be looked at came with the agent's token.
HelloIsCurrent ==
    \A c \in Conns : agent.conn = c /\ socket[c].stage = "hello" => socket[c].token = agent.jwt

\* A handshake on the client's socket that brings a token brings the current one.
GreetsCurrent ==
    \A k \in calls : k.by = 0 /\ k.conn = pool.client /\ k.token # None => k.token = pool.nonce

\* A linked agent has its token, or the handshake that brings it is under way.
TokenComes ==
    Linked => \/ agent.jwt = pool.nonce
              \/ \E k \in calls : /\ k.by = 0 /\ k.step = "sent"
                                  /\ k.conn = pool.client /\ k.token = pool.nonce

TokenInv == ClientIsServed /\ CallsAreServed /\ HelloIsCurrent /\ GreetsCurrent /\ TokenComes

\* The calls on the client's socket carry the state the pool has.
CarriesNewest == \A k \in calls : k.conn = pool.client => k.state = pool.state

Pending == \E i \in Ops : op[i].stage = "queue"

\* A linked agent has the pool's state in its database and its memory, or a
\* call brings it, or a request is about to make one.
StateComes ==
    Linked => /\ \/ agent.saved = pool.state
                 \/ Pending
                 \/ \E k \in calls : k.conn = pool.client /\ k.step # "saved"
              /\ \/ agent.state = pool.state
                 \/ Pending
                 \/ \E k \in calls : k.conn = pool.client

StateInv == CarriesNewest /\ StateComes

\* At most one socket is being accepted, and it was checked while nobody is online.
OneAccepted ==
    /\ \A c, d \in Conns : socket[c].stage \in Deciding /\ socket[d].stage \in Deciding => c = d
    /\ \A c \in Conns : socket[c].stage = "checked" => ~Online

ServedInv == OneAccepted /\ ServedIsOnline

(***************************************************************************)
(* Types.                                                                  *)
(***************************************************************************)

\* The initial state has the types, and no request has begun.
LEMMA TypeInit == ASSUME SyncAssumption, Init PROVE TypeOK /\ BegunConfigs
<1>0. Inventory \in States
  BY DEF States
<1>n. None \in 0 .. MaxConns
  BY DEF SyncAssumption, None
<1>1. TypeOK
  <2>1. pool \in [state : States, nonce : 0 .. MaxConns, client : 0 .. MaxConns]
    BY <1>0, <1>n DEF Init
  <2>2. socket \in [Conns -> [stage : Deciding \cup {"none", "serving", "refused", "done"},
                              token : 0 .. MaxConns]]
    BY <1>n DEF Init
  <2>3. op \in [Ops -> [stage : {"idle", "write", "queue", "done"}, state : States]]
    BY <1>0 DEF Init
  <2>4. agent \in [state : States, saved : States, jwt : 0 .. MaxConns, conn : 0 .. MaxConns]
    BY <1>0, <1>n DEF Init
  <2> QED
    BY <2>1, <2>2, <2>3, <2>4 DEF Init, TypeOK
<1>2. BegunConfigs
  BY DEF SyncAssumption, Init, BegunConfigs, Inventory, Ops
<1> QED
  BY <1>1, <1>2

\* A request that begins writes a state the program can have, of a config no
\* later than itself.
LEMMA TypeBegin ==
    ASSUME SyncAssumption, TypeOK, BegunConfigs,
           NEW i \in Ops, NEW stage \in {"write", "queue"}, NEW state \in States,
           state[1] <= i, env' \in BOOLEAN, Begin(i, stage, state)
    PROVE  TypeOK' /\ BegunConfigs'
<1>1. op' \in [Ops -> [stage : {"idle", "write", "queue", "done"}, state : States]]
  BY DEF Begin, TypeOK
<1>2. TypeOK'
  BY <1>1 DEF Begin, TypeOK
<1>3. ASSUME NEW j \in Ops, op'[j].stage = "idle"
      PROVE  pool'.state[1] < j /\ \A k \in Ops : op'[k].state[1] < j
  <2>1. j # i /\ op[j].stage = "idle"
    BY <1>3 DEF Begin, TypeOK
  <2>2. i < j
    BY <2>1 DEF Begin, Ops, SyncAssumption
  <2>3. state[1] < j
    BY <2>2 DEF States, Inventory, Ops, SyncAssumption
  <2>4. \A k \in Ops : op'[k].state = IF k = i THEN state ELSE op[k].state
    BY DEF Begin, TypeOK
  <2> QED
    BY <2>1, <2>3, <2>4 DEF Begin, BegunConfigs
<1> QED
  BY <1>2, <1>3 DEF BegunConfigs

\* A call that is sent has a call's type.
LEMMA CallType ==
    ASSUME SyncAssumption, NEW c \in Conns, NEW b \in 0 .. MaxOps, NEW state \in States,
           NEW token \in 0 .. MaxConns
    PROVE  [conn |-> c, by |-> b, state |-> state, token |-> token, step |-> "sent"] \in Calls
BY DEF Calls

\* A step that leaves pool and requests alone, and sends no call, keeps the
\* types if the socket's and the agent's values have theirs.
LEMMA TypeRest ==
    ASSUME TypeOK, BegunConfigs, UNCHANGED <<pool, env, op>>, calls' \subseteq calls,
           socket' \in [Conns -> [stage : Deciding \cup {"none", "serving", "refused", "done"},
                                  token : 0 .. MaxConns]],
           agent' \in [state : States, saved : States, jwt : 0 .. MaxConns, conn : 0 .. MaxConns]
    PROVE  TypeOK' /\ BegunConfigs'
<1>1. TypeOK'
  BY DEF TypeOK
<1>2. BegunConfigs'
  BY DEF BegunConfigs
<1> QED
  BY <1>1, <1>2

\* The agent's side of a connection ends.
LEMMA TypeClose ==
    ASSUME TypeOK, BegunConfigs, Close,
           agent' \in [state : States, saved : States, jwt : 0 .. MaxConns, conn : 0 .. MaxConns]
    PROVE  TypeOK' /\ BegunConfigs'
<1>1. socket' \in [Conns -> [stage : Deciding \cup {"none", "serving", "refused", "done"},
                             token : 0 .. MaxConns]]
  <2> DEFINE Sockets == [stage : Deciding \cup {"none", "serving", "refused", "done"},
                         token : 0 .. MaxConns]
  <2>1. socket \in [Conns -> Sockets]
    BY DEF TypeOK
  <2>2. \A s \in Sockets : [s EXCEPT !.stage = IF s.stage = "refused" THEN "none" ELSE s.stage] \in Sockets
    OBVIOUS
  <2>3. socket' = [socket EXCEPT ![agent.conn] =
                      [socket[agent.conn] EXCEPT
                          !.stage = IF socket[agent.conn].stage = "refused" THEN "none"
                                    ELSE socket[agent.conn].stage]]
    BY DEF Close
  <2> HIDE DEF Sockets
  <2>4. socket' \in [Conns -> Sockets]
    BY <2>1, <2>2, <2>3
  <2> QED
    BY <2>4 DEF Sockets
<1>2. UNCHANGED <<pool, env, op>> /\ calls' \subseteq calls
  BY DEF Close
<1> QED
  BY <1>1, <1>2, TypeRest

\* Every step keeps the types and the order of configs.
LEMMA TypeStep ==
    ASSUME SyncAssumption, TypeOK, BegunConfigs, [Next]_vars PROVE TypeOK' /\ BegunConfigs'
<1>i. Inventory \in States /\ Inventory[1] = 0
  BY DEF States, Inventory
<1>n. None \in 0 .. MaxConns /\ 0 \in 0 .. MaxOps /\ Conns \subseteq 0 .. MaxConns /\ Ops \subseteq 0 .. MaxOps
  BY DEF SyncAssumption, None, Conns, Ops
<1>b. \A i \in Ops : 0 < i /\ 0 <= i
  BY DEF Ops, SyncAssumption
<1>1. ASSUME NEW c \in Conns, Accept(c) \/ Notice(c) PROVE TypeOK' /\ BegunConfigs'
  <2>1. CASE Reconnect(c)
    <3> DEFINE state == IF env THEN pool.state ELSE Inventory
    <3>1. state \in States
      BY <1>i DEF TypeOK
    <3>2. calls' \subseteq Calls
      BY <2>1, <3>1, <1>n, CallType DEF Reconnect, Handshake, TypeOK
    <3>3. pool' \in [state : States, nonce : 0 .. MaxConns, client : 0 .. MaxConns]
      BY <2>1, <3>1, <1>n DEF Reconnect, TypeOK
    <3>4. pool'.state = state
      BY <2>1 DEF Reconnect, TypeOK
    <3>5. TypeOK'
      BY <2>1, <3>2, <3>3 DEF Reconnect, Enter, TypeOK
    <3>6. BegunConfigs'
      BY <2>1, <3>4, <1>i, <1>b DEF Reconnect, BegunConfigs
    <3> QED
      BY <3>5, <3>6
  <2>2. CASE Insert(c)
    <3>1. calls' \subseteq Calls
      BY <2>2, <1>i, <1>n, CallType DEF Insert, Handshake, TypeOK
    <3>2. TypeOK'
      BY <2>2, <3>1, <1>i, <1>n DEF Insert, Enter, TypeOK
    <3>3. BegunConfigs'
      BY <2>2, <1>i, <1>b DEF Insert, BegunConfigs
    <3> QED
      BY <3>2, <3>3
  <2>3. CASE Notice(c)
    <3>1. TypeOK'
      BY <2>3, <1>n DEF Notice, Enter, TypeOK
    <3>2. pool'.state = pool.state
      BY <2>3 DEF Notice, TypeOK
    <3> QED
      BY <2>3, <3>1, <3>2 DEF Notice, BegunConfigs
  <2>4. CASE NotRecognized(c) \/ CheckOffline(c) \/ Refuse(c)
    <3>1. PICK stage \in {"new", "checked", "refused", "none"} : Enter(c, stage)
      BY <2>4 DEF NotRecognized, CheckOffline, Refuse
    <3>2. socket' \in [Conns -> [stage : Deciding \cup {"none", "serving", "refused", "done"},
                                 token : 0 .. MaxConns]]
      BY <3>1 DEF Enter, TypeOK, Deciding
    <3>3. UNCHANGED <<pool, env, op, calls, agent>>
      BY <2>4 DEF NotRecognized, CheckOffline, Refuse
    <3>4. agent' \in [state : States, saved : States, jwt : 0 .. MaxConns, conn : 0 .. MaxConns]
      BY <3>3 DEF TypeOK
    <3> QED
      BY <3>2, <3>3, <3>4, TypeRest
  <2> QED
    BY <1>1, <2>1, <2>2, <2>3, <2>4 DEF Accept
<1>2. ASSUME NEW i \in Ops, Apply(i) \/ Cleanup(i) \/ CopyState(i) \/ Poke(i)
      PROVE  TypeOK' /\ BegunConfigs'
  <2>1. CASE Apply(i)
    <3>1. <<i, i>> \in States /\ <<i, i>>[1] <= i
      BY DEF States, Ops, SyncAssumption
    <3> QED
      BY <2>1, <3>1, TypeBegin DEF Apply
  <2>2. CASE Cleanup(i)
    BY <2>2, <1>i, <1>b, TypeBegin DEF Cleanup
  <2>3. CASE CopyState(i)
    <3>1. op[i].stage = "idle"
      BY <2>3 DEF CopyState, Begin
    <3>2. pool.state[1] < i /\ pool.state \in States /\ pool.state # Inventory
      BY <2>3, <3>1 DEF CopyState, HasNode, BegunConfigs, TypeOK
    <3>3. <<pool.state[1], i>> \in States /\ <<pool.state[1], i>>[1] <= i
      BY <3>2 DEF States, Ops, SyncAssumption
    <3>4. env' \in BOOLEAN
      BY <2>3 DEF CopyState, TypeOK
    <3> QED
      BY <2>3, <3>3, <3>4, TypeBegin DEF CopyState
  <2>4. CASE Poke(i)
    <3>1. env' \in BOOLEAN
      BY <2>4 DEF Poke, TypeOK
    <3> QED
      BY <2>4, <3>1, <1>i, <1>b, TypeBegin DEF Poke
  <2> QED
    BY <1>2, <2>1, <2>2, <2>3, <2>4
<1>3. ASSUME NEW i \in Ops, SetState(i) PROVE TypeOK' /\ BegunConfigs'
  <2>1. TypeOK'
    BY <1>3 DEF SetState, Become, TypeOK
  <2>2. pool'.state = op[i].state
    BY <1>3 DEF SetState, TypeOK
  <2>3. \A j \in Ops : /\ op'[j].state = op[j].state
                       /\ op'[j].stage = "idle" => op[j].stage = "idle"
    BY <1>3 DEF SetState, Become, TypeOK
  <2> QED
    BY <2>1, <2>2, <2>3 DEF BegunConfigs
<1>4. ASSUME NEW i \in Ops, Queue(i) PROVE TypeOK' /\ BegunConfigs'
  <2>1. calls' \subseteq Calls
    <3>1. CASE Online
      <4>1. pool.client \in Conns /\ pool.state \in States /\ i \in 0 .. MaxOps
        BY <3>1, <1>n DEF Online, TypeOK, None, Conns, SyncAssumption
      <4> QED
        BY <1>4, <3>1, <4>1, <1>n, CallType DEF Queue, TypeOK
    <3> QED
      BY <1>4, <3>1 DEF Queue, TypeOK
  <2>2. \A j \in Ops : /\ op'[j].state = op[j].state
                       /\ op'[j].stage = "idle" => op[j].stage = "idle"
    BY <1>4 DEF Queue, Become, TypeOK
  <2>3. TypeOK'
    BY <1>4, <2>1 DEF Queue, Become, TypeOK
  <2> QED
    BY <1>4, <2>2, <2>3 DEF Queue, BegunConfigs
<1>5. CASE Connect
  <2>1. socket' \in [Conns -> [stage : Deciding \cup {"none", "serving", "refused", "done"},
                               token : 0 .. MaxConns]]
    BY <1>5 DEF Connect, TypeOK, Deciding
  <2>2. agent' \in [state : States, saved : States, jwt : 0 .. MaxConns, conn : 0 .. MaxConns]
    BY <1>5, <1>n DEF Connect, TypeOK
  <2>3. UNCHANGED <<pool, env, op, calls>>
    BY <1>5 DEF Connect
  <2> QED
    BY <2>1, <2>2, <2>3, TypeRest
<1>6. CASE Disconnect
  <2>1. Close
    BY <1>6 DEF Disconnect
  <2>2. agent' \in [state : States, saved : States, jwt : 0 .. MaxConns, conn : 0 .. MaxConns]
    BY <1>6, <1>n DEF Disconnect, TypeOK
  <2> QED
    BY <2>1, <2>2, TypeClose
<1>7. CASE AgentRestart
  <2>1. agent' \in [state : States, saved : States, jwt : 0 .. MaxConns, conn : 0 .. MaxConns]
    BY <1>7, <1>n DEF AgentRestart, TypeOK
  <2>2. CASE agent.conn = None
    <3>1. UNCHANGED <<pool, env, socket, op, calls>>
      BY <1>7, <2>2 DEF AgentRestart
    <3>2. socket' \in [Conns -> [stage : Deciding \cup {"none", "serving", "refused", "done"},
                                 token : 0 .. MaxConns]]
      BY <3>1 DEF TypeOK
    <3> QED
      BY <2>1, <3>1, <3>2, TypeRest
  <2>3. CASE agent.conn # None
    <3>1. Close
      BY <1>7, <2>3 DEF AgentRestart
    <3> QED
      BY <2>1, <3>1, TypeClose
  <2> QED
    BY <2>2, <2>3
<1>8. CASE ControlRestart
  <2>1. socket' \in [Conns -> [stage : Deciding \cup {"none", "serving", "refused", "done"},
                               token : 0 .. MaxConns]]
    BY <1>8 DEF ControlRestart, TypeOK
  <2>2. /\ op' \in [Ops -> [stage : {"idle", "write", "queue", "done"}, state : States]]
        /\ \A j \in Ops : /\ op'[j].state = op[j].state
                          /\ op'[j].stage = "idle" => op[j].stage = "idle"
    BY <1>8 DEF ControlRestart, TypeOK
  <2>3. /\ pool' \in [state : States, nonce : 0 .. MaxConns, client : 0 .. MaxConns]
        /\ pool'.state = pool.state \/ pool'.state = Inventory
    BY <1>8, <1>i, <1>n DEF ControlRestart, TypeOK
  <2>4. TypeOK'
    BY <1>8, <2>1, <2>2, <2>3 DEF ControlRestart, TypeOK
  <2> QED
    BY <2>2, <2>3, <2>4, <1>i, <1>b DEF BegunConfigs
<1>9. ASSUME NEW k \in calls, Handle(k) \/ Lose(k) PROVE TypeOK' /\ BegunConfigs'
  <2>1. k \in Calls
    BY <1>9 DEF TypeOK
  <2>2. \A step \in {"greeted", "saved"} : [k EXCEPT !.step = step] \in Calls
    BY <2>1 DEF Calls
  <2>3. CASE Greet(k)
    <3>1. k.token \in 0 .. MaxConns
      BY <2>1 DEF Calls
    <3>2. calls' \subseteq Calls
      BY <2>2, <2>3 DEF Greet, Advance, TypeOK
    <3>3. agent' \in [state : States, saved : States, jwt : 0 .. MaxConns, conn : 0 .. MaxConns]
      BY <2>3, <3>1 DEF Greet, TypeOK
    <3>4. UNCHANGED <<pool, env, socket, op>>
      BY <2>3 DEF Greet
    <3> QED
      BY <3>2, <3>3, <3>4 DEF TypeOK, BegunConfigs
  <2>4. CASE Save(k) \/ Store(k)
    <3>1. k.state \in States
      BY <2>1 DEF Calls
    <3>2. calls' \subseteq Calls
      BY <2>2, <2>4 DEF Save, Store, Advance, TypeOK
    <3>3. agent' \in [state : States, saved : States, jwt : 0 .. MaxConns, conn : 0 .. MaxConns]
      BY <2>4, <3>1 DEF Save, Store, TypeOK
    <3>4. UNCHANGED <<pool, env, socket, op>>
      BY <2>4 DEF Save, Store
    <3> QED
      BY <3>2, <3>3, <3>4 DEF TypeOK, BegunConfigs
  <2>5. CASE Lose(k)
    BY <2>5 DEF Lose, TypeOK, BegunConfigs
  <2> QED
    BY <1>9, <2>3, <2>4, <2>5 DEF Handle
<1>10. CASE UNCHANGED vars
  BY <1>10 DEF vars, TypeOK, BegunConfigs
<1> QED
  BY <1>1, <1>2, <1>3, <1>4, <1>5, <1>6, <1>7, <1>8, <1>9, <1>10 DEF Next

\* The type invariant, for any bounds.
THEOREM SyncTypeCorrect == ASSUME SyncAssumption PROVE Spec => [](TypeOK /\ BegunConfigs)
<1>1. Init => TypeOK /\ BegunConfigs
  BY TypeInit
<1>2. (TypeOK /\ BegunConfigs) /\ [Next]_vars => (TypeOK /\ BegunConfigs)'
  BY TypeStep
<1> QED
  BY <1>1, <1>2, PTL DEF Spec

(***************************************************************************)
(* One socket at a time is served.                                         *)
(***************************************************************************)

\* Where the agent waits to be accepted, every step keeps one socket accepted
\* and the client of the pool the one that is served.
LEMMA ServedStep ==
    ASSUME SyncAssumption, ~SlowAccept, TypeOK, ServedInv, [Next]_vars PROVE ServedInv'
<1> USE DEF ServedInv
<1>n. \A c \in Conns : c # None
  BY DEF Conns, None
<1>1. ASSUME NEW c \in Conns, Reconnect(c) PROVE ServedInv'
  <2>1. pool'.client = c /\ pool.client = None
    BY <1>1 DEF Reconnect, Recognized, Online, TypeOK
  <2>2. \A d \in Conns : socket'[d].stage = IF d = c THEN "serving" ELSE socket[d].stage
    BY <1>1 DEF Reconnect, Enter, TypeOK
  <2>3. OneAccepted'
    BY <1>1, <2>1, <2>2 DEF OneAccepted, Reconnect, Online, Deciding
  <2> QED
    BY <2>1, <2>2, <2>3, <1>n DEF ServedIsOnline
<1>2. ASSUME NEW c \in Conns, Insert(c) PROVE ServedInv'
  <2>1. pool'.client = c /\ pool.client = None
    BY <1>2 DEF Insert, OneAccepted, Online, TypeOK
  <2>2. \A d \in Conns : socket'[d].stage = IF d = c THEN "serving" ELSE socket[d].stage
    BY <1>2 DEF Insert, Enter, TypeOK
  <2>3. OneAccepted'
    BY <1>2, <2>1, <2>2 DEF OneAccepted, Insert, Online, Deciding
  <2> QED
    BY <2>1, <2>2, <2>3, <1>n DEF ServedIsOnline
<1>3. ASSUME NEW c \in Conns, Notice(c) PROVE ServedInv'
  <2>1. pool'.client = None /\ pool.client = c
    BY <1>3 DEF Notice, ServedIsOnline, TypeOK
  <2>2. \A d \in Conns : socket'[d].stage = IF d = c THEN "done" ELSE socket[d].stage
    BY <1>3 DEF Notice, Enter, TypeOK
  <2> QED
    BY <2>1, <2>2, <1>n DEF ServedIsOnline, OneAccepted, Online, Deciding
<1>4. ASSUME NEW c \in Conns, NotRecognized(c) \/ CheckOffline(c) \/ Refuse(c) PROVE ServedInv'
  <2>1. pool' = pool /\ socket[c].stage \in {"hello", "new"}
    BY <1>4 DEF NotRecognized, CheckOffline, Refuse
  <2>2. PICK stage \in {"new", "checked", "refused", "none"} :
            /\ \A d \in Conns : socket'[d].stage = IF d = c THEN stage ELSE socket[d].stage
            /\ stage = "checked" => ~Online
    BY <1>4 DEF NotRecognized, CheckOffline, Refuse, Enter, TypeOK
  <2> QED
    BY <2>1, <2>2 DEF ServedIsOnline, OneAccepted, Online, Deciding
<1>5. ASSUME NEW i \in Ops,
             Apply(i) \/ Cleanup(i) \/ CopyState(i) \/ Poke(i) \/ SetState(i) \/ Queue(i)
      PROVE  ServedInv'
  <2>1. socket' = socket /\ pool'.client = pool.client
    BY <1>5 DEF Apply, Cleanup, CopyState, Poke, Begin, SetState, Queue, TypeOK
  <2> QED
    BY <2>1 DEF ServedIsOnline, OneAccepted, Online
<1>6. CASE Connect
  <2>1. \A c \in Conns : socket[c].stage \notin Deciding
    BY <1>6 DEF Connect
  <2>2. PICK c \in Conns :
            /\ socket[c].stage = "none"
            /\ \A d \in Conns : socket'[d].stage = IF d = c THEN "hello" ELSE socket[d].stage
    <3>1. PICK c \in Conns : /\ \A d \in 1 .. c : socket[d].stage = "none" <=> d = c
                             /\ socket' = [socket EXCEPT ![c] = [stage |-> "hello", token |-> agent.jwt]]
      BY <1>6 DEF Connect
    <3> QED
      BY <3>1 DEF TypeOK, Conns
  <2> QED
    BY <1>6, <2>1, <2>2 DEF Connect, ServedIsOnline, OneAccepted, Online, Deciding
<1>7. CASE Disconnect \/ AgentRestart
  <2>1. pool' = pool
    BY <1>7 DEF Disconnect, AgentRestart, Close
  <2>2. \A d \in Conns : socket'[d].stage = socket[d].stage \/ (socket[d].stage = "refused" /\ socket'[d].stage = "none")
    BY <1>7 DEF Disconnect, AgentRestart, Close, TypeOK
  <2> QED
    BY <2>1, <2>2 DEF ServedIsOnline, OneAccepted, Online, Deciding
<1>8. CASE ControlRestart
  <2>1. pool'.client = None
    BY <1>8 DEF ControlRestart, TypeOK
  <2>2. \A d \in Conns : socket'[d].stage \in {"none", "done"}
    BY <1>8 DEF ControlRestart, TypeOK
  <2> QED
    BY <2>1, <2>2, <1>n DEF ServedIsOnline, OneAccepted, Online, Deciding
<1>9. ASSUME NEW k \in calls, Handle(k) \/ Lose(k) PROVE ServedInv'
  BY <1>9 DEF Handle, Greet, Save, Store, Lose, ServedIsOnline, OneAccepted, Online
<1>10. CASE UNCHANGED vars
  BY <1>10 DEF vars, ServedIsOnline, OneAccepted, Online
<1> QED
  BY <1>1, <1>2, <1>3, <1>4, <1>5, <1>6, <1>7, <1>8, <1>9, <1>10 DEF Next, Accept

\* Where the agent waits to be accepted, a socket is served exactly when its
\* client is the one of the pool.
THEOREM OneSocketServed ==
    ASSUME SyncAssumption, ~SlowAccept PROVE Spec => []ServedIsOnline
<1>1. Init => ServedInv
  BY DEF Init, ServedInv, OneAccepted, ServedIsOnline, Deciding, Conns, None
<1>2. TypeOK /\ ServedInv /\ [Next]_vars => ServedInv'
  BY ServedStep
<1>3. ServedInv => ServedIsOnline
  BY DEF ServedInv
<1> QED
  BY <1>1, <1>2, <1>3, SyncTypeCorrect, PTL DEF Spec

(***************************************************************************)
(* A greeted agent has its token.                                          *)
(***************************************************************************)

\* A step that keeps sockets, clients, nonces, tokens and connections, and
\* adds no handshake, keeps what is known of tokens.
LEMMA TokenKept ==
    ASSUME TokenInv,
           pool'.client = pool.client, pool'.nonce = pool.nonce,
           agent'.conn = agent.conn, agent'.jwt = agent.jwt,
           socket' = socket,
           \A k \in calls' : k \in calls
                \/ (k.by # 0 /\ socket[k.conn].stage = "serving")
                \/ \E j \in calls : k.by = j.by /\ k.conn = j.conn /\ k.token = j.token,
           Linked => \A k \in calls : k.by = 0 /\ k.step = "sent" /\ k.conn = pool.client => k \in calls'
    PROVE  TokenInv'
<1>1. ClientIsServed' /\ HelloIsCurrent'
  BY DEF TokenInv, ClientIsServed, HelloIsCurrent, Online, Known
<1>2. CallsAreServed'
  BY DEF TokenInv, CallsAreServed
<1>3. GreetsCurrent'
  BY DEF TokenInv, GreetsCurrent
<1>4. TokenComes'
  BY DEF TokenInv, TokenComes, Linked, Online
<1> QED
  BY <1>1, <1>2, <1>3, <1>4 DEF TokenInv

\* Where no call runs into its deadline, every step keeps what is known of
\* tokens.
LEMMA TokenStep ==
    ASSUME SyncAssumption, ~Timeouts, TypeOK, TokenInv, [Next]_vars PROVE TokenInv'
<1>n. \A c \in Conns : c # None
  BY DEF Conns, None
<1>c. \A k \in calls : k.conn \in Conns /\ k \in Calls
  BY DEF TypeOK, Calls
<1>1. ASSUME NEW c \in Conns, Reconnect(c) PROVE TokenInv'
  <2> DEFINE state == IF env THEN pool.state ELSE Inventory
  <2> DEFINE h == [conn |-> c, by |-> 0, state |-> state, token |-> None, step |-> "sent"]
  <2>1. /\ pool'.client = c /\ pool'.nonce = pool.nonce /\ pool.nonce # None
        /\ socket[c].stage = "hello" /\ socket[c].token = pool.nonce
        /\ agent' = agent /\ calls' = calls \cup {h}
    BY <1>1 DEF Reconnect, Recognized, Handshake, Known, TypeOK
  <2>2. \A d \in Conns : /\ socket'[d].stage = IF d = c THEN "serving" ELSE socket[d].stage
                         /\ socket'[d].token = socket[d].token
    BY <1>1 DEF Reconnect, Enter, TypeOK
  <2>3. \A k \in calls : k.conn # c
    BY <2>1 DEF TokenInv, CallsAreServed
  <2>4. ClientIsServed' /\ HelloIsCurrent'
    BY <2>1, <2>2 DEF TokenInv, ClientIsServed, HelloIsCurrent, Known
  <2>5. CallsAreServed'
    BY <2>1, <2>2, <1>c DEF TokenInv, CallsAreServed
  <2>6. GreetsCurrent'
    BY <2>1, <2>3 DEF GreetsCurrent
  <2>7. TokenComes'
    BY <2>1 DEF TokenInv, TokenComes, HelloIsCurrent, Linked
  <2> QED
    BY <2>4, <2>5, <2>6, <2>7 DEF TokenInv
<1>2. ASSUME NEW c \in Conns, Insert(c) PROVE TokenInv'
  <2> DEFINE h == [conn |-> c, by |-> 0, state |-> Inventory, token |-> c, step |-> "sent"]
  <2>1. /\ pool'.client = c /\ pool'.nonce = c
        /\ socket[c].stage = "checked"
        /\ agent' = agent /\ calls' = calls \cup {h}
    BY <1>2 DEF Insert, Handshake
  <2>2. \A d \in Conns : /\ socket'[d].stage = IF d = c THEN "serving" ELSE socket[d].stage
                         /\ socket'[d].token = socket[d].token
    BY <1>2 DEF Insert, Enter, TypeOK
  <2>3. \A k \in calls : k.conn # c
    BY <2>1 DEF TokenInv, CallsAreServed
  <2>4. ClientIsServed' /\ HelloIsCurrent'
    BY <2>1, <2>2, <1>n DEF TokenInv, ClientIsServed, HelloIsCurrent, Known
  <2>5. CallsAreServed'
    BY <2>1, <2>2, <1>c DEF TokenInv, CallsAreServed
  <2>6. GreetsCurrent'
    BY <2>1, <2>3 DEF GreetsCurrent
  <2>7. h \in calls' /\ h.by = 0 /\ h.step = "sent" /\ h.conn = pool'.client /\ h.token = pool'.nonce
    BY <2>1
  <2>8. TokenComes'
    BY <2>7 DEF TokenComes
  <2> QED
    BY <2>4, <2>5, <2>6, <2>8 DEF TokenInv
<1>3. ASSUME NEW c \in Conns, Notice(c) PROVE TokenInv'
  <2>1. pool'.client = None /\ calls' = calls /\ agent' = agent
    BY <1>3 DEF Notice, TypeOK
  <2>2. \A d \in Conns : /\ socket'[d].stage = IF d = c THEN "done" ELSE socket[d].stage
                         /\ socket'[d].token = socket[d].token
    BY <1>3 DEF Notice, Enter, TypeOK
  <2>3. HelloIsCurrent' /\ CallsAreServed'
    BY <2>1, <2>2, <1>c DEF TokenInv, HelloIsCurrent, CallsAreServed
  <2>4. GreetsCurrent' /\ TokenComes' /\ ClientIsServed'
    BY <2>1, <1>c, <1>n DEF GreetsCurrent, TokenComes, Linked, Online, ClientIsServed
  <2> QED
    BY <2>3, <2>4 DEF TokenInv
<1>4. ASSUME NEW c \in Conns, NotRecognized(c) \/ CheckOffline(c) \/ Refuse(c) PROVE TokenInv'
  <2>1. pool' = pool /\ calls' = calls /\ agent' = agent /\ socket[c].stage \in {"hello", "new"}
    BY <1>4 DEF NotRecognized, CheckOffline, Refuse
  <2>2. \A d \in Conns : /\ d # c => socket'[d].stage = socket[d].stage
                         /\ socket'[c].stage # "hello"
                         /\ socket'[d].token = socket[d].token
    BY <1>4 DEF NotRecognized, CheckOffline, Refuse, Enter, TypeOK
  <2>3. Online => pool.client \in Conns
    BY DEF Online, TypeOK, Conns, None, SyncAssumption
  <2>4. ClientIsServed'
    BY <2>1, <2>2, <2>3 DEF TokenInv, ClientIsServed, Online, Known
  <2>5. CallsAreServed'
    BY <2>1, <2>2, <1>c DEF TokenInv, CallsAreServed
  <2>6. HelloIsCurrent'
    BY <2>1, <2>2 DEF TokenInv, HelloIsCurrent
  <2>7. GreetsCurrent' /\ TokenComes'
    BY <2>1 DEF TokenInv, GreetsCurrent, TokenComes, Linked, Online
  <2> QED
    BY <2>4, <2>5, <2>6, <2>7 DEF TokenInv
<1>5. ASSUME NEW i \in Ops, Apply(i) \/ Cleanup(i) \/ CopyState(i) \/ Poke(i) \/ SetState(i)
      PROVE  TokenInv'
  <2>1. /\ socket' = socket /\ calls' = calls /\ agent' = agent
        /\ pool'.client = pool.client /\ pool'.nonce = pool.nonce
    BY <1>5 DEF Apply, Cleanup, CopyState, Poke, Begin, SetState, TypeOK
  <2> QED
    BY <2>1, TokenKept
<1>6. ASSUME NEW i \in Ops, Queue(i) PROVE TokenInv'
  <2>1. socket' = socket /\ agent' = agent /\ pool' = pool /\ calls \subseteq calls'
    BY <1>6 DEF Queue
  <2>2. \A k \in calls' : k \in calls \/ (k.by # 0 /\ socket[k.conn].stage = "serving")
    BY <1>6 DEF Queue, TokenInv, ClientIsServed, Ops
  <2> QED
    BY <2>1, <2>2, TokenKept
<1>7. CASE Connect
  <2>1. PICK c \in Conns :
            /\ \A d \in 1 .. c : socket[d].stage = "none" <=> d = c
            /\ socket' = [socket EXCEPT ![c] = [stage |-> "hello", token |-> agent.jwt]]
            /\ agent' = [agent EXCEPT !.conn = c]
    BY <1>7 DEF Connect
  <2>2. socket[c].stage = "none" /\ pool' = pool /\ calls' = calls
    BY <1>7, <2>1 DEF Connect, Conns
  <2>3. /\ \A d \in Conns : d # c => socket'[d] = socket[d]
        /\ socket'[c] = [stage |-> "hello", token |-> agent.jwt]
        /\ agent'.conn = c /\ agent'.jwt = agent.jwt
    BY <2>1 DEF TypeOK
  <2>4. Online => pool.client \in Conns
    BY DEF Online, TypeOK, Conns, None, SyncAssumption
  <2>5. pool.client # c
    BY <2>2, <1>n DEF TokenInv, ClientIsServed, Online
  <2>6. ClientIsServed'
    BY <2>2, <2>3, <2>4, <2>5 DEF TokenInv, ClientIsServed, Online, Known
  <2>7. CallsAreServed'
    BY <2>2, <2>3, <1>c DEF TokenInv, CallsAreServed
  <2>8. HelloIsCurrent'
    BY <2>3 DEF HelloIsCurrent
  <2>9. GreetsCurrent' /\ TokenComes'
    BY <2>2, <2>3, <2>5 DEF TokenInv, GreetsCurrent, TokenComes, Linked
  <2> QED
    BY <2>6, <2>7, <2>8, <2>9 DEF TokenInv
<1>8. CASE (Disconnect \/ AgentRestart) /\ agent.conn # None
  <2>1. /\ pool' = pool /\ calls' = {k \in calls : k.conn # agent.conn}
        /\ agent'.conn = None
    BY <1>8 DEF Disconnect, AgentRestart, Close, TypeOK
  <2>2. \A d \in Conns : socket'[d].stage = socket[d].stage \/ (socket[d].stage = "refused" /\ socket'[d].stage = "none")
    BY <1>8 DEF Disconnect, AgentRestart, Close, TypeOK
  <2>3. Online => pool.client \in Conns
    BY DEF Online, TypeOK, Conns, None, SyncAssumption
  <2>4. ClientIsServed'
    BY <2>1, <2>2, <2>3 DEF TokenInv, ClientIsServed, Online, Known
  <2>5. CallsAreServed'
    BY <2>1, <2>2, <1>c DEF TokenInv, CallsAreServed
  <2>6. HelloIsCurrent' /\ GreetsCurrent' /\ TokenComes'
    BY <2>1, <1>n DEF TokenInv, HelloIsCurrent, GreetsCurrent, TokenComes, Linked, Online
  <2> QED
    BY <2>4, <2>5, <2>6 DEF TokenInv
<1>9. CASE AgentRestart /\ agent.conn = None
  <2>1. /\ socket' = socket /\ calls' = calls /\ pool' = pool
        /\ agent'.conn = agent.conn /\ agent'.jwt = agent.jwt
    BY <1>9 DEF AgentRestart, TypeOK
  <2> QED
    BY <2>1, TokenKept
<1>10. CASE ControlRestart
  <2>1. pool'.client = None /\ calls' = calls /\ agent' = agent
    BY <1>10 DEF ControlRestart, TypeOK
  <2>2. \A d \in Conns : socket'[d].stage = IF socket[d].stage = "none" THEN "none" ELSE "done"
    BY <1>10 DEF ControlRestart, TypeOK
  <2>3. HelloIsCurrent' /\ CallsAreServed'
    BY <2>1, <2>2, <1>c DEF TokenInv, HelloIsCurrent, CallsAreServed
  <2>4. GreetsCurrent' /\ TokenComes' /\ ClientIsServed'
    BY <2>1, <1>c, <1>n DEF GreetsCurrent, TokenComes, Linked, Online, ClientIsServed
  <2> QED
    BY <2>3, <2>4 DEF TokenInv
<1>11. ASSUME NEW k \in calls, Handle(k) \/ Lose(k) PROVE TokenInv'
  <2>1. CASE k.conn = agent.conn /\ Greet(k)
    <3> DEFINE g == [k EXCEPT !.step = "greeted"]
    <3>1. /\ socket' = socket /\ pool' = pool /\ agent'.conn = agent.conn
          /\ calls' = (calls \ {k}) \cup {g}
          /\ agent'.jwt = IF k.token = None THEN agent.jwt ELSE k.token
          /\ k.by = 0 /\ k.conn = agent.conn
      BY <2>1 DEF Greet, Advance, TypeOK
    <3>2. g.by = k.by /\ g.conn = k.conn /\ g.token = k.token
      BY <1>c DEF Calls
    <3> HIDE DEF g
    <3>3. ClientIsServed' /\ CallsAreServed' /\ GreetsCurrent'
      <4>1. ClientIsServed'
        BY <3>1 DEF TokenInv, ClientIsServed, Online, Known
      <4>2. CallsAreServed'
        BY <3>1, <3>2 DEF TokenInv, CallsAreServed
      <4>3. GreetsCurrent'
        BY <3>1, <3>2 DEF TokenInv, GreetsCurrent
      <4> QED
        BY <4>1, <4>2, <4>3
    <3>4. HelloIsCurrent'
      BY <3>1 DEF TokenInv, HelloIsCurrent, CallsAreServed
    <3>5. ASSUME Linked' PROVE TokenComes'
      <4>1. Linked /\ pool.nonce # None /\ k.conn = pool.client
        BY <3>1, <3>5 DEF Linked, Online, TokenInv, ClientIsServed, Known
      <4>2. CASE k.token = None
        BY <3>1, <4>1, <4>2 DEF TokenInv, TokenComes
      <4>3. CASE k.token # None
        BY <3>1, <4>1, <4>3 DEF TokenInv, TokenComes, GreetsCurrent
      <4> QED
        BY <4>2, <4>3
    <3>6. TokenComes'
      BY <3>5 DEF TokenComes
    <3> QED
      BY <3>3, <3>4, <3>6 DEF TokenInv
  <2>2. CASE Save(k)
    <3> DEFINE g == [k EXCEPT !.step = "saved"]
    <3>1. /\ socket' = socket /\ pool' = pool /\ agent'.conn = agent.conn /\ agent'.jwt = agent.jwt
          /\ calls' = (calls \ {k}) \cup {g}
          /\ ~(k.by = 0 /\ k.step = "sent")
      BY <2>2 DEF Save, Advance, TypeOK
    <3>2. g.by = k.by /\ g.conn = k.conn /\ g.token = k.token
      BY <1>c DEF Calls
    <3> QED
      BY <3>1, <3>2, TokenKept
  <2>3. CASE Store(k)
    <3>1. /\ socket' = socket /\ pool' = pool /\ agent'.conn = agent.conn /\ agent'.jwt = agent.jwt
          /\ calls' = calls \ {k}
          /\ k.step # "sent"
      BY <2>3 DEF Store, TypeOK
    <3> QED
      BY <3>1, TokenKept
  <2>4. CASE Lose(k)
    <3>1. /\ socket' = socket /\ pool' = pool /\ agent' = agent
          /\ calls' = calls \ {k}
          /\ socket[k.conn].stage # "serving"
      BY <2>4 DEF Lose
    <3>2. Linked => k.conn # pool.client
      BY <3>1 DEF TokenInv, ClientIsServed, Linked
    <3> QED
      BY <3>1, <3>2, TokenKept
  <2> QED
    BY <1>11, <2>1, <2>2, <2>3, <2>4 DEF Handle
<1>12. CASE UNCHANGED vars
  BY <1>12, TokenKept DEF vars
<1> QED
  BY <1>1, <1>2, <1>3, <1>4, <1>5, <1>6, <1>7, <1>8, <1>9, <1>10, <1>11, <1>12
     DEF Next, Accept, Disconnect

\* Where no call runs into its deadline, an agent whose handshake has arrived
\* has the token by which the pool knows it.
THEOREM GreetedHasToken ==
    ASSUME SyncAssumption, ~Timeouts PROVE Spec => []TokenKnown
<1>1. Init => TokenInv
  BY DEF Init, TokenInv, ClientIsServed, CallsAreServed, HelloIsCurrent, GreetsCurrent,
         TokenComes, Linked, Online, Conns, None
<1>2. TypeOK /\ TokenInv /\ [Next]_vars => TokenInv'
  BY TokenStep
<1>3. TokenInv => TokenKnown
  BY DEF TokenInv, TokenComes, TokenKnown, Linked
<1> QED
  BY <1>1, <1>2, <1>3, SyncTypeCorrect, PTL DEF Spec

(***************************************************************************)
(* The agent has the newest state.                                         *)
(***************************************************************************)

\* Where no state is written while a call is under way, and no call runs into
\* its deadline, calls carry the newest state and it reaches the agent.
LEMMA StateStep ==
    ASSUME SyncAssumption, ~Overtakes, ~Timeouts, TypeOK, TokenInv, StateInv, [Next]_vars
    PROVE  StateInv'
<1> USE DEF StateInv
<1>n. \A c \in Conns : c # None
  BY DEF Conns, None
<1>c. \A k \in calls : k.conn \in Conns /\ k \in Calls
  BY DEF TypeOK, Calls
<1>1. ASSUME NEW c \in Conns, Reconnect(c) \/ Insert(c) PROVE StateInv'
  <2>1. PICK h : /\ pool'.client = c /\ calls' = calls \cup {h}
                 /\ h.conn = c /\ h.state = pool'.state /\ h.step = "sent"
    <3>1. CASE Reconnect(c)
      <4> DEFINE h == [conn |-> c, by |-> 0, state |-> pool'.state, token |-> None, step |-> "sent"]
      <4>1. pool'.client = c /\ calls' = calls \cup {h}
        BY <3>1 DEF Reconnect, Handshake, TypeOK
      <4>2. h.conn = c /\ h.state = pool'.state /\ h.step = "sent"
        OBVIOUS
      <4> HIDE DEF h
      <4> QED
        BY <4>1, <4>2
    <3>2. CASE Insert(c)
      <4> DEFINE h == [conn |-> c, by |-> 0, state |-> pool'.state, token |-> c, step |-> "sent"]
      <4>1. pool'.client = c /\ calls' = calls \cup {h}
        BY <3>2 DEF Insert, Handshake
      <4>2. h.conn = c /\ h.state = pool'.state /\ h.step = "sent"
        OBVIOUS
      <4> HIDE DEF h
      <4> QED
        BY <4>1, <4>2
    <3> QED
      BY <1>1, <3>1, <3>2
  <2>2. socket[c].stage \in {"hello", "checked"}
    BY <1>1 DEF Reconnect, Insert
  <2>3. \A k \in calls : k.conn # c
    BY <2>2 DEF TokenInv, CallsAreServed
  <2>4. CarriesNewest'
    BY <2>1, <2>3 DEF CarriesNewest
  <2>5. StateComes'
    BY <2>1 DEF StateComes
  <2> QED
    BY <2>4, <2>5
<1>2. ASSUME NEW c \in Conns, Notice(c) PROVE StateInv'
  <2>1. pool'.client = None /\ calls' = calls
    BY <1>2 DEF Notice, TypeOK
  <2> QED
    BY <2>1, <1>c, <1>n DEF CarriesNewest, StateComes, Linked, Online
<1>3. ASSUME NEW c \in Conns, NotRecognized(c) \/ CheckOffline(c) \/ Refuse(c) PROVE StateInv'
  BY <1>3 DEF NotRecognized, CheckOffline, Refuse, CarriesNewest, StateComes, Linked, Online, Pending
<1>4. ASSUME NEW i \in Ops, Apply(i) \/ Cleanup(i) \/ CopyState(i) \/ Poke(i) PROVE StateInv'
  <2>1. pool' = pool /\ calls' = calls /\ agent' = agent
    BY <1>4 DEF Apply, Cleanup, CopyState, Poke, Begin
  <2>2. \A j \in Ops : op[j].stage = "queue" => op'[j].stage = "queue"
    BY <1>4 DEF Apply, Cleanup, CopyState, Poke, Begin, TypeOK
  <2>3. Pending => Pending'
    BY <2>2 DEF Pending
  <2> QED
    BY <2>1, <2>3 DEF CarriesNewest, StateComes, Linked, Online
<1>5. ASSUME NEW i \in Ops, SetState(i) PROVE StateInv'
  <2>1. calls' = {}
    BY <1>5 DEF SetState
  <2>2. Pending'
    BY <1>5 DEF SetState, Become, Pending, TypeOK
  <2> QED
    BY <2>1, <2>2 DEF CarriesNewest, StateComes
<1>6. ASSUME NEW i \in Ops, Queue(i) PROVE StateInv'
  <2> DEFINE p == [conn |-> pool.client, by |-> i, state |-> pool.state, token |-> None, step |-> "sent"]
  <2>1. /\ pool' = pool /\ agent' = agent
        /\ calls' = IF Online THEN calls \cup {p} ELSE calls
    BY <1>6 DEF Queue
  <2>2. CarriesNewest'
    BY <2>1 DEF CarriesNewest
  <2>3. Linked' => p \in calls' /\ p.conn = pool'.client /\ p.step # "saved"
    BY <2>1 DEF Linked, Online
  <2>4. StateComes'
    BY <2>3 DEF StateComes
  <2> QED
    BY <2>2, <2>4
<1>7. CASE Connect
  <2>1. PICK c \in Conns : /\ \A d \in 1 .. c : socket[d].stage = "none" <=> d = c
                           /\ agent' = [agent EXCEPT !.conn = c]
    BY <1>7 DEF Connect
  <2>2. socket[c].stage = "none" /\ pool' = pool /\ calls' = calls /\ agent'.conn = c
    BY <1>7, <2>1 DEF Connect, Conns, TypeOK
  <2>3. pool.client # c
    BY <2>2, <1>n DEF TokenInv, ClientIsServed, Online
  <2> QED
    BY <2>2, <2>3 DEF CarriesNewest, StateComes, Linked
<1>8. CASE (Disconnect \/ AgentRestart) /\ agent.conn # None
  <2>1. pool' = pool /\ calls' \subseteq calls /\ agent'.conn = None
    BY <1>8 DEF Disconnect, AgentRestart, Close, TypeOK
  <2> QED
    BY <2>1 DEF CarriesNewest, StateComes, Linked, Online
<1>9. CASE AgentRestart /\ agent.conn = None
  <2>1. pool' = pool /\ calls' = calls /\ agent'.conn = None
    BY <1>9 DEF AgentRestart, TypeOK
  <2> QED
    BY <2>1 DEF CarriesNewest, StateComes, Linked, Online
<1>10. CASE ControlRestart
  <2>1. pool'.client = None /\ calls' = calls
    BY <1>10 DEF ControlRestart, TypeOK
  <2> QED
    BY <2>1, <1>c, <1>n DEF CarriesNewest, StateComes, Linked, Online
<1>11. ASSUME NEW k \in calls, Handle(k) PROVE StateInv'
  <2>1. /\ pool' = pool /\ agent'.conn = agent.conn /\ Pending' = Pending
        /\ k.conn = agent.conn
    BY <1>11 DEF Handle, Greet, Save, Store, TypeOK, Pending
  <2>2. Linked' = Linked /\ (Linked => k.conn = pool.client /\ k.state = pool.state)
    BY <2>1 DEF Linked, Online, CarriesNewest
  <2>3. CASE Greet(k) \/ Save(k)
    <3>1. PICK g : /\ calls' = (calls \ {k}) \cup {g}
                   /\ g.conn = k.conn /\ g.state = k.state
                   /\ IF Greet(k) THEN g.step = "greeted" ELSE g.step = "saved"
      <4>1. \A step \in {"greeted", "saved"} :
                LET g == [k EXCEPT !.step = step]
                IN g.conn = k.conn /\ g.state = k.state /\ g.step = step
        BY <1>c DEF Calls
      <4>2. Greet(k) => Advance(k, "greeted")
        BY DEF Greet
      <4>3. ~Greet(k) => Advance(k, "saved")
        BY <2>3 DEF Save
      <4> QED
        BY <4>1, <4>2, <4>3 DEF Advance
    <3>2. CarriesNewest'
      BY <2>1, <3>1 DEF CarriesNewest
    <3>3. agent'.state = agent.state
      BY <2>3 DEF Greet, Save, TypeOK
    <3>4. CASE Greet(k)
      <4>1. agent'.saved = agent.saved
        BY <3>4 DEF Greet, TypeOK
      <4> QED
        BY <2>1, <2>2, <3>1, <3>2, <3>3, <3>4, <4>1 DEF StateComes
    <3>5. CASE Save(k)
      <4>1. agent'.saved = k.state
        BY <3>5 DEF Save, TypeOK
      <4> QED
        BY <2>1, <2>2, <3>1, <3>2, <3>3, <4>1 DEF StateComes
    <3> QED
      BY <2>3, <3>4, <3>5
  <2>4. CASE Store(k)
    <3>1. /\ calls' = calls \ {k} /\ k.step = "saved"
          /\ agent'.state = k.state /\ agent'.saved = agent.saved
      BY <2>4 DEF Store, TypeOK
    <3> QED
      BY <2>1, <2>2, <3>1 DEF CarriesNewest, StateComes
  <2> QED
    BY <1>11, <2>3, <2>4 DEF Handle
<1>12. ASSUME NEW k \in calls, Lose(k) PROVE StateInv'
  <2>1. /\ pool' = pool /\ agent' = agent /\ Pending' = Pending
        /\ calls' = calls \ {k} /\ socket[k.conn].stage # "serving"
    BY <1>12 DEF Lose, Pending
  <2>2. Linked => k.conn # pool.client
    BY <2>1 DEF TokenInv, ClientIsServed, Linked
  <2> QED
    BY <2>1, <2>2 DEF CarriesNewest, StateComes, Linked, Online
<1>13. CASE UNCHANGED vars
  BY <1>13 DEF vars, CarriesNewest, StateComes, Linked, Online, Pending
<1> QED
  BY <1>1, <1>2, <1>3, <1>4, <1>5, <1>6, <1>7, <1>8, <1>9, <1>10, <1>11, <1>12, <1>13
     DEF Next, Accept, Disconnect

\* Where states are written one at a time and calls are answered in time, an
\* agent and a pool that have nothing left to tell each other agree.
THEOREM CalmIsSynced ==
    ASSUME SyncAssumption, ~Overtakes, ~Timeouts PROVE Spec => []Synced
<1>1. Init => TokenInv /\ StateInv
  BY DEF Init, TokenInv, ClientIsServed, CallsAreServed, HelloIsCurrent, GreetsCurrent,
         TokenComes, StateInv, CarriesNewest, StateComes, Linked, Online, Conns, None
<1>2. TypeOK /\ TokenInv /\ StateInv /\ [Next]_vars => (TokenInv /\ StateInv)'
  BY TokenStep, StateStep
<1>3. StateInv => Synced
  BY DEF StateInv, StateComes, Synced, Calm, Pending
<1> QED
  BY <1>1, <1>2, <1>3, SyncTypeCorrect, PTL DEF Spec

\* In the same circumstances, a handler never gives a linked agent a state
\* that is not the pool's.
THEOREM OnlyNewestArrives ==
    ASSUME SyncAssumption, ~Overtakes, ~Timeouts PROVE Spec => NewestOnly
<1>1. Init => TokenInv /\ StateInv
  BY DEF Init, TokenInv, ClientIsServed, CallsAreServed, HelloIsCurrent, GreetsCurrent,
         TokenComes, StateInv, CarriesNewest, StateComes, Linked, Online, Conns, None
<1>2. TypeOK /\ TokenInv /\ StateInv /\ [Next]_vars => (TokenInv /\ StateInv)'
  BY TokenStep, StateStep
<1>3. TypeOK /\ StateInv /\ [Next]_vars
        => [Linked /\ Linked' /\ agent'.state # agent.state => agent'.state = pool.state]_vars
  <2> SUFFICES ASSUME TypeOK, StateInv, Next, Linked, Linked', agent'.state # agent.state
               PROVE  agent'.state = pool.state
    BY DEF vars
  <2>1. ~AgentRestart
    BY DEF AgentRestart, TypeOK, Linked, Online, Close
  <2>2. PICK k \in calls : Store(k) /\ k.conn = agent.conn
    BY <2>1 DEF Next, Accept, Reconnect, NotRecognized, CheckOffline, Refuse, Insert, Notice,
                Apply, Cleanup, CopyState, Poke, Begin, SetState, Queue, Connect, Disconnect,
                ControlRestart, Handle, Greet, Save, Lose, TypeOK
  <2> QED
    BY <2>2 DEF Store, StateInv, CarriesNewest, Linked, TypeOK
<1> QED
  BY <1>1, <1>2, <1>3, SyncTypeCorrect, PTL DEF Spec, NewestOnly
=============================================================================
