--------------------------- MODULE FileTransfers ---------------------------
(***************************************************************************)
(* How an agent gets a file: the FileReconciler (agent/src/reconcile/      *)
(* files.rs) under the reconcilers of the storage version, the genesis     *)
(* block and the binary (storage.rs), the downloads it spawns (api.rs) and *)
(* the monitor that keeps the table of transfers (transfers.rs).  A pass,  *)
(* the downloads and the monitor interleave; they share the file and talk  *)
(* through the channel of transfer updates.                                *)
(*                                                                         *)
(* A content is a number that grows with the time it was published; the    *)
(* number of contents published so far serves as the clock.  Responses     *)
(* carry their length.  The headers of a response and the creation of the  *)
(* file are one step.                                                      *)
(***************************************************************************)
EXTENDS Naturals, Sequences, FiniteSets, Functions

CONSTANTS
    Kinds,      \* "genesis": checked against the server; "binary": against a sum
    Troubles,   \* "offline", "request", "stream", "restart"
    MaxTroubles, MaxChannel, None   \* bounds: troubles and races, waiting updates

VARIABLES
    told,     \* env_info: the version of the storage, and whether its block is native
    served,   \* the content the server answers with (the sum of a binary), or None
    clock,    \* the number of contents published
    kind,
    dir,      \* the agent's version file, or None
    file,     \* the file: its content, whether it is whole, the time of its last write
    tx,       \* the transfer id the reconciler holds, or None
    goal,     \* the sum of the binary that tx was made for, or None
    ok,       \* ok_at: None, or how the file was accepted: "checked", "unchecked"
    pass,     \* the pass that runs
    table,    \* the table of transfers
    channel,  \* updates the monitor has not handled
    loads,    \* the downloads that run
    online, troubles,
    races     \* ghost: passes that started a download, or checked the file, while a
              \* download ran

\* The first three are the control plane's: the actions here leave them alone.
agent == <<kind, dir, file, tx, goal, ok, pass, table, channel, loads, online, troubles,
           races>>

Idle == [step |-> "idle"]
At(s) == pass.step = s
Ends == pass' = Idle
Occurs(t) == /\ t \in Troubles /\ troubles + races < MaxTroubles
             /\ troubles' = troubles + 1

Mixed == 0     \* the content of a file that two contents were written into
Removed == /\ file' = None
           /\ loads' = {[d EXCEPT !.lost = @ \/ d.writing] : d \in loads}

AgentInit ==
    /\ kind \in Kinds
    /\ dir = None /\ file = None /\ tx = None /\ goal = None /\ ok = None
    /\ pass = Idle /\ table = <<>> /\ channel = <<>> /\ loads = {}
    /\ online = TRUE /\ troubles = 0 /\ races = 0

(***************************************************************************)
(* A pass.                                                                 *)
(***************************************************************************)

\* StorageVersionReconciler: another version wipes the directory, with the
\* genesis block in it, and clears the context of the transfers.  A binary
\* lives elsewhere.  Downloads into the wiped file go on, into nothing.
SyncVersion ==
    /\ pass = Idle /\ told # None
    /\ pass' = [step |-> "look"]
    /\ IF dir = told.version THEN UNCHANGED <<dir, file, tx, goal, ok, loads>>
       ELSE /\ dir' = told.version
            /\ tx' = None /\ goal' = None /\ ok' = None
            /\ IF kind = "genesis" THEN Removed ELSE UNCHANGED <<file, loads>>
    /\ UNCHANGED <<kind, table, channel, online, troubles, races>>

Skipped ==
    \/ kind = "genesis" /\ told.native
    \/ ok # None /\ file # None /\ (kind = "binary" => goal = served)

\* What the context remembers of the transfer when a pass is over.
Remembers(id) == tx' = id /\ goal' = IF kind = "binary" /\ id # None THEN served ELSE None

\* next_id: ids are never used again; an id that nothing knows is as good.
Known == DOMAIN table \cup {d.id : d \in loads} \cup {channel[k].id : k \in DOMAIN channel}
NextId == CHOOSE i \in 0 .. Cardinality(Known) : i \notin Known

\* GenesisReconciler and BinaryReconciler skip a file that was accepted and is
\* there; the FileReconciler looks its transfer up and waits for one that is
\* pending or has been interrupted recently.
Look ==
    /\ At("look")
    /\ LET id == IF tx = None THEN NextId ELSE tx
           entry == IF id \in DOMAIN table THEN table[id] ELSE None
       IN IF Skipped THEN Ends /\ UNCHANGED <<tx, goal, ok, table>>
          ELSE /\ ok' = None
               /\ \/ /\ entry \in {"pending", "failed"}
                     /\ Ends /\ Remembers(id) /\ UNCHANGED table
                  \/ /\ entry = "failed long ago"
                     /\ table' = Restrict(table, DOMAIN table \ {id})
                     /\ Ends /\ Remembers(id)
                  \/ /\ entry \in {None, "done"}
                     /\ pass' = [step |-> "judge", id |-> id, complete |-> entry = "done"]
                     /\ UNCHANGED <<tx, goal, table>>
    /\ UNCHANGED <<kind, dir, file, channel, loads, online, troubles, races>>

\* get_file_issues: a sum decides alone; without one a file is taken as it is
\* while there is no connection, and otherwise compared with the headers the
\* server answers to a HEAD request.
Issues ==
    IF file = None THEN TRUE
    ELSE IF kind = "binary" THEN ~file.whole \/ file.content # served
    ELSE online /\ (~file.whole \/ served \notin 0 .. file.at)

Download(id, n) == [id |-> id, n |-> n, writing |-> FALSE, content |-> None, lost |-> FALSE,
                    cut |-> FALSE]

\* Mutant: the file of a completed transfer is not looked at again.
JudgeTrusting ==
    /\ At("judge") /\ Ends
    /\ Remembers(pass.id)
    /\ IF pass.complete \/ ~Issues
       THEN ok' = "checked" /\ UNCHANGED <<loads, races>>
       ELSE /\ loads' = loads \cup {Download(pass.id, 0)} /\ UNCHANGED <<ok, races>>
    /\ UNCHANGED <<kind, dir, file, table, channel, online, troubles>>

\* The table does not have a download before its start was handled: a pass may
\* go on while one runs.
Races == /\ races' = IF \E d \in loads : ~d.lost THEN races + 1 ELSE races
         /\ races' + troubles <= MaxTroubles

\* The rest of FileReconciler::reconcile: a completed transfer whose file is
\* bad or gone is forgotten, a good file accepted, a download started.  When the
\* HEAD request fails, the pass does.
Judge ==
    /\ At("judge") /\ Ends
    /\ \/ /\ kind = "genesis" /\ file # None /\ online /\ Occurs("request")
          /\ UNCHANGED <<file, tx, goal, ok, loads, races>>
       \/ /\ pass.complete /\ Issues
          /\ Removed /\ Remembers(None)
          /\ UNCHANGED <<ok, races, troubles>>
       \/ /\ ~Issues
          /\ ok' = IF kind = "binary" \/ online THEN "checked" ELSE "unchecked"
          /\ Remembers(pass.id)
          /\ IF ok' = "checked" THEN Races ELSE UNCHANGED races
          /\ UNCHANGED <<file, loads, troubles>>
       \/ /\ ~pass.complete /\ Issues
          /\ Remembers(pass.id)
          /\ IF file = None /\ ~online
             THEN UNCHANGED <<loads, races>>
             ELSE /\ Races
                  /\ loads' = loads \cup {Download(pass.id, races')}
          /\ UNCHANGED <<file, ok, troubles>>
    /\ UNCHANGED <<kind, dir, table, channel, online>>

\* A genesis block is checked again after five minutes.
Expire ==
    /\ kind = "genesis" /\ ok # None
    /\ ok' = None
    /\ UNCHANGED <<kind, dir, file, tx, goal, pass, table, channel, loads,
                   online, troubles, races>>

(***************************************************************************)
(* download_file.                                                          *)
(***************************************************************************)

Without(d) == loads' = loads \ {d}
Sends(d, what) == /\ Len(channel) < MaxChannel
                  /\ channel' = Append(channel, [id |-> d.id, what |-> what])
loadFrame == <<kind, dir, tx, goal, ok, pass, table, online, races>>

\* The request fails or is answered with 404: nobody is told.
Refused(d) ==
    /\ ~d.writing /\ Without(d)
    /\ \/ (served = None \/ ~online) /\ UNCHANGED troubles
       \/ Occurs("request")
    /\ UNCHANGED <<loadFrame, file, channel>>

\* The file is created, or truncated under whoever writes it.
Answered(d) ==
    /\ ~d.writing /\ served # None /\ online
    /\ Sends(d, "start")
    /\ file' = [content |-> served, whole |-> FALSE, at |-> clock]
    /\ loads' = {[o EXCEPT !.cut = @ \/ o.writing] : o \in loads \ {d}}
                 \cup {[d EXCEPT !.writing = TRUE, !.content = served]}
    /\ UNCHANGED <<loadFrame, troubles>>

Finished(d) ==
    /\ d.writing /\ Without(d)
    /\ Sends(d, "end")
    /\ file' = IF d.lost THEN file
               ELSE [content |-> IF file.content = d.content THEN d.content ELSE Mixed,
                     whole |-> file.whole \/ ~d.cut, at |-> clock]
    /\ UNCHANGED <<loadFrame, troubles>>

\* Mutant: a stream that breaks off is not reported.
BrokeSilently(d) ==
    /\ d.writing /\ Without(d)
    /\ Occurs("stream")
    /\ UNCHANGED <<loadFrame, file, channel>>

Broke(d) ==
    /\ d.writing /\ Without(d)
    /\ Occurs("stream")
    /\ Sends(d, "interrupted")
    /\ UNCHANGED <<loadFrame, file>>

(***************************************************************************)
(* start_monitor.                                                          *)
(***************************************************************************)

monitorFrame ==
    <<kind, dir, file, tx, goal, ok, pass, loads, online, troubles, races>>

\* A start makes an entry, when there is none; an end changes the one there is.
Monitor ==
    /\ channel # <<>> /\ channel' = Tail(channel)
    /\ LET u == Head(channel)
           entry == CASE u.what = "start" -> "pending"
                      [] u.what = "end" -> "done"
                      [] OTHER -> "failed"
       IN table' = IF u.what = "start" <=> u.id \notin DOMAIN table
                   THEN [i \in DOMAIN table \cup {u.id} |-> IF i = u.id THEN entry ELSE table[i]]
                   ELSE table
    /\ UNCHANGED monitorFrame

\* Ended transfers leave the table after a minute, failed ones after two hours.
Ages(i) ==
    /\ i \in DOMAIN table
    /\ \/ table[i] = "failed" /\ table' = [table EXCEPT ![i] = "failed long ago"]
       \/ table[i] \in {"done", "failed long ago"}
          /\ table' = Restrict(table, DOMAIN table \ {i})
    /\ UNCHANGED <<monitorFrame, channel>>

(***************************************************************************)
(* What else happens.                                                      *)
(***************************************************************************)

Disconnect ==
    /\ online /\ Occurs("offline") /\ online' = FALSE
    /\ UNCHANGED <<kind, dir, file, tx, goal, ok, pass, table, channel, loads,
                   races>>

Connect ==
    /\ ~online /\ online' = TRUE
    /\ UNCHANGED <<kind, dir, file, tx, goal, ok, pass, table, channel, loads,
                   troubles, races>>

\* The agent restarts: the files are all it keeps.
Restart ==
    /\ Occurs("restart")
    /\ tx' = None /\ goal' = None /\ ok' = None /\ pass' = Idle
    /\ table' = <<>> /\ channel' = <<>> /\ loads' = {}
    /\ UNCHANGED <<kind, dir, file, online, races>>

Pass == SyncVersion \/ Look \/ Judge
Responds(d) == Answered(d) \/ Finished(d) \/ Refused(d)

AgentNext ==
    \/ Pass \/ Expire
    \/ \E d \in loads : Responds(d) \/ Broke(d)
    \/ Monitor \/ \E i \in DOMAIN table : Ages(i)
    \/ Disconnect \/ Connect \/ Restart

\* The tasks run, times pass, a connection that is lost comes back: the loop
\* requeues itself, requests and timers end.
AgentFairness ==
    /\ WF_agent(Pass) /\ WF_agent(Expire) /\ WF_agent(Monitor) /\ WF_agent(Connect)
    /\ WF_agent(\E d \in loads : Responds(d))
    /\ WF_agent(\E i \in DOMAIN table : Ages(i))

(***************************************************************************)
(* What correctness means here.                                            *)
(***************************************************************************)

AgentTypeOK ==
    /\ file # None => /\ file = [content |-> file.content, whole |-> file.whole, at |-> file.at]
                      /\ file.content \in Nat /\ file.whole \in BOOLEAN /\ file.at \in 0 .. clock
    /\ tx \in Nat \cup {None} /\ Known \subseteq Nat
    /\ ok \in {None, "checked", "unchecked"}
    /\ \A i \in DOMAIN table : table[i] \in {"pending", "done", "failed", "failed long ago"}
    /\ \A d \in loads : d.lost \/ d.cut => d.writing
    /\ races + troubles <= MaxTroubles

\* A transfer that is pending has a download that runs, or an end that the
\* monitor has yet to handle: no pass waits for a transfer that nobody ends.
PendingIsRunning ==
    \A i \in DOMAIN table : table[i] = "pending" =>
        \/ \E d \in loads : d.id = i /\ d.writing
        \/ \E k \in DOMAIN channel : channel[k].id = i /\ channel[k].what # "start"

\* A file that was checked is whole from then on, and a binary the one that is
\* wanted: nothing goes on writing it.  A download that no pass could see, as the
\* table did not have it, may truncate it again.
CheckedIsWhole ==
    ok = "checked" /\ races = 0 => file = None \/ (file.whole /\ (kind = "binary" => file.content = goal))
=============================================================================
