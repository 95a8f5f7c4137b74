------------------------------ MODULE Checkpoints ------------------------------
(***************************************************************************)
(* The checkpoints of one ledger.  The node of an agent watches its own    *)
(* ledger, writes a checkpoint when the retention policy says that one is  *)
(* due and deletes those it rejects (CheckpointManager::poll).  While the  *)
(* node is off the agent may apply a checkpoint ("ledger checkpoint        *)
(* apply"), clean the incompatible ones away, create one by hand, or wipe  *)
(* the ledger; the checkpoint files stay, they lie beside the ledger.      *)
(* Every process may be killed between any two steps.                      *)
(*                                                                         *)
(* A block is its timestamp, its hash the sequence of blocks up to it.     *)
(***************************************************************************)
EXTENDS Retention

CONSTANTS
    PolicySet,     \* the policies the storage may have been given
    MaxHeight,     \* bound on the height of the ledger
    MaxTime,       \* bound on the timestamp of a block
    MaxKills,      \* bound on the processes killed
    MaxWipes,      \* bound on the ledgers wiped
    MaxTools       \* bound on the commands run while the node is off

ASSUME BoundsAssumption ==
    /\ MaxHeight \in Nat \ {0}
    /\ MaxTime \in Nat \ {0}
    /\ MaxKills \in Nat
    /\ MaxWipes \in Nat
    /\ MaxTools \in Nat

\* A span that is not unlimited counts from one: the code has NonZeroU8.
ASSUME PolicyAssumption == PolicySet \subseteq Policies

VARIABLES
    policy,   \* the retention policy of the storage
    ledger,   \* what the stores of the ledger hold
    files,    \* height -> the file <height>.checkpoint, or NoFile
    manager,  \* the headers CheckpointManager holds in the node's memory
    node,     \* the node process: where its loop is and what it has read
    tool,     \* the command that runs on the ledger while the node is off
    budget    \* kills, wipes and commands left

vars == <<policy, ledger, files, manager, node, tool, budget>>

Heights == 1..MaxHeight
NoFile == [state |-> "none"]
Torn == <<0>>     \* mappings that are those of no block

\* A file whose write was cut off before the end of its header, or after it.
File(state, header, content) ==
    [state |-> state, time |-> header.time, height |-> header.height,
     hash |-> header.hash, content |-> content]

Hash(chain, h) == SubSeq(chain, 1, h)

(* The stores of a ledger: the blocks by height, the transactions and the  *)
(* committee of each block, the finalize mappings (named by the chain they *)
(* are the state of) and the current round, named by the block it is of.   *)
Ledger(chain, maps) ==
    [chain |-> chain, blocks |-> 1..Len(chain), txs |-> 1..Len(chain),
     committees |-> 1..Len(chain), maps |-> maps, round |-> Len(chain)]

Tallest(S) == IF S = {} THEN 0 ELSE Latest(S)
CurrentHeight(l) == Tallest(l.committees)

\* What the ledger library accepts when it opens a ledger: no block missing.
Loads(l) == /\ l.blocks = 1..Tallest(l.blocks)
            /\ l.txs = l.blocks
            /\ l.committees = l.blocks

Running == node.pc # "off"
Idle == node.pc = "off" /\ tool.op = "none"

Off == [pc |-> "off", last |-> 0, header |-> NoFile, content |-> << >>, doomed |-> {}, polled |-> FALSE]
NoTool == [op |-> "none", file |-> NoFile, top |-> 0, result |-> "none"]

Init ==
    /\ policy \in PolicySet
    /\ ledger = Ledger(<< >>, << >>)
    /\ files = [h \in Heights |-> NoFile]
    /\ manager = {}
    /\ node = Off
    /\ tool = NoTool
    /\ budget = [kills |-> MaxKills, wipes |-> MaxWipes, tools |-> MaxTools]

--------------------------------------------------------------------------------
(* CheckpointManager                                                        *)

\* load: the header of every file that has a readable one, by timestamp; of
\* two files of one time the map keeps the one it is given last.
Readable == {h \in Heights : files[h].state \in {"headed", "whole"}}
Entry(f) == [time |-> f.time, height |-> f.height, hash |-> f.hash]
Loaded(m) ==
    LET found == {Entry(files[h]) : h \in Readable}
    IN /\ m \subseteq found
       /\ \A e \in found : Cardinality({x \in m : x.time = e.time}) = 1

\* Mutant: only the height is compared.
IncompatibleByHeight(m, l) == {e \in m : e.height \notin l.blocks}

\* cull_incompatible: taller than the ledger, or of another block.
Incompatible(m, l) ==
    {e \in m : e.height \notin l.blocks \/ Hash(l.chain, e.height) # e.hash}

Times(m) == {e.time : e \in m}

\* is_ready
IsReady(m, time) == m = {} \/ ReadyWithTime(policy, time, Latest(Times(m)))

\* cull_timestamp
Rejected(m, time) == {e \in m : e.time \in Reject(policy, time, Times(m))}

\* nearest_with_height and nearest_with_timestamp
NearestWithHeight(m, h) ==
    {e \in m : e.height <= h /\ \A x \in m : x.height <= h => x.height <= e.height}
NearestWithTimestamp(m, t) ==
    {e \in m : e.time <= t /\ \A x \in m : x.time <= t => x.time <= e.time}

--------------------------------------------------------------------------------
(* The node: Runner::start_inner and the loop it spawns                     *)

(* The manager reads the files, then the ledger is opened; a ledger that   *)
(* does not open ends the process with code 76.                            *)
Start ==
    /\ Idle
    /\ Loads(ledger)
    /\ \E m \in SUBSET {Entry(files[h]) : h \in Readable} : Loaded(m) /\ manager' = m
    /\ node' = [Off EXCEPT !.pc = "started"]
    /\ UNCHANGED <<policy, ledger, files, tool, budget>>

\* cull_incompatible, after the node has begun to add blocks.
Purge ==
    /\ node.pc = "started"
    /\ node' = [node EXCEPT !.pc = "purge", !.doomed = Incompatible(manager, ledger)]
    /\ UNCHANGED <<policy, ledger, files, manager, tool, budget>>

(* One entry leaves the map, and its file the disk.                        *)
Delete ==
    /\ node.pc \in {"purge", "cull"}
    /\ \E e \in node.doomed :
        /\ manager' = manager \ {e}
        /\ files' = [files EXCEPT ![e.height] = NoFile]
        /\ node' = [node EXCEPT !.doomed = @ \ {e}]
    /\ UNCHANGED <<policy, ledger, tool, budget>>

\* The loop begins at the height the ledger has by then.
Purged ==
    /\ node.pc = "purge"
    /\ node.doomed = {}
    /\ node' = [node EXCEPT !.pc = "idle", !.last = CurrentHeight(ledger)]
    /\ UNCHANGED <<policy, ledger, files, manager, tool, budget>>

\* The node adds a block at any time, also while the loop polls.
Advance ==
    /\ Running
    /\ Len(ledger.chain) < MaxHeight
    /\ \E t \in 1..MaxTime :
        LET chain == Append(ledger.chain, t)
            maps == IF ledger.maps = ledger.chain THEN chain ELSE Torn
        IN /\ ledger.chain # << >> => t > ledger.chain[Len(ledger.chain)]
           /\ ledger' = Ledger(chain, maps)
    /\ UNCHANGED <<policy, files, manager, node, tool, budget>>

Tick ==
    /\ node.pc = "idle"
    /\ node.last # CurrentHeight(ledger)
    /\ node' = [node EXCEPT !.pc = "header", !.last = CurrentHeight(ledger)]
    /\ UNCHANGED <<policy, ledger, files, manager, tool, budget>>

(* poll: the header is read from the ledger; the checkpoint may be due.    *)
Header(l) ==
    LET h == CurrentHeight(l)
    IN [time |-> l.chain[h], height |-> h, hash |-> Hash(l.chain, h)]

ReadHeader ==
    /\ node.pc = "header"
    /\ LET header == Header(ledger)
       IN IF IsReady(manager, header.time)
          THEN node' = [node EXCEPT !.pc = "content", !.header = header]
          ELSE node' = [node EXCEPT !.pc = "idle", !.polled = TRUE]
    /\ UNCHANGED <<policy, ledger, files, manager, tool, budget>>

\* Checkpoint::new_from_header reads the mappings of the ledger afterwards.
ReadContent ==
    /\ node.pc = "content"
    /\ node' = [node EXCEPT !.pc = "open", !.content = ledger.maps]
    /\ UNCHANGED <<policy, ledger, files, manager, tool, budget>>

\* write_and_insert: the file is truncated, its header written, its content.
OpenFile ==
    /\ node.pc = "open"
    /\ files' = [files EXCEPT ![node.header.height] = File("torn", node.header, << >>)]
    /\ node' = [node EXCEPT !.pc = "write"]
    /\ UNCHANGED <<policy, ledger, manager, tool, budget>>

WriteHeader ==
    /\ node.pc = "write"
    /\ files' = [files EXCEPT ![node.header.height] = File("headed", node.header, << >>)]
    /\ node' = [node EXCEPT !.pc = "insert"]
    /\ UNCHANGED <<policy, ledger, manager, tool, budget>>

WriteAndInsert ==
    /\ node.pc = "insert"
    /\ files' = [files EXCEPT ![node.header.height] = File("whole", node.header, node.content)]
    /\ LET m == {e \in manager : e.time # node.header.time} \cup {node.header}
       IN /\ manager' = m
          /\ node' = [node EXCEPT !.pc = "cull", !.doomed = Rejected(m, node.header.time)]
    /\ UNCHANGED <<policy, ledger, tool, budget>>

Culled ==
    /\ node.pc = "cull"
    /\ node.doomed = {}
    /\ node' = [node EXCEPT !.pc = "idle", !.polled = TRUE, !.header = NoFile, !.content = << >>]
    /\ UNCHANGED <<policy, ledger, files, manager, tool, budget>>

--------------------------------------------------------------------------------
(* Commands on the ledger of a node that is off                             *)

\* find_checkpoint: the agent loads the headers and takes the nearest one.
Found(e) ==
    \E m \in SUBSET {Entry(files[h]) : h \in Readable} :
        /\ Loaded(m)
        /\ \/ \E h \in Heights : e \in NearestWithHeight(m, h)
           \/ \E t \in 1..MaxTime : e \in NearestWithTimestamp(m, t)

(* apply: the file is read whole and checked against the ledger; what the  *)
(* ledger has above the checkpoint is removed, block by block.             *)
Check(l, f) == /\ CurrentHeight(l) > f.height
               /\ f.height \in l.blocks
               /\ Hash(l.chain, f.height) = f.hash

Apply ==
    /\ Idle
    /\ budget.tools > 0
    /\ Loads(ledger)
    /\ \E h \in Readable :
        /\ Found(Entry(files[h]))
        /\ IF files[h].state = "whole" /\ Check(ledger, files[h])
           THEN tool' = [op |-> "remove", file |-> files[h], top |-> CurrentHeight(ledger), result |-> "none"]
           ELSE tool' = [NoTool EXCEPT !.result = "failed"]
    /\ budget' = [budget EXCEPT !.tools = @ - 1]
    /\ UNCHANGED <<policy, ledger, files, manager, node>>

\* Mutant: the block of the checkpoint goes too.
RemovedToo == tool.file.height..tool.top

\* Stores::remove runs for every height above the checkpoint, in parallel.
Removed == (tool.file.height + 1)..tool.top

\* fast_block_remove, up to the transactions of the block.
RemoveBlock(h) ==
    /\ h \in ledger.blocks
    /\ ledger' = [ledger EXCEPT !.blocks = @ \ {h}]

\* The transactions, with their deployments, executions, fees and transitions.
RemoveTransactions(h) ==
    /\ h \in ledger.txs \ ledger.blocks
    /\ ledger' = [ledger EXCEPT !.txs = @ \ {h}]

\* fast_committee_remove: the committee and the rounds of the height.
RemoveCommittee(h) ==
    /\ h \in ledger.committees \ ledger.txs
    /\ ledger' = [ledger EXCEPT !.committees = @ \ {h}]

Remove ==
    /\ tool.op = "remove"
    /\ \E h \in Removed : RemoveBlock(h) \/ RemoveTransactions(h) \/ RemoveCommittee(h)
    /\ UNCHANGED <<policy, files, manager, node, tool, budget>>

\* The mappings are deleted, then those of the checkpoint are written.
DropMappings ==
    /\ tool.op = "remove"
    /\ Removed \cap ledger.committees = {}
    /\ ledger' = [ledger EXCEPT !.maps = Torn]
    /\ tool' = [tool EXCEPT !.op = "mappings"]
    /\ UNCHANGED <<policy, files, manager, node, budget>>

WriteMappings ==
    /\ tool.op = "mappings"
    /\ ledger' = [ledger EXCEPT !.maps = tool.file.content]
    /\ tool' = [tool EXCEPT !.op = "round"]
    /\ UNCHANGED <<policy, files, manager, node, budget>>

(* The round: the first one of the new top block.  No round of the block   *)
(* that was the top before is left, so the search for later rounds ends.   *)
SetRound ==
    /\ tool.op = "round"
    /\ ledger' = [ledger EXCEPT !.chain = Hash(ledger.chain, CurrentHeight(ledger)),
                                !.round = tool.file.height]
    /\ tool' = [tool EXCEPT !.op = "none", !.result = "applied"]
    /\ UNCHANGED <<policy, files, manager, node, budget>>

\* apply --clean and the clean command.
Clean ==
    /\ Idle
    /\ budget.tools > 0
    /\ \E m \in SUBSET {Entry(files[h]) : h \in Readable} :
        /\ Loaded(m)
        /\ files' = [h \in Heights |->
                        IF \E e \in Incompatible(m, ledger) : e.height = h THEN NoFile ELSE files[h]]
    /\ budget' = [budget EXCEPT !.tools = @ - 1]
    /\ tool' = NoTool
    /\ UNCHANGED <<policy, ledger, manager, node>>

\* open_and_checkpoint: the create command, no manager and no policy.
Create ==
    /\ Idle
    /\ budget.tools > 0
    /\ Loads(ledger)
    /\ ledger.chain # << >>
    /\ files' = [files EXCEPT ![CurrentHeight(ledger)] = File("whole", Header(ledger), ledger.maps)]
    /\ budget' = [budget EXCEPT !.tools = @ - 1]
    /\ tool' = NoTool
    /\ UNCHANGED <<policy, ledger, manager, node>>

--------------------------------------------------------------------------------
(* Faults and the agent                                                     *)

\* The ledger directory is removed; the checkpoint files lie beside it.
Wipe ==
    /\ Idle
    /\ budget.wipes > 0
    /\ ledger' = Ledger(<< >>, << >>)
    /\ tool' = NoTool
    /\ budget' = [budget EXCEPT !.wipes = @ - 1]
    /\ UNCHANGED <<policy, files, manager, node>>

KillNode ==
    /\ Running
    /\ budget.kills > 0
    /\ node' = Off
    /\ manager' = {}
    /\ budget' = [budget EXCEPT !.kills = @ - 1]
    /\ UNCHANGED <<policy, ledger, files, tool>>

KillTool ==
    /\ tool.op # "none"
    /\ budget.kills > 0
    /\ tool' = [NoTool EXCEPT !.result = "failed"]
    /\ budget' = [budget EXCEPT !.kills = @ - 1]
    /\ ledger' = [ledger EXCEPT !.chain = Hash(@, Tallest(ledger.blocks \cup ledger.txs \cup ledger.committees))]
    /\ UNCHANGED <<policy, files, manager, node>>

Next ==
    \/ Start \/ Purge \/ Delete \/ Purged
    \/ Advance \/ Tick \/ ReadHeader \/ ReadContent
    \/ OpenFile \/ WriteHeader \/ WriteAndInsert \/ Culled
    \/ Apply \/ Remove \/ DropMappings \/ WriteMappings \/ SetRound
    \/ Clean \/ Create
    \/ Wipe \/ KillNode \/ KillTool

Spec == Init /\ [][Next]_vars

--------------------------------------------------------------------------------
(* Properties                                                               *)

Entries == [time : 1..MaxTime, height : Heights, hash : Seq(1..MaxTime)]

(* The type invariant.                                                      *)
TypeOK ==
    /\ policy \in PolicySet
    /\ ledger.chain \in Seq(1..MaxTime)
    /\ Len(ledger.chain) <= MaxHeight
    /\ ledger.blocks \cup ledger.txs \cup ledger.committees \subseteq 1..Len(ledger.chain)
    /\ \A h \in Heights : files[h] # NoFile => files[h].height = h /\ Entry(files[h]) \in Entries
    /\ manager \subseteq Entries
    /\ node.doomed \subseteq manager
    /\ Running => tool.op = "none"

(* Once the incompatible checkpoints are purged, everything the manager of *)
(* a running node knows is a block of its ledger, and the file it would    *)
(* hand out is the checkpoint of that very block: files of another chain,  *)
(* left by a wiped ledger or a kill, cannot come back under its entries.   *)
Written == node.pc \in {"write", "insert"}
ManagedOnChain ==
    node.pc \in {"idle", "header", "content", "open", "write", "insert", "cull"} =>
        \A e \in manager :
            /\ e.height <= Len(ledger.chain)
            /\ Hash(ledger.chain, e.height) = e.hash
            /\ (Written /\ node.header.height = e.height) \/ files[e.height].state # "torn"
            /\ Entry(files[e.height]) = e

(* ManagedOnChain, and the types.                                           *)
Managed == TypeOK /\ ManagedOnChain

(* After a poll there is a restore point younger than the keep span of the *)
(* first rule, whatever the policy throws away and whatever kills left.    *)
RestorePoint ==
    (node.pc = "idle" /\ node.polled /\ node.last = CurrentHeight(ledger) /\ policy # << >>) =>
        \E e \in manager :
            Bounded(policy[1].keep) =>
                ledger.chain[Len(ledger.chain)] - e.time < AsDelta(policy[1].keep)

(* A policy of one rule never throws away a checkpoint that it promises,   *)
(* and keeps none beside those, except the oldest there is: what leaves    *)
(* the duration does not pile up, however long the node was off.           *)
Left == Times(manager) \ Times(node.doomed)
Promised == KeptBy(policy[1], node.header.time, Times(manager))
PromisedIsKept ==
    (node.pc = "cull" /\ Len(policy) = 1) =>
        Promised \subseteq Left /\ Left \ Promised \subseteq {Earliest(Times(manager))}

(* "For checkpoints created in this duration... keep this many": what is   *)
(* left is what the rule promises (it is not: the oldest stays, too).      *)
KeptAsPromised ==
    (node.pc = "cull" /\ Len(policy) = 1) => Left = Promised

(* An apply that reports success leaves the ledger of the checkpoint in    *)
(* every store, with the mappings of the file and a round of the top       *)
(* block, in whatever order the blocks above it were removed.              *)
RewindExact ==
    [][tool'.result = "applied" /\ tool.result # "applied" =>
        /\ ledger'.chain = tool.file.hash
        /\ Loads(ledger')
        /\ CurrentHeight(ledger') = tool.file.height
        /\ ledger'.maps = tool.file.content
        /\ ledger'.round = tool.file.height]_vars
================================================================================
