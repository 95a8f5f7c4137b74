---------------------------- MODULE StorageFiles ----------------------------
(***************************************************************************)
(* The storages of the control plane and the files of an agent: what       *)
(* Storages writes is what server/content.rs serves and FileTransfers      *)
(* downloads, and the version in the agent's EnvInfo is that of the        *)
(* storage when the agent last asked.                                      *)
(***************************************************************************)
EXTENDS Storages

CONSTANTS Kinds, Troubles, MaxTroubles, MaxChannel

ASSUME TransfersAssumption ==
    /\ Kinds \subseteq {"genesis", "binary"}
    /\ Troubles \subseteq {"offline", "request", "stream", "restart"}
    /\ MaxTroubles \in Nat /\ MaxChannel \in Nat \ {0}
    /\ None # "checked"

VARIABLES told, kind, dir, file, tx, goal, ok, pass, table, channel, loads, online,
          troubles, races

\* serve_file: only the genesis block of a storage that is loaded and not
\* native; serve_binary: the binary of the storage.
Genesis == IF loaded = None \/ disk.genesis = None THEN None
           ELSE IF loaded.native THEN None ELSE disk.genesis.mark
Binary == IF told = None THEN None ELSE told.version
Served == IF kind = "binary" THEN Binary ELSE Genesis

A == INSTANCE FileTransfers WITH served <- Served, clock <- wrote

agentVars == <<kind, dir, file, tx, goal, ok, pass, table, channel, loads, online,
               troubles, races>>
composedVars == <<storageVars, told, agentVars>>

InitAll == Init /\ told = None /\ A!AgentInit

\* The agent fetches the EnvInfo: LoadedStorage::info.
Tell ==
    /\ loaded # None /\ told # [version |-> loaded.version, native |-> loaded.native]
    /\ told' = [version |-> loaded.version, native |-> loaded.native]
    /\ UNCHANGED <<storageVars, agentVars>>

NextAll ==
    \/ Next /\ UNCHANGED <<told, agentVars>>
    \/ Tell
    \/ A!AgentNext /\ UNCHANGED <<storageVars, told>>

Fairness ==
    /\ WF_composedVars(Steps /\ UNCHANGED <<told, agentVars>>) /\ WF_composedVars(Tell)
    /\ A!AgentFairness

Spec == InitAll /\ [][NextAll]_composedVars /\ Fairness

TransfersTypeOK == A!AgentTypeOK
PendingIsRunning == A!PendingIsRunning
CheckedIsWhole == A!CheckedIsWhole
\* The two, and the types.
TransfersSound == TransfersTypeOK /\ PendingIsRunning /\ CheckedIsWhole

\* Whatever is applied, fails, restarts or breaks off on either side, when the
\* last apply has succeeded the agent ends with the file the control plane serves, and finds it good again and
\* again.  A binary that two downloads have raced for is excluded: it is not
\* looked at again once it was accepted.
Spared == ~settled \/ Served = None \/ (told # None /\ told.native)
Right == \/ Spared
         \/ kind = "binary" /\ races > 0
         \/ file # None /\ file.whole /\ file.content = Served
Ready == Spared \/ ok = "checked"
FilesArrive == <>[]Right /\ []<>Ready
=============================================================================
