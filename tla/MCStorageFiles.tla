--------------------------- MODULE MCStorageFiles ---------------------------
(* A behaviour is one of two: storages whose files an agent fetches, two     *)
(* applies of two documents and nothing of the storage fails; or storages    *)
(* alone, where commands fail and the control plane is killed.               *)
EXTENDS StorageFiles

VARIABLE scenario

D(r, g, b) == [regen |-> r, genesis |-> g, binary |-> b]
ServedDocs == {D(1, "made", "none"), D(2, "connect", "none")}
AllDocs == ServedDocs \cup
           {D(1, "made", "url"), D(2, "made", "url with a sum"), D(1, "connect", "none"),
            D(2, "native", "path")}

Serving == scenario = "serving"
Failing == scenario = "failing"

\* The applies of a storage that is served.
Applied == /\ applies' <= 2 /\ faults' = 0
           /\ apply' # Idle => apply'.doc \in ServedDocs

MCInit == /\ InitAll
          /\ \/ Serving
             \/ Failing /\ kind = "genesis"
MCNext == /\ UNCHANGED scenario
          /\ \/ Serving /\ NextAll /\ Applied
             \/ Failing /\ Next /\ UNCHANGED <<told, agentVars>>
MCSpec == MCInit /\ [][MCNext]_<<composedVars, scenario>> /\ Fairness

\* FilesArrive, for an agent that fetches files.
FilesArriveServed == Serving => FilesArrive
=============================================================================
