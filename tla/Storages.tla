------------------------------ MODULE Storages ------------------------------
(***************************************************************************)
(* A storage of the control plane (controlplane/src/schema/storage): a     *)
(* directory whose genesis block, committee and accounts are generated     *)
(* once per version, the LoadedStorage in memory and its row in the        *)
(* database.  Applying a document is a sequence of awaits; each of them    *)
(* may fail, and the control plane may be killed between any two.          *)
(*                                                                         *)
(* What a generation writes is told apart by the number of the generation  *)
(* (keys are random); the number also serves as the time of the write.     *)
(* One apply runs at a time.                                               *)
(***************************************************************************)
EXTENDS Naturals, FiniteSets

CONSTANTS
    Docs,        \* [regen, genesis, binary]: the documents that are applied
    Faults,      \* "kill", "torn", "command", "fetch", "save": what may go wrong
    MaxApplies,  \* bound on applies
    MaxFaults,   \* bound on faults
    None

\* What apply tells apart in a document: the version to regenerate at, where the
\* genesis block comes from, and the source of the default binary.
Documents == [regen : Nat, genesis : {"none", "native", "connect", "made"},
              binary : {"none", "path", "url", "url with a sum"}]

ASSUME StoragesAssumption ==
    /\ Docs \subseteq Documents
    /\ Faults \subseteq {"kill", "torn", "command", "fetch", "save"}
    /\ MaxApplies \in Nat /\ MaxFaults \in Nat

\* None is none of the values it stands in for.
ASSUME NoneAssumption ==
    /\ None \notin Nat /\ None \notin [mark : Nat, whole : BOOLEAN]
    /\ None \notin [version : Nat, native : BOOLEAN, committee : Nat \cup {None},
                    accounts : Nat \cup {None}]

VARIABLES
    disk,     \* the directory of the storage
    loaded,   \* GlobalState.storage: what is served, or None
    row,      \* the PersistStorage of the database, or None
    apply,    \* the apply that runs: its step and its locals
    wrote,    \* the number of generations so far
    applies, faults,
    sound,    \* ghost: no wipe was torn and no command has failed in the directory
    settled   \* ghost: the last apply has succeeded, and its row is saved

storageVars == <<disk, loaded, row, apply, wrote, applies, faults, sound, settled>>
ghosts == <<sound, settled>>
bounds == <<applies, faults>>

NoFiles == [dir |-> FALSE, version |-> None, genesis |-> None, committee |-> None,
            accounts |-> None, binary |-> None]
Block(n, whole) == [mark |-> n, whole |-> whole]

Idle == [step |-> "idle"]
Running == apply # Idle
At(s) == apply.step = s
Goes(s) == apply' = [apply EXCEPT !.step = s]

Occurs(f) == f \in Faults /\ faults < MaxFaults /\ faults' = faults + 1

Init ==
    /\ disk = NoFiles
    /\ loaded = None /\ row = None
    /\ apply = Idle
    /\ wrote = 0 /\ applies = 0 /\ faults = 0
    /\ sound = TRUE /\ settled = FALSE

\* Mutant: an apply does not wipe a directory that has no version.
PrepareKeeping(d) ==
    /\ ~Running /\ applies < MaxApplies
    /\ applies' = applies + 1
    /\ LET stale == disk.dir /\ disk.version \notin {None, d.regen} IN
       /\ disk' = IF stale THEN NoFiles ELSE disk
       /\ sound' = (sound \/ stale)
       /\ apply' = [step |-> "binaries", doc |-> d, exists |-> disk.dir /\ ~stale,
                    native |-> FALSE, accounts |-> None]
    /\ settled' = FALSE
    /\ UNCHANGED <<loaded, row, wrote, faults>>

\* Document::prepare up to the wipe: a directory of another version, or of
\* none, is removed.
Prepare(d) ==
    /\ ~Running /\ applies < MaxApplies
    /\ applies' = applies + 1
    /\ LET stale == disk.dir /\ disk.version # d.regen IN
       /\ disk' = IF stale THEN NoFiles ELSE disk
       /\ sound' = (sound \/ stale \/ ~disk.dir)
       /\ apply' = [step |-> "binaries", doc |-> d, exists |-> disk.dir /\ ~stale,
                    native |-> FALSE, accounts |-> None]
    /\ settled' = FALSE
    /\ UNCHANGED <<loaded, row, wrote, faults>>

\* remove_dir_all fails, or the control plane is killed in the middle of it.
TornWipe(d) ==
    /\ ~Running /\ disk.dir /\ disk.version # d.regen
    /\ Occurs("torn")
    /\ \E lost \in SUBSET (DOMAIN disk \ {"dir"}) :
          disk' = [f \in DOMAIN disk |-> IF f \in lost THEN None ELSE disk[f]]
    /\ sound' = FALSE /\ settled' = FALSE
    /\ loaded' = row
    /\ UNCHANGED <<row, apply, wrote, applies>>

Fails == apply' = Idle

\* resolve_binary_from_map.  A path is used as it is, and so is the file that a
\* url was downloaded to before; it is checked only against the sums of its
\* entry.
UseBinary(b) ==
    \/ /\ \/ b \in {"none", "path"}
          \/ disk.binary = "whole"
          \/ disk.binary = "part" /\ b = "url"
       /\ Goes("directory")
    \/ /\ b = "url with a sum" /\ disk.binary = "part"
       /\ Fails

\* The file of a url is downloaded in place, into the directory that may not
\* have been made yet; a download that fails leaves what it has written.
DownloadBinary(b) ==
    /\ b \in {"url", "url with a sum"} /\ disk.binary = None
    /\ \/ disk' = [disk EXCEPT !.dir = TRUE, !.binary = "whole"]
          /\ Goes("directory") /\ UNCHANGED faults
       \/ disk' = [disk EXCEPT !.dir = TRUE, !.binary = "part"]
          /\ Fails /\ Occurs("fetch")

ResolveBinary ==
    /\ At("binaries")
    /\ \/ UseBinary(apply.doc.binary) /\ UNCHANGED <<disk, faults>>
       \/ DownloadBinary(apply.doc.binary)
    /\ UNCHANGED <<loaded, row, wrote, applies, ghosts>>

\* create_dir_all, then the genesis block of a directory that did not exist.
\* Nothing is written when the command fails, which is only a warning.
Generate ==
    /\ At("directory")
    /\ LET made == wrote + 1
           here == [disk EXCEPT !.dir = TRUE]
           generates == ~apply.exists /\ apply.doc.genesis # "none"
       IN
       \/ /\ ~generates
          /\ disk' = here /\ Goes("accounts") /\ UNCHANGED <<wrote, faults, sound>>
       \/ /\ generates /\ apply.doc.genesis = "native"
          /\ disk' = here /\ apply' = [apply EXCEPT !.step = "accounts", !.native = TRUE]
          /\ UNCHANGED <<wrote, faults, sound>>
       \/ /\ generates /\ apply.doc.genesis = "connect"
          /\ \/ disk' = [here EXCEPT !.genesis = Block(made, TRUE)] /\ wrote' = made
                /\ Goes("accounts") /\ UNCHANGED faults
             \/ disk' = here /\ Fails /\ Occurs("fetch") /\ UNCHANGED wrote
          /\ UNCHANGED sound
       \/ /\ generates /\ apply.doc.genesis = "made"
          /\ \/ /\ disk' = [here EXCEPT !.genesis = Block(made, TRUE),
                                        !.committee = made, !.accounts = made]
                /\ wrote' = made /\ Goes("accounts") /\ UNCHANGED <<faults, sound>>
             \/ /\ Occurs("command")
                /\ disk' = here /\ Goes("accounts") /\ sound' = FALSE /\ UNCHANGED wrote
    /\ UNCHANGED <<loaded, row, applies, settled>>

\* The accounts are read (the files of a document's own accounts are generated
\* when they are missing, which tells nothing more here), the version is written.
WriteVersion ==
    /\ At("accounts")
    /\ disk' = [disk EXCEPT !.version = apply.doc.regen]
    /\ apply' = [apply EXCEPT !.step = "insert", !.accounts = disk.accounts]
    /\ UNCHANGED <<loaded, row, wrote, bounds, ghosts>>

\* Mutant: the row of a storage is saved once, when it is new.
InsertOnce ==
    /\ At("insert")
    /\ loaded' = [version |-> apply.doc.regen, native |-> apply.native,
                  committee |-> disk.committee, accounts |-> apply.accounts]
    /\ row' = IF row = None THEN loaded' ELSE row
    /\ apply' = Idle
    /\ settled' = TRUE
    /\ UNCHANGED <<disk, wrote, bounds, sound>>

\* The committee is read, the row saved (a failure is only logged), the
\* storage inserted.
Insert ==
    /\ At("insert")
    /\ LET s == [version |-> apply.doc.regen, native |-> apply.native,
                 committee |-> disk.committee, accounts |-> apply.accounts]
       IN /\ loaded' = s
          /\ \/ row' = s /\ settled' = TRUE /\ UNCHANGED faults
             \/ Occurs("save") /\ settled' = FALSE /\ UNCHANGED row
    /\ apply' = Idle
    /\ UNCHANGED <<disk, wrote, applies, sound>>

\* The control plane is killed: GlobalState::load takes the rows.  A fetch or
\* a command may have left part of its file.
Kill ==
    /\ Occurs("kill")
    /\ loaded' = row
    /\ apply' = Idle
    /\ disk' \in {disk} \cup
          (IF At("binaries") /\ apply.doc.binary # "none" /\ disk.binary = None
           THEN {[disk EXCEPT !.dir = TRUE, !.binary = "part"]} ELSE {}) \cup
          (IF At("directory") /\ ~apply.exists /\ apply.doc.genesis \in {"made", "connect"}
           THEN {[disk EXCEPT !.dir = TRUE, !.genesis = Block(wrote + 1, FALSE)]} ELSE {})
    /\ wrote' = IF disk'.genesis = disk.genesis THEN wrote ELSE wrote + 1
    /\ UNCHANGED <<row, applies, ghosts>>

Steps == ResolveBinary \/ Generate \/ WriteVersion \/ Insert

Next ==
    \/ \E d \in Docs : Prepare(d) \/ TornWipe(d)
    \/ Steps
    \/ Kill

(***************************************************************************)
(* What correctness means here.                                            *)
(***************************************************************************)

Marks == (1 .. wrote) \cup {None}
Loadeds == [version : Nat, native : BOOLEAN, committee : Marks, accounts : Marks]

StorageTypeOK ==
    /\ disk \in [dir : BOOLEAN, version : Nat \cup {None},
                 genesis : [mark : 1 .. wrote, whole : BOOLEAN] \cup {None},
                 committee : Marks, accounts : Marks, binary : {None, "part", "whole"}]
    /\ ~disk.dir => disk = NoFiles
    /\ loaded \in Loadeds \cup {None} /\ row \in Loadeds \cup {None}
    /\ Running => apply.doc \in Docs /\ apply.accounts \in Marks
    /\ applies \in 0 .. MaxApplies /\ faults \in 0 .. MaxFaults

\* Whether keys belong to the genesis block of the directory: they do when the
\* block was made with them; a downloaded or native block comes without keys.
OfGenesis(keys) == keys = None \/ (disk.genesis # None /\ keys = disk.genesis.mark)

\* A directory that has a version has all that its generation writes, from one
\* generation, whatever failed or was killed on the way there: the version is
\* what a later apply trusts not to generate anything.  Two things break it and
\* are excluded: a wipe that was torn, and a genesis command that failed.
VersionedIsWhole ==
    sound /\ disk.version # None =>
        /\ disk.genesis # None => disk.genesis.whole
        /\ OfGenesis(disk.committee) /\ disk.accounts = disk.committee

\* VersionedIsWhole, and the types.
StorageSound == StorageTypeOK /\ VersionedIsWhole

\* Once an apply has succeeded and until the next one begins, the keys that
\* transactions are signed with are those of the genesis block that the agents
\* download, and the version the agents are told is that of the directory,
\* whatever earlier applies have left behind and whether or not the control
\* plane has restarted since.
KeysOfGenesis ==
    sound /\ settled =>
        /\ loaded # None /\ loaded.version = disk.version
        /\ OfGenesis(loaded.committee) /\ loaded.accounts = loaded.committee
=============================================================================
