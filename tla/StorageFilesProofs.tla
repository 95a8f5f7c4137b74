------------------------- MODULE StorageFilesProofs -------------------------
(***************************************************************************)
(* Proofs about the storages and the files of an agent: StorageSound,      *)
(* KeysOfGenesis and TransfersSound are invariants of StorageFiles.        *)
(***************************************************************************)
EXTENDS StorageFiles, Sequences, FiniteSetTheorems, TLAPS

(***************************************************************************)
(* Storages.                                                               *)
(***************************************************************************)

Blocks == [mark : 1 .. wrote, whole : BOOLEAN]
Disks == [dir : BOOLEAN, version : Nat \cup {None}, genesis : Blocks \cup {None},
          committee : Marks, accounts : Marks, binary : {None, "part", "whole"}]
Applies == [step : {"binaries", "directory", "accounts", "insert"}, doc : Docs,
            exists : BOOLEAN, native : BOOLEAN, accounts : Marks]

StorageTyped ==
    /\ wrote \in Nat
    /\ disk \in Disks
    /\ ~disk.dir => disk = NoFiles
    /\ loaded \in Loadeds \cup {None} /\ row \in Loadeds \cup {None}
    /\ apply \in Applies \cup {Idle}
    /\ sound \in BOOLEAN /\ settled \in BOOLEAN
    /\ applies \in 0 .. MaxApplies /\ faults \in 0 .. MaxFaults

\* The files of a directory are those of one generation.
OneGeneration ==
    /\ disk.genesis # None => disk.genesis.whole
    /\ OfGenesis(disk.committee) /\ disk.accounts = disk.committee

\* What holds at each step of an apply: nothing was generated before the
\* directory is made, unless it existed with the version of the document.
Fresh ==
    Running /\ apply.step \in {"binaries", "directory"} /\ ~apply.exists =>
        /\ disk.version = None /\ disk.genesis = None
        /\ disk.committee = None /\ disk.accounts = None
Made == At("accounts") \/ At("insert") => disk.dir
Versioned == At("insert") => disk.version = apply.doc.regen /\ apply.accounts = disk.accounts

\* VersionedIsWhole, of what will have a version too.
WholeSoon ==
    /\ sound
    /\ disk.version # None \/ (Running /\ (apply.exists \/ At("accounts") \/ At("insert")))
    => OneGeneration

\* KeysOfGenesis, and what a restart needs for it.
Settled ==
    settled =>
        /\ apply = Idle /\ row = loaded /\ loaded # None
        /\ sound => /\ loaded.version = disk.version
                    /\ OfGenesis(loaded.committee) /\ loaded.accounts = loaded.committee

StorageInv == StorageTyped /\ Fresh /\ Made /\ Versioned /\ WholeSoon /\ Settled

\* The values of a function over a finite set.
LEMMA FiniteRange ==
    ASSUME NEW S, IsFiniteSet(S), NEW f, DOMAIN f = S, f = [x \in S |-> f[x]]
    PROVE  IsFiniteSet({f[x] : x \in S})
  <1> DEFINE T == {f[x] : x \in S}
  <1>1. f \in Surjection(S, T)
    BY DEF Surjection
  <1> HIDE DEF T
  <1>2. IsFiniteSet(T)
    BY <1>1, FS_Surjection
  <1> QED
    BY <1>2 DEF T

LEMMA StorageInit ==
    ASSUME Init
    PROVE  StorageInv
  <1>1. StorageTyped
    <2>1. wrote \in Nat /\ loaded = None /\ row = None
      BY DEF Init
    <2>2. disk \in Disks
      BY DEF Init, NoFiles, Disks, Marks
    <2>3. applies \in 0 .. MaxApplies /\ faults \in 0 .. MaxFaults
      BY StoragesAssumption DEF Init
    <2> QED
      BY <2>1, <2>2, <2>3 DEF Init, StorageTyped
  <1> QED
    BY <1>1
       DEF Init, StorageInv, Fresh, Made, Versioned, WholeSoon, OneGeneration, Settled, NoFiles,
           Running, At, Idle, OfGenesis

LEMMA PrepareKeeps ==
    ASSUME StorageInv, NEW d \in Docs, Prepare(d)
    PROVE  StorageInv'
  <1>1. PICK exists \in BOOLEAN :
           /\ apply' = [step |-> "binaries", doc |-> d, exists |-> exists, native |-> FALSE, accounts |-> None]
           /\ IF exists THEN disk' = disk /\ disk.dir /\ disk.version = d.regen /\ (sound' = sound)
              ELSE disk' = NoFiles
    BY DEF Prepare, StorageInv, StorageTyped
  <1>2. StorageTyped'
    <2>1. disk' \in Disks'
      BY <1>1 DEF Prepare, StorageInv, StorageTyped, Disks, Blocks, Marks, NoFiles
    <2>2. apply' \in Applies'
      BY <1>1 DEF Prepare, Applies, Marks
    <2>3. ~disk'.dir => disk' = NoFiles
      BY <1>1 DEF Prepare, StorageInv, StorageTyped
    <2>4. applies' \in 0 .. MaxApplies
      BY StoragesAssumption DEF Prepare, StorageInv, StorageTyped
    <2>5. (loaded \in Loadeds \cup {None} /\ row \in Loadeds \cup {None})'
      BY DEF Prepare, StorageInv, StorageTyped, Loadeds, Marks
    <2>6. sound' \in BOOLEAN /\ settled' \in BOOLEAN
      BY DEF Prepare, StorageInv, StorageTyped
    <2> QED
      BY <2>1, <2>2, <2>3, <2>4, <2>5, <2>6 DEF Prepare, StorageInv, StorageTyped
  <1>3. Fresh'
    BY <1>1 DEF Fresh, NoFiles
  <1>4. WholeSoon'
    <2>1. CASE exists
      <3>1. disk.version # None
        BY <1>1, <2>1, StoragesAssumption, NoneAssumption DEF Documents
      <3> QED
        BY <1>1, <2>1, <3>1 DEF StorageInv, WholeSoon, OneGeneration, OfGenesis
    <2>2. CASE ~exists
      BY <1>1, <2>2 DEF WholeSoon, OneGeneration, OfGenesis, NoFiles
    <2> QED
      BY <2>1, <2>2
  <1>5. Made' /\ Versioned' /\ Settled'
    BY <1>1 DEF Prepare, Made, Versioned, Settled, At
  <1> QED
    BY <1>2, <1>3, <1>4, <1>5 DEF StorageInv

LEMMA TornWipeKeeps ==
    ASSUME StorageInv, NEW d \in Docs, TornWipe(d)
    PROVE  StorageInv'
  <1>1. StorageTyped'
    <2>1. disk' \in Disks' /\ disk'.dir
      <3>1. PICK lost \in SUBSET (DOMAIN disk \ {"dir"}) :
               disk' = [f \in DOMAIN disk |-> IF f \in lost THEN None ELSE disk[f]]
        BY DEF TornWipe
      <3>2. DOMAIN disk = {"dir", "version", "genesis", "committee", "accounts", "binary"}
        BY DEF StorageInv, StorageTyped, Disks
      <3>3. disk' = [dir |-> disk'.dir, version |-> disk'.version, genesis |-> disk'.genesis,
                     committee |-> disk'.committee, accounts |-> disk'.accounts, binary |-> disk'.binary]
        BY <3>1, <3>2
      <3>4. /\ disk'.dir = disk.dir
            /\ disk'.version \in {disk.version, None} /\ disk'.genesis \in {disk.genesis, None}
            /\ disk'.committee \in {disk.committee, None} /\ disk'.accounts \in {disk.accounts, None}
            /\ disk'.binary \in {disk.binary, None}
        BY <3>1, <3>2
      <3>5. wrote' = wrote /\ disk.dir
        BY DEF TornWipe
      <3> QED
        BY <3>3, <3>4, <3>5 DEF StorageInv, StorageTyped, Disks, Blocks, Marks
    <2>2. faults' \in 0 .. MaxFaults
      BY StoragesAssumption DEF TornWipe, Occurs, StorageInv, StorageTyped
    <2>3. (loaded \in Loadeds \cup {None} /\ row \in Loadeds \cup {None})'
      BY DEF TornWipe, StorageInv, StorageTyped, Loadeds, Marks
    <2> QED
      BY <2>1, <2>2, <2>3 DEF TornWipe, StorageInv, StorageTyped, Running
  <1>2. apply' = Idle /\ ~sound' /\ ~settled'
    BY DEF TornWipe, Running
  <1> QED
    BY <1>1, <1>2 DEF StorageInv, Fresh, Made, Versioned, WholeSoon, Settled, Running, At, Idle

LEMMA ResolveBinaryKeeps ==
    ASSUME StorageInv, ResolveBinary
    PROVE  StorageInv'
  <1>1. apply \in Applies /\ apply.step = "binaries"
    BY DEF ResolveBinary, At, Idle, StorageInv, StorageTyped
  <1>2. apply' = Idle \/ apply' = [apply EXCEPT !.step = "directory"]
    BY DEF ResolveBinary, UseBinary, DownloadBinary, Goes, Fails
  <1>3. disk' = disk \/ \E b \in {"part", "whole"} : disk' = [disk EXCEPT !.dir = TRUE, !.binary = b]
    BY DEF ResolveBinary, DownloadBinary
  <1>4. UNCHANGED <<loaded, row, wrote, applies, sound, settled>> /\ ~settled
    BY <1>1 DEF ResolveBinary, ghosts, StorageInv, Settled, Idle
  <1>5. StorageTyped'
    <2>1. disk' \in Disks' /\ (~disk'.dir => disk' = NoFiles)
      BY <1>3, <1>4 DEF StorageInv, StorageTyped, Disks, Blocks, Marks
    <2>2. apply' \in (Applies \cup {Idle})'
      BY <1>1, <1>2, <1>4 DEF Applies, Marks
    <2>3. faults' \in 0 .. MaxFaults
      <3>1. faults' = faults \/ (faults < MaxFaults /\ faults' = faults + 1)
        BY DEF ResolveBinary, DownloadBinary, Occurs
      <3> QED
        BY <3>1, StoragesAssumption DEF StorageInv, StorageTyped
    <2>4. (loaded \in Loadeds \cup {None} /\ row \in Loadeds \cup {None})'
      BY <1>4 DEF StorageInv, StorageTyped, Loadeds, Marks
    <2> QED
      BY <2>1, <2>2, <2>3, <2>4, <1>4 DEF StorageInv, StorageTyped
  <1>6. /\ disk'.version = disk.version /\ disk'.genesis = disk.genesis
        /\ disk'.committee = disk.committee /\ disk'.accounts = disk.accounts
    BY <1>3 DEF StorageInv, StorageTyped, Disks
  <1>7. Fresh'
    BY <1>1, <1>2, <1>6 DEF StorageInv, Fresh, Running, Idle, Applies
  <1>8. WholeSoon'
    BY <1>1, <1>2, <1>4, <1>6 DEF StorageInv, WholeSoon, OneGeneration, OfGenesis, Running, Idle, Applies, At
  <1>9. Made' /\ Versioned' /\ Settled'
    BY <1>1, <1>2, <1>4 DEF Made, Versioned, Settled, At, Idle, Applies
  <1> QED
    BY <1>5, <1>7, <1>8, <1>9 DEF StorageInv

LEMMA GenerateKeeps ==
    ASSUME StorageInv, Generate
    PROVE  StorageInv'
  <1>1. apply \in Applies /\ apply.step = "directory" /\ Running
    BY DEF Generate, At, Idle, StorageInv, StorageTyped, Running
  <1>2. /\ UNCHANGED <<loaded, row, applies, settled>> /\ ~settled
        /\ wrote' \in {wrote, wrote + 1} /\ faults' \in 0 .. MaxFaults
    BY <1>1, StoragesAssumption DEF Generate, Occurs, StorageInv, StorageTyped, Settled, Idle
  <1>3. \/ apply' = Idle /\ ~apply.exists
        \/ \E native \in BOOLEAN : apply' = [apply EXCEPT !.step = "accounts", !.native = native]
    BY <1>1 DEF Generate, Goes, Fails, Applies
  <1>4. \/ disk' = [disk EXCEPT !.dir = TRUE] /\ wrote' = wrote
        \/ /\ ~apply.exists /\ wrote' = wrote + 1
           /\ \/ disk' = [disk EXCEPT !.dir = TRUE, !.genesis = Block(wrote', TRUE)]
              \/ disk' = [disk EXCEPT !.dir = TRUE, !.genesis = Block(wrote', TRUE),
                                      !.committee = wrote', !.accounts = wrote']
    BY DEF Generate, StorageInv, StorageTyped, Disks
  <1>5. StorageTyped'
    <2>1. disk' \in Disks' /\ disk'.dir
      <3>1. disk \in Disks'
        BY <1>2 DEF StorageInv, StorageTyped, Disks, Blocks, Marks
      <3>2. wrote' # wrote => wrote' \in Marks' /\ Block(wrote', TRUE) \in Blocks'
        BY <1>2 DEF StorageInv, StorageTyped, Blocks, Block, Marks
      <3>3. wrote' # wrote \/ disk' = [disk EXCEPT !.dir = TRUE]
        BY <1>2, <1>4 DEF StorageInv, StorageTyped
      <3> QED
        BY <3>1, <3>2, <3>3, <1>4 DEF Disks
    <2>2. apply' \in (Applies \cup {Idle})'
      <3>1. apply.accounts \in Marks'
        BY <1>1, <1>2 DEF Applies, Marks, StorageInv, StorageTyped
      <3> QED
        BY <3>1, <1>1, <1>3 DEF Applies
    <2>3. sound' \in BOOLEAN
      BY DEF Generate, StorageInv, StorageTyped
    <2>4. (loaded \in Loadeds \cup {None} /\ row \in Loadeds \cup {None})'
      BY <1>2 DEF StorageInv, StorageTyped, Loadeds, Marks
    <2> QED
      BY <2>1, <2>2, <2>3, <2>4, <1>2 DEF StorageInv, StorageTyped
  <1>6. Fresh' /\ Versioned' /\ Settled'
    <2>1. apply' = Idle \/ apply'.step = "accounts"
      BY <1>1, <1>3 DEF Applies
    <2> QED
      BY <2>1, <1>2 DEF Fresh, Versioned, Settled, At, Idle, Running
  <1>7. Made'
    BY <1>4 DEF Made, StorageInv, StorageTyped, Disks
  <1>8. WholeSoon'
    <2>1. CASE apply.exists /\ sound' = sound
      <3>1. disk' = [disk EXCEPT !.dir = TRUE]
        BY <1>4, <2>1
      <3>2. /\ disk'.genesis = disk.genesis
            /\ disk'.committee = disk.committee /\ disk'.accounts = disk.accounts
        BY <3>1 DEF StorageInv, StorageTyped, Disks
      <3> QED
        BY <3>2, <2>1, <1>1 DEF StorageInv, WholeSoon, OneGeneration, OfGenesis
    <2>2. CASE ~apply.exists
      <3>1. /\ disk.version = None /\ disk.genesis = None
            /\ disk.committee = None /\ disk.accounts = None
        BY <1>1, <2>2 DEF StorageInv, Fresh
      <3>2. \/ disk'.genesis = None /\ disk'.committee = None /\ disk'.accounts = None
            \/ /\ disk'.genesis = Block(wrote', TRUE)
               /\ disk'.committee = disk'.accounts /\ disk'.committee \in {None, wrote'}
        BY <1>4, <3>1 DEF StorageInv, StorageTyped, Disks
      <3>3. Block(wrote', TRUE) # None
        <4>1. wrote' \in Nat
          BY <1>2 DEF StorageInv, StorageTyped
        <4>2. Block(wrote', TRUE) \in [mark : Nat, whole : BOOLEAN]
          BY <4>1 DEF Block
        <4> QED
          BY <4>2, NoneAssumption
      <3> QED
        BY <3>2, <3>3 DEF WholeSoon, OneGeneration, OfGenesis, Block
    <2>3. CASE sound' = FALSE
      BY <2>3 DEF WholeSoon
    <2> QED
      BY <2>1, <2>2, <2>3, <1>1 DEF Generate, Applies
  <1> QED
    BY <1>5, <1>6, <1>7, <1>8 DEF StorageInv

LEMMA WriteVersionKeeps ==
    ASSUME StorageInv, WriteVersion
    PROVE  StorageInv'
  <1>1. apply \in Applies /\ apply.step = "accounts" /\ Running /\ ~settled
    BY DEF WriteVersion, At, Idle, StorageInv, StorageTyped, Running, Settled
  <1>2. /\ disk' = [disk EXCEPT !.version = apply.doc.regen]
        /\ apply' = [apply EXCEPT !.step = "insert", !.accounts = disk.accounts]
        /\ UNCHANGED <<loaded, row, wrote, applies, faults, sound, settled>>
    BY DEF WriteVersion, bounds, ghosts
  <1>3. apply.doc \in Docs /\ apply.doc.regen \in Nat
    BY <1>1, StoragesAssumption DEF Applies, Documents
  <1>4. sound => OneGeneration
    BY <1>1 DEF StorageInv, WholeSoon, At
  <1>5. StorageTyped'
    <2>1. disk' \in Disks' /\ disk'.dir
      BY <1>1, <1>2, <1>3 DEF StorageInv, StorageTyped, Disks, Blocks, Marks, Made, At
    <2>2. apply' \in Applies'
      BY <1>1, <1>2 DEF Applies, Marks, StorageInv, StorageTyped, Disks
    <2>3. (loaded \in Loadeds \cup {None} /\ row \in Loadeds \cup {None})'
      BY <1>2 DEF StorageInv, StorageTyped, Loadeds, Marks
    <2> QED
      BY <2>1, <2>2, <2>3, <1>2 DEF StorageInv, StorageTyped
  <1>6. /\ disk'.genesis = disk.genesis /\ disk'.version = apply.doc.regen
        /\ disk'.committee = disk.committee /\ disk'.accounts = disk.accounts
        /\ disk'.dir = disk.dir
        /\ apply'.step = "insert" /\ apply'.doc = apply.doc /\ apply'.accounts = disk.accounts
    BY <1>1, <1>2 DEF StorageInv, StorageTyped, Disks, Applies
  <1>7. WholeSoon'
    BY <1>2, <1>4, <1>6 DEF WholeSoon, OneGeneration, OfGenesis
  <1>8. Fresh' /\ Made' /\ Versioned' /\ Settled'
    BY <1>1, <1>2, <1>6 DEF StorageInv, Fresh, Made, Versioned, Settled, At
  <1> QED
    BY <1>5, <1>7, <1>8 DEF StorageInv

LEMMA InsertKeeps ==
    ASSUME StorageInv, Insert
    PROVE  StorageInv'
  <1>1. apply \in Applies /\ apply.step = "insert" /\ Running
    BY DEF Insert, At, Idle, StorageInv, StorageTyped, Running
  <1>2. /\ apply' = Idle
        /\ loaded' = [version |-> apply.doc.regen, native |-> apply.native,
                      committee |-> disk.committee, accounts |-> apply.accounts]
        /\ \/ row' = loaded' /\ settled' = TRUE /\ faults' = faults
           \/ row' = row /\ settled' = FALSE /\ faults < MaxFaults /\ faults' = faults + 1
        /\ UNCHANGED <<disk, wrote, applies, sound>>
    BY DEF Insert, Occurs
  <1>3. apply.doc.regen \in Nat /\ apply.doc.regen = disk.version
    BY <1>1, StoragesAssumption DEF StorageInv, Versioned, At, Applies, Documents
  <1>4. loaded' \in Loadeds
    BY <1>1, <1>2, <1>3 DEF Loadeds, Applies, StorageInv, StorageTyped, Disks, Marks
  <1>5. StorageTyped'
    <2>1. disk' \in Disks' /\ (~disk'.dir => disk' = NoFiles)
      BY <1>2 DEF StorageInv, StorageTyped, Disks, Blocks, Marks
    <2>2. (loaded \in Loadeds \cup {None} /\ row \in Loadeds \cup {None})'
      BY <1>2, <1>4 DEF StorageInv, StorageTyped, Loadeds, Marks
    <2>3. faults' \in 0 .. MaxFaults
      BY <1>2, StoragesAssumption DEF StorageInv, StorageTyped
    <2> QED
      BY <2>1, <2>2, <2>3, <1>2 DEF StorageInv, StorageTyped
  <1>6. WholeSoon'
    BY <1>2 DEF StorageInv, WholeSoon, OneGeneration, OfGenesis, At, Idle, Running
  <1>7. Settled'
    <2>1. loaded' # None
      BY <1>4, NoneAssumption DEF Loadeds, Marks, StorageInv, StorageTyped
    <2>2. sound => OneGeneration /\ apply.accounts = disk.accounts
      BY <1>1 DEF StorageInv, WholeSoon, Versioned, At
    <2> QED
      BY <1>2, <1>3, <2>1, <2>2 DEF Settled, OneGeneration, OfGenesis
  <1>8. Fresh' /\ Made' /\ Versioned'
    BY <1>2 DEF Fresh, Made, Versioned, At, Idle, Running
  <1> QED
    BY <1>5, <1>6, <1>7, <1>8 DEF StorageInv

LEMMA KillKeeps ==
    ASSUME StorageInv, Kill
    PROVE  StorageInv'
  <1>1. apply' = Idle /\ loaded' = row /\ UNCHANGED <<row, applies, sound, settled>>
    BY DEF Kill, ghosts
  <1>2. \/ disk' = disk /\ wrote' = wrote
        \/ /\ Running /\ wrote' = wrote
           /\ disk' = [disk EXCEPT !.dir = TRUE, !.binary = "part"]
        \/ /\ Running /\ apply.step = "directory" /\ ~apply.exists
           /\ wrote' \in {wrote, wrote + 1}
           /\ disk' = [disk EXCEPT !.dir = TRUE, !.genesis = Block(wrote + 1, FALSE)]
           /\ disk'.genesis # disk.genesis => wrote' = wrote + 1
           /\ disk'.genesis = disk.genesis => wrote' = wrote
    <2>1. disk \in Disks /\ wrote' = IF disk'.genesis = disk.genesis THEN wrote ELSE wrote + 1
      BY Zenon DEF Kill, StorageInv, StorageTyped
    <2>2. CASE disk' = disk
      BY <2>1, <2>2
    <2>3. CASE At("binaries") /\ disk' = [disk EXCEPT !.dir = TRUE, !.binary = "part"]
      BY <2>1, <2>3 DEF At, Running, Idle, Disks
    <2>4. CASE /\ At("directory") /\ ~apply.exists
               /\ disk' = [disk EXCEPT !.dir = TRUE, !.genesis = Block(wrote + 1, FALSE)]
      <3>1. Running /\ apply.step = "directory"
        BY <2>4 DEF At, Running, Idle
      <3>2. /\ wrote' \in {wrote, wrote + 1}
            /\ disk'.genesis # disk.genesis => wrote' = wrote + 1
            /\ disk'.genesis = disk.genesis => wrote' = wrote
        BY <2>1
      <3> QED
        BY <2>4, <3>1, <3>2, Zenon
    <2>5. \/ disk' = disk
          \/ At("binaries") /\ disk' = [disk EXCEPT !.dir = TRUE, !.binary = "part"]
          \/ /\ At("directory") /\ ~apply.exists
             /\ disk' = [disk EXCEPT !.dir = TRUE, !.genesis = Block(wrote + 1, FALSE)]
      BY Zenon DEF Kill
    <2> QED
      BY <2>2, <2>3, <2>4, <2>5
  <1>3. wrote' \in Nat /\ wrote' >= wrote /\ wrote \in Nat
    BY <1>2 DEF StorageInv, StorageTyped
  <1>4. StorageTyped'
    <2>1. disk' \in Disks'
      <3>1. disk \in Disks'
        BY <1>3 DEF StorageInv, StorageTyped, Disks, Blocks, Marks
      <3>2. wrote' = wrote + 1 => Block(wrote + 1, FALSE) \in Blocks'
        BY <1>3 DEF Blocks, Block
      <3>3. disk'.genesis \in Blocks' \cup {None}
        BY <1>2, <3>1, <3>2 DEF Disks
      <3> QED
        BY <1>2, <3>1, <3>3 DEF Disks
    <2>2. ~disk'.dir => disk' = NoFiles
      BY <1>2 DEF StorageInv, StorageTyped, Disks
    <2>3. (loaded \in Loadeds \cup {None} /\ row \in Loadeds \cup {None})'
      BY <1>1, <1>3 DEF StorageInv, StorageTyped, Loadeds, Marks
    <2>4. faults' \in 0 .. MaxFaults
      BY StoragesAssumption DEF Kill, Occurs, StorageInv, StorageTyped
    <2> QED
      BY <2>1, <2>2, <2>3, <2>4, <1>1, <1>3 DEF StorageInv, StorageTyped
  <1>5. WholeSoon'
    <2>1. CASE /\ disk'.version = disk.version /\ disk'.genesis = disk.genesis
               /\ disk'.committee = disk.committee /\ disk'.accounts = disk.accounts
      BY <2>1, <1>1 DEF StorageInv, WholeSoon, OneGeneration, OfGenesis, At, Idle, Running
    <2>2. CASE Running /\ apply.step = "directory" /\ ~apply.exists /\ disk'.version = disk.version
      BY <2>2, <1>1 DEF StorageInv, WholeSoon, Fresh, At, Idle, Running
    <2> QED
      BY <1>2, <2>1, <2>2 DEF StorageInv, StorageTyped, Disks
  <1>6. Settled'
    BY <1>1, <1>2 DEF StorageInv, Settled, Running, OfGenesis
  <1>7. Fresh' /\ Made' /\ Versioned'
    BY <1>1 DEF Fresh, Made, Versioned, At, Idle, Running
  <1> QED
    BY <1>4, <1>5, <1>6, <1>7 DEF StorageInv

LEMMA StorageStep ==
    ASSUME StorageInv, [Next]_storageVars
    PROVE  StorageInv'
  <1>1. CASE Next
    BY <1>1, PrepareKeeps, TornWipeKeeps, ResolveBinaryKeeps, GenerateKeeps, WriteVersionKeeps,
       InsertKeeps, KillKeeps DEF Next, Steps
  <1>2. CASE UNCHANGED storageVars
    BY <1>2
       DEF storageVars, StorageInv, StorageTyped, Disks, Blocks, Applies, Loadeds, Marks, Fresh, Made,
           Versioned, WholeSoon, OneGeneration, OfGenesis, Settled, Running, At
  <1> QED
    BY <1>1, <1>2

\* The number of generations only grows.
LEMMA ClockGrows ==
    ASSUME StorageInv, [Next]_storageVars
    PROVE  wrote \in Nat /\ wrote' \in Nat /\ wrote' >= wrote
  <1>1. wrote' \in {wrote, wrote + 1}
    BY DEF Next, Steps, Prepare, TornWipe, ResolveBinary, Generate, WriteVersion, Insert, Kill,
           storageVars
  <1> QED
    BY <1>1 DEF StorageInv, StorageTyped

LEMMA StorageHolds ==
    ASSUME StorageInv
    PROVE  StorageSound /\ KeysOfGenesis
  <1>1. StorageTypeOK
    BY DEF StorageInv, StorageTyped, StorageTypeOK, Disks, Blocks, Applies, Running
  <1>2. VersionedIsWhole /\ KeysOfGenesis
    BY DEF StorageInv, WholeSoon, OneGeneration, VersionedIsWhole, Settled, KeysOfGenesis
  <1> QED
    BY <1>1, <1>2 DEF StorageSound

(***************************************************************************)
(* The transfers of the agent.                                             *)
(***************************************************************************)

Told == told \in [version : Nat, native : BOOLEAN] \cup {None}

Files == [content : Nat, whole : BOOLEAN, at : 0 .. wrote]
Loads == [id : Nat, n : Nat, writing : BOOLEAN, content : Nat \cup {None},
          lost : BOOLEAN, cut : BOOLEAN]
Updates == [id : Nat, what : {"start", "end", "interrupted"}]
Entries == {"pending", "done", "failed", "failed long ago"}
Passes == {Idle, [step |-> "look"]} \cup [step : {"judge"}, id : Nat, complete : BOOLEAN]

LoadsTyped ==
    /\ loads \subseteq Loads /\ IsFiniteSet(loads)
    /\ \A d \in loads : d.lost \/ d.cut => d.writing
TableTyped ==
    /\ DOMAIN table \subseteq Nat /\ IsFiniteSet(DOMAIN table)
    /\ \A i \in DOMAIN table : table[i] \in Entries

AgentTyped ==
    /\ file \in Files \cup {None}
    /\ tx \in Nat \cup {None} /\ ok \in {None, "checked", "unchecked"}
    /\ pass \in Passes
    /\ LoadsTyped /\ TableTyped
    /\ channel \in Seq(Updates)
    /\ races \in Nat /\ troubles \in Nat /\ races + troubles <= MaxTroubles

\* A download of id i runs; it has ended, and update k or a later one says so.
Runs(i) == \E d \in loads : d.id = i /\ d.writing
EndIn(i, k) == \E j \in DOMAIN channel : j >= k /\ channel[j].id = i /\ channel[j].what # "start"

\* PendingIsRunning, of the starts that the monitor has yet to handle too.
PendingInv ==
    /\ \A i \in DOMAIN table : table[i] = "pending" => Runs(i) \/ EndIn(i, 1)
    /\ \A k \in DOMAIN channel :
          channel[k].what = "start" => Runs(channel[k].id) \/ EndIn(channel[k].id, k)

\* CheckedIsWhole, and why it stays so: no download that runs has the file.
CheckedInv ==
    /\ A!At("judge") => ok = None
    /\ ok = "checked" /\ races = 0 =>
          /\ \A d \in loads : d.lost
          /\ file = None \/ (file.whole /\ (kind = "binary" => file.content = goal))

\* A download that writes has the file open, unless it was removed under it.
Opened == \A d \in loads : d.writing => d.content \in Nat /\ (d.lost \/ file \in Files)

AgentInv == AgentTyped /\ Opened /\ PendingInv /\ CheckedInv

LEMMA ServedTyped ==
    ASSUME StorageInv, Told
    PROVE  Served \in Nat \cup {None}
  BY DEF StorageInv, StorageTyped, Disks, Blocks, Told, Served, Genesis, Binary

LEMMA AgentStarts ==
    ASSUME A!AgentInit
    PROVE  AgentInv
  <1>1. LoadsTyped /\ TableTyped
    BY FS_EmptySet DEF A!AgentInit, LoadsTyped, TableTyped
  <1>2. AgentTyped
    BY <1>1, TransfersAssumption DEF A!AgentInit, AgentTyped, Passes, A!Idle, Idle
  <1>3. Opened /\ PendingInv /\ CheckedInv
    BY TransfersAssumption DEF A!AgentInit, Opened, PendingInv, CheckedInv, A!Idle, A!At
  <1> QED
    BY <1>2, <1>3 DEF AgentInv

\* The id of a new transfer: there are more numbers than ids that are known.
LEMMA NextIdTyped ==
    ASSUME AgentTyped
    PROVE  A!NextId \in Nat
  <1> DEFINE K == A!Known
             n == A!Cardinality(K)
  <1>1. IsFiniteSet({d.id : d \in loads})
    <2> DEFINE f == [d \in loads |-> d.id]
    <2>1. IsFiniteSet({f[d] : d \in loads})
      BY FiniteRange DEF AgentTyped, LoadsTyped
    <2>2. {f[d] : d \in loads} = {d.id : d \in loads}
      OBVIOUS
    <2> QED
      BY <2>1, <2>2
  <1>2. IsFiniteSet({channel[k].id : k \in DOMAIN channel})
    <2>1. DOMAIN channel = 1 .. Len(channel) /\ Len(channel) \in Nat
      BY DEF AgentTyped
    <2>2. IsFiniteSet(DOMAIN channel)
      BY <2>1, FS_Interval
    <2> DEFINE f == [k \in DOMAIN channel |-> channel[k].id]
    <2>3. IsFiniteSet({f[k] : k \in DOMAIN channel})
      BY <2>2, FiniteRange
    <2>4. {f[k] : k \in DOMAIN channel} = {channel[k].id : k \in DOMAIN channel}
      OBVIOUS
    <2> QED
      BY <2>3, <2>4
  <1>3. IsFiniteSet(K)
    BY <1>1, <1>2, FS_Union DEF A!Known, AgentTyped, TableTyped
  <1>4. n = Cardinality(K) /\ n \in Nat
    BY <1>3, FS_CardinalityType DEF A!Cardinality, Cardinality, A!IsFiniteSet, IsFiniteSet
  <1>5. \E i \in 0 .. n : i \notin K
    <2> SUFFICES ASSUME 0 .. n \subseteq K
                 PROVE  FALSE
      OBVIOUS
    <2>1. Cardinality(0 .. n) <= n
      BY <1>3, <1>4, FS_Subset
    <2>2. Cardinality(0 .. n) = n + 1
      BY <1>4, FS_Interval
    <2> QED
      BY <1>4, <2>1, <2>2
  <1>6. A!NextId \in 0 .. n
    BY <1>5 DEF A!NextId
  <1> QED
    BY <1>4, <1>6

\* What is pending stays so while no download that writes is forgotten.
LEMMA RunsKept ==
    ASSUME PendingInv, UNCHANGED <<table, channel>>,
           \A d \in loads : d.writing => \E e \in loads' : e.id = d.id /\ e.writing
    PROVE  PendingInv'
  <1>1. \A i : Runs(i) => Runs(i)'
    BY DEF Runs
  <1> QED
    BY <1>1 DEF PendingInv, EndIn

\* What the step changes is not in the table, the channel or the downloads.
LEMMA TablesKept ==
    ASSUME AgentTyped, PendingInv, UNCHANGED <<table, channel, loads>>
    PROVE  LoadsTyped' /\ TableTyped' /\ channel' \in Seq(Updates) /\ PendingInv'
  BY DEF AgentTyped, LoadsTyped, TableTyped, PendingInv, Runs, EndIn

\* A step that leaves the file alone, and makes no download write.
LEMMA OpenedKept ==
    ASSUME Opened, UNCHANGED <<file, wrote>>, \A d \in loads' : d.writing => d \in loads
    PROVE  Opened'
  BY DEF Opened, Files

LEMMA RemovedLoads ==
    ASSUME LoadsTyped, Opened, A!Removed
    PROVE  /\ file' = None /\ LoadsTyped' /\ Opened'
           /\ \A d \in loads : d.writing => \E e \in loads' : e.id = d.id /\ e.writing
  <1> DEFINE f == [d \in loads |-> [d EXCEPT !.lost = @ \/ d.writing]]
  <1>1. file' = None /\ loads' = {f[d] : d \in loads}
    BY DEF A!Removed
  <1>2. IsFiniteSet(loads')
    <2>1. DOMAIN f = loads /\ f = [d \in loads |-> f[d]]
      OBVIOUS
    <2> HIDE DEF f
    <2>2. IsFiniteSet({f[d] : d \in loads})
      BY <2>1, FiniteRange DEF LoadsTyped
    <2> QED
      BY <1>1, <2>2
  <1>3. \A d \in loads : /\ f[d] \in Loads /\ f[d].id = d.id /\ f[d].writing = d.writing
                         /\ f[d].lost \/ f[d].cut => f[d].writing
                         /\ f[d].writing => f[d].lost /\ f[d].content \in Nat
    BY DEF LoadsTyped, Loads, Opened
  <1> HIDE DEF f
  <1> QED
    BY <1>1, <1>2, <1>3 DEF LoadsTyped, Opened

LEMMA SyncVersionKeeps ==
    ASSUME AgentInv, UNCHANGED wrote, A!SyncVersion
    PROVE  AgentInv'
  <1>1. pass' = [step |-> "look"] /\ UNCHANGED <<kind, table, channel, races, troubles>>
    BY DEF A!SyncVersion
  <1>2. \/ UNCHANGED <<file, tx, goal, ok, loads>>
        \/ tx' = None /\ ok' = None /\ UNCHANGED <<file, loads>>
        \/ tx' = None /\ ok' = None /\ A!Removed
    BY DEF A!SyncVersion
  <1>3. LoadsTyped' /\ Opened' /\ PendingInv' /\ (file' = file \/ file' = None)
    <2>1. CASE UNCHANGED <<file, loads>>
      BY <1>1, <2>1, TablesKept, OpenedKept DEF AgentInv
    <2>2. CASE A!Removed
      BY <1>1, <2>2, RemovedLoads, RunsKept DEF AgentInv, AgentTyped
    <2> QED
      BY <1>2, <2>1, <2>2
  <1>4. AgentTyped'
    BY <1>1, <1>2, <1>3 DEF AgentInv, AgentTyped, TableTyped, Passes, Files
  <1>5. CheckedInv'
    BY <1>1, <1>2, TransfersAssumption DEF AgentInv, CheckedInv, A!At
  <1> QED
    BY <1>3, <1>4, <1>5 DEF AgentInv

\* An entry of the table is removed.
LEMMA EntryRemoved ==
    ASSUME AgentTyped, PendingInv, UNCHANGED <<channel, loads>>, NEW id,
           table' = A!Restrict(table, DOMAIN table \ {id})
    PROVE  TableTyped' /\ PendingInv'
  <1>1. /\ DOMAIN table' = DOMAIN table \ {id}
        /\ \A i \in DOMAIN table' : table'[i] = table[i]
    BY DEF A!Restrict
  <1>2. TableTyped'
    BY <1>1, FS_Subset DEF AgentTyped, TableTyped
  <1>3. PendingInv'
    BY <1>1 DEF PendingInv, Runs, EndIn
  <1> QED
    BY <1>2, <1>3

LEMMA LookKeeps ==
    ASSUME AgentInv, UNCHANGED wrote, A!Look
    PROVE  AgentInv'
  <1>1. /\ UNCHANGED <<kind, file, channel, loads, races, troubles>>
        /\ \/ pass' = Idle /\ UNCHANGED <<tx, goal, ok, table>>
           \/ /\ ok' = None /\ tx' \in Nat \cup {None}
              /\ pass' \in Passes
              /\ table' = table \/ \E i : table' = A!Restrict(table, DOMAIN table \ {i})
    <2>1. (IF tx = None THEN A!NextId ELSE tx) \in Nat
      BY NextIdTyped DEF AgentInv, AgentTyped
    <2> DEFINE id == IF tx = None THEN A!NextId ELSE tx
    <2> HIDE DEF id
    <2>2. id \in Nat
      BY <2>1 DEF id
    <2>3. CASE A!Skipped
      BY <2>3 DEF A!Look, A!Ends, A!Idle, Idle
    <2>4. CASE ~A!Skipped
      <3>1. /\ ok' = None /\ UNCHANGED <<kind, file, channel, loads, races, troubles>>
            /\ tx' = tx \/ tx' = id
            /\ table' = table \/ \E i : table' = A!Restrict(table, DOMAIN table \ {i})
            /\ pass' = Idle \/ \E b \in BOOLEAN : pass' = [step |-> "judge", id |-> id, complete |-> b]
        BY <2>4 DEF A!Look, A!Ends, A!Idle, Idle, A!Remembers, id
      <3>2. tx' \in Nat \cup {None} /\ pass' \in Passes
        BY <3>1, <2>2 DEF AgentInv, AgentTyped, Passes
      <3> QED
        BY <3>1, <3>2, Zenon
    <2> QED
      BY <2>3, <2>4
  <1>2. TableTyped' /\ PendingInv' /\ Opened'
    <2>0. Opened'
      BY <1>1, OpenedKept DEF AgentInv
    <2>1. CASE table' = table
      BY <1>1, <2>0, <2>1, TablesKept DEF AgentInv
    <2>2. CASE \E i : table' = A!Restrict(table, DOMAIN table \ {i})
      BY <1>1, <2>0, <2>2, EntryRemoved DEF AgentInv
    <2> QED
      BY <1>1, <2>0, <2>1, <2>2
  <1>3. AgentTyped'
    BY <1>1, <1>2 DEF AgentInv, AgentTyped, LoadsTyped, Passes, Files
  <1>4. CheckedInv'
    BY <1>1, TransfersAssumption DEF AgentInv, CheckedInv, A!At, Idle
  <1> QED
    BY <1>2, <1>3, <1>4 DEF AgentInv

LEMMA ExpireKeeps ==
    ASSUME AgentInv, UNCHANGED wrote, A!Expire
    PROVE  AgentInv'
  <1>1. ok' = None /\ UNCHANGED <<kind, file, tx, pass, table, channel, loads, races, troubles>>
    BY DEF A!Expire
  <1>2. AgentTyped' /\ PendingInv' /\ Opened'
    BY <1>1, TablesKept, OpenedKept DEF AgentInv, AgentTyped, Files
  <1>3. CheckedInv'
    BY <1>1, TransfersAssumption DEF CheckedInv
  <1> QED
    BY <1>2, <1>3 DEF AgentInv

\* The downloads and one more.
LEMMA LoadAdded ==
    ASSUME LoadsTyped, NEW id \in Nat, NEW n \in Nat,
           loads' = loads \cup {A!Download(id, n)}
    PROVE  /\ LoadsTyped'
           /\ \A d \in loads : d.writing => \E e \in loads' : e.id = d.id /\ e.writing
  <1>1. A!Download(id, n) \in Loads /\ ~A!Download(id, n).lost /\ ~A!Download(id, n).cut
    BY DEF A!Download, Loads
  <1>2. IsFiniteSet(loads')
    BY FS_AddElement DEF LoadsTyped
  <1> QED
    BY <1>1, <1>2 DEF LoadsTyped

LEMMA JudgeKeeps ==
    ASSUME AgentInv, UNCHANGED wrote, A!Judge
    PROVE  AgentInv'
  <1>1. /\ pass \in [step : {"judge"}, id : Nat, complete : BOOLEAN] /\ ok = None
        /\ pass' = Idle /\ UNCHANGED <<kind, table, channel, online>>
    BY DEF AgentInv, AgentTyped, CheckedInv, Passes, A!Judge, A!At, A!Ends, A!Idle, Idle
  <1>2. /\ pass.id \in Nat /\ pass.id # None
        /\ tx' \in {tx, pass.id, None} => tx' \in Nat \cup {None}
    BY <1>1, NoneAssumption DEF AgentInv, AgentTyped
  <1>3. CASE /\ file' = file /\ loads' = loads /\ ok' = ok /\ tx' \in {tx, pass.id}
             /\ races' = races /\ troubles' \in {troubles, troubles + 1}
             /\ races' + troubles' <= MaxTroubles
    <2>1. AgentTyped' /\ PendingInv' /\ Opened'
      BY <1>1, <1>2, <1>3, TablesKept, OpenedKept DEF AgentInv, AgentTyped, Files, Passes
    <2>2. CheckedInv'
      BY <1>1, <1>3, TransfersAssumption DEF CheckedInv, A!At, Idle
    <2> QED
      BY <2>1, <2>2 DEF AgentInv
  <1>4. CASE A!Removed /\ A!Remembers(None) /\ UNCHANGED <<ok, races, troubles>>
    <2>1. AgentTyped' /\ PendingInv' /\ Opened'
      <3>1. file' = None /\ LoadsTyped' /\ PendingInv' /\ Opened'
        BY <1>1, <1>4, RemovedLoads, RunsKept DEF AgentInv, AgentTyped
      <3> QED
        BY <1>1, <1>4, <3>1 DEF AgentInv, AgentTyped, TableTyped, Passes, A!Remembers
    <2>2. CheckedInv'
      BY <1>1, <1>4, TransfersAssumption DEF CheckedInv, A!At, Idle
    <2> QED
      BY <2>1, <2>2 DEF AgentInv
  <1>5. CASE /\ ~A!Issues /\ ok' = IF kind = "binary" \/ online THEN "checked" ELSE "unchecked"
             /\ A!Remembers(pass.id)
             /\ IF ok' = "checked" THEN A!Races ELSE UNCHANGED races
             /\ UNCHANGED <<file, loads, troubles>>
    <2>1. AgentTyped' /\ PendingInv' /\ Opened'
      <3>1. races' \in Nat /\ races' + troubles' <= MaxTroubles
        BY <1>5, TransfersAssumption DEF A!Races, AgentInv, AgentTyped
      <3> QED
        BY <1>1, <1>2, <1>5, <3>1, TablesKept, OpenedKept DEF AgentInv, AgentTyped, Files, Passes, A!Remembers
    <2>2. CheckedInv'
      <3> SUFFICES ASSUME ok' = "checked", races' = 0
                   PROVE  /\ \A d \in loads : d.lost
                          /\ file.whole /\ (kind = "binary" => file.content = goal')
        BY <1>1, <1>5 DEF CheckedInv, A!At, Idle
      <3>1. \A d \in loads : d.lost
        BY <1>5 DEF A!Races, AgentInv, AgentTyped
      <3>2. file.whole /\ (kind = "binary" => file.content = Served)
        BY <1>5 DEF A!Issues
      <3>3. kind = "binary" => goal' = Served
        BY <1>2, <1>5 DEF A!Remembers
      <3> QED
        BY <3>1, <3>2, <3>3
    <2> QED
      BY <2>1, <2>2 DEF AgentInv
  <1>6. CASE /\ A!Remembers(pass.id) /\ A!Races
             /\ loads' = loads \cup {A!Download(pass.id, races')}
             /\ UNCHANGED <<file, ok, troubles>>
    <2>1. races' \in Nat /\ races' + troubles' <= MaxTroubles
      BY <1>6 DEF A!Races, AgentInv, AgentTyped
    <2>2. LoadsTyped' /\ PendingInv' /\ Opened'
      <3>1. ~A!Download(pass.id, races').writing
        BY DEF A!Download
      <3> QED
        BY <1>1, <1>2, <1>6, <2>1, <3>1, LoadAdded, RunsKept, OpenedKept DEF AgentInv, AgentTyped
    <2>3. AgentTyped'
      BY <1>1, <1>2, <1>6, <2>1, <2>2 DEF AgentInv, AgentTyped, TableTyped, Files, Passes, A!Remembers
    <2>4. CheckedInv'
      BY <1>1, <1>6, TransfersAssumption DEF CheckedInv, A!At, Idle
    <2> QED
      BY <2>2, <2>3, <2>4 DEF AgentInv
  <1> QED
    <2>1. \/ /\ A!Occurs("request") /\ UNCHANGED <<file, tx, ok, loads, races>>
          \/ A!Removed /\ A!Remembers(None) /\ UNCHANGED <<ok, races, troubles>>
          \/ /\ ~A!Issues /\ ok' = IF kind = "binary" \/ online THEN "checked" ELSE "unchecked"
             /\ A!Remembers(pass.id)
             /\ IF ok' = "checked" THEN A!Races ELSE UNCHANGED races
             /\ UNCHANGED <<file, loads, troubles>>
          \/ /\ A!Remembers(pass.id) /\ UNCHANGED <<file, ok, troubles, loads, races>>
          \/ /\ A!Remembers(pass.id) /\ A!Races
             /\ loads' = loads \cup {A!Download(pass.id, races')}
             /\ UNCHANGED <<file, ok, troubles>>
      BY DEF A!Judge
    <2>2. CASE A!Occurs("request") /\ UNCHANGED <<file, tx, ok, loads, races>>
      <3>1. troubles' = troubles + 1 /\ races' + troubles' <= MaxTroubles
        BY <2>2, TransfersAssumption DEF A!Occurs, AgentInv, AgentTyped
      <3> QED
        BY <2>2, <3>1, <1>3
    <2>3. CASE A!Remembers(pass.id) /\ UNCHANGED <<file, ok, troubles, loads, races>>
      BY <2>3, <1>3 DEF A!Remembers, AgentInv, AgentTyped
    <2> QED
      BY <2>1, <2>2, <2>3, <1>4, <1>5, <1>6

(***************************************************************************)
(* The downloads and the monitor.                                          *)
(***************************************************************************)

\* An update is sent: the others stay where they are.
LEMMA UpdateSent ==
    ASSUME AgentTyped, NEW d \in Loads, NEW what \in {"start", "end", "interrupted"},
           A!Sends(d, what)
    PROVE  /\ channel' \in Seq(Updates)
           /\ DOMAIN channel' = DOMAIN channel \cup {Len(channel) + 1}
           /\ \A k \in DOMAIN channel : channel'[k] = channel[k] /\ k \in 1 .. Len(channel)
           /\ channel'[Len(channel) + 1].id = d.id /\ channel'[Len(channel) + 1].what = what
           /\ Len(channel) \in Nat
           /\ \A i, k : EndIn(i, k) => EndIn(i, k)'
  <1> DEFINE u == [id |-> d.id, what |-> what]
  <1>1. channel \in Seq(Updates) /\ u \in Updates /\ channel' = Append(channel, u)
    BY DEF AgentTyped, Loads, Updates, A!Sends
  <1>2. /\ channel' \in Seq(Updates)
        /\ Len(channel) \in Nat /\ DOMAIN channel = 1 .. Len(channel)
        /\ DOMAIN channel' = 1 .. Len(channel) + 1
        /\ \A k \in 1 .. Len(channel) : channel'[k] = channel[k]
        /\ channel'[Len(channel) + 1] = u
    BY <1>1
  <1>3. \A i, k : EndIn(i, k) => EndIn(i, k)'
    BY <1>2 DEF EndIn
  <1> QED
    BY <1>2, <1>3

LEMMA RefusedKeeps ==
    ASSUME AgentInv, UNCHANGED wrote, NEW d \in loads, A!Refused(d)
    PROVE  AgentInv'
  <1>1. /\ ~d.writing /\ loads' = loads \ {d}
        /\ UNCHANGED <<kind, tx, goal, ok, pass, table, races, file, channel>>
    BY DEF A!Refused, A!Without, A!loadFrame
  <1>2. troubles' \in Nat /\ races' + troubles' <= MaxTroubles
    BY <1>1, TransfersAssumption DEF A!Refused, A!Occurs, AgentInv, AgentTyped
  <1>3. LoadsTyped'
    BY <1>1, FS_Subset DEF AgentInv, AgentTyped, LoadsTyped
  <1>4. AgentTyped' /\ PendingInv' /\ Opened'
    BY <1>1, <1>2, <1>3, RunsKept, OpenedKept DEF AgentInv, AgentTyped, TableTyped, Files
  <1>5. CheckedInv'
    BY <1>1 DEF AgentInv, CheckedInv, A!At
  <1> QED
    BY <1>4, <1>5 DEF AgentInv

LEMMA AnsweredKeeps ==
    ASSUME AgentInv, StorageInv, Told, UNCHANGED wrote, NEW d \in loads, A!Answered(d)
    PROVE  AgentInv'
  <1> DEFINE f == [o \in loads \ {d} |-> [o EXCEPT !.cut = @ \/ o.writing]]
             w == [d EXCEPT !.writing = TRUE, !.content = Served]
  <1>1. /\ ~d.writing /\ A!Sends(d, "start") /\ Served # None
        /\ file' = [content |-> Served, whole |-> FALSE, at |-> wrote]
        /\ UNCHANGED <<kind, tx, goal, ok, pass, table, races, troubles>>
    BY DEF A!Answered, A!loadFrame
  <1>2. loads' = {f[o] : o \in loads \ {d}} \cup {w}
    BY DEF A!Answered
  <1>3. Served \in Nat /\ d \in Loads /\ wrote \in Nat
    BY <1>1, ServedTyped DEF AgentInv, AgentTyped, LoadsTyped, StorageInv, StorageTyped
  <1>4. w \in Loads /\ w.id = d.id /\ w.writing /\ w.content = Served
    BY <1>3 DEF Loads
  <1>5. \A o \in loads \ {d} : /\ f[o] \in Loads /\ f[o].id = o.id /\ f[o].writing = o.writing
                               /\ f[o].lost \/ f[o].cut => f[o].writing
                               /\ f[o].content = o.content
    BY DEF AgentInv, AgentTyped, LoadsTyped, Loads
  <1>6. IsFiniteSet({f[o] : o \in loads \ {d}})
    <2>1. DOMAIN f = loads \ {d} /\ f = [o \in loads \ {d} |-> f[o]]
      OBVIOUS
    <2> HIDE DEF f
    <2>2. IsFiniteSet(loads \ {d})
      BY FS_Subset DEF AgentInv, AgentTyped, LoadsTyped
    <2> QED
      BY <2>1, <2>2, FiniteRange
  <1> HIDE DEF f, w
  <1>7. LoadsTyped'
    BY <1>2, <1>4, <1>5, <1>6, FS_AddElement DEF LoadsTyped
  <1>8. (\A i : Runs(i) => Runs(i)') /\ Runs(d.id)'
    BY <1>1, <1>2, <1>4, <1>5 DEF Runs
  <1>9. channel' \in Seq(Updates) /\ PendingInv'
    BY <1>1, <1>3, <1>8, UpdateSent DEF AgentInv, PendingInv
  <1>10. AgentTyped'
    BY <1>1, <1>3, <1>7, <1>9 DEF AgentInv, AgentTyped, TableTyped, Files
  <1>11. CheckedInv'
    BY <1>1 DEF AgentInv, AgentTyped, LoadsTyped, CheckedInv, A!At
  <1>12. Opened'
    <2>1. file' \in Files'
      BY <1>1, <1>3 DEF Files
    <2> QED
      BY <1>2, <1>3, <1>4, <1>5, <2>1 DEF AgentInv, Opened
  <1> QED
    BY <1>9, <1>10, <1>11, <1>12 DEF AgentInv

\* A download that writes ends, and says so.
LEMMA EndedKeeps ==
    ASSUME AgentTyped, PendingInv, NEW d \in loads, d.writing,
           NEW what \in {"end", "interrupted"}, A!Without(d), A!Sends(d, what),
           UNCHANGED <<table>>
    PROVE  LoadsTyped' /\ TableTyped' /\ channel' \in Seq(Updates) /\ PendingInv'
  <1>1. loads' = loads \ {d} /\ d \in Loads
    BY DEF A!Without, AgentTyped, LoadsTyped
  <1>2. LoadsTyped' /\ TableTyped'
    BY <1>1, FS_Subset DEF AgentTyped, LoadsTyped, TableTyped
  <1>3. \A k \in DOMAIN channel \cup {1} : EndIn(d.id, k)'
    BY <1>1, UpdateSent DEF EndIn
  <1>4. \A i : Runs(i) => Runs(i)' \/ i = d.id
    BY <1>1 DEF Runs
  <1>5. PendingInv'
    <2>1. \A i \in DOMAIN table' : table'[i] = "pending" => Runs(i)' \/ EndIn(i, 1)'
      BY <1>1, <1>3, <1>4, UpdateSent DEF PendingInv
    <2>2. (\A k \in DOMAIN channel :
              channel[k].what = "start" => Runs(channel[k].id) \/ EndIn(channel[k].id, k))'
      BY <1>1, <1>3, <1>4, UpdateSent DEF PendingInv
    <2> QED
      BY <2>1, <2>2 DEF PendingInv
  <1> QED
    BY <1>1, <1>2, <1>5, UpdateSent

LEMMA FinishedKeeps ==
    ASSUME AgentInv, UNCHANGED wrote, wrote \in Nat, NEW d \in loads, A!Finished(d)
    PROVE  AgentInv'
  <1>1. /\ d.writing /\ A!Without(d) /\ A!Sends(d, "end")
        /\ UNCHANGED <<kind, tx, goal, ok, pass, table, races, troubles>>
    BY DEF A!Finished, A!loadFrame
  <1>2. LoadsTyped' /\ TableTyped' /\ channel' \in Seq(Updates) /\ PendingInv'
    BY <1>1, EndedKeeps DEF AgentInv
  <1>3. file' = file \/ file' \in Files
    <2> SUFFICES ASSUME ~d.lost
                 PROVE  file' \in Files
      BY DEF A!Finished
    <2>1. file \in Files /\ d.content \in Nat /\ d.cut \in BOOLEAN
      BY <1>1 DEF AgentInv, AgentTyped, LoadsTyped, Loads, Opened
    <2> QED
      BY <2>1 DEF A!Finished, A!Mixed, Files
  <1>4. Opened'
    BY <1>1, <1>3 DEF AgentInv, Opened, Files, A!Without
  <1>5. AgentTyped'
    BY <1>1, <1>2, <1>3 DEF AgentInv, AgentTyped, Files
  <1>6. CheckedInv'
    BY <1>1 DEF AgentInv, CheckedInv, A!At, A!Finished, A!Without
  <1> QED
    BY <1>2, <1>4, <1>5, <1>6 DEF AgentInv

LEMMA BrokeKeeps ==
    ASSUME AgentInv, UNCHANGED wrote, NEW d \in loads, A!Broke(d)
    PROVE  AgentInv'
  <1>1. /\ d.writing /\ A!Without(d) /\ A!Sends(d, "interrupted")
        /\ UNCHANGED <<kind, tx, goal, ok, pass, table, races, file>>
    BY DEF A!Broke, A!loadFrame
  <1>2. LoadsTyped' /\ TableTyped' /\ channel' \in Seq(Updates) /\ PendingInv'
    BY <1>1, EndedKeeps DEF AgentInv
  <1>3. troubles' \in Nat /\ races' + troubles' <= MaxTroubles
    BY <1>1, TransfersAssumption DEF A!Broke, A!Occurs, AgentInv, AgentTyped
  <1>4. AgentTyped'
    BY <1>1, <1>2, <1>3 DEF AgentInv, AgentTyped, Files
  <1>5. CheckedInv' /\ Opened'
    BY <1>1, OpenedKept DEF AgentInv, CheckedInv, A!At, A!Without
  <1> QED
    BY <1>2, <1>4, <1>5 DEF AgentInv

LEMMA MonitorKeeps ==
    ASSUME AgentInv, UNCHANGED wrote, A!Monitor
    PROVE  AgentInv'
  <1> DEFINE u == Head(channel)
             entry == CASE u.what = "start" -> "pending"
                        [] u.what = "end" -> "done"
                        [] OTHER -> "failed"
             changes == u.what = "start" <=> u.id \notin DOMAIN table
  <1>1. /\ channel # <<>> /\ channel' = Tail(channel)
        /\ table' = IF changes
                    THEN [i \in DOMAIN table \cup {u.id} |-> IF i = u.id THEN entry ELSE table[i]]
                    ELSE table
        /\ UNCHANGED <<kind, file, tx, goal, ok, pass, loads, troubles, races>>
    BY DEF A!Monitor, A!monitorFrame
  <1>2. /\ Len(channel) \in Nat \ {0} /\ DOMAIN channel = 1 .. Len(channel)
        /\ channel' \in Seq(Updates) /\ DOMAIN channel' = 1 .. Len(channel) - 1
        /\ \A k \in DOMAIN channel' : channel'[k] = channel[k + 1]
        /\ u = channel[1] /\ u \in Updates
    BY <1>1 DEF AgentInv, AgentTyped
  <1>3. entry \in Entries /\ (entry = "pending" <=> u.what = "start")
    BY <1>2 DEF Entries, Updates
  <1> HIDE DEF entry, u
  <1>4. TableTyped'
    <2>1. IsFiniteSet(DOMAIN table \cup {u.id}) /\ DOMAIN table \cup {u.id} \subseteq Nat
      BY <1>2, FS_AddElement DEF AgentInv, AgentTyped, TableTyped, Updates
    <2> QED
      BY <1>1, <1>3, <2>1 DEF AgentInv, AgentTyped, TableTyped
  <1>5. \A i : Runs(i) => Runs(i)'
    BY <1>1 DEF Runs
  <1>6. \A i, k : EndIn(i, k) /\ k \in Nat /\ k > 1 => EndIn(i, k - 1)'
    <2> SUFFICES ASSUME NEW i, NEW k \in Nat, EndIn(i, k), k > 1
                 PROVE  EndIn(i, k - 1)'
      OBVIOUS
    <2>1. PICK j \in DOMAIN channel : j >= k /\ channel[j].id = i /\ channel[j].what # "start"
      BY DEF EndIn
    <2>2. j - 1 \in DOMAIN channel' /\ channel'[j - 1] = channel[j] /\ j - 1 >= k - 1
      BY <1>2, <2>1
    <2> QED
      BY <2>1, <2>2 DEF EndIn
  <1>7. \A i : EndIn(i, 1) => EndIn(i, 1)' \/ (u.id = i /\ u.what # "start")
    <2> SUFFICES ASSUME NEW i, EndIn(i, 1), ~(u.id = i /\ u.what # "start")
                 PROVE  EndIn(i, 1)'
      OBVIOUS
    <2>1. EndIn(i, 2)
      BY <1>2 DEF EndIn
    <2> QED
      BY <1>6, <2>1
  <1>8. ASSUME NEW i \in DOMAIN table', table'[i] = "pending"
        PROVE  Runs(i)' \/ EndIn(i, 1)'
    <2>1. CASE i \in DOMAIN table /\ table[i] = "pending"
      <3>1. i = u.id => u.what = "start"
        BY <1>1, <1>3, <1>8, <2>1
      <3> QED
        BY <2>1, <3>1, <1>5, <1>7 DEF AgentInv, PendingInv
    <2>2. CASE i = u.id /\ u.what = "start"
      <3>1. Runs(i) \/ EndIn(i, 1)
        BY <1>2, <2>2 DEF AgentInv, PendingInv
      <3> QED
        BY <2>2, <3>1, <1>5, <1>7
    <2> QED
      BY <1>1, <1>3, <1>8, <2>1, <2>2
  <1>9. (\A k \in DOMAIN channel :
            channel[k].what = "start" => Runs(channel[k].id) \/ EndIn(channel[k].id, k))'
    <2> SUFFICES ASSUME NEW k \in DOMAIN channel', channel'[k].what = "start"
                 PROVE  (Runs(channel[k].id) \/ EndIn(channel[k].id, k))'
      OBVIOUS
    <2>1. k + 1 \in DOMAIN channel /\ channel'[k] = channel[k + 1] /\ k \in Nat
      BY <1>2
    <2>2. PICK i : i = channel[k + 1].id
      OBVIOUS
    <2>3. Runs(i) \/ EndIn(i, k + 1)
      BY <2>1, <2>2 DEF AgentInv, PendingInv
    <2>4. Runs(i)' \/ EndIn(i, k)'
      BY <2>1, <2>3, <1>2, <1>5, <1>6
    <2> QED
      BY <2>1, <2>2, <2>4
  <1>10. PendingInv'
    BY <1>8, <1>9 DEF PendingInv
  <1>11. AgentTyped' /\ Opened' /\ CheckedInv'
    BY <1>1, <1>2, <1>4, OpenedKept
       DEF AgentInv, AgentTyped, LoadsTyped, Files, CheckedInv, A!At
  <1> QED
    BY <1>10, <1>11 DEF AgentInv

LEMMA AgesKeeps ==
    ASSUME AgentInv, UNCHANGED wrote, NEW i, A!Ages(i)
    PROVE  AgentInv'
  <1>1. UNCHANGED <<kind, file, tx, goal, ok, pass, loads, troubles, races, channel>>
    BY DEF A!Ages, A!monitorFrame
  <1>2. TableTyped' /\ PendingInv'
    <2>1. CASE table' = [table EXCEPT ![i] = "failed long ago"]
      BY <1>1, <2>1 DEF AgentInv, AgentTyped, TableTyped, Entries, PendingInv, Runs, EndIn
    <2>2. CASE table' = A!Restrict(table, DOMAIN table \ {i})
      BY <1>1, <2>2, EntryRemoved DEF AgentInv
    <2> QED
      BY <2>1, <2>2 DEF A!Ages
  <1>3. AgentTyped' /\ Opened' /\ CheckedInv'
    BY <1>1, <1>2, OpenedKept DEF AgentInv, AgentTyped, LoadsTyped, Files, CheckedInv, A!At
  <1> QED
    BY <1>2, <1>3 DEF AgentInv

(***************************************************************************)
(* Connections, restarts, and the whole step.                              *)
(***************************************************************************)

LEMMA ConnectionKeeps ==
    ASSUME AgentInv, UNCHANGED wrote, A!Disconnect \/ A!Connect
    PROVE  AgentInv'
  <1>1. UNCHANGED <<kind, file, tx, goal, ok, pass, table, channel, loads, races>>
    BY DEF A!Disconnect, A!Connect
  <1>2. troubles' \in Nat /\ races' + troubles' <= MaxTroubles
    BY <1>1, TransfersAssumption DEF A!Disconnect, A!Connect, A!Occurs, AgentInv, AgentTyped
  <1>3. AgentTyped' /\ PendingInv' /\ Opened' /\ CheckedInv'
    BY <1>1, <1>2, TablesKept, OpenedKept DEF AgentInv, AgentTyped, Files, CheckedInv, A!At
  <1> QED
    BY <1>3 DEF AgentInv

LEMMA RestartKeeps ==
    ASSUME AgentInv, UNCHANGED wrote, A!Restart
    PROVE  AgentInv'
  <1>1. /\ tx' = None /\ ok' = None /\ pass' = Idle /\ table' = <<>> /\ channel' = <<>> /\ loads' = {}
        /\ UNCHANGED <<kind, file, races>>
    BY DEF A!Restart, A!Idle, Idle
  <1>2. troubles' \in Nat /\ races' + troubles' <= MaxTroubles
    BY <1>1, TransfersAssumption DEF A!Restart, A!Occurs, AgentInv, AgentTyped
  <1>3. LoadsTyped' /\ TableTyped'
    BY <1>1, FS_EmptySet DEF LoadsTyped, TableTyped
  <1>4. AgentTyped'
    BY <1>1, <1>2, <1>3 DEF AgentInv, AgentTyped, Files, Passes
  <1>5. PendingInv' /\ Opened' /\ CheckedInv'
    BY <1>1, TransfersAssumption DEF PendingInv, Opened, CheckedInv, A!At, Idle
  <1> QED
    BY <1>4, <1>5 DEF AgentInv

LEMMA AgentStep ==
    ASSUME AgentInv, StorageInv, Told, UNCHANGED wrote, A!AgentNext
    PROVE  AgentInv'
  <1>1. wrote \in Nat
    BY DEF StorageInv, StorageTyped
  <1> QED
    BY <1>1, SyncVersionKeeps, LookKeeps, JudgeKeeps, ExpireKeeps, AnsweredKeeps, FinishedKeeps,
       RefusedKeeps, BrokeKeeps, MonitorKeeps, AgesKeeps, ConnectionKeeps, RestartKeeps
       DEF A!AgentNext, A!Pass, A!Responds

\* What the control plane does leaves the files of the agent alone.
LEMMA AgentKept ==
    ASSUME AgentInv, UNCHANGED agentVars, wrote \in Nat, wrote' \in Nat, wrote' >= wrote
    PROVE  AgentInv'
  <1>1. UNCHANGED <<kind, file, tx, goal, ok, pass, table, channel, loads, troubles, races>>
    BY DEF agentVars
  <1>2. Files \subseteq Files'
    BY DEF Files
  <1>3. AgentTyped' /\ PendingInv' /\ Opened' /\ CheckedInv'
    BY <1>1, <1>2, TablesKept DEF AgentInv, AgentTyped, Opened, CheckedInv, A!At
  <1> QED
    BY <1>3 DEF AgentInv

Inv == StorageInv /\ Told /\ AgentInv

LEMMA InvInit ==
    ASSUME InitAll
    PROVE  Inv
  BY StorageInit, AgentStarts DEF InitAll, Inv, Told

LEMMA InvStep ==
    ASSUME Inv, [NextAll]_composedVars
    PROVE  Inv'
  <1>1. CASE [Next]_storageVars /\ UNCHANGED <<told, agentVars>>
    BY <1>1, StorageStep, ClockGrows, AgentKept DEF Inv, Told
  <1>2. CASE Tell
    <2>1. StorageInv' /\ AgentInv'
      BY <1>2, StorageStep, ClockGrows, AgentKept DEF Tell, Inv
    <2>2. Told'
      BY <1>2 DEF Tell, Told, Inv, StorageInv, StorageTyped, Loadeds
    <2> QED
      BY <2>1, <2>2 DEF Inv
  <1>3. CASE A!AgentNext /\ UNCHANGED <<storageVars, told>>
    <2>1. StorageInv' /\ wrote' = wrote
      BY <1>3, StorageStep DEF Inv, storageVars
    <2> QED
      BY <1>3, <2>1, AgentStep DEF Inv, Told
  <1> QED
    BY <1>1, <1>2, <1>3 DEF NextAll, composedVars

LEMMA AgentHolds ==
    ASSUME Inv
    PROVE  TransfersSound
  <1>1. TransfersTypeOK
    <2>1. A!Known \subseteq Nat
      <3>1. \A k \in DOMAIN channel : channel[k] \in Updates
        BY DEF Inv, AgentInv, AgentTyped
      <3> QED
        BY <3>1 DEF A!Known, Inv, AgentInv, AgentTyped, LoadsTyped, Loads, TableTyped, Updates
    <2> QED
      BY <2>1 DEF TransfersTypeOK, A!AgentTypeOK, Inv, AgentInv, AgentTyped, LoadsTyped, TableTyped,
                  Entries, Files
  <1>2. PendingIsRunning /\ CheckedIsWhole
    BY DEF Inv, AgentInv, PendingInv, Runs, EndIn, CheckedInv, PendingIsRunning, CheckedIsWhole,
           A!PendingIsRunning, A!CheckedIsWhole
  <1> QED
    BY <1>1, <1>2 DEF TransfersSound

LEMMA InvHolds == Spec => []Inv
  <1>1. InitAll => Inv
    BY InvInit
  <1>2. Inv /\ [NextAll]_composedVars => Inv'
    BY InvStep
  <1> QED
    BY <1>1, <1>2, PTL DEF Spec

\* A directory that has a version holds the files of one generation, whatever
\* fails or is killed on the way there (Document::prepare).
THEOREM DirectoriesAreWhole == Spec => []StorageSound
  <1>1. Inv => StorageSound
    BY StorageHolds DEF Inv
  <1> QED
    BY <1>1, InvHolds, PTL

\* The keys that sign after an apply has succeeded are those of the genesis
\* block that is served, and a restart of the control plane keeps them.
THEOREM KeysAreOfGenesis == Spec => []KeysOfGenesis
  <1>1. Inv => KeysOfGenesis
    BY StorageHolds DEF Inv
  <1> QED
    BY <1>1, InvHolds, PTL

\* No pass waits for a transfer that nobody ends; a file that was checked stays
\* whole while no pass has raced a download.
THEOREM CheckedFilesAreWhole == Spec => []TransfersSound
  <1>1. Inv => TransfersSound
    BY AgentHolds
  <1> QED
    BY <1>1, InvHolds, PTL
=============================================================================
