--------------------------- MODULE CheckpointsProofs ---------------------------
(***************************************************************************)
(* The rewind of a ledger to a checkpoint, for ledgers and files of any    *)
(* size, blocks removed in any order, and kills between any two steps.     *)
(***************************************************************************)
EXTENDS Checkpoints, FiniteSetTheorems, SequenceTheorems, WellFoundedInduction, TLAPS

(***************************************************************************)
(* Heights.                                                                *)
(***************************************************************************)

\* A set of naturals that is not empty has a least element.
LEMMA LeastExists ==
    ASSUME NEW T, T \subseteq Nat, T # {}
    PROVE  \E x \in T : \A y \in T : x <= y
  <1> DEFINE R == {ss \in Nat \X Nat : ss[1] < ss[2]}
  <1>1. IsWellFoundedOn(R, Nat)
    BY NatLessThanWellFounded, Zenon DEF OpToRel
  <1> HIDE DEF R
  <1>2. PICK x \in T : \A y \in T : ~ (<<y, x>> \in R)
    BY <1>1, WFMin, Zenon
  <1>3. ASSUME NEW y \in T
        PROVE  x <= y
    <2> DEFINE p == <<y, x>>
    <2>1. p \in Nat \X Nat /\ p[1] = y /\ p[2] = x
      OBVIOUS
    <2>2. p \notin R
      BY <1>2
    <2> HIDE DEF p
    <2>3. ~(p[1] < p[2])
      BY <2>1, <2>2 DEF R
    <2> QED
      BY <2>1, <2>3
  <1> QED
    BY <1>3

\* The tallest of heights up to n is one of them.
LEMMA TallestExists ==
    ASSUME NEW n \in Nat, NEW S, S \subseteq 1 .. n
    PROVE  /\ Tallest(S) \in 0 .. n
           /\ S \subseteq 1 .. Tallest(S)
  <1>1. CASE S = {}
    BY <1>1 DEF Tallest
  <1>2. CASE S # {}
    <2> DEFINE T == {n - x : x \in S}
    <2>1. T \subseteq Nat /\ T # {}
      <3>1. \A x \in S : n - x \in Nat
        OBVIOUS
      <3>2. PICK x \in S : TRUE
        BY <1>2
      <3>3. n - x \in T
        BY <3>2
      <3> QED
        BY <3>1, <3>3
    <2>2. PICK m \in T : \A y \in T : m <= y
      <3> HIDE DEF T
      <3> QED
        BY <2>1, LeastExists
    <2>3. PICK t \in S : m = n - t
      BY <2>2
    <2>4. ASSUME NEW u \in S
          PROVE  u <= t
      <3>1. m <= n - u
        BY <2>2
      <3> QED
        BY <2>3, <3>1
    <2>5. Latest(S) \in S /\ \A u \in S : u <= Latest(S)
      BY <2>4 DEF Latest
    <2>6. Tallest(S) = Latest(S)
      BY <1>2 DEF Tallest
    <2>7. \A u \in S : u \in 1 .. n
      OBVIOUS
    <2>8. Tallest(S) \in 1 .. n /\ \A u \in S : u <= Tallest(S)
      BY <2>5, <2>6, <2>7
    <2> DEFINE k == Tallest(S)
    <2> HIDE DEF T, k
    <2>9. k \in 1 .. n /\ \A u \in S : u <= k
      BY <2>8 DEF k
    <2>10. k \in 0 .. n /\ S \subseteq 1 .. k
      BY <2>7, <2>9
    <2> QED
      BY <2>10 DEF k
  <1> QED
    BY <1>1, <1>2

\* The tallest of a whole interval is its end.
LEMMA TallestOfInterval ==
    ASSUME NEW n \in Nat
    PROVE  Tallest(1 .. n) = n
  <1>1. Tallest(1 .. n) \in 0 .. n /\ 1 .. n \subseteq 1 .. Tallest(1 .. n)
    BY TallestExists
  <1> QED
    BY <1>1

(***************************************************************************)
(* The invariant.                                                          *)
(***************************************************************************)

\* The fields of the ledger and of a command.
Fields ==
    /\ ledger = [chain |-> ledger.chain, blocks |-> ledger.blocks, txs |-> ledger.txs,
                 committees |-> ledger.committees, maps |-> ledger.maps,
                 round |-> ledger.round]
    /\ tool = [op |-> tool.op, file |-> tool.file, top |-> tool.top, result |-> tool.result]

\* The stores hold heights of the chain.
HeightsOfChain ==
    /\ ledger.chain \in Seq(1 .. MaxTime)
    /\ ledger.blocks \cup ledger.txs \cup ledger.committees \subseteq 1 .. Len(ledger.chain)

\* A file is named by the height in its header.
FilesNamed ==
    /\ files = [h \in Heights |-> files[h]]
    /\ \A h \in Heights : files[h].state \in {"headed", "whole"} => files[h].height = h

\* A ledger that is rewound to h still has what is below, in every store.
HasUpTo(h) ==
    /\ h \in 1 .. Len(ledger.chain)
    /\ Hash(ledger.chain, h) = tool.file.hash
    /\ 1 .. h \subseteq ledger.blocks
    /\ ledger.blocks \subseteq ledger.txs
    /\ ledger.txs \subseteq ledger.committees

\* Nothing else runs while a ledger is rewound, and the step the tool is at
\* tells what it has done.
Rewinding ==
    /\ tool.op \in {"none", "remove", "mappings", "round"}
    /\ tool.op # "none" => node.pc = "off" /\ HasUpTo(tool.file.height)
    /\ tool.op = "remove" => tool.top \in Nat /\ ledger.committees \subseteq 1 .. tool.top
    /\ tool.op \in {"mappings", "round"} => ledger.committees = 1 .. tool.file.height
    /\ tool.op = "round" => ledger.maps = tool.file.content

RewindInv == Fields /\ HeightsOfChain /\ FilesNamed /\ Rewinding

\* A new ledger has the shape, whatever its chain.
LEMMA LedgerFields ==
    ASSUME NEW chain, NEW maps
    PROVE  /\ Ledger(chain, maps).chain = chain
           /\ Ledger(chain, maps).blocks = 1 .. Len(chain)
           /\ Ledger(chain, maps).txs = 1 .. Len(chain)
           /\ Ledger(chain, maps).committees = 1 .. Len(chain)
           /\ Ledger(chain, maps) =
                [chain |-> Ledger(chain, maps).chain, blocks |-> Ledger(chain, maps).blocks,
                 txs |-> Ledger(chain, maps).txs, committees |-> Ledger(chain, maps).committees,
                 maps |-> Ledger(chain, maps).maps, round |-> Ledger(chain, maps).round]
  BY DEF Ledger

LEMMA NewLedger ==
    ASSUME NEW chain \in Seq(1 .. MaxTime), NEW maps, NEW l, l = Ledger(chain, maps)
    PROVE  /\ l.chain \in Seq(1 .. MaxTime)
           /\ l.blocks \cup l.txs \cup l.committees \subseteq 1 .. Len(l.chain)
  BY LedgerFields

\* The part of a chain up to a height is a chain of that height.
LEMMA HashOfChain ==
    ASSUME NEW S, NEW chain \in Seq(S), NEW h \in 0 .. Len(chain)
    PROVE  Hash(chain, h) \in Seq(S) /\ Len(Hash(chain, h)) = h
  <1>1. Len(chain) \in Nat /\ \A i \in 1 .. Len(chain) : chain[i] \in S
    BY ElementOfSeq, LenProperties
  <1>2. h \in Nat /\ 1 \in 1 .. Len(chain) + 1 /\ h \in 0 .. Len(chain)
    BY <1>1
  <1>3. /\ SubSeq(chain, 1, h) \in Seq(S)
        /\ Len(SubSeq(chain, 1, h)) = IF 1 <= h THEN h - 1 + 1 ELSE 0
    BY <1>1, <1>2, SubSeqProperties
  <1> QED
    BY <1>2, <1>3 DEF Hash

(***************************************************************************)
(* Steps that leave the ledger and the tool alone.                         *)
(***************************************************************************)

\* The steps of the node that write no block.
NodeStep ==
    \/ Start \/ Purge \/ Delete \/ Purged \/ Tick \/ ReadHeader \/ ReadContent
    \/ OpenFile \/ WriteHeader \/ WriteAndInsert \/ Culled \/ KillNode

LEMMA NodeSteps ==
    ASSUME RewindInv, NodeStep
    PROVE  RewindInv' /\ UNCHANGED <<ledger, tool>>
  <1>1. UNCHANGED <<ledger, tool>> /\ (node.pc # "off" \/ tool.op = "none")
    <2>1. CASE Start
      BY <2>1 DEF Start, Idle
    <2>2. CASE Purge
      BY <2>2 DEF Purge
    <2>3. CASE Delete
      BY <2>3 DEF Delete
    <2>4. CASE Purged
      BY <2>4 DEF Purged
    <2>5. CASE Tick
      BY <2>5 DEF Tick
    <2>6. CASE ReadHeader
      BY <2>6 DEF ReadHeader
    <2>7. CASE ReadContent
      BY <2>7 DEF ReadContent
    <2>8. CASE OpenFile
      BY <2>8 DEF OpenFile
    <2>9. CASE WriteHeader
      BY <2>9 DEF WriteHeader
    <2>10. CASE WriteAndInsert
      BY <2>10 DEF WriteAndInsert
    <2>11. CASE Culled
      BY <2>11 DEF Culled
    <2>12. CASE KillNode
      BY <2>12 DEF KillNode, Running
    <2> QED
      BY <2>1, <2>2, <2>3, <2>4, <2>5, <2>6, <2>7, <2>8, <2>9, <2>10, <2>11, <2>12 DEF NodeStep
  <1>2. tool.op = "none"
    BY <1>1 DEF RewindInv, Rewinding
  <1>3. FilesNamed'
    <2>1. CASE UNCHANGED files
      BY <2>1 DEF RewindInv, FilesNamed
    <2>2. CASE Delete
      <3>1. PICK e \in node.doomed : files' = [files EXCEPT ![e.height] = NoFile]
        BY <2>2 DEF Delete
      <3> QED
        BY <3>1 DEF RewindInv, FilesNamed, NoFile
    <2>3. ASSUME NEW state, NEW content,
                 files' = [files EXCEPT ![node.header.height] = File(state, node.header, content)]
          PROVE  FilesNamed'
      BY <2>3 DEF RewindInv, FilesNamed, File
    <2>4. CASE OpenFile
      BY <2>3, <2>4 DEF OpenFile
    <2>5. CASE WriteHeader
      BY <2>3, <2>5 DEF WriteHeader
    <2>6. CASE WriteAndInsert
      BY <2>3, <2>6 DEF WriteAndInsert
    <2> QED
      BY <2>1, <2>2, <2>4, <2>5, <2>6 DEF NodeStep, Start, Purge, Purged, Tick, ReadHeader,
           ReadContent, Culled, KillNode
  <1> QED
    BY <1>1, <1>2, <1>3 DEF RewindInv, Fields, HeightsOfChain, Rewinding

(***************************************************************************)
(* Steps that change the ledger or the files while no command runs.        *)
(***************************************************************************)

LEMMA AdvanceKeeps ==
    ASSUME RewindInv, Advance
    PROVE  RewindInv' /\ tool' = tool
  <1>1. PICK t \in 1 .. MaxTime :
            \E maps : ledger' = Ledger(Append(ledger.chain, t), maps)
    BY DEF Advance
  <1> DEFINE chain == Append(ledger.chain, t)
  <1>2. chain \in Seq(1 .. MaxTime)
    BY <1>1 DEF RewindInv, HeightsOfChain
  <1> HIDE DEF chain
  <1>3. PICK maps : ledger' = Ledger(chain, maps)
    BY <1>1 DEF chain
  <1>4. tool' = tool /\ files' = files /\ node' = node /\ tool.op = "none"
    BY DEF Advance, Running, RewindInv, Rewinding
  <1>5. HeightsOfChain'
    BY <1>2, <1>3, LedgerFields DEF HeightsOfChain
  <1>6. Fields'
    BY <1>3, <1>4, LedgerFields DEF RewindInv, Fields
  <1> QED
    BY <1>4, <1>5, <1>6 DEF RewindInv, FilesNamed, Rewinding

LEMMA WipeKeeps ==
    ASSUME RewindInv, Wipe
    PROVE  RewindInv' /\ tool'.result = "none"
  <1> DEFINE none == << >>
  <1>1. /\ ledger' = Ledger(none, none) /\ tool' = NoTool
        /\ files' = files /\ node' = node
    BY DEF Wipe
  <1>2. none \in Seq(1 .. MaxTime) /\ Len(none) = 0
    BY EmptySeq
  <1> HIDE DEF none
  <1>3. HeightsOfChain'
    BY <1>1, <1>2, NewLedger, Zenon DEF HeightsOfChain
  <1>4. Fields'
    BY <1>1, LedgerFields DEF Fields, NoTool
  <1> QED
    BY <1>1, <1>3, <1>4 DEF RewindInv, FilesNamed, Rewinding, NoTool

LEMMA CleanKeeps ==
    ASSUME RewindInv, Clean
    PROVE  RewindInv' /\ tool'.result = "none"
  <1>1. /\ \E gone \in SUBSET Heights :
              files' = [h \in Heights |-> IF h \in gone THEN NoFile ELSE files[h]]
        /\ ledger' = ledger /\ node' = node /\ tool' = NoTool
    <2>1. PICK m : files' = [h \in Heights |-> IF \E e \in Incompatible(m, ledger) : e.height = h
                                               THEN NoFile ELSE files[h]]
      BY DEF Clean
    <2> DEFINE gone == {h \in Heights : \E e \in Incompatible(m, ledger) : e.height = h}
    <2>2. files' = [h \in Heights |-> IF h \in gone THEN NoFile ELSE files[h]]
      BY <2>1
    <2> QED
      BY <2>2 DEF Clean
  <1>2. FilesNamed'
    BY <1>1 DEF RewindInv, FilesNamed, NoFile
  <1> QED
    BY <1>1, <1>2 DEF RewindInv, Fields, HeightsOfChain, Rewinding, NoTool

LEMMA CreateKeeps ==
    ASSUME RewindInv, Create
    PROVE  RewindInv' /\ tool'.result = "none"
  <1>1. /\ files' = [files EXCEPT ![CurrentHeight(ledger)] =
                        File("whole", Header(ledger), ledger.maps)]
        /\ ledger' = ledger /\ node' = node /\ tool' = NoTool
    BY DEF Create
  <1>2. File("whole", Header(ledger), ledger.maps).height = CurrentHeight(ledger)
    BY DEF File, Header
  <1>3. FilesNamed'
    BY <1>1, <1>2 DEF RewindInv, FilesNamed
  <1> QED
    BY <1>1, <1>3 DEF RewindInv, Fields, HeightsOfChain, Rewinding, NoTool

(***************************************************************************)
(* The rewind.                                                             *)
(***************************************************************************)

\* A ledger that opens and passes the check has every block up to its top.
LEMMA ApplyKeeps ==
    ASSUME RewindInv, Apply
    PROVE  RewindInv' /\ tool'.result # "applied"
  <1>1. UNCHANGED <<ledger, files, node>> /\ Idle /\ Loads(ledger)
    BY DEF Apply
  <1>2. PICK h \in Readable :
            IF files[h].state = "whole" /\ Check(ledger, files[h])
            THEN tool' = [op |-> "remove", file |-> files[h], top |-> CurrentHeight(ledger),
                          result |-> "none"]
            ELSE tool' = [NoTool EXCEPT !.result = "failed"]
    BY DEF Apply
  <1>3. CASE tool' = [NoTool EXCEPT !.result = "failed"]
    BY <1>1, <1>3 DEF RewindInv, Fields, HeightsOfChain, FilesNamed, Rewinding, NoTool
  <1>4. CASE /\ Check(ledger, files[h])
             /\ tool' = [op |-> "remove", file |-> files[h], top |-> CurrentHeight(ledger),
                         result |-> "none"]
    <2> DEFINE k == files[h].height
               top == CurrentHeight(ledger)
               n == Len(ledger.chain)
    <2>1. k \in Heights
      BY DEF Readable, RewindInv, FilesNamed
    <2>2. /\ ledger.blocks = 1 .. top
          /\ ledger.txs = 1 .. top
          /\ ledger.committees = 1 .. top
      BY <1>1 DEF Loads, CurrentHeight
    <2>3. n \in Nat /\ ledger.committees \subseteq 1 .. n
      BY DEF RewindInv, HeightsOfChain
    <2>4. top \in 0 .. n
      BY <2>3, TallestExists DEF CurrentHeight
    <2>5. k \in Nat /\ 1 <= k
      BY <2>1, BoundsAssumption DEF Heights
    <2>6. k \in 1 .. top /\ Hash(ledger.chain, k) = files[h].hash
      BY <1>4, <2>2 DEF Check
    <2> HIDE DEF k, top, n
    <2>7. 1 .. k \subseteq 1 .. top /\ k \in 1 .. n
      BY <2>3, <2>4, <2>5, <2>6
    <2>8. /\ tool'.op = "remove" /\ tool'.file = files[h] /\ tool'.top = top
          /\ tool'.result = "none" /\ tool'.file.height = k
      BY <1>4 DEF top, k
    <2>9. HasUpTo(tool.file.height)'
      BY <1>1, <2>2, <2>6, <2>7, <2>8 DEF HasUpTo, n
    <2>10. Rewinding'
      BY <1>1, <2>2, <2>3, <2>4, <2>8, <2>9 DEF Rewinding, Idle
    <2>11. Fields'
      BY <1>1, <1>4 DEF RewindInv, Fields
    <2> QED
      BY <1>1, <2>8, <2>10, <2>11 DEF RewindInv, HeightsOfChain, FilesNamed
  <1> QED
    BY <1>2, <1>3, <1>4

\* Blocks above the checkpoint go, each from the three stores in turn.
LEMMA RemoveKeeps ==
    ASSUME RewindInv, Remove
    PROVE  RewindInv' /\ tool' = tool
  <1> DEFINE k == tool.file.height
  <1>1. UNCHANGED <<files, node, tool>> /\ tool.op = "remove" /\ node.pc = "off" /\ HasUpTo(k)
    BY DEF Remove, RewindInv, Rewinding
  <1>2. PICK h \in Removed : RemoveBlock(h) \/ RemoveTransactions(h) \/ RemoveCommittee(h)
    BY DEF Remove
  <1>3. k \in Nat /\ h \in Nat /\ h > k /\ h \notin 1 .. k
    <2>1. Len(ledger.chain) \in Nat /\ tool.top \in Nat
      BY <1>1 DEF RewindInv, HeightsOfChain, Rewinding
    <2>2. k \in Nat
      BY <1>1, <2>1 DEF HasUpTo
    <2> QED
      BY <2>1, <2>2 DEF Removed
  <1> HIDE DEF k
  <1>4. /\ ledger'.chain = ledger.chain /\ ledger'.maps = ledger.maps
        /\ Fields'
        /\ ledger'.blocks \subseteq ledger.blocks /\ ledger'.blocks \subseteq ledger'.txs
        /\ ledger'.txs \subseteq ledger.txs /\ ledger'.txs \subseteq ledger'.committees
        /\ ledger'.committees \subseteq ledger.committees
        /\ 1 .. k \subseteq ledger'.blocks
    <2>1. CASE RemoveBlock(h)
      BY <1>1, <1>3, <2>1 DEF RemoveBlock, RewindInv, Fields, HasUpTo
    <2>2. CASE RemoveTransactions(h)
      BY <1>1, <1>3, <2>2 DEF RemoveTransactions, RewindInv, Fields, HasUpTo
    <2>3. CASE RemoveCommittee(h)
      BY <1>1, <1>3, <2>3 DEF RemoveCommittee, RewindInv, Fields, HasUpTo
    <2> QED
      BY <1>2, <2>1, <2>2, <2>3
  <1>5. HeightsOfChain'
    BY <1>4 DEF RewindInv, HeightsOfChain
  <1>6. Rewinding'
    <2>1. HasUpTo(tool.file.height)'
      BY <1>1, <1>4 DEF HasUpTo, k
    <2> QED
      BY <1>1, <1>4, <2>1 DEF RewindInv, Rewinding
  <1> QED
    BY <1>1, <1>4, <1>5, <1>6 DEF RewindInv, FilesNamed

\* When no block above the checkpoint has a committee, the stores end there.
LEMMA DropMappingsKeeps ==
    ASSUME RewindInv, DropMappings
    PROVE  RewindInv' /\ tool'.result = tool.result
  <1> DEFINE k == tool.file.height
  <1>1. /\ ledger' = [ledger EXCEPT !.maps = Torn] /\ tool' = [tool EXCEPT !.op = "mappings"]
        /\ UNCHANGED <<files, node>> /\ tool.op = "remove" /\ node.pc = "off" /\ HasUpTo(k)
        /\ Removed \cap ledger.committees = {}
    BY DEF DropMappings, RewindInv, Rewinding
  <1>2. k \in Nat /\ tool.top \in Nat /\ ledger.committees \subseteq 1 .. tool.top
    <2>1. Len(ledger.chain) \in Nat
      BY DEF RewindInv, HeightsOfChain
    <2> QED
      BY <1>1, <2>1 DEF RewindInv, Rewinding, HasUpTo
  <1>3. 1 .. k \subseteq ledger.committees
    BY <1>1 DEF HasUpTo
  <1>4. ASSUME NEW h \in ledger.committees
        PROVE  h \in 1 .. k
    <2>1. h \notin (k + 1) .. tool.top
      BY <1>1 DEF Removed
    <2> HIDE DEF k
    <2> QED
      BY <1>2, <2>1
  <1>5. ledger.committees = 1 .. k
    BY <1>3, <1>4
  <1>6. Fields' /\ tool'.file = tool.file /\ tool'.op = "mappings" /\ tool'.result = tool.result
    BY <1>1 DEF RewindInv, Fields
  <1>7. /\ ledger'.chain = ledger.chain /\ ledger'.blocks = ledger.blocks
        /\ ledger'.txs = ledger.txs /\ ledger'.committees = ledger.committees
    BY <1>1 DEF RewindInv, Fields
  <1>8. HeightsOfChain' /\ HasUpTo(tool.file.height)'
    BY <1>1, <1>6, <1>7 DEF RewindInv, HeightsOfChain, HasUpTo
  <1> QED
    BY <1>1, <1>5, <1>6, <1>7, <1>8 DEF RewindInv, FilesNamed, Rewinding

LEMMA WriteMappingsKeeps ==
    ASSUME RewindInv, WriteMappings
    PROVE  RewindInv' /\ tool'.result = tool.result
  <1>1. /\ ledger' = [ledger EXCEPT !.maps = tool.file.content]
        /\ tool' = [tool EXCEPT !.op = "round"]
        /\ UNCHANGED <<files, node>> /\ tool.op = "mappings" /\ node.pc = "off"
        /\ HasUpTo(tool.file.height) /\ ledger.committees = 1 .. tool.file.height
    BY DEF WriteMappings, RewindInv, Rewinding
  <1>2. Fields' /\ tool'.file = tool.file /\ tool'.op = "round" /\ tool'.result = tool.result
    BY <1>1 DEF RewindInv, Fields
  <1>3. /\ ledger'.chain = ledger.chain /\ ledger'.blocks = ledger.blocks
        /\ ledger'.txs = ledger.txs /\ ledger'.committees = ledger.committees
        /\ ledger'.maps = tool.file.content
    BY <1>1 DEF RewindInv, Fields
  <1>4. HeightsOfChain' /\ HasUpTo(tool.file.height)'
    BY <1>1, <1>2, <1>3 DEF RewindInv, HeightsOfChain, HasUpTo
  <1> QED
    BY <1>1, <1>2, <1>3, <1>4 DEF RewindInv, FilesNamed, Rewinding

\* What an apply that reports success has left.
Exact ==
    /\ ledger'.chain = tool.file.hash
    /\ Loads(ledger')
    /\ CurrentHeight(ledger') = tool.file.height
    /\ ledger'.maps = tool.file.content
    /\ ledger'.round = tool.file.height

LEMMA SetRoundKeeps ==
    ASSUME RewindInv, SetRound
    PROVE  RewindInv' /\ Exact
  <1> DEFINE k == tool.file.height
             chain == Hash(ledger.chain, k)
  <1>1. /\ UNCHANGED <<files, node>> /\ tool.op = "round" /\ HasUpTo(k)
        /\ ledger.committees = 1 .. k /\ ledger.maps = tool.file.content
    BY DEF SetRound, RewindInv, Rewinding
  <1>2. ledger.chain \in Seq(1 .. MaxTime) /\ Len(ledger.chain) \in Nat
    BY DEF RewindInv, HeightsOfChain
  <1>3. k \in 0 .. Len(ledger.chain) /\ k \in Nat
    BY <1>1, <1>2 DEF HasUpTo
  <1>4. CurrentHeight(ledger) = k
    BY <1>1, <1>3, TallestOfInterval DEF CurrentHeight
  <1>5. /\ ledger' = [chain |-> chain, blocks |-> ledger.blocks, txs |-> ledger.txs,
                      committees |-> ledger.committees, maps |-> ledger.maps, round |-> k]
        /\ tool' = [op |-> "none", file |-> tool.file, top |-> tool.top, result |-> "applied"]
    <2>1. ledger' = [[ledger EXCEPT !.chain = Hash(ledger.chain, CurrentHeight(ledger))]
                        EXCEPT !.round = tool.file.height]
      BY Zenon DEF SetRound
    <2>2. tool' = [[tool EXCEPT !.op = "none"] EXCEPT !.result = "applied"]
      BY Zenon DEF SetRound
    <2> QED
      BY <1>4, <2>1, <2>2 DEF RewindInv, Fields
  <1>6. chain \in Seq(1 .. MaxTime) /\ Len(chain) = k
    BY <1>2, <1>3, HashOfChain
  <1>7. ledger.blocks = 1 .. k /\ ledger.txs = 1 .. k
    BY <1>1 DEF HasUpTo
  <1>8. chain = tool.file.hash
    BY <1>1 DEF HasUpTo
  <1> HIDE DEF chain, k
  <1>9. Fields' /\ HeightsOfChain' /\ tool'.op = "none"
    BY <1>1, <1>5, <1>6, <1>7 DEF Fields, HeightsOfChain
  <1>10. Tallest(1 .. k) = k
    BY <1>3, TallestOfInterval
  <1>11. Loads(ledger') /\ CurrentHeight(ledger') = k
    BY <1>1, <1>5, <1>7, <1>10 DEF Loads, CurrentHeight
  <1>12. Exact
    BY <1>1, <1>5, <1>8, <1>11 DEF Exact, k
  <1> QED
    BY <1>1, <1>9, <1>12 DEF RewindInv, FilesNamed, Rewinding

\* A command that is killed leaves stores that may not open.
LEMMA KillToolKeeps ==
    ASSUME RewindInv, KillTool
    PROVE  RewindInv' /\ tool'.result # "applied"
  <1> DEFINE stored == ledger.blocks \cup ledger.txs \cup ledger.committees
             chain == Hash(ledger.chain, Tallest(stored))
  <1>1. /\ ledger' = [ledger EXCEPT !.chain = chain]
        /\ tool' = [NoTool EXCEPT !.result = "failed"]
        /\ UNCHANGED <<files, node>>
    BY DEF KillTool
  <1>2. /\ ledger.chain \in Seq(1 .. MaxTime) /\ Len(ledger.chain) \in Nat
        /\ stored \subseteq 1 .. Len(ledger.chain)
    BY DEF RewindInv, HeightsOfChain
  <1> HIDE DEF stored
  <1>3. Tallest(stored) \in 0 .. Len(ledger.chain) /\ stored \subseteq 1 .. Tallest(stored)
    BY <1>2, TallestExists
  <1>4. chain \in Seq(1 .. MaxTime) /\ Len(chain) = Tallest(stored)
    BY <1>2, <1>3, HashOfChain
  <1> HIDE DEF chain
  <1>5. /\ ledger'.chain = chain /\ ledger'.blocks = ledger.blocks
        /\ ledger'.txs = ledger.txs /\ ledger'.committees = ledger.committees
        /\ Fields' /\ tool'.op = "none" /\ tool'.result = "failed"
    BY <1>1 DEF RewindInv, Fields, NoTool
  <1>6. HeightsOfChain'
    BY <1>3, <1>4, <1>5 DEF HeightsOfChain, stored
  <1> QED
    BY <1>1, <1>5, <1>6 DEF RewindInv, FilesNamed, Rewinding

(***************************************************************************)
(* The theorem.                                                            *)
(***************************************************************************)

\* The steps of Next leave the invariant, and only the last one of an apply
\* reports success.
LEMMA StepKeeps ==
    RewindInv /\ [Next]_vars =>
        RewindInv' /\ (tool'.result = "applied" /\ tool.result # "applied" => Exact)
  <1> SUFFICES ASSUME RewindInv, [Next]_vars
               PROVE  RewindInv' /\ (tool'.result = "applied" /\ tool.result # "applied" => Exact)
    OBVIOUS
  <1>1. CASE NodeStep
    BY <1>1, NodeSteps
  <1>2. CASE Advance
    BY <1>2, AdvanceKeeps
  <1>3. CASE Apply
    BY <1>3, ApplyKeeps
  <1>4. CASE Remove
    BY <1>4, RemoveKeeps
  <1>5. CASE DropMappings
    BY <1>5, DropMappingsKeeps
  <1>6. CASE WriteMappings
    BY <1>6, WriteMappingsKeeps
  <1>7. CASE SetRound
    BY <1>7, SetRoundKeeps
  <1>8. CASE Clean
    BY <1>8, CleanKeeps
  <1>9. CASE Create
    BY <1>9, CreateKeeps
  <1>10. CASE Wipe
    BY <1>10, WipeKeeps
  <1>11. CASE KillTool
    BY <1>11, KillToolKeeps
  <1>12. CASE UNCHANGED vars
    BY <1>12 DEF vars, RewindInv, Fields, HeightsOfChain, FilesNamed, Rewinding, HasUpTo
  <1> QED
    BY <1>1, <1>2, <1>3, <1>4, <1>5, <1>6, <1>7, <1>8, <1>9, <1>10, <1>11, <1>12
       DEF Next, NodeStep

LEMMA InitHolds == Init => RewindInv
  <1> SUFFICES ASSUME Init
               PROVE  RewindInv
    OBVIOUS
  <1> DEFINE none == << >>
  <1>1. /\ ledger = Ledger(none, none) /\ tool = NoTool
        /\ files = [h \in Heights |-> NoFile]
    BY DEF Init
  <1>2. none \in Seq(1 .. MaxTime) /\ Len(none) = 0
    BY EmptySeq
  <1> HIDE DEF none
  <1>3. HeightsOfChain
    BY <1>1, <1>2, NewLedger, Zenon DEF HeightsOfChain
  <1>4. Fields
    BY <1>1, LedgerFields DEF Fields, NoTool
  <1> QED
    BY <1>1, <1>3, <1>4 DEF RewindInv, FilesNamed, Rewinding, NoTool, NoFile

(* An apply that reports success has left the ledger of the checkpoint in  *)
(* every store: no block, transaction or committee above it, all of those  *)
(* below, the mappings of its file and the round of its block - whatever   *)
(* the order the blocks were removed in, and whatever was killed before.   *)
THEOREM RewindIsExact == Spec => RewindExact
  <1>1. RewindInv /\ [Next]_vars =>
            [tool'.result = "applied" /\ tool.result # "applied" =>
                /\ ledger'.chain = tool.file.hash
                /\ Loads(ledger')
                /\ CurrentHeight(ledger') = tool.file.height
                /\ ledger'.maps = tool.file.content
                /\ ledger'.round = tool.file.height]_vars
    BY StepKeeps DEF Exact
  <1>2. RewindInv /\ [Next]_vars => RewindInv'
    BY StepKeeps
  <1> QED
    BY <1>1, <1>2, InitHolds, PTL DEF Spec, RewindExact

(***************************************************************************)
(* What the manager of a node knows.                                       *)
(***************************************************************************)

\* A header of a chain, and one of the ledger's own.
Sound(e) == e \in Entries /\ Len(e.hash) = e.height /\ e.time = e.hash[e.height]
OnChain(e) == e.height \in 1 .. Len(ledger.chain) /\ Hash(ledger.chain, e.height) = e.hash

Loop == {"idle", "header", "content", "open", "write", "insert", "cull"}

NodeFields ==
    /\ policy \in PolicySet
    /\ node = [pc |-> node.pc, last |-> node.last, header |-> node.header,
               content |-> node.content, doomed |-> node.doomed, polled |-> node.polled]

FilesSound ==
    \A h \in Heights : files[h] # NoFile => files[h].height = h /\ Sound(Entry(files[h]))

\* A ledger that no command works on ends where its tallest store does.
Stored(l) == l.blocks \cup l.txs \cup l.committees
StoresAgree ==
    /\ Len(ledger.chain) <= MaxHeight
    /\ tool.op = "none" => Tallest(Stored(ledger)) = Len(ledger.chain)
    /\ node.pc # "off" => /\ tool.op = "none"
                          /\ ledger.blocks = 1 .. Len(ledger.chain)
                          /\ ledger.committees = 1 .. Len(ledger.chain)

\* Each entry is that of its file; what is not of the ledger is doomed.
EntrySound(e) ==
    /\ Sound(e)
    /\ Entry(files[e.height]) = e
    /\ (Written /\ node.header.height = e.height) \/ files[e.height].state # "torn"
ManagerSound ==
    /\ node.doomed \subseteq manager
    /\ node.pc = "off" => manager = {}
    /\ \A e \in manager : EntrySound(e)
    /\ node.pc = "purge" => \A e \in manager \ node.doomed : OnChain(e)
    /\ node.pc \in Loop => \A e \in manager : OnChain(e)

\* The header that is being written is of the ledger.
HeaderSound ==
    /\ node.pc \in Loop => node.last \in 0 .. Len(ledger.chain)
    /\ node.pc = "header" => Len(ledger.chain) # 0
    /\ node.pc \in {"content", "open", "write", "insert"} =>
            Sound(node.header) /\ OnChain(node.header)

ManagedInv == NodeFields /\ FilesSound /\ StoresAgree /\ ManagerSound /\ HeaderSound

\* Blocks that are added leave the hashes below.
LEMMA HashOfAppend ==
    ASSUME NEW S, NEW chain \in Seq(S), NEW t \in S, NEW h \in 1 .. Len(chain)
    PROVE  /\ Hash(Append(chain, t), h) = Hash(chain, h)
           /\ h \in 1 .. Len(Append(chain, t))
  <1> DEFINE long == Append(chain, t)
  <1>1. /\ long \in Seq(S) /\ Len(long) = Len(chain) + 1
        /\ \A i \in 1 .. Len(chain) : long[i] = chain[i]
    BY AppendProperties
  <1>2. /\ Len(chain) \in Nat /\ \A i \in 1 .. Len(chain) : chain[i] \in S
        /\ \A i \in 1 .. Len(long) : long[i] \in S
    BY <1>1, ElementOfSeq, LenProperties
  <1> HIDE DEF long
  <1>3. h \in 1 .. Len(long) /\ h \in Int /\ h - 1 + 1 = h /\ 1 <= h
    BY <1>1, <1>2
  <1>4. /\ \A i \in 1 .. h : chain[i] \in S /\ long[i] \in S /\ long[i] = chain[i] /\ 1 + i - 1 = i
    BY <1>1, <1>2, <1>3
  <1>5. /\ SubSeq(chain, 1, h) \in Seq(S) /\ Len(SubSeq(chain, 1, h)) = h
        /\ \A i \in 1 .. h : SubSeq(chain, 1, h)[i] = chain[1 + i - 1]
    BY <1>3, <1>4, SubSeqProperties
  <1>6. /\ SubSeq(long, 1, h) \in Seq(S) /\ Len(SubSeq(long, 1, h)) = h
        /\ \A i \in 1 .. h : SubSeq(long, 1, h)[i] = long[1 + i - 1]
    BY <1>3, <1>4, SubSeqProperties
  <1>7. SubSeq(long, 1, h) = SubSeq(chain, 1, h)
    BY <1>4, <1>5, <1>6, SeqEqual
  <1> QED
    BY <1>3, <1>7 DEF Hash, long

LEMMA EndOfHash ==
    ASSUME NEW S, NEW chain \in Seq(S), NEW h \in 1 .. Len(chain)
    PROVE  Hash(chain, h)[h] = chain[h] /\ chain[h] \in S
  <1>1. Len(chain) \in Nat /\ \A i \in 1 .. Len(chain) : chain[i] \in S
    BY ElementOfSeq, LenProperties
  <1>2. h \in Int /\ h - 1 + 1 = h /\ h \in 1 .. h /\ 1 + h - 1 = h
    BY <1>1
  <1>3. \A i \in 1 .. h : chain[i] \in S
    BY <1>1
  <1>4. \A i \in 1 .. h - 1 + 1 : SubSeq(chain, 1, h)[i] = chain[1 + i - 1]
    BY <1>2, <1>3, SubSeqProperties
  <1> QED
    BY <1>1, <1>2, <1>4 DEF Hash

\* The header of the top block is one of the ledger.
LEMMA HeaderOfTop ==
    ASSUME RewindInv, StoresAgree, ledger.committees = 1 .. Len(ledger.chain),
           Len(ledger.chain) # 0
    PROVE  /\ Sound(Header(ledger)) /\ OnChain(Header(ledger))
           /\ Header(ledger).height = Len(ledger.chain)
  <1> DEFINE chain == ledger.chain
             n == Len(chain)
  <1>1. chain \in Seq(1 .. MaxTime) /\ n \in Nat /\ n <= MaxHeight
    BY DEF RewindInv, HeightsOfChain, StoresAgree
  <1>2. CurrentHeight(ledger) = n
    BY <1>1, TallestOfInterval DEF CurrentHeight
  <1>3. Header(ledger) = [time |-> chain[n], height |-> n, hash |-> Hash(chain, n)]
    BY <1>2 DEF Header
  <1> HIDE DEF chain
  <1>4. n \in 1 .. Len(chain) /\ n \in 0 .. Len(chain) /\ n \in Heights
    BY <1>1, BoundsAssumption DEF Heights, chain
  <1>5. Hash(chain, n) \in Seq(1 .. MaxTime) /\ Len(Hash(chain, n)) = n
    BY <1>1, <1>4, HashOfChain
  <1>6. Hash(chain, n)[n] = chain[n] /\ chain[n] \in 1 .. MaxTime
    BY <1>1, <1>4, EndOfHash
  <1> HIDE DEF n
  <1>7. Header(ledger).time = chain[n] /\ Header(ledger).height = n /\ Header(ledger).hash = Hash(chain, n)
    BY <1>3
  <1>8. Header(ledger) \in Entries
    BY <1>3, <1>4, <1>5, <1>6 DEF Entries
  <1>9. Sound(Header(ledger))
    BY <1>5, <1>6, <1>7, <1>8 DEF Sound
  <1>10. OnChain(Header(ledger))
    BY <1>4, <1>7 DEF OnChain, chain, n
  <1> QED
    BY <1>7, <1>9, <1>10 DEF n, chain

\* Two headers of the ledger at one height are the same.
LEMMA OnePerHeight ==
    ASSUME NEW e, NEW x, Sound(e), Sound(x), OnChain(e), OnChain(x), e.height = x.height
    PROVE  e = x
  BY DEF Sound, OnChain, Entries

LEMMA FileOfHeader ==
    ASSUME NEW x \in Entries, NEW state, NEW content
    PROVE  /\ Entry(File(state, x, content)) = x
           /\ File(state, x, content).state = state
           /\ File(state, x, content).height = x.height
  BY DEF Entries, Entry, File

\* A ledger that opens has every block.
LEMMA OpenLedger ==
    ASSUME RewindInv, StoresAgree, tool.op = "none", Loads(ledger)
    PROVE  ledger.blocks = 1 .. Len(ledger.chain) /\ ledger.committees = 1 .. Len(ledger.chain)
  <1>1. Stored(ledger) = ledger.blocks
    BY DEF Stored, Loads
  <1> QED
    BY <1>1 DEF StoresAgree, Loads

LEMMA TopOfNewLedger ==
    ASSUME NEW chain \in Seq(1 .. MaxTime), NEW maps, NEW l, l = Ledger(chain, maps)
    PROVE  Tallest(Stored(l)) = Len(chain)
  <1>1. Stored(l) = 1 .. Len(chain) /\ Len(chain) \in Nat
    BY LedgerFields, LenProperties DEF Stored
  <1> QED
    BY <1>1, TallestOfInterval

(***************************************************************************)
(* The steps of the node.                                                  *)
(***************************************************************************)

LEMMA StartManages ==
    ASSUME RewindInv, ManagedInv, Start
    PROVE  ManagedInv'
  <1>1. /\ UNCHANGED <<policy, ledger, files, tool>>
        /\ node' = [Off EXCEPT !.pc = "started"]
        /\ tool.op = "none" /\ Loads(ledger)
    BY DEF Start, Idle
  <1>2. manager' \subseteq {Entry(files[h]) : h \in Readable}
    BY DEF Start
  <1>3. /\ node'.pc = "started" /\ node'.doomed = {} /\ NodeFields'
    BY <1>1 DEF Off, ManagedInv, NodeFields
  <1>4. ASSUME NEW e \in manager'
        PROVE  EntrySound(e)'
    <2>1. PICK h \in Readable : e = Entry(files[h])
      BY <1>2
    <2>2. files[h] # NoFile /\ files[h].state # "torn" /\ h \in Heights
      BY <2>1 DEF Readable, NoFile
    <2>3. Sound(e) /\ e.height = h
      BY <2>1, <2>2 DEF ManagedInv, FilesSound, Entry
    <2> QED
      BY <1>1, <2>1, <2>2, <2>3 DEF EntrySound, Sound
  <1>5. ManagerSound'
    BY <1>3, <1>4 DEF ManagerSound, Loop
  <1>6. StoresAgree'
    <2>1. ledger.blocks = 1 .. Len(ledger.chain) /\ ledger.committees = 1 .. Len(ledger.chain)
      BY <1>1, OpenLedger DEF ManagedInv
    <2> QED
      BY <1>1, <1>3, <2>1 DEF ManagedInv, StoresAgree
  <1> QED
    BY <1>1, <1>3, <1>5, <1>6 DEF ManagedInv, FilesSound, HeaderSound, Loop

\* Steps that only move the node along.
LEMMA LoopManages ==
    ASSUME RewindInv, ManagedInv, Purge \/ Purged \/ Tick \/ ReadHeader \/ ReadContent \/ Culled
    PROVE  ManagedInv'
  <1>1. UNCHANGED <<policy, ledger, files, manager, tool>> /\ node.pc # "off" /\ ~Written
    BY DEF Purge, Purged, Tick, ReadHeader, ReadContent, Culled, Written
  <1>2. /\ tool.op = "none" /\ ledger.blocks = 1 .. Len(ledger.chain)
        /\ ledger.committees = 1 .. Len(ledger.chain)
    BY <1>1 DEF ManagedInv, StoresAgree
  <1>3. Len(ledger.chain) \in Nat /\ CurrentHeight(ledger) = Len(ledger.chain)
    <2>1. Len(ledger.chain) \in Nat
      BY DEF RewindInv, HeightsOfChain
    <2> QED
      BY <1>2, <2>1, TallestOfInterval DEF CurrentHeight
  <1>4. \A e \in manager : EntrySound(e) /\ files[e.height].state # "torn"
    BY <1>1 DEF ManagedInv, ManagerSound, EntrySound
  <1>5. \A e \in manager' : EntrySound(e)'
    BY <1>1, <1>4 DEF EntrySound, Sound
  <1>6. node'.pc # "off" /\ node'.doomed \subseteq manager /\ NodeFields' /\ HeaderSound'
        /\ (node'.pc = "purge" => \A e \in manager \ node'.doomed : OnChain(e))
        /\ (node'.pc \in Loop => \A e \in manager : OnChain(e))
    <2>1. CASE Purge
      <3>1. node' = [[node EXCEPT !.pc = "purge"] EXCEPT !.doomed = Incompatible(manager, ledger)]
        BY <2>1, Zenon DEF Purge
      <3>2. /\ node'.pc = "purge" /\ node'.doomed = Incompatible(manager, ledger) /\ NodeFields'
        BY <1>1, <3>1 DEF ManagedInv, NodeFields
      <3>3. ASSUME NEW e \in manager \ node'.doomed
            PROVE  OnChain(e)
        BY <1>2, <3>2 DEF Incompatible, OnChain
      <3>4. node'.doomed \subseteq manager
        BY <3>2 DEF Incompatible
      <3> QED
        BY <3>2, <3>3, <3>4 DEF HeaderSound, Loop
    <2>2. CASE Purged
      <3>1. node' = [[node EXCEPT !.pc = "idle"] EXCEPT !.last = CurrentHeight(ledger)]
        BY <2>2, Zenon DEF Purged
      <3>2. /\ node'.pc = "idle" /\ node'.doomed = node.doomed /\ node'.last = Len(ledger.chain)
            /\ NodeFields'
        BY <1>1, <1>3, <3>1 DEF ManagedInv, NodeFields
      <3>3. node.doomed = {} /\ node.pc = "purge"
        BY <2>2 DEF Purged
      <3> QED
        BY <1>1, <1>3, <3>2, <3>3 DEF ManagedInv, ManagerSound, HeaderSound, Loop
    <2>3. CASE Tick
      <3>1. node' = [[node EXCEPT !.pc = "header"] EXCEPT !.last = CurrentHeight(ledger)]
        BY <2>3, Zenon DEF Tick
      <3>2. /\ node'.pc = "header" /\ node'.doomed = node.doomed /\ node'.last = Len(ledger.chain)
            /\ NodeFields'
        BY <1>1, <1>3, <3>1 DEF ManagedInv, NodeFields
      <3>3. node.pc = "idle" /\ node.last # Len(ledger.chain)
        BY <1>3, <2>3 DEF Tick
      <3>4. Len(ledger.chain) # 0
        BY <1>3, <3>3 DEF ManagedInv, HeaderSound, Loop
      <3> QED
        BY <1>1, <1>3, <3>2, <3>3, <3>4 DEF ManagedInv, ManagerSound, HeaderSound, Loop
    <2>4. CASE ReadHeader
      <3>1. node.pc = "header" /\ Len(ledger.chain) # 0 /\ node.last \in 0 .. Len(ledger.chain)
        BY <2>4 DEF ReadHeader, ManagedInv, HeaderSound, Loop
      <3>2. Sound(Header(ledger)) /\ OnChain(Header(ledger))
        BY <1>2, <3>1, HeaderOfTop DEF ManagedInv
      <3>3. \/ node' = [[node EXCEPT !.pc = "content"] EXCEPT !.header = Header(ledger)]
            \/ node' = [[node EXCEPT !.pc = "idle"] EXCEPT !.polled = TRUE]
        BY <2>4, Zenon DEF ReadHeader
      <3>4. /\ node'.pc \in {"content", "idle"} /\ node'.doomed = node.doomed
            /\ node'.pc = "content" => node'.header = Header(ledger)
            /\ node'.last = node.last /\ NodeFields'
        BY <1>1, <3>3 DEF ManagedInv, NodeFields
      <3>5. HeaderSound'
        BY <1>1, <3>1, <3>2, <3>4 DEF HeaderSound, Sound, OnChain, Loop
      <3> QED
        BY <3>1, <3>4, <3>5 DEF ManagedInv, ManagerSound, Loop
    <2>5. CASE ReadContent
      <3>1. node' = [[node EXCEPT !.pc = "open"] EXCEPT !.content = ledger.maps] /\ node.pc = "content"
        BY <2>5, Zenon DEF ReadContent
      <3>2. /\ node'.pc = "open" /\ node'.doomed = node.doomed /\ node'.last = node.last
            /\ node'.header = node.header /\ NodeFields'
        BY <1>1, <3>1 DEF ManagedInv, NodeFields
      <3> QED
        BY <1>1, <3>1, <3>2 DEF ManagedInv, ManagerSound, HeaderSound, Sound, OnChain, Loop
    <2>6. CASE Culled
      <3>1. node' = [[[[node EXCEPT !.pc = "idle"] EXCEPT !.polled = TRUE] EXCEPT !.header = NoFile]
                        EXCEPT !.content = << >>] /\ node.pc = "cull"
        BY <2>6, Zenon DEF Culled
      <3>2. /\ node'.pc = "idle" /\ node'.doomed = node.doomed /\ node'.last = node.last
            /\ NodeFields'
        BY <1>1, <3>1 DEF ManagedInv, NodeFields
      <3> QED
        BY <1>1, <3>1, <3>2 DEF ManagedInv, ManagerSound, HeaderSound, Loop
    <2> QED
      BY <2>1, <2>2, <2>3, <2>4, <2>5, <2>6
  <1>7. ManagerSound'
    BY <1>1, <1>5, <1>6 DEF ManagerSound, OnChain
  <1> QED
    BY <1>1, <1>2, <1>6, <1>7 DEF ManagedInv, FilesSound, StoresAgree, Sound

\* The file that leaves the disk is no other entry's.
LEMMA DeleteManages ==
    ASSUME RewindInv, ManagedInv, Delete
    PROVE  ManagedInv'
  <1>1. PICK e \in node.doomed :
            /\ manager' = manager \ {e}
            /\ files' = [files EXCEPT ![e.height] = NoFile]
            /\ node' = [node EXCEPT !.doomed = @ \ {e}]
    BY DEF Delete
  <1>2. UNCHANGED <<policy, ledger, tool>> /\ node.pc \in {"purge", "cull"}
    BY DEF Delete
  <1>3. /\ node'.pc = node.pc /\ node'.doomed = node.doomed \ {e} /\ node'.last = node.last
        /\ node'.header = node.header /\ NodeFields'
    BY <1>1, <1>2 DEF ManagedInv, NodeFields
  <1>4. e \in manager
    BY DEF ManagedInv, ManagerSound
  <1>5. ASSUME NEW x \in manager'
        PROVE  EntrySound(x)' /\ x \in manager /\ (x \notin node'.doomed => x \notin node.doomed)
    <2>1. x \in manager /\ x # e
      BY <1>1
    <2>2. EntrySound(x) /\ EntrySound(e) /\ files[x.height].state # "torn"
      BY <1>2, <1>4, <2>1 DEF ManagedInv, ManagerSound, EntrySound, Written
    <2>3. x.height # e.height
      BY <2>1, <2>2 DEF EntrySound
    <2>4. x.height \in Heights
      BY <2>2 DEF EntrySound, Sound, Entries
    <2>5. files'[x.height] = files[x.height]
      BY <1>1, <2>3, <2>4 DEF RewindInv, FilesNamed
    <2> QED
      BY <1>3, <2>1, <2>2, <2>5 DEF EntrySound, Sound
  <1>6. ManagerSound'
    BY <1>1, <1>2, <1>3, <1>5 DEF ManagedInv, ManagerSound, OnChain, Loop
  <1>7. FilesSound'
    BY <1>1 DEF RewindInv, FilesNamed, ManagedInv, FilesSound, Sound
  <1> QED
    BY <1>2, <1>3, <1>6, <1>7 DEF ManagedInv, StoresAgree, HeaderSound, Sound, OnChain, Loop

\* The file that is written is that of the header, or of an entry equal to it.
WriteStep == OpenFile \/ WriteHeader \/ WriteAndInsert
FileIsSound ==
    /\ FilesSound'
    /\ Entry(files'[node.header.height]) = node.header
    /\ WriteAndInsert => files'[node.header.height].state = "whole"
    /\ \A e \in manager : /\ Sound(e) /\ Entry(files'[e.height]) = e
                          /\ e.height # node.header.height => files'[e.height].state # "torn"

LEMMA FileWritten ==
    ASSUME RewindInv, ManagedInv, WriteStep
    PROVE  FileIsSound
  <1> DEFINE x == node.header
             f == files'[x.height]
  <1>0. node.pc \in {"open", "write", "insert"} /\ (WriteAndInsert => node.pc = "insert")
    BY DEF WriteStep, OpenFile, WriteHeader, WriteAndInsert
  <1>1. Sound(x) /\ OnChain(x)
    BY <1>0 DEF ManagedInv, HeaderSound
  <1>2. x \in Entries /\ x.height \in Heights
    BY <1>1 DEF Sound, Entries
  <1>3. /\ Entry(f) = x /\ f.height = x.height /\ (node.pc = "insert" => f.state = "whole")
        /\ \A h \in Heights : h # x.height => files'[h] = files[h]
    <2>1. CASE WriteAndInsert
      <3> DEFINE g == File("whole", x, node.content)
      <3>1. files' = [files EXCEPT ![x.height] = g]
        BY <2>1 DEF WriteAndInsert
      <3>2. Entry(g) = x /\ g.state = "whole" /\ g.height = x.height
        BY <1>2, FileOfHeader
      <3> HIDE DEF g, x
      <3>3. files'[x.height] = g /\ \A h \in Heights : h # x.height => files'[h] = files[h]
        BY <1>2, <3>1 DEF RewindInv, FilesNamed
      <3> QED
        BY <2>1, <3>2, <3>3 DEF WriteAndInsert
    <2>2. CASE OpenFile
      <3> DEFINE g == File("torn", x, << >>)
      <3>1. files' = [files EXCEPT ![x.height] = g]
        BY <2>2 DEF OpenFile
      <3>2. Entry(g) = x /\ g.state = "torn" /\ g.height = x.height
        BY <1>2, FileOfHeader
      <3> HIDE DEF g, x
      <3>3. files'[x.height] = g /\ \A h \in Heights : h # x.height => files'[h] = files[h]
        BY <1>2, <3>1 DEF RewindInv, FilesNamed
      <3> QED
        BY <2>2, <3>2, <3>3 DEF OpenFile
    <2>3. CASE WriteHeader
      <3> DEFINE g == File("headed", x, << >>)
      <3>1. files' = [files EXCEPT ![x.height] = g]
        BY <2>3 DEF WriteHeader
      <3>2. Entry(g) = x /\ g.state = "headed" /\ g.height = x.height
        BY <1>2, FileOfHeader
      <3> HIDE DEF g, x
      <3>3. files'[x.height] = g /\ \A h \in Heights : h # x.height => files'[h] = files[h]
        BY <1>2, <3>1 DEF RewindInv, FilesNamed
      <3> QED
        BY <2>3, <3>2, <3>3 DEF WriteHeader
    <2> QED
      BY <2>1, <2>2, <2>3 DEF WriteStep
  <1> HIDE DEF x
  <1>5. files'[x.height] = f /\ \A h \in Heights : h # x.height => files'[h] = files[h]
    BY <1>3
  <1>6. FilesSound'
    <2> SUFFICES ASSUME NEW h \in Heights, files'[h] # NoFile
                 PROVE  files'[h].height = h /\ Sound(Entry(files'[h]))
      BY DEF FilesSound, Sound
    <2>1. CASE h = x.height
      BY <1>1, <1>3, <1>5, <2>1
    <2>2. CASE h # x.height
      BY <1>5, <2>2 DEF ManagedInv, FilesSound
    <2> QED
      BY <2>1, <2>2
  <1>7. ASSUME NEW e \in manager
        PROVE  /\ Sound(e) /\ Entry(files'[e.height]) = e
               /\ e.height # x.height => files'[e.height].state # "torn"
    <2>1. EntrySound(e) /\ OnChain(e)
      BY <1>0 DEF ManagedInv, ManagerSound, Loop
    <2>2. e.height \in Heights /\ Sound(e)
      BY <2>1 DEF EntrySound, Sound, Entries
    <2>3. CASE e.height = x.height
      BY <1>1, <1>3, <1>5, <2>1, <2>2, <2>3, OnePerHeight
    <2>4. CASE e.height # x.height
      BY <1>5, <2>1, <2>2, <2>4 DEF EntrySound, x
    <2> QED
      BY <2>3, <2>4
  <1> QED
    BY <1>0, <1>3, <1>5, <1>6, <1>7 DEF x, FileIsSound

LEMMA WriteManages ==
    ASSUME RewindInv, ManagedInv, OpenFile \/ WriteHeader
    PROVE  ManagedInv'
  <1>1. /\ UNCHANGED <<policy, ledger, manager, tool>>
        /\ \E state : files' = [files EXCEPT ![node.header.height] = File(state, node.header, << >>)]
        /\ node.pc \in {"open", "write"}
        /\ \E pc \in {"write", "insert"} : node' = [node EXCEPT !.pc = pc]
    BY DEF OpenFile, WriteHeader
  <1>2. /\ node'.pc \in {"write", "insert"} /\ node'.header = node.header
        /\ node'.doomed = node.doomed /\ node'.last = node.last /\ NodeFields'
    BY <1>1 DEF ManagedInv, NodeFields
  <1>3. /\ FilesSound'
        /\ \A e \in manager : /\ Sound(e) /\ Entry(files'[e.height]) = e
                              /\ e.height # node.header.height => files'[e.height].state # "torn"
    BY FileWritten DEF WriteStep, FileIsSound
  <1>4. \A e \in manager' : EntrySound(e)'
    BY <1>1, <1>2, <1>3 DEF EntrySound, Sound, Written
  <1>5. ManagerSound'
    BY <1>1, <1>2, <1>4 DEF ManagedInv, ManagerSound, OnChain, Loop
  <1> QED
    BY <1>1, <1>2, <1>3, <1>5 DEF ManagedInv, StoresAgree, HeaderSound, Sound, OnChain, Loop

LEMMA InsertManages ==
    ASSUME RewindInv, ManagedInv, WriteAndInsert
    PROVE  ManagedInv'
  <1> DEFINE m == {e \in manager : e.time # node.header.time} \cup {node.header}
  <1>1. /\ UNCHANGED <<policy, ledger, tool>> /\ node.pc = "insert" /\ manager' = m
        /\ files' = [files EXCEPT ![node.header.height] = File("whole", node.header, node.content)]
        /\ node' = [[node EXCEPT !.pc = "cull"] EXCEPT !.doomed = Rejected(m, node.header.time)]
    BY Zenon DEF WriteAndInsert
  <1>2. /\ node'.pc = "cull" /\ node'.doomed = Rejected(m, node.header.time)
        /\ node'.last = node.last /\ NodeFields'
    <2> HIDE DEF m
    <2> QED
      BY <1>1 DEF ManagedInv, NodeFields
  <1>3. node'.doomed \subseteq m
    <2> HIDE DEF m
    <2> QED
      BY <1>2 DEF Rejected
  <1>4. FileIsSound
    BY FileWritten DEF WriteStep
  <1>5. Sound(node.header) /\ OnChain(node.header)
    BY <1>1 DEF ManagedInv, HeaderSound
  <1>6. ASSUME NEW e \in m
        PROVE  EntrySound(e)' /\ OnChain(e)'
    <2>1. CASE e = node.header
      BY <1>1, <1>4, <1>5, <2>1 DEF EntrySound, Sound, OnChain, FileIsSound
    <2>2. CASE e \in manager
      <3>1. OnChain(e)
        BY <1>1, <2>2 DEF ManagedInv, ManagerSound, Loop
      <3>2. files'[e.height].state # "torn"
        BY <1>4, <2>2 DEF FileIsSound
      <3> QED
        BY <1>1, <1>4, <2>2, <3>1, <3>2 DEF EntrySound, Sound, OnChain, FileIsSound
    <2> QED
      BY <2>1, <2>2
  <1> HIDE DEF m
  <1>7. ManagerSound'
    BY <1>1, <1>2, <1>3, <1>6 DEF ManagerSound
  <1>8. HeaderSound'
    BY <1>1, <1>2 DEF ManagedInv, HeaderSound, Loop
  <1> QED
    BY <1>1, <1>2, <1>4, <1>7, <1>8 DEF ManagedInv, StoresAgree, FileIsSound

LEMMA KillNodeManages ==
    ASSUME RewindInv, ManagedInv, KillNode
    PROVE  ManagedInv'
  <1>1. /\ UNCHANGED <<policy, ledger, files, tool>> /\ node' = Off /\ manager' = {}
    BY DEF KillNode
  <1> QED
    BY <1>1 DEF ManagedInv, NodeFields, FilesSound, StoresAgree, ManagerSound, HeaderSound,
                Sound, Off, Loop

LEMMA AdvanceManages ==
    ASSUME RewindInv, ManagedInv, Advance
    PROVE  ManagedInv'
  <1>1. PICK t \in 1 .. MaxTime :
            \E maps : ledger' = Ledger(Append(ledger.chain, t), maps)
    BY DEF Advance
  <1> DEFINE old == ledger.chain
             chain == Append(old, t)
  <1>2. /\ UNCHANGED <<policy, files, manager, node, tool>> /\ node.pc # "off"
        /\ Len(old) < MaxHeight
    BY DEF Advance, Running
  <1>3. old \in Seq(1 .. MaxTime) /\ Len(old) \in Nat
    BY DEF RewindInv, HeightsOfChain
  <1>4. \A h \in 1 .. Len(old) : Hash(chain, h) = Hash(old, h) /\ h \in 1 .. Len(chain)
    <2> HIDE DEF old
    <2> QED
      BY <1>1, <1>3, HashOfAppend
  <1>5. chain \in Seq(1 .. MaxTime) /\ Len(chain) = Len(old) + 1
    <2> HIDE DEF old
    <2> QED
      BY <1>1, <1>3, AppendProperties
  <1> HIDE DEF chain
  <1>6. PICK maps : ledger' = Ledger(chain, maps)
    BY <1>1 DEF chain
  <1>7. /\ ledger'.chain = chain /\ ledger'.blocks = 1 .. Len(chain)
        /\ ledger'.committees = 1 .. Len(chain)
    BY <1>6, LedgerFields
  <1>8. StoresAgree'
    <2>1. Tallest(Stored(ledger')) = Len(chain)
      BY <1>5, <1>6, TopOfNewLedger
    <2>2. Len(chain) <= MaxHeight
      BY <1>2, <1>3, <1>5, BoundsAssumption
    <2> QED
      BY <1>2, <1>7, <2>1, <2>2 DEF ManagedInv, StoresAgree
  <1>9. \A e : OnChain(e) => OnChain(e)'
    BY <1>4, <1>7 DEF OnChain
  <1>10. ManagerSound'
    BY <1>2, <1>9 DEF ManagedInv, ManagerSound, EntrySound, Written, Sound
  <1>11. HeaderSound'
    BY <1>2, <1>3, <1>5, <1>7, <1>9 DEF ManagedInv, HeaderSound, Sound
  <1> QED
    BY <1>2, <1>8, <1>10, <1>11 DEF ManagedInv, NodeFields, FilesSound, Sound

(***************************************************************************)
(* The steps while the node is off: nothing is managed.                    *)
(***************************************************************************)

LEMMA OffManages ==
    ASSUME ManagedInv, node.pc = "off", UNCHANGED <<policy, manager, node>>,
           FilesSound', StoresAgree'
    PROVE  ManagedInv'
  BY DEF ManagedInv, NodeFields, ManagerSound, HeaderSound, Loop

\* The steps of a command that works on the stores leave the chain until the
\* last one cuts it to what is left.
LEMMA RewindManages ==
    ASSUME RewindInv, RewindInv', ManagedInv,
           Apply \/ Remove \/ DropMappings \/ WriteMappings \/ SetRound \/ KillTool
    PROVE  ManagedInv'
  <1>1. UNCHANGED <<policy, files, manager, node>> /\ node.pc = "off"
    BY DEF Apply, Idle, Remove, DropMappings, WriteMappings, SetRound, KillTool, RewindInv, Rewinding
  <1>2. FilesSound'
    BY <1>1 DEF ManagedInv, FilesSound, Sound
  <1>3. Len(ledger.chain) \in Nat /\ Len(ledger.chain) <= MaxHeight
    BY DEF RewindInv, HeightsOfChain, ManagedInv, StoresAgree
  <1>4. StoresAgree'
    <2>1. CASE Apply
      <3>1. ledger' = ledger /\ tool.op = "none"
        BY <2>1 DEF Apply, Idle
      <3> QED
        BY <1>1, <3>1 DEF ManagedInv, StoresAgree
    <2>2. CASE Remove \/ DropMappings \/ WriteMappings
      <3>1. /\ ledger'.chain = ledger.chain /\ tool'.op # "none"
        <4>1. CASE Remove
          <5>1. PICK h \in Removed : RemoveBlock(h) \/ RemoveTransactions(h) \/ RemoveCommittee(h)
            BY <4>1 DEF Remove
          <5>2. ledger'.chain = ledger.chain
            BY <5>1 DEF RemoveBlock, RemoveTransactions, RemoveCommittee, RewindInv, Fields
          <5> QED
            BY <4>1, <5>2 DEF Remove
        <4>2. CASE DropMappings
          BY <4>2 DEF DropMappings, RewindInv, Fields
        <4>3. CASE WriteMappings
          BY <4>3 DEF WriteMappings, RewindInv, Fields
        <4> QED
          BY <2>2, <4>1, <4>2, <4>3
      <3> QED
        BY <1>1, <1>3, <3>1 DEF StoresAgree
    <2>3. CASE SetRound
      <3> DEFINE k == tool.file.height
      <3>1. Exact
        BY <2>3, SetRoundKeeps
      <3>2. HasUpTo(k) /\ ledger.committees = 1 .. k
        BY <2>3 DEF SetRound, RewindInv, Rewinding
      <3>3. k \in 0 .. Len(ledger.chain) /\ k \in Nat
        BY <1>3, <3>2 DEF HasUpTo
      <3>4. ledger.chain \in Seq(1 .. MaxTime) /\ Hash(ledger.chain, k) = tool.file.hash
        BY <3>2 DEF RewindInv, HeightsOfChain, HasUpTo
      <3>5. Len(ledger'.chain) = k
        <4>1. Len(Hash(ledger.chain, k)) = k
          BY <3>3, <3>4, HashOfChain
        <4> QED
          BY <3>1, <3>4, <4>1 DEF Exact
      <3>6. Stored(ledger') = ledger'.committees /\ CurrentHeight(ledger') = k
        BY <3>1 DEF Exact, Loads, Stored
      <3> HIDE DEF k
      <3> QED
        BY <1>1, <1>3, <3>3, <3>5, <3>6, BoundsAssumption DEF StoresAgree, CurrentHeight
    <2>4. CASE KillTool
      <3> DEFINE chain == Hash(ledger.chain, Tallest(Stored(ledger)))
      <3>1. /\ ledger' = [ledger EXCEPT !.chain = chain]
        BY <2>4 DEF KillTool, Stored
      <3>2. ledger.chain \in Seq(1 .. MaxTime) /\ Stored(ledger) \subseteq 1 .. Len(ledger.chain)
        BY DEF RewindInv, HeightsOfChain, Stored
      <3>3. Tallest(Stored(ledger)) \in 0 .. Len(ledger.chain)
        BY <1>3, <3>2, TallestExists
      <3>4. Len(chain) = Tallest(Stored(ledger))
        BY <3>2, <3>3, HashOfChain
      <3> HIDE DEF chain
      <3>5. ledger'.chain = chain /\ Stored(ledger') = Stored(ledger)
        BY <3>1 DEF RewindInv, Fields, Stored
      <3>6. Len(ledger'.chain) <= MaxHeight
        BY <1>3, <3>3, <3>4, <3>5, BoundsAssumption
      <3> QED
        BY <1>1, <3>4, <3>5, <3>6 DEF StoresAgree
    <2> QED
      BY <2>1, <2>2, <2>3, <2>4
  <1> QED
    BY <1>1, <1>2, <1>4, OffManages

LEMMA CommandsManage ==
    ASSUME RewindInv, ManagedInv, Clean \/ Create \/ Wipe
    PROVE  ManagedInv'
  <1>1. UNCHANGED <<policy, manager, node>> /\ node.pc = "off" /\ tool.op = "none" /\ tool'.op = "none"
    BY DEF Clean, Create, Wipe, Idle, NoTool
  <1>2. FilesSound'
    <2>1. CASE Clean
      <3>1. PICK m : files' = [h \in Heights |-> IF \E e \in Incompatible(m, ledger) : e.height = h
                                                 THEN NoFile ELSE files[h]]
        BY <2>1 DEF Clean
      <3>2. ASSUME NEW h \in Heights
            PROVE  files'[h] \in {NoFile, files[h]}
        BY <3>1
      <3> QED
        BY <3>2 DEF ManagedInv, FilesSound, Sound
    <2>2. CASE Create
      <3> DEFINE x == Header(ledger)
                 f == File("whole", Header(ledger), ledger.maps)
      <3>1. /\ files' = [files EXCEPT ![CurrentHeight(ledger)] = f]
            /\ Loads(ledger) /\ ledger.chain # << >>
        BY <2>2 DEF Create
      <3>2. Len(ledger.chain) # 0 /\ ledger.committees = 1 .. Len(ledger.chain)
        <4>1. ledger.chain \in Seq(1 .. MaxTime)
          BY DEF RewindInv, HeightsOfChain
        <4>2. Len(ledger.chain) # 0
          BY <3>1, <4>1, EmptySeq
        <4> QED
          BY <1>1, <3>1, <4>2, OpenLedger DEF ManagedInv
      <3>3. Sound(x) /\ x.height = CurrentHeight(ledger)
        <4>1. Sound(x)
          BY <3>2, HeaderOfTop DEF ManagedInv
        <4> QED
          BY <4>1 DEF Header
      <3>4. Entry(f) = x /\ f.height = x.height
        <4>1. x \in Entries
          BY <3>3 DEF Sound
        <4> QED
          BY <4>1, FileOfHeader
      <3> HIDE DEF x, f
      <3>5. \A h \in Heights : files'[h] = IF h = x.height THEN f ELSE files[h]
        BY <3>1, <3>3 DEF RewindInv, FilesNamed
      <3> QED
        BY <3>3, <3>4, <3>5 DEF ManagedInv, FilesSound, Sound
    <2>3. CASE Wipe
      BY <2>3 DEF Wipe, ManagedInv, FilesSound, Sound
    <2> QED
      BY <2>1, <2>2, <2>3
  <1>3. StoresAgree'
    <2>1. CASE Clean \/ Create
      <3>1. ledger' = ledger
        BY <2>1 DEF Clean, Create
      <3> QED
        BY <1>1, <3>1 DEF ManagedInv, StoresAgree
    <2>2. CASE Wipe
      <3> DEFINE none == << >>
      <3>1. ledger' = Ledger(none, none)
        BY <2>2 DEF Wipe
      <3>2. none \in Seq(1 .. MaxTime) /\ Len(none) = 0
        BY EmptySeq
      <3> HIDE DEF none
      <3>3. ledger'.chain = none
        BY <3>1, LedgerFields
      <3>4. Tallest(Stored(ledger')) = Len(none)
        BY <3>1, <3>2, TopOfNewLedger
      <3> QED
        BY <1>1, <3>2, <3>3, <3>4, BoundsAssumption DEF StoresAgree
    <2> QED
      BY <2>1, <2>2
  <1> QED
    BY <1>1, <1>2, <1>3, OffManages

(***************************************************************************)
(* The theorem.                                                            *)
(***************************************************************************)

LEMMA InitManages == Init => ManagedInv
  <1> SUFFICES ASSUME Init
               PROVE  ManagedInv
    OBVIOUS
  <1> DEFINE none == << >>
  <1>1. /\ ledger = Ledger(none, none) /\ tool = NoTool /\ policy \in PolicySet
        /\ files = [h \in Heights |-> NoFile] /\ manager = {} /\ node = Off
    BY DEF Init
  <1>2. none \in Seq(1 .. MaxTime) /\ Len(none) = 0
    BY EmptySeq
  <1> HIDE DEF none
  <1>3. ledger.chain = none /\ Tallest(Stored(ledger)) = Len(none)
    BY <1>1, <1>2, LedgerFields, TopOfNewLedger
  <1>4. node.pc = "off" /\ node.doomed = {} /\ NodeFields
    BY <1>1 DEF NodeFields, Off
  <1>5. StoresAgree
    BY <1>2, <1>3, <1>4, BoundsAssumption DEF StoresAgree
  <1> QED
    BY <1>1, <1>4, <1>5 DEF ManagedInv, FilesSound, ManagerSound, HeaderSound, Loop

LEMMA StepManages ==
    RewindInv /\ RewindInv' /\ ManagedInv /\ [Next]_vars => ManagedInv'
  <1> SUFFICES ASSUME RewindInv, RewindInv', ManagedInv, [Next]_vars
               PROVE  ManagedInv'
    OBVIOUS
  <1>1. CASE Start
    BY <1>1, StartManages
  <1>2. CASE Purge \/ Purged \/ Tick \/ ReadHeader \/ ReadContent \/ Culled
    BY <1>2, LoopManages
  <1>3. CASE Delete
    BY <1>3, DeleteManages
  <1>4. CASE OpenFile \/ WriteHeader
    BY <1>4, WriteManages
  <1>5. CASE WriteAndInsert
    BY <1>5, InsertManages
  <1>6. CASE KillNode
    BY <1>6, KillNodeManages
  <1>7. CASE Advance
    BY <1>7, AdvanceManages
  <1>8. CASE Apply \/ Remove \/ DropMappings \/ WriteMappings \/ SetRound \/ KillTool
    BY <1>8, RewindManages
  <1>9. CASE Clean \/ Create \/ Wipe
    BY <1>9, CommandsManage
  <1>10. CASE UNCHANGED vars
    BY <1>10 DEF vars, ManagedInv, NodeFields, FilesSound, StoresAgree, ManagerSound,
                 HeaderSound, EntrySound, OnChain, Sound, Written
  <1> QED
    BY <1>1, <1>2, <1>3, <1>4, <1>5, <1>6, <1>7, <1>8, <1>9, <1>10 DEF Next

LEMMA InvManages == RewindInv /\ ManagedInv => Managed
  <1> SUFFICES ASSUME RewindInv, ManagedInv
               PROVE  Managed
    OBVIOUS
  <1>1. TypeOK
    <2>1. \A e \in manager : e \in Entries
      BY DEF ManagedInv, ManagerSound, EntrySound, Sound
    <2>2. \A h \in Heights : files[h] # NoFile => files[h].height = h /\ Entry(files[h]) \in Entries
      BY DEF ManagedInv, FilesSound, Sound
    <2>3. policy \in PolicySet /\ node.doomed \subseteq manager
      BY DEF ManagedInv, NodeFields, ManagerSound
    <2>4. Len(ledger.chain) <= MaxHeight /\ (Running => tool.op = "none")
      BY DEF ManagedInv, StoresAgree, Running
    <2> QED
      BY <2>1, <2>2, <2>3, <2>4 DEF RewindInv, HeightsOfChain, TypeOK
  <1>2. ManagedOnChain
    <2> SUFFICES ASSUME node.pc \in Loop, NEW e \in manager
                 PROVE  /\ e.height <= Len(ledger.chain)
                        /\ Hash(ledger.chain, e.height) = e.hash
                        /\ (Written /\ node.header.height = e.height) \/ files[e.height].state # "torn"
                        /\ Entry(files[e.height]) = e
      BY DEF ManagedOnChain, Loop
    <2>1. EntrySound(e) /\ OnChain(e)
      BY DEF ManagedInv, ManagerSound
    <2>2. Len(ledger.chain) \in Nat
      BY DEF RewindInv, HeightsOfChain
    <2> QED
      BY <2>1, <2>2 DEF EntrySound, OnChain
  <1> QED
    BY <1>1, <1>2 DEF Managed

(* What a running node's manager knows is of its ledger, and each entry is *)
(* that of the file at its height, through wiped ledgers, kills while a    *)
(* file is written, blocks added at any moment, and commands; with the     *)
(* types.                                                                  *)
THEOREM ManagerIsSound == Spec => []Managed
  <1>1. Init => RewindInv /\ ManagedInv
    BY InitHolds, InitManages
  <1>2. RewindInv /\ [Next]_vars => RewindInv'
    BY StepKeeps
  <1>3. (RewindInv /\ ManagedInv) /\ [Next]_vars => (RewindInv /\ ManagedInv)'
    BY <1>2, StepManages
  <1> QED
    BY <1>1, <1>3, InvManages, PTL DEF Spec

(***************************************************************************)
(* Walks and chains, which are recursive functions.                        *)
(***************************************************************************)

\* Counting up to a number.
LEMMA CountUp ==
    ASSUME NEW N \in Nat, NEW S, 0 \in S,
           \A n \in 0 .. N : n \in S /\ n < N => n + 1 \in S
    PROVE  0 .. N \subseteq S
  <1> DEFINE T == (0 .. N) \ S
  <1> SUFFICES ASSUME T # {}
               PROVE  FALSE
    OBVIOUS
  <1>1. T \subseteq Nat
    OBVIOUS
  <1>2. PICK x \in T : \A y \in T : x <= y
    <2> HIDE DEF T
    <2> QED
      BY <1>1, LeastExists
  <1>3. x # 0 /\ x \in 0 .. N
    BY <1>2
  <1>4. x - 1 \in 0 .. N /\ x - 1 \in S /\ x - 1 < N
    BY <1>2, <1>3
  <1>5. x - 1 + 1 \in S
    BY <1>4
  <1> QED
    BY <1>2, <1>3, <1>5

LEMMA StaysIn ==
    ASSUME NEW N \in Nat, NEW W, NEW g, g = [n \in 0 .. N |-> g[n]], g[0] \in W,
           \A n \in 1 .. N : g[n - 1] \in W => g[n] \in W
    PROVE  g \in [0 .. N -> W]
  <1> DEFINE S == {n \in 0 .. N : g[n] \in W}
  <1>1. 0 \in S
    OBVIOUS
  <1>2. ASSUME NEW n \in 0 .. N, n \in S, n < N
        PROVE  n + 1 \in S
    <2>1. \A k \in 1 .. N : k - 1 = n => g[k] \in W
      BY <1>2
    <2>2. PICK k \in 1 .. N : k - 1 = n /\ k = n + 1
      BY <1>2
    <2>3. g[k] \in W
      BY <2>1, <2>2
    <2>4. k \in S
      BY <2>2, <2>3
    <2> HIDE DEF S
    <2> QED
      BY <2>2, <2>4
  <1>3. 0 .. N \subseteq S
    <2> HIDE DEF S
    <2> QED
      BY <1>1, <1>2, CountUp
  <1> QED
    BY <1>3

\* A function that is defined from its value before, step by step.
Iterates(g, N, start, F) == g = [n \in 0 .. N |-> IF n = 0 THEN start ELSE F[g[n - 1]]]

LEMMA IterationExists ==
    ASSUME NEW N \in Nat, NEW W, NEW start \in W, NEW F \in [W -> W]
    PROVE  \E g \in [0 .. N -> W] : Iterates(g, N, start, F)
  <1> DEFINE S == {k \in 0 .. N : \E g \in [0 .. k -> W] : Iterates(g, k, start, F)}
  <1>1. 0 \in S
    <2> DEFINE g == [n \in 0 .. 0 |-> start]
    <2>1. g \in [0 .. 0 -> W] /\ Iterates(g, 0, start, F)
      BY DEF Iterates
    <2> QED
      BY <2>1
  <1>2. ASSUME NEW k \in 0 .. N, k \in S, k < N
        PROVE  k + 1 \in S
    <2>1. PICK g \in [0 .. k -> W] : Iterates(g, k, start, F)
      BY <1>2
    <2> DEFINE h == [n \in 0 .. k + 1 |-> IF n = k + 1 THEN F[g[k]] ELSE g[n]]
    <2>2. h \in [0 .. k + 1 -> W]
      BY <2>1
    <2>3. ASSUME NEW n \in 0 .. k + 1
          PROVE  h[n] = IF n = 0 THEN start ELSE F[h[n - 1]]
      <3>1. CASE n = k + 1
        BY <3>1
      <3>2. CASE n # k + 1
        <4>1. n \in 0 .. k /\ g[n] = IF n = 0 THEN start ELSE F[g[n - 1]]
          BY <2>1, <3>2 DEF Iterates
        <4>2. n # 0 => h[n - 1] = g[n - 1]
          BY <4>1
        <4> QED
          BY <3>2, <4>1, <4>2
      <3> QED
        BY <3>1, <3>2
    <2> HIDE DEF h
    <2>4. Iterates(h, k + 1, start, F)
      BY <2>2, <2>3 DEF Iterates
    <2> QED
      BY <1>2, <2>2, <2>4
  <1>3. 0 .. N \subseteq S
    <2> HIDE DEF S
    <2> QED
      BY <1>1, <1>2, CountUp
  <1>4. N \in S
    BY <1>3
  <1> QED
    BY <1>4

\* The walk of the code, where its turns lead from states to states.
LEMMA WalkIterates ==
    ASSUME NEW rules, NEW now, NEW sorted, NEW W,
           Len(sorted) + Len(rules) \in Nat,
           FirstTurn(rules, sorted) \in W,
           \A w \in W : Turn(rules, now, sorted, w) \in W
    PROVE  LET N == Len(sorted) + Len(rules)
               walk == Walk(rules, now, sorted)
           IN  /\ walk \in [0 .. N -> W]
               /\ walk[0] = FirstTurn(rules, sorted)
               /\ \A n \in 1 .. N : walk[n] = Turn(rules, now, sorted, walk[n - 1])
  <1> DEFINE N == Len(sorted) + Len(rules)
             start == FirstTurn(rules, sorted)
             F == [w \in W |-> Turn(rules, now, sorted, w)]
             Is(g) == g = [n \in 0 .. N |-> IF n = 0 THEN start
                                            ELSE Turn(rules, now, sorted, g[n - 1])]
             walk == Walk(rules, now, sorted)
  <1>1. start \in W /\ F \in [W -> W]
    OBVIOUS
  <1>2. PICK g \in [0 .. N -> W] : Iterates(g, N, start, F)
    <2> HIDE DEF N, start, F
    <2> QED
      BY <1>1, IterationExists DEF N
  <1>3. Is(g)
    <2>1. \A n \in 0 .. N : n # 0 => n - 1 \in 0 .. N /\ F[g[n - 1]] = Turn(rules, now, sorted, g[n - 1])
      BY <1>2
    <2> HIDE DEF N, start, F
    <2> QED
      BY <1>2, <2>1 DEF Iterates
  <1>4. walk = CHOOSE h : Is(h)
    BY DEF Walk
  <1>5. Is(walk)
    <2> HIDE DEF Is, walk
    <2> QED
      BY <1>3, <1>4
  <1> HIDE DEF N, start, walk
  <1>6. /\ walk[0] = start
        /\ \A n \in 1 .. N : walk[n] = Turn(rules, now, sorted, walk[n - 1])
        /\ DOMAIN walk = 0 .. N /\ walk = [n \in 0 .. N |-> walk[n]]
    BY <1>5 DEF N
  <1>7. \A n \in 1 .. N : walk[n - 1] \in W => walk[n] \in W
    BY <1>6
  <1>8. walk \in [0 .. N -> W]
    BY <1>1, <1>6, <1>7, StaysIn DEF N
  <1> QED
    BY <1>6, <1>8 DEF N, start, walk

(***************************************************************************)
(* Times in their order.                                                   *)
(***************************************************************************)

LEMMA DeltaIsPositive ==
    ASSUME NEW span \in Spans, Bounded(span)
    PROVE  AsDelta(span) \in Nat \ {0}
  <1>1. /\ DOMAIN Minutes = {"m", "h", "D", "W", "M", "Y"}
        /\ Minutes["m"] = 1 /\ Minutes["h"] = 60 /\ Minutes["D"] = 1440
        /\ Minutes["W"] = 10080 /\ Minutes["M"] = 43200 /\ Minutes["Y"] = 525600
    BY DEF Minutes
  <1>2. span.unit \in DOMAIN Minutes /\ span.count \in 1 .. 255
    BY DEF Spans, Bounded
  <1> DEFINE c == span.count
  <1>3. c \in Nat \ {0}
    BY <1>2
  <1>4. AsDelta(span) \in {1 * c, 60 * c, 1440 * c, 10080 * c, 43200 * c, 525600 * c}
    BY <1>1, <1>2 DEF AsDelta
  <1> HIDE DEF c
  <1> QED
    BY <1>3, <1>4

LEMMA Extremes ==
    ASSUME NEW n \in Nat, NEW S, S \subseteq 1 .. n, S # {}
    PROVE  /\ Latest(S) \in S /\ \A u \in S : u <= Latest(S)
           /\ Earliest(S) \in S /\ \A u \in S : Earliest(S) <= u
  <1>1. \A u \in S : u \in 1 .. n /\ u \in Nat
    OBVIOUS
  <1>2. Tallest(S) \in 0 .. n /\ S \subseteq 1 .. Tallest(S) /\ Tallest(S) = Latest(S)
    BY TallestExists DEF Tallest
  <1>3. \E x \in S : \A u \in S : u <= x
    <2> DEFINE T == {n - x : x \in S}
    <2>1. T \subseteq Nat
      BY <1>1
    <2>2. T # {}
      OBVIOUS
    <2>3. PICK m \in T : \A y \in T : m <= y
      <3> HIDE DEF T
      <3> QED
        BY <2>1, <2>2, LeastExists
    <2>4. PICK x \in S : m = n - x
      BY <2>3
    <2>5. ASSUME NEW u \in S
          PROVE  u <= x
      <3>1. m <= n - u
        BY <2>3
      <3> QED
        BY <1>1, <2>4, <3>1
    <2> QED
      BY <2>5
  <1>4. \E x \in S : \A u \in S : x <= u
    BY <1>1, LeastExists
  <1> QED
    BY <1>3, <1>4 DEF Latest, Earliest

Newer(T, t) == {u \in T : u > t}

LEMMA RankFalls ==
    ASSUME NEW n \in Nat, NEW T, T \subseteq 1 .. n
    PROVE  /\ IsFiniteSet(T) /\ Cardinality(T) \in Nat
           /\ \A t \in T : Cardinality(Newer(T, t)) \in 0 .. Cardinality(T) - 1
           /\ \A t, u \in T : t < u => Cardinality(Newer(T, u)) < Cardinality(Newer(T, t))
  <1>1. IsFiniteSet(T) /\ Cardinality(T) \in Nat
    <2>1. IsFiniteSet(1 .. n) /\ T \in SUBSET (1 .. n)
      BY FS_Interval
    <2>2. IsFiniteSet(T)
      BY <2>1, FS_Subset
    <2> QED
      BY <2>2, FS_CardinalityType
  <1>2. \A t \in T : t \in Nat
    OBVIOUS
  <1>3. ASSUME NEW S \in SUBSET T, NEW R \in SUBSET S, NEW x \in S, x \notin R
        PROVE  Cardinality(R) \in Nat /\ Cardinality(S) \in Nat /\ Cardinality(R) < Cardinality(S)
    <2>1. IsFiniteSet(S) /\ IsFiniteSet(R)
      BY <1>1, FS_Subset
    <2>2. Cardinality(R) <= Cardinality(S) /\ Cardinality(R) # Cardinality(S)
      BY <1>3, <2>1, FS_Subset
    <2>3. Cardinality(R) \in Nat /\ Cardinality(S) \in Nat
      BY <2>1, FS_CardinalityType
    <2> QED
      BY <2>2, <2>3
  <1>4. ASSUME NEW t \in T
        PROVE  Cardinality(Newer(T, t)) \in 0 .. Cardinality(T) - 1
    <2>1. Newer(T, t) \in SUBSET T /\ t \notin Newer(T, t)
      BY <1>2 DEF Newer
    <2>2. /\ Cardinality(Newer(T, t)) \in Nat /\ Cardinality(Newer(T, t)) < Cardinality(T)
      BY <1>3, <2>1
    <2> QED
      BY <1>1, <2>2
  <1>5. ASSUME NEW t \in T, NEW u \in T, t < u
        PROVE  Cardinality(Newer(T, u)) < Cardinality(Newer(T, t))
    <2>1. /\ Newer(T, t) \in SUBSET T
          /\ u \in Newer(T, t) /\ u \notin Newer(T, u)
      BY <1>2, <1>5 DEF Newer
    <2>2. ASSUME NEW x \in Newer(T, u)
          PROVE  x \in Newer(T, t)
      <3>1. x \in T /\ x > u /\ x \in Nat /\ t \in Nat /\ u \in Nat
        BY <1>2 DEF Newer
      <3>2. x > t
        BY <1>5, <3>1
      <3> QED
        BY <3>1, <3>2 DEF Newer
    <2> QED
      BY <1>3, <2>1, <2>2
  <1> QED
    BY <1>1, <1>4, <1>5

LEMMA RankExists ==
    ASSUME NEW n \in Nat, NEW T, T \subseteq 1 .. n, NEW k \in 0 .. Cardinality(T) - 1
    PROVE  \E t \in T : Cardinality(Newer(T, t)) = k
  <1> DEFINE N == Cardinality(T)
             S == {j \in 0 .. N - 1 : \E t \in T : Cardinality(Newer(T, t)) = j}
  <1>1. IsFiniteSet(T) /\ N \in Nat /\ N # 0 /\ N - 1 \in Nat /\ T # {}
    <2>1. IsFiniteSet(T) /\ N \in Nat
      BY RankFalls
    <2>2. N # 0 /\ N - 1 \in Nat
      BY <2>1
    <2> QED
      BY <2>1, <2>2, FS_EmptySet
  <1>2. \A t \in T : t \in Nat
    OBVIOUS
  <1>3. 0 \in S
    <2>1. Latest(T) \in T /\ \A u \in T : u <= Latest(T)
      BY <1>1, Extremes
    <2>2. ASSUME NEW u \in Newer(T, Latest(T))
          PROVE  FALSE
      <3>1. u \in T /\ u > Latest(T)
        BY DEF Newer
      <3>2. u \in Nat /\ Latest(T) \in Nat /\ u <= Latest(T)
        BY <1>2, <2>1, <3>1
      <3> QED
        BY <3>1, <3>2
    <2>3. Newer(T, Latest(T)) = {}
      BY <2>2
    <2>4. Cardinality(Newer(T, Latest(T))) = 0
      BY <2>3, FS_EmptySet
    <2>5. 0 \in 0 .. N - 1
      BY <1>1
    <2> QED
      BY <2>1, <2>4, <2>5
  <1>4. ASSUME NEW j \in 0 .. N - 1, j \in S, j < N - 1
        PROVE  j + 1 \in S
    <2>1. PICK t \in T : Cardinality(Newer(T, t)) = j
      BY <1>4
    <2>2. IsFiniteSet(Newer(T, t)) /\ t \notin Newer(T, t)
      BY <1>1, <1>2, FS_Subset DEF Newer
    <2>3. Cardinality(Newer(T, t) \cup {t}) = j + 1
      BY <2>1, <2>2, FS_AddElement
    <2> DEFINE B == {u \in T : u < t}
    <2>4. B # {}
      <3> SUFFICES ASSUME B = {}
                   PROVE  FALSE
        OBVIOUS
      <3>1. ASSUME NEW u \in T
            PROVE  u \in Newer(T, t) \cup {t}
        <4>1. u \in Nat /\ t \in Nat /\ ~(u < t)
          BY <1>2
        <4> QED
          BY <4>1 DEF Newer
      <3>2. T = Newer(T, t) \cup {t}
        BY <3>1 DEF Newer
      <3>3. N = j + 1
        BY <2>3, <3>2
      <3> QED
        BY <1>1, <1>4, <3>3
    <2>5. Latest(B) \in B /\ \A u \in B : u <= Latest(B)
      <3>1. B \subseteq 1 .. n
        OBVIOUS
      <3> HIDE DEF B
      <3> QED
        BY <2>4, <3>1, Extremes
    <2> DEFINE x == Latest(B)
    <2>6. ASSUME NEW u \in T
          PROVE  u > x <=> u > t \/ u = t
      <3>1. x \in T /\ x < t /\ (u < t => u <= x)
        BY <2>5
      <3> HIDE DEF x, B
      <3> QED
        BY <1>2, <3>1
    <2>7. Newer(T, x) = Newer(T, t) \cup {t}
      BY <2>6 DEF Newer
    <2>8. j + 1 \in 0 .. N - 1 /\ x \in T
      BY <1>1, <1>4, <2>5
    <2> HIDE DEF x, N
    <2> QED
      BY <2>3, <2>7, <2>8
  <1>5. 0 .. N - 1 \subseteq S
    <2> HIDE DEF S, N
    <2> QED
      BY <1>1, <1>3, <1>4, CountUp
  <1> QED
    BY <1>5

\* NewestFirst sorts.
LEMMA NewestFirstSorts ==
    ASSUME NEW n \in Nat, NEW T, T \subseteq 1 .. n
    PROVE  LET N == Cardinality(T)
               sorted == NewestFirst(T)
           IN  /\ N \in Nat /\ sorted \in [1 .. N -> T] /\ Len(sorted) = N
               /\ \A i, j \in 1 .. N : i < j => sorted[j] < sorted[i]
               /\ \A t \in T : \E i \in 1 .. N : sorted[i] = t
  <1> DEFINE N == Cardinality(T)
             sorted == NewestFirst(T)
             rank(t) == Cardinality(Newer(T, t))
  <1>0. \A t \in T : t \in Nat
    OBVIOUS
  <1>1. /\ IsFiniteSet(T) /\ N \in Nat
        /\ \A t \in T : rank(t) \in 0 .. N - 1
        /\ \A t, u \in T : t < u => rank(u) < rank(t)
    BY RankFalls
  <1>2. sorted = [i \in 1 .. N |-> CHOOSE t \in T : rank(t) = i - 1]
    BY DEF NewestFirst, Newer
  <1>3. ASSUME NEW i \in 1 .. N
        PROVE  sorted[i] \in T /\ rank(sorted[i]) = i - 1
    <2>1. i - 1 \in 0 .. N - 1
      BY <1>1, <1>3
    <2>2. \E t \in T : rank(t) = i - 1
      BY <2>1, RankExists
    <2>3. sorted[i] = CHOOSE t \in T : rank(t) = i - 1
      BY <1>2
    <2> HIDE DEF sorted, rank
    <2> QED
      BY <2>2, <2>3
  <1> HIDE DEF rank, sorted
  <1>4. sorted \in [1 .. N -> T]
    BY <1>2, <1>3
  <1>5. sorted \in Seq(T) /\ Len(sorted) = N
    BY <1>1, <1>4
  <1>6. ASSUME NEW i \in 1 .. N, NEW j \in 1 .. N, i < j
        PROVE  sorted[j] < sorted[i]
    <2>1. /\ sorted[i] \in T /\ sorted[j] \in T /\ rank(sorted[i]) = i - 1 /\ rank(sorted[j]) = j - 1
      BY <1>3
    <2>2. rank(sorted[i]) < rank(sorted[j]) /\ rank(sorted[i]) \in Nat /\ rank(sorted[j]) \in Nat
      BY <1>6, <2>1
    <2>3. sorted[i] < sorted[j] => rank(sorted[j]) < rank(sorted[i])
      BY <1>1, <2>1
    <2>4. sorted[i] # sorted[j] /\ ~(sorted[i] < sorted[j])
      BY <2>2, <2>3
    <2>5. sorted[i] \in Nat /\ sorted[j] \in Nat
      BY <1>0, <2>1
    <2> QED
      BY <2>4, <2>5
  <1>7. ASSUME NEW t \in T
        PROVE  \E i \in 1 .. N : sorted[i] = t
    <2> DEFINE i == rank(t) + 1
    <2>1. i \in 1 .. N /\ i - 1 = rank(t)
      BY <1>1
    <2>2. sorted[i] \in T /\ rank(sorted[i]) = rank(t)
      BY <1>3, <2>1
    <2>3. rank(t) \in Nat
      BY <1>1
    <2>4. /\ sorted[i] < t => rank(t) < rank(sorted[i])
          /\ t < sorted[i] => rank(sorted[i]) < rank(t)
      BY <1>1, <2>2
    <2>5. ~(sorted[i] < t) /\ ~(t < sorted[i])
      BY <2>2, <2>3, <2>4
    <2>6. sorted[i] \in Nat /\ t \in Nat
      BY <1>0, <2>2
    <2>7. sorted[i] = t
      BY <2>5, <2>6
    <2> QED
      BY <2>1, <2>7
  <1> QED
    BY <1>1, <1>4, <1>5, <1>6, <1>7 DEF sorted

(***************************************************************************)
(* The walk of any policy keeps the newest time.                           *)
(***************************************************************************)

WalkStates(rules, T, R) ==
    [i : Nat \ {0, 1}, r : 1 .. Len(rules), kept : T, rejected : SUBSET R, inner : BOOLEAN]

LEMMA ConsumeTyped ==
    ASSUME NEW rules, NEW T, NEW R, NEW w \in WalkStates(rules, T, R), NEW kept \in T
    PROVE  /\ Consume(w, kept) \in WalkStates(rules, T, R)
           /\ \A x \in R : [w EXCEPT !.rejected = @ \cup {x}] \in WalkStates(rules, T, R)
           /\ \A b \in BOOLEAN : [w EXCEPT !.inner = b] \in WalkStates(rules, T, R)
           /\ \A b \in BOOLEAN : w.r > 1 =>
                    [w EXCEPT !.r = @ - 1, !.inner = b] \in WalkStates(rules, T, R)
  <1>1. w.i \in Nat \ {0, 1} /\ w.i + 1 \in Nat \ {0, 1}
    BY DEF WalkStates
  <1>2. w.r > 1 => w.r - 1 \in 1 .. Len(rules)
    BY DEF WalkStates
  <1> QED
    BY <1>1, <1>2 DEF WalkStates, Consume

LEMMA TurnTyped ==
    ASSUME NEW rules \in Policies, NEW n \in Nat, NEW T, T \subseteq 1 .. n,
           NEW now \in T, NEW N \in Nat,
           NEW sorted, Len(sorted) = N,
           \A i \in 2 .. N : sorted[i] \in T \ {now},
           NEW w \in WalkStates(rules, T, T \ {now}), \A t \in T : t <= now
    PROVE  Turn(rules, now, sorted, w) \in WalkStates(rules, T, T \ {now})
  <1> DEFINE W == WalkStates(rules, T, T \ {now})
             time == sorted[w.i]
             rule == rules[w.r]
             next == rules[w.r - 1]
             age == now - time
             keptAge == now - w.kept
             hasNext == w.r > 1
             sameSpan == \/ rule.duration = next.duration
                         \/ next.duration = Unlimited
             moveOn == age < AsDelta(next.duration) \/ keptAge < AsDelta(next.duration)
             first == ~w.inner /\ Bounded(rule.duration) /\ keptAge > AsDelta(rule.duration)
             near == Bounded(rule.keep) /\ w.kept - time < AsDelta(rule.keep)
             dropped(x, k) == Consume([w EXCEPT !.rejected = @ \cup {x}], k)
  <1>0. CASE w.i > Len(sorted)
    BY <1>0 DEF Turn
  <1> SUFFICES ASSUME ~(w.i > Len(sorted))
               PROVE  WalkStep(rules, now, sorted, w) \in W
    BY <1>0 DEF Turn
  <1>1. w.i \in 2 .. N /\ w.kept \in T /\ w.r \in 1 .. Len(rules) /\ w.r \in Int
    BY DEF WalkStates
  <1>2. time \in T \ {now}
    BY <1>1
  <1>3. WalkStep(rules, now, sorted, w) =
            IF first THEN dropped(w.kept, time)
            ELSE IF hasNext /\ sameSpan THEN [w EXCEPT !.r = @ - 1, !.inner = TRUE]
            ELSE IF hasNext /\ moveOn THEN
                    [(IF age < AsDelta(next.duration) THEN Consume(w, time) ELSE w)
                        EXCEPT !.r = @ - 1, !.inner = FALSE]
            ELSE IF near THEN Consume([w EXCEPT !.rejected = @ \cup {time}, !.inner = FALSE], w.kept)
            ELSE Consume([w EXCEPT !.inner = FALSE], time)
    BY DEF WalkStep
  <1>4. first => w.kept # now
    <2>1. rule.duration \in Spans
      <3>1. rules[w.r] \in [duration : Spans, keep : Spans]
        BY <1>1, ElementOfSeq DEF Policies
      <3> QED
        BY <3>1
    <2>2. first => AsDelta(rule.duration) \in Nat
      BY <2>1, DeltaIsPositive
    <2>3. w.kept \in Nat /\ now \in Nat
      <3>1. \A t \in T : t \in Nat
        OBVIOUS
      <3> QED
        BY <1>1, <3>1
    <2> QED
      BY <2>2, <2>3
  <1> HIDE DEF time, rule, next, age, keptAge, hasNext, sameSpan, moveOn, first, near
  <1>5. first => dropped(w.kept, time) \in W
    <2> SUFFICES ASSUME first
                 PROVE  dropped(w.kept, time) \in W
      OBVIOUS
    <2>1. w.kept \in T \ {now}
      BY <1>1, <1>4
    <2>2. [w EXCEPT !.rejected = @ \cup {w.kept}] \in W
      BY <2>1, ConsumeTyped
    <2> QED
      BY <1>2, <2>2, ConsumeTyped
  <1>6. hasNext => /\ [w EXCEPT !.r = @ - 1, !.inner = TRUE] \in W
                   /\ [(IF age < AsDelta(next.duration) THEN Consume(w, time) ELSE w)
                            EXCEPT !.r = @ - 1, !.inner = FALSE] \in W
    <2> SUFFICES ASSUME w.r > 1
                 PROVE  /\ [w EXCEPT !.r = @ - 1, !.inner = TRUE] \in W
                        /\ [w EXCEPT !.r = @ - 1, !.inner = FALSE] \in W
                        /\ [Consume(w, time) EXCEPT !.r = @ - 1, !.inner = FALSE] \in W
      BY DEF hasNext
    <2>1. Consume(w, time) \in W /\ Consume(w, time).r > 1
      <3>1. Consume(w, time).r = w.r
        BY DEF Consume, WalkStates
      <3> QED
        BY <1>2, <3>1, ConsumeTyped
    <2>2. /\ [w EXCEPT !.r = @ - 1, !.inner = TRUE] \in W
          /\ [w EXCEPT !.r = @ - 1, !.inner = FALSE] \in W
      BY <1>1, ConsumeTyped
    <2> DEFINE v == Consume(w, time)
    <2>3. v \in W /\ v.r > 1
      BY <2>1
    <2> HIDE DEF v
    <2>4. [v EXCEPT !.r = @ - 1, !.inner = FALSE] \in W
      BY <1>1, <2>3, ConsumeTyped
    <2> QED
      BY <2>2, <2>4 DEF v
  <1>7. Consume([w EXCEPT !.rejected = @ \cup {time}, !.inner = FALSE], w.kept) \in W
    <2>1. [w EXCEPT !.rejected = @ \cup {time}] \in W
      BY <1>1, <1>2, ConsumeTyped
    <2> DEFINE v == [w EXCEPT !.rejected = @ \cup {time}]
    <2>2. [v EXCEPT !.inner = FALSE] \in W
      <3>1. v \in W
        BY <2>1
      <3> HIDE DEF v
      <3> QED
        BY <1>1, <3>1, ConsumeTyped
    <2>3. [v EXCEPT !.inner = FALSE] = [w EXCEPT !.rejected = @ \cup {time}, !.inner = FALSE]
      OBVIOUS
    <2>4. [w EXCEPT !.rejected = @ \cup {time}, !.inner = FALSE] \in W
      BY <2>2, <2>3
    <2> QED
      BY <1>1, <2>4, ConsumeTyped
  <1>8. Consume([w EXCEPT !.inner = FALSE], time) \in W
    <2>1. [w EXCEPT !.inner = FALSE] \in W
      BY <1>1, ConsumeTyped
    <2> QED
      BY <1>2, <2>1, ConsumeTyped
  <1> HIDE DEF W, dropped
  <1> QED
    BY <1>3, <1>5, <1>6, <1>7, <1>8

\* Whatever the policy, the time of the newest checkpoint is kept when it is now.
LEMMA NewestStays ==
    ASSUME NEW rules \in Policies, NEW n \in Nat, NEW T, T \subseteq 1 .. n,
           NEW now \in T, \A t \in T : t <= now
    PROVE  now \notin Reject(rules, now, T)
  <1> DEFINE N == Cardinality(T)
             sorted == NewestFirst(T)
             W == WalkStates(rules, T, T \ {now})
             last == Len(sorted) + Len(rules)
             walk == Walk(rules, now, sorted)
  <1>1. /\ N \in Nat /\ sorted \in [1 .. N -> T] /\ Len(sorted) = N
        /\ \A i, j \in 1 .. N : i < j => sorted[j] < sorted[i]
        /\ \A t \in T : \E i \in 1 .. N : sorted[i] = t
    BY NewestFirstSorts
  <1>2. Reject(rules, now, T) = IF rules = << >> \/ T = {} THEN {} ELSE walk[last].rejected
    BY DEF Reject
  <1> HIDE DEF N, sorted
  <1>3. \A t \in T : t \in Nat
    OBVIOUS
  <1>4. 1 \in 1 .. N /\ sorted[1] \in T
    BY <1>1
  <1>5. ASSUME NEW i \in 2 .. N
        PROVE  sorted[i] \in T \ {now}
    <2>1. i \in 1 .. N /\ 1 < i
      BY <1>1
    <2>2. sorted[i] < sorted[1] /\ sorted[1] <= now /\ sorted[i] \in T
      BY <1>1, <1>4, <2>1
    <2>3. sorted[i] \in Nat /\ sorted[1] \in Nat /\ now \in Nat
      BY <1>3, <1>4, <2>2
    <2> QED
      BY <2>2, <2>3
  <1> SUFFICES ASSUME rules # << >>
               PROVE  now \notin walk[last].rejected
    BY <1>2
  <1>6. Len(rules) \in Nat /\ Len(rules) # 0
    BY EmptySeq DEF Policies
  <1>7. last \in Nat /\ last \in 0 .. last
    BY <1>1, <1>6
  <1>8. FirstTurn(rules, sorted) \in W
    BY <1>4, <1>6 DEF FirstTurn, WalkStates
  <1>9. \A w \in W : Turn(rules, now, sorted, w) \in W
    BY <1>1, <1>5, TurnTyped
  <1>10. walk \in [0 .. last -> W]
    <2> HIDE DEF W
    <2> QED
      BY <1>7, <1>8, <1>9, WalkIterates
  <1>11. walk[last] \in W
    <2> HIDE DEF W, walk, last
    <2> QED
      BY <1>7, <1>10
  <1> HIDE DEF walk, last
  <1> QED
    BY <1>11 DEF WalkStates

(***************************************************************************)
(* What a policy of one rule keeps, without a walk: the times that are     *)
(* inside its duration, or the oldest, and apart from all that is kept of  *)
(* the newer ones.  There is only one such set.                            *)
(***************************************************************************)

Rules == [duration : Spans, keep : Spans]

Keeps(rule, now, T, K) ==
    /\ K \subseteq T
    /\ \A t \in T : t \in K <=> /\ Inside(rule, now, t) \/ \A u \in T : t <= u
                                /\ \A p \in K : p > t => Apart(rule, p, t)

LEMMA RuleOrder ==
    ASSUME NEW rule \in Rules, NEW now \in Int, NEW p \in Int, NEW q \in Int, NEW t \in Int
    PROVE  /\ Apart(rule, q, t) /\ q <= p => Apart(rule, p, t)
           /\ Apart(rule, p, q) /\ t <= q => Apart(rule, p, t)
           /\ Inside(rule, now, t) /\ t <= q => Inside(rule, now, q)
  <1>1. Bounded(rule.keep) => AsDelta(rule.keep) \in Nat
    BY DeltaIsPositive DEF Rules
  <1>2. Bounded(rule.duration) => AsDelta(rule.duration) \in Nat
    BY DeltaIsPositive DEF Rules
  <1> QED
    BY <1>1, <1>2 DEF Apart, Inside

LEMMA KeepsOnlyOne ==
    ASSUME NEW n \in Nat, NEW T, T \subseteq 1 .. n, NEW rule, NEW now, NEW K, NEW L,
           Keeps(rule, now, T, K), Keeps(rule, now, T, L)
    PROVE  K = L
  <1> DEFINE D == {t \in T : ~(t \in K <=> t \in L)}
  <1> SUFFICES ASSUME D # {}
               PROVE  FALSE
    BY DEF Keeps
  <1>1. PICK t \in D : \A u \in D : u <= t
    <2>1. D \subseteq 1 .. n
      OBVIOUS
    <2> HIDE DEF D
    <2> QED
      BY <2>1, Extremes
  <1>2. \A p \in T : p > t => (p \in K <=> p \in L)
    <2> SUFFICES ASSUME NEW p \in T, p > t, p \in D
                 PROVE  FALSE
      OBVIOUS
    <2>1. p <= t /\ p \in Int /\ t \in Int
      BY <1>1
    <2> QED
      BY <2>1
  <1>3. t \in T /\ K \subseteq T /\ L \subseteq T
    BY <1>1 DEF Keeps
  <1>4. (\A p \in K : p > t => Apart(rule, p, t)) <=> (\A p \in L : p > t => Apart(rule, p, t))
    BY <1>2, <1>3
  <1>5. t \in K <=> t \in L
    BY <1>3, <1>4 DEF Keeps
  <1> QED
    BY <1>1, <1>5

\* What is kept stays so while the rest is deleted one by one.
LEMMA KeepsWhileDeleted ==
    ASSUME NEW n \in Nat, NEW T, T \subseteq 1 .. n, NEW rule \in Rules, NEW now \in Int,
           NEW K, Keeps(rule, now, T, K), NEW S, S \subseteq T, K \subseteq S
    PROVE  Keeps(rule, now, S, K)
  <1>0. \A t \in T : t \in Int
    OBVIOUS
  <1> SUFFICES ASSUME NEW t \in S
               PROVE  t \in K <=> /\ Inside(rule, now, t) \/ \A u \in S : t <= u
                                  /\ \A p \in K : p > t => Apart(rule, p, t)
    BY DEF Keeps
  <1>1. t \in K <=> /\ Inside(rule, now, t) \/ \A u \in T : t <= u
                    /\ \A p \in K : p > t => Apart(rule, p, t)
    BY DEF Keeps
  <1>2. CASE t \in K
    BY <1>1, <1>2
  <1>3. CASE t \notin K
    <2> SUFFICES ASSUME ~Inside(rule, now, t), \A u \in S : t <= u,
                        \A p \in K : p > t => Apart(rule, p, t)
                 PROVE  FALSE
      BY <1>1, <1>3
    <2>1. T # {} /\ t \in T /\ K \subseteq T
      BY DEF Keeps
    <2> DEFINE m == Earliest(T)
    <2>2. m \in T /\ \A u \in T : m <= u
      BY <2>1, Extremes
    <2> HIDE DEF m
    <2>3. m \in Int /\ t \in Int /\ m <= t
      BY <1>0, <2>1, <2>2
    <2>4. ASSUME NEW p \in K
          PROVE  Apart(rule, p, m)
      <3>1. p \in Int /\ t <= p /\ p # t
        BY <1>0, <1>3, <2>1
      <3>2. Apart(rule, p, t)
        BY <2>3, <3>1
      <3> QED
        BY <2>3, <3>1, <3>2, RuleOrder
    <2>5. m \in K
      BY <2>2, <2>4 DEF Keeps
    <2>6. t <= m
      BY <2>5
    <2>7. t = m
      BY <2>3, <2>6
    <2> QED
      BY <1>3, <2>5, <2>7
  <1> QED
    BY <1>2, <1>3

(***************************************************************************)
(* KeptWithLast is that set.                                               *)
(***************************************************************************)

\* A chain of the newest times: down to its oldest, it has what is apart.
Chained(rule, T, B) ==
    /\ B \subseteq T /\ B # {}
    /\ \A t \in T : (\E e \in B : e <= t) =>
            (t \in B <=> \A p \in B : p > t => Apart(rule, p, t))

OneMore(T, B, longer) == \E x \in T \ B : longer = B \cup {x}

LEMMA ChainGrows ==
    ASSUME NEW n \in Nat, NEW T, T \subseteq 1 .. n, NEW rule \in Rules,
           NEW B, Chained(rule, T, B)
    PROVE  /\ Chained(rule, T, Longer(rule, T, B))
           /\ Older(rule, T, Earliest(B)) = {} => Longer(rule, T, B) = B
           /\ Older(rule, T, Earliest(B)) # {} => OneMore(T, B, Longer(rule, T, B))
  <1> DEFINE e == Earliest(B)
             rest == Older(rule, T, e)
             x == Latest(rest)
  <1>0. \A t \in T : t \in Int
    OBVIOUS
  <1>1. e \in B /\ \A u \in B : e <= u
    BY Extremes DEF Chained
  <1>2. CASE rest = {}
    BY <1>2 DEF Longer
  <1>3. CASE rest # {}
    <2>1. x \in rest /\ \A u \in rest : u <= x
      <3>1. rest \subseteq 1 .. n
        BY DEF Older
      <3> HIDE DEF rest
      <3> QED
        BY <1>3, <3>1, Extremes
    <2>2. Longer(rule, T, B) = B \cup {x}
      BY <1>3 DEF Longer
    <2>3. x \in T /\ x < e /\ Apart(rule, e, x)
      BY <2>1 DEF Older
    <2>4. \A t \in T : t < e /\ Apart(rule, e, t) => t <= x
      BY <2>1 DEF Older
    <2> HIDE DEF e, x, rest
    <2>5. e \in T /\ e \in Int /\ x \in Int
      BY <1>0, <1>1, <2>3 DEF Chained
    <2>6. x \notin B
      BY <1>1, <2>3, <2>5
    <2>7. ASSUME NEW t \in T, x <= t
          PROVE  t \in B \cup {x} <=> \A p \in B \cup {x} : p > t => Apart(rule, p, t)
      <3>0. t \in Int
        BY <1>0
      <3>1. CASE e <= t
        <4>1. t \in B <=> \A p \in B : p > t => Apart(rule, p, t)
          BY <1>1, <3>1 DEF Chained
        <4>2. t # x /\ ~(x > t)
          BY <2>3, <2>5, <3>0, <3>1
        <4> QED
          BY <4>1, <4>2
      <3>2. CASE t < e /\ t # x
        <4>1. ~(t <= x)
          BY <2>5, <2>7, <3>0, <3>2
        <4>2. ~Apart(rule, e, t) /\ e > t
          BY <2>4, <2>5, <3>0, <3>2, <4>1
        <4>3. t \notin B
          BY <1>1, <2>5, <3>0, <3>2
        <4> QED
          BY <1>1, <3>2, <4>2, <4>3
      <3>3. CASE t = x
        <4>1. ASSUME NEW p \in B
              PROVE  Apart(rule, p, x)
          <5>1. p \in Int /\ e <= p
            BY <1>0, <1>1 DEF Chained
          <5> QED
            BY <2>3, <2>5, <5>1, RuleOrder
        <4>2. ~(x > x)
          BY <2>5
        <4> QED
          BY <3>3, <4>1, <4>2
      <3> QED
        BY <2>5, <3>0, <3>1, <3>2, <3>3
    <2>8. ASSUME NEW t \in T, NEW u \in B \cup {x}, u <= t
          PROVE  x <= t
      <3>1. u \in Int /\ t \in Int /\ (u \in B => e <= u)
        BY <1>0, <1>1, <2>5 DEF Chained
      <3> QED
        BY <2>3, <2>5, <2>8, <3>1
    <2>9. Chained(rule, T, B \cup {x})
      BY <2>3, <2>7, <2>8 DEF Chained
    <2> QED
      BY <1>3, <2>2, <2>3, <2>6, <2>9 DEF e, rest, OneMore
  <1> QED
    BY <1>2, <1>3

LEMMA ChainBegins ==
    ASSUME NEW n \in Nat, NEW T, T \subseteq 1 .. n, T # {}, NEW rule
    PROVE  Chained(rule, T, {Latest(T)}) /\ Cardinality({Latest(T)}) = 1
  <1>1. Latest(T) \in T /\ \A u \in T : u <= Latest(T)
    BY Extremes
  <1>0. \A t \in T : t \in Int
    OBVIOUS
  <1> DEFINE x == Latest(T)
  <1>6. x \in T /\ \A u \in T : u <= x
    BY <1>1
  <1> HIDE DEF x
  <1>2. ASSUME NEW t \in T, x <= t
        PROVE  t = x
    <2>1. t \in Int /\ x \in Int /\ t <= x
      BY <1>0, <1>6
    <2> QED
      BY <1>2, <2>1
  <1>3. x \in Int /\ ~(x > x)
    <2>1. x \in Int
      BY <1>0, <1>6
    <2> QED
      BY <2>1
  <1>4. Chained(rule, T, {x})
    BY <1>2, <1>3, <1>6 DEF Chained
  <1>5. Cardinality({x}) = 1
    BY FS_Singleton
  <1> QED
    BY <1>4, <1>5 DEF x

\* The chains of the reference, each from the one before.
LEMMA ChainsIterate ==
    ASSUME NEW n \in Nat, NEW T, T \subseteq 1 .. n, T # {}, NEW rule \in Rules
    PROVE  LET N == Cardinality(T)
               chain == Chains(rule, T)
           IN  /\ N \in Nat
               /\ chain[0] = {Latest(T)}
               /\ \A k \in 0 .. N : Chained(rule, T, chain[k])
               /\ \A k \in 1 .. N : chain[k] = Longer(rule, T, chain[k - 1])
  <1> DEFINE N == Cardinality(T)
             W == {B \in SUBSET T : Chained(rule, T, B)}
             start == {Latest(T)}
             F == [B \in W |-> Longer(rule, T, B)]
             Is(g) == g = [k \in 0 .. N |-> IF k = 0 THEN start ELSE Longer(rule, T, g[k - 1])]
             chain == Chains(rule, T)
  <1>1. N \in Nat
    BY RankFalls
  <1>2. start \in W
    BY ChainBegins DEF Chained
  <1>3. F \in [W -> W]
    <2>1. ASSUME NEW B \in W
          PROVE  Longer(rule, T, B) \in W
      <3>1. Chained(rule, T, Longer(rule, T, B))
        BY ChainGrows
      <3> QED
        BY <3>1 DEF Chained
    <2> QED
      BY <2>1
  <1>4. PICK g \in [0 .. N -> W] : Iterates(g, N, start, F)
    <2> HIDE DEF N, start, F, W
    <2> QED
      BY <1>1, <1>2, <1>3, IterationExists
  <1>5. Is(g)
    <2>1. \A k \in 0 .. N : k # 0 => k - 1 \in 0 .. N /\ F[g[k - 1]] = Longer(rule, T, g[k - 1])
      BY <1>1, <1>4
    <2> HIDE DEF N, start, F
    <2> QED
      BY <1>4, <2>1 DEF Iterates
  <1>6. chain = CHOOSE h : Is(h)
    BY DEF Chains
  <1>7. Is(chain)
    <2> HIDE DEF Is, chain
    <2> QED
      BY <1>5, <1>6
  <1> HIDE DEF N, start, chain
  <1>8. /\ chain[0] = start
        /\ \A k \in 1 .. N : chain[k] = Longer(rule, T, chain[k - 1])
        /\ chain = [k \in 0 .. N |-> chain[k]]
    <2>1. 0 \in 0 .. N /\ \A k \in 1 .. N : k \in 0 .. N /\ k # 0
      BY <1>1
    <2> QED
      BY <1>7, <2>1
  <1>9. \A k \in 1 .. N : chain[k - 1] \in W => chain[k] \in W
    <2>1. \A B \in W : Longer(rule, T, B) \in W
      BY <1>3
    <2> HIDE DEF W
    <2> QED
      BY <1>8, <2>1
  <1>10. chain \in [0 .. N -> W]
    <2> HIDE DEF W
    <2> QED
      BY <1>1, <1>2, <1>8, <1>9, StaysIn
  <1> QED
    BY <1>1, <1>8, <1>10 DEF N, start, chain

\* After as many turns as there are times the chain has an end.
LEMMA ChainEnds ==
    ASSUME NEW n \in Nat, NEW T, T \subseteq 1 .. n, T # {}, NEW rule \in Rules
    PROVE  LET C == Spaced(rule, T)
           IN  Chained(rule, T, C) /\ Older(rule, T, Earliest(C)) = {}
  <1>0. ASSUME NEW B \in SUBSET T, Chained(rule, T, B)
        PROVE  /\ Older(rule, T, Earliest(B)) = {} => Longer(rule, T, B) = B
               /\ Older(rule, T, Earliest(B)) # {} => OneMore(T, B, Longer(rule, T, B))
    BY <1>0, ChainGrows
  <1> DEFINE N == Cardinality(T)
             chain == Chains(rule, T)
             rest(B) == Older(rule, T, Earliest(B))
             Done(k) == rest(chain[k]) = {} \/ Cardinality(chain[k]) >= k + 1
             S == {k \in 0 .. N : Done(k)}
  <1>1. /\ N \in Nat
        /\ chain[0] = {Latest(T)}
        /\ \A k \in 0 .. N : Chained(rule, T, chain[k])
        /\ \A k \in 1 .. N : chain[k] = Longer(rule, T, chain[k - 1])
    BY ChainsIterate
  <1>2. IsFiniteSet(T)
    BY RankFalls
  <1>3. ASSUME NEW B \in SUBSET T
        PROVE  IsFiniteSet(B) /\ Cardinality(B) \in Nat /\ Cardinality(B) <= N
    <2>1. IsFiniteSet(B) /\ Cardinality(B) <= Cardinality(T)
      BY <1>2, FS_Subset
    <2> QED
      BY <2>1, FS_CardinalityType
  <1> HIDE DEF N, chain
  <1>4. 0 \in S
    BY <1>1, ChainBegins
  <1>5. ASSUME NEW k \in 0 .. N, k \in S, k < N
        PROVE  k + 1 \in S
    <2>1. k + 1 \in 1 .. N /\ k + 1 \in 0 .. N /\ k + 1 - 1 = k
      BY <1>1, <1>5
    <2>2. chain[k + 1] = Longer(rule, T, chain[k])
      <3>1. \A j \in 1 .. N : j - 1 = k => chain[j] = Longer(rule, T, chain[k])
        BY <1>1
      <3> QED
        BY <2>1, <3>1
    <2>3. Chained(rule, T, chain[k]) /\ chain[k] \in SUBSET T
      BY <1>1 DEF Chained
    <2> DEFINE B == chain[k]
               longer == Longer(rule, T, B)
    <2>4. /\ rest(B) = {} => longer = B
          /\ rest(B) # {} => OneMore(T, B, longer)
      BY <1>0, <2>3
    <2>5. Done(k)
      BY <1>5
    <2>6. Done(k + 1)
      <3>1. CASE rest(B) = {}
        BY <2>2, <2>4, <3>1
      <3>2. CASE rest(B) # {}
        <4>1. PICK x \in T \ B : longer = B \cup {x}
          BY <2>4, <3>2 DEF OneMore
        <4>2. Cardinality(B) \in Nat /\ IsFiniteSet(B)
          BY <1>3, <2>3
        <4>3. Cardinality(longer) = Cardinality(B) + 1
          BY <4>1, <4>2, FS_AddElement
        <4>4. Cardinality(B) >= k + 1
          BY <2>5, <3>2
        <4>5. Cardinality(chain[k + 1]) >= k + 1 + 1
          BY <2>2, <4>2, <4>3, <4>4
        <4> QED
          BY <4>5
      <3> QED
        BY <3>1, <3>2
    <2> QED
      BY <2>1, <2>6
  <1>6. 0 .. N \subseteq S
    <2> HIDE DEF S
    <2> QED
      BY <1>1, <1>4, <1>5, CountUp
  <1>7. N \in 0 .. N
    BY <1>1
  <1>8. Chained(rule, T, chain[N]) /\ chain[N] \in SUBSET T
    BY <1>1, <1>7 DEF Chained
  <1>9. Done(N)
    BY <1>6, <1>7
  <1>10. Cardinality(chain[N]) \in Nat /\ Cardinality(chain[N]) <= N
    BY <1>3, <1>8
  <1>11. rest(chain[N]) = {}
    BY <1>1, <1>9, <1>10
  <1>12. Spaced(rule, T) = chain[N]
    BY DEF Spaced, N, chain
  <1> QED
    BY <1>8, <1>11, <1>12

\* So a time is in it where it is apart from all that are newer.
LEMMA ChainIsGreedy ==
    ASSUME NEW n \in Nat, NEW T, T \subseteq 1 .. n, T # {}, NEW rule \in Rules
    PROVE  LET C == Spaced(rule, T)
           IN  C \subseteq T /\ \A t \in T : t \in C <=> \A p \in C : p > t => Apart(rule, p, t)
  <1> DEFINE C == Spaced(rule, T)
             e == Earliest(C)
  <1>1. Chained(rule, T, C) /\ Older(rule, T, e) = {}
    BY ChainEnds
  <1> HIDE DEF C
  <1>2. C \subseteq 1 .. n /\ C # {} /\ C \subseteq T
    BY <1>1 DEF Chained
  <1>3. e \in C /\ \A u \in C : e <= u
    BY <1>2, Extremes
  <1> HIDE DEF e
  <1>4. ASSUME NEW t \in T
        PROVE  t \in C <=> \A p \in C : p > t => Apart(rule, p, t)
    <2>1. t \in Int /\ e \in Int
      BY <1>2, <1>3
    <2>2. CASE e <= t
      BY <1>1, <1>3, <2>2 DEF Chained
    <2>3. CASE t < e
      <3>1. ~Apart(rule, e, t)
        BY <1>1, <2>3 DEF Older
      <3>2. t \notin C
        BY <1>3, <2>1, <2>3
      <3>3. e > t
        BY <2>1, <2>3
      <3> QED
        BY <1>3, <3>1, <3>2, <3>3
    <2> QED
      BY <2>1, <2>2, <2>3
  <1> QED
    BY <1>2, <1>4 DEF C

\* The reference keeps what the rule keeps.
LEMMA WithLastKeeps ==
    ASSUME NEW n \in Nat, NEW T, T \subseteq 1 .. n, T # {}, NEW rule \in Rules, NEW now \in Int
    PROVE  Keeps(rule, now, T, KeptWithLast(rule, now, T))
  <1> DEFINE C == Spaced(rule, T)
             inside == {t \in C : Inside(rule, now, t)}
             m == Earliest(T)
             K == KeptWithLast(rule, now, T)
  <1>1. C \subseteq T /\ \A t \in T : t \in C <=> \A p \in C : p > t => Apart(rule, p, t)
    BY ChainIsGreedy
  <1>2. m \in T /\ \A u \in T : m <= u
    BY Extremes
  <1>3. K = inside \cup (IF C = inside THEN {} ELSE {m})
    <2>1. (\A t \in C : Inside(rule, now, t)) <=> C = inside
      OBVIOUS
    <2> HIDE DEF inside
    <2>2. K = KeptBy(rule, now, T)
                \cup (IF \A t \in C : Inside(rule, now, t) THEN {} ELSE {m})
      BY DEF KeptWithLast
    <2>3. KeptBy(rule, now, T) = inside
      BY DEF KeptBy, inside
    <2> QED
      BY <2>1, <2>2, <2>3
  <1> HIDE DEF C, m, K
  <1>4. \A t \in T : t \in Int
    OBVIOUS
  <1>5. K \subseteq T
    BY <1>1, <1>2, <1>3
  <1> SUFFICES ASSUME NEW t \in T
               PROVE  t \in K <=> /\ Inside(rule, now, t) \/ \A u \in T : t <= u
                                  /\ \A p \in K : p > t => Apart(rule, p, t)
    BY <1>5 DEF Keeps, K
  <1>6. t = m <=> \A u \in T : t <= u
    <2>1. t \in Int /\ m \in Int /\ m <= t
      BY <1>2, <1>4
    <2> QED
      BY <1>2, <2>1
  \* Of a time inside, the newer ones are inside.
  <1>7. ASSUME NEW p \in C, p > t, Inside(rule, now, t)
        PROVE  p \in inside
    <2>1. p \in Int /\ t \in Int
      BY <1>1, <1>4
    <2>2. Inside(rule, now, p)
      BY <1>7, <2>1, RuleOrder
    <2> QED
      BY <2>2
  <1>8. CASE Inside(rule, now, t) /\ t # m
    <2>1. \A p \in K : p > t => p \in inside
      <3>1. m \in Int /\ t \in Int /\ m <= t
        BY <1>2, <1>4
      <3> QED
        BY <1>3, <3>1
    <2>2. t \in K <=> t \in C
      BY <1>3, <1>8
    <2>3. (\A p \in K : p > t => Apart(rule, p, t)) <=> (\A p \in C : p > t => Apart(rule, p, t))
      BY <1>3, <1>7, <1>8, <2>1
    <2> QED
      BY <1>1, <1>8, <2>2, <2>3
  <1>9. CASE ~Inside(rule, now, t) /\ t # m
    BY <1>3, <1>6, <1>9
  <1>10. CASE t = m
    <2>1. \A p \in K : p > m => p \in inside
      <3>1. m \in Int /\ ~(m > m)
        BY <1>2, <1>4
      <3> QED
        BY <1>3, <3>1
    <2>2. CASE C = inside
      <3>1. K = C
        BY <1>3, <2>2
      <3> QED
        BY <1>1, <1>6, <1>10, <3>1
    <2>3. CASE C # inside
      <3>1. PICK c \in C : ~Inside(rule, now, c)
        BY <2>3
      <3>2. c \in Int /\ m \in Int /\ m <= c /\ c \in T
        BY <1>1, <1>2, <1>4, <3>1
      <3>3. ASSUME NEW p \in inside
            PROVE  Apart(rule, p, m)
        <4>1. p \in Int /\ Inside(rule, now, p) /\ p \in C
          BY <1>1, <1>4
        <4>2. ~(p <= c)
          BY <3>1, <3>2, <4>1, RuleOrder
        <4>3. Apart(rule, p, c)
          BY <1>1, <3>2, <4>1, <4>2
        <4> QED
          BY <3>2, <4>1, <4>3, RuleOrder
      <3>4. m \in K
        BY <1>3, <2>3
      <3> QED
        BY <1>6, <1>10, <2>1, <3>3, <3>4
    <2> QED
      BY <2>2, <2>3
  <1> QED
    BY <1>8, <1>9, <1>10

(***************************************************************************)
(* The walk of a policy of one rule rejects what the rule does not keep.   *)
(***************************************************************************)

\* The next older time: the last kept one gives way to it, or rejects it.
LEMMA KeepsNext ==
    ASSUME NEW n \in Nat, NEW P, P \subseteq 1 .. n, NEW rule \in Rules, NEW now \in Int,
           NEW K, Keeps(rule, now, P, K), NEW kept \in K, \A u \in K : kept <= u,
           NEW t \in 1 .. n, \A u \in P : t < u
    PROVE  /\ ~Inside(rule, now, kept) => Keeps(rule, now, P \cup {t}, (K \ {kept}) \cup {t})
           /\ Inside(rule, now, kept) /\ ~Apart(rule, kept, t) => Keeps(rule, now, P \cup {t}, K)
           /\ Inside(rule, now, kept) /\ Apart(rule, kept, t) =>
                    Keeps(rule, now, P \cup {t}, K \cup {t})
  <1>1. K \subseteq P /\ t \notin P /\ t \notin K
    BY DEF Keeps
  <1>2. \A u \in P \cup {t} : u \in Int /\ t <= u
    OBVIOUS
  <1>3. ASSUME NEW u \in P
        PROVE  /\ ~(\A v \in P \cup {t} : u <= v)
               /\ u \in K <=> /\ Inside(rule, now, u) \/ \A v \in P : u <= v
                              /\ \A p \in K : p > u => Apart(rule, p, u)
    <2>1. u \in Int /\ t < u
      BY <1>2
    <2> QED
      BY <2>1 DEF Keeps
  <1>4. ASSUME NEW u \in K, u # kept
        PROVE  Apart(rule, u, kept) /\ Inside(rule, now, u) /\ u > kept
    <2>1. u \in Int /\ kept \in Int /\ kept <= u
      BY <1>1, <1>2
    <2>2. u > kept
      BY <1>4, <2>1
    <2>3. Inside(rule, now, u)
      <3>1. ~(\A v \in P : u <= v)
        BY <1>1, <2>1, <2>2
      <3> QED
        BY <1>1, <1>3, <3>1
    <2> QED
      BY <1>1, <1>3, <2>2, <2>3
  <1>5. ASSUME NEW u \in K, u # kept
        PROVE  Apart(rule, u, t)
    <2>1. u \in Int /\ kept \in Int /\ t \in Int /\ t <= kept
      BY <1>1, <1>2
    <2>2. Apart(rule, u, kept)
      BY <1>4, <1>5
    <2> QED
      BY <2>1, <2>2, RuleOrder
  <1>6. ASSUME ~Inside(rule, now, kept)
        PROVE  Keeps(rule, now, P \cup {t}, (K \ {kept}) \cup {t})
    <2> DEFINE L == (K \ {kept}) \cup {t}
    <2>1. \A v \in P : kept <= v
      BY <1>1, <1>3, <1>6
    <2>2. ASSUME NEW u \in P
          PROVE  u \in L <=> /\ Inside(rule, now, u) \/ \A v \in P \cup {t} : u <= v
                             /\ \A p \in L : p > u => Apart(rule, p, u)
      <3>1. ~(t > u) /\ u # t /\ u \in Int /\ kept \in Int /\ kept <= u
        BY <1>1, <1>2, <2>1
      <3>2. CASE u = kept
        BY <1>3, <1>6, <3>1, <3>2
      <3>3. CASE u # kept
        <4>1. u \in L <=> u \in K
          BY <3>1, <3>3
        <4>2. ~(kept > u) /\ ~(\A v \in P : u <= v)
          BY <1>1, <3>1, <3>3
        <4>3. (\A p \in L : p > u => Apart(rule, p, u)) <=> (\A p \in K : p > u => Apart(rule, p, u))
          BY <3>1, <4>2
        <4> QED
          BY <1>3, <4>1, <4>2, <4>3
      <3> QED
        BY <3>2, <3>3
    <2>3. \A p \in L : p > t => Apart(rule, p, t)
      <3>1. ~(t > t)
        BY <1>2
      <3> QED
        BY <1>5, <3>1
    <2> QED
      BY <1>1, <1>2, <2>2, <2>3 DEF Keeps
  <1>7. ASSUME Inside(rule, now, kept)
        PROVE  \A u \in P : u \in K <=> /\ Inside(rule, now, u) \/ \A v \in P \cup {t} : u <= v
                                        /\ \A p \in K : p > u => Apart(rule, p, u)
    <2> SUFFICES ASSUME NEW u \in P
                 PROVE  u \in K <=> /\ Inside(rule, now, u)
                                    /\ \A p \in K : p > u => Apart(rule, p, u)
      BY <1>3
    <2>1. u \in K => Inside(rule, now, u)
      BY <1>4, <1>7
    <2> QED
      BY <1>3, <2>1
  <1>8. ASSUME Inside(rule, now, kept), ~Apart(rule, kept, t)
        PROVE  Keeps(rule, now, P \cup {t}, K)
    <2>1. kept > t
      BY <1>1, <1>2
    <2> QED
      BY <1>1, <1>7, <1>8, <2>1 DEF Keeps
  <1>9. ASSUME Inside(rule, now, kept), Apart(rule, kept, t)
        PROVE  Keeps(rule, now, P \cup {t}, K \cup {t})
    <2>1. ASSUME NEW u \in P
          PROVE  /\ ~(t > u) /\ u # t
                 /\ u \in K \cup {t} <=> u \in K
      BY <1>1, <1>2
    <2>2. ~(t > t) /\ \A u \in K : Apart(rule, u, t)
      BY <1>2, <1>5, <1>9
    <2>3. ASSUME NEW u \in P
          PROVE  u \in K \cup {t} <=> /\ Inside(rule, now, u) \/ \A v \in P \cup {t} : u <= v
                                      /\ \A p \in K \cup {t} : p > u => Apart(rule, p, u)
      BY <1>7, <1>9, <2>1
    <2> QED
      BY <1>1, <1>2, <2>2, <2>3 DEF Keeps
  <1> QED
    BY <1>6, <1>8, <1>9

\* What the walk has seen, and what it has kept of it so far.
Seen(sorted, i) == {sorted[j] : j \in 1 .. i - 1}
KeepsSoFar(rule, now, sorted, w) ==
    LET K == Seen(sorted, w.i) \ w.rejected
    IN /\ Keeps(rule, now, Seen(sorted, w.i), K)
       /\ w.kept \in K
       /\ \A u \in K : w.kept <= u

OneRuleStates(rule, now, T, sorted) ==
    {w \in [i : 2 .. Len(sorted) + 1, r : {1}, kept : T, rejected : SUBSET T, inner : {FALSE}] :
        w.rejected \subseteq Seen(sorted, w.i) /\ KeepsSoFar(rule, now, sorted, w)}

At(j, kept, rejected, inner) ==
    [i |-> j, r |-> 1, kept |-> kept, rejected |-> rejected, inner |-> inner]

\* The turn of a walk with one rule.
LEMMA OneRuleStep ==
    ASSUME NEW rules, NEW now, NEW sorted, NEW w,
           w = At(w.i, w.kept, w.rejected, w.inner)
    PROVE  w.inner = FALSE => WalkStep(rules, now, sorted, w) =
               IF Bounded(rules[1].duration) /\ now - w.kept > AsDelta(rules[1].duration)
               THEN At(w.i + 1, sorted[w.i], w.rejected \cup {w.kept}, w.inner)
               ELSE IF Bounded(rules[1].keep) /\ w.kept - sorted[w.i] < AsDelta(rules[1].keep)
               THEN At(w.i + 1, w.kept, w.rejected \cup {sorted[w.i]}, w.inner)
               ELSE At(w.i + 1, sorted[w.i], w.rejected, w.inner)
  <1> DEFINE j == w.i
             k == w.kept
             rejected == w.rejected
             no == w.inner
  <1>0. w = At(j, k, rejected, no)
    OBVIOUS
  <1> HIDE DEF j, k, rejected, no
  <1> DEFINE Dropped(x, c) == Consume([w EXCEPT !.rejected = @ \cup {x}], c)
             Near(x, c) == Consume([w EXCEPT !.rejected = @ \cup {x}, !.inner = no], c)
             Later(c) == Consume([w EXCEPT !.inner = no], c)
  <1>1. ASSUME NEW x, NEW c
        PROVE  /\ Dropped(x, c) = At(j + 1, c, rejected \cup {x}, no)
               /\ Near(x, c) = At(j + 1, c, rejected \cup {x}, no)
               /\ Later(c) = At(j + 1, c, rejected, no)
    <2>1. ASSUME NEW v, NEW dropped, v = At(j, k, dropped, no)
          PROVE  Consume(v, c) = At(j + 1, c, dropped, no)
      <3>1. Consume(v, c) = [[v EXCEPT !.i = v.i + 1] EXCEPT !.kept = c]
        BY Zenon DEF Consume
      <3>2. v.i = j
        BY <2>1 DEF At
      <3>3. [v EXCEPT !.i = j + 1] = At(j + 1, k, dropped, no)
        BY <2>1 DEF At
      <3>4. [At(j + 1, k, dropped, no) EXCEPT !.kept = c] = At(j + 1, c, dropped, no)
        BY DEF At
      <3> QED
        BY <3>1, <3>2, <3>3, <3>4
    <2>2. [w EXCEPT !.inner = no] = w
      BY <1>0 DEF At
    <2> DEFINE all == w.rejected \cup {x}
               v == [w EXCEPT !.rejected = all]
    <2>3. v = At(j, k, rejected \cup {x}, no)
      <3>1. all = rejected \cup {x}
        BY DEF rejected
      <3> HIDE DEF all
      <3>2. v = At(j, k, all, no)
        BY <1>0 DEF At
      <3> QED
        BY <3>1, <3>2
    <2>4. [w EXCEPT !.rejected = w.rejected \cup {x}, !.inner = no] = [v EXCEPT !.inner = no]
      BY Zenon
    <2> HIDE DEF v
    <2>5. [v EXCEPT !.inner = no] = v
      BY <2>3 DEF At
    <2>6. Consume([w EXCEPT !.inner = no], c) = At(j + 1, c, rejected, no)
      BY <1>0, <2>1, <2>2
    <2>7. Consume(v, c) = At(j + 1, c, rejected \cup {x}, no)
      BY <2>1, <2>3
    <2> QED
      BY <2>4, <2>5, <2>6, <2>7 DEF v
  <1> SUFFICES ASSUME w.inner = FALSE
               PROVE  WalkStep(rules, now, sorted, w) =
                          IF Bounded(rules[1].duration) /\ now - k > AsDelta(rules[1].duration)
                          THEN At(j + 1, sorted[j], rejected \cup {k}, no)
                          ELSE IF Bounded(rules[1].keep) /\ k - sorted[j] < AsDelta(rules[1].keep)
                          THEN At(j + 1, k, rejected \cup {sorted[j]}, no)
                          ELSE At(j + 1, sorted[j], rejected, no)
    BY Zenon DEF j, k, rejected, no
  <1> DEFINE t == sorted[j]
             rule == rules[1]
             far == Bounded(rule.duration) /\ now - k > AsDelta(rule.duration)
             close == Bounded(rule.keep) /\ k - t < AsDelta(rule.keep)
  <1>2. w.i = j /\ w.r = 1 /\ w.kept = k /\ w.inner = no
    BY <1>0 DEF At
  <1>3. ~w.inner /\ ~(w.r > 1)
    BY <1>2
  <1>4. WalkStep(rules, now, sorted, w) =
            IF far THEN Dropped(k, t) ELSE IF close THEN Near(t, k) ELSE Later(t)
    BY <1>2, <1>3, Zenon DEF WalkStep
  <1> HIDE DEF far, close, Dropped, Near, Later
  <1> QED
    BY <1>1, <1>4 DEF far, close

FirstRuleIs(p, rule) == p[1] = rule

\* All the times, the newest first.
Descending(T, N, sorted) ==
    /\ N \in Nat /\ sorted \in [1 .. N -> T] /\ Len(sorted) = N
    /\ \A i, j \in 1 .. N : i < j => sorted[j] < sorted[i]
    /\ \A t \in T : \E i \in 1 .. N : sorted[i] = t

Consumes(N, w, turn) == turn.i = IF w.i > N THEN w.i ELSE w.i + 1

LEMMA OneRuleTurns ==
    ASSUME NEW n \in Nat, NEW T, T \subseteq 1 .. n, NEW rule \in Rules, NEW now \in Int,
           NEW rules, FirstRuleIs(rules, rule),
           NEW N, NEW sorted, Descending(T, N, sorted),
           NEW w \in OneRuleStates(rule, now, T, sorted)
    PROVE  LET turn == Turn(rules, now, sorted, w)
           IN  turn \in OneRuleStates(rule, now, T, sorted) /\ Consumes(N, w, turn)
  <1> DEFINE P == Seen(sorted, w.i)
             K == P \ w.rejected
             t == sorted[w.i]
             k == w.kept
             R == [i : 2 .. N + 1, r : {1}, kept : T, rejected : SUBSET T, inner : {FALSE}]
  <1>0. /\ N \in Nat /\ sorted \in [1 .. N -> T] /\ Len(sorted) = N
        /\ \A i, j \in 1 .. N : i < j => sorted[j] < sorted[i]
    BY DEF Descending
  <1>1. /\ w \in R /\ w.i \in 2 .. N + 1 /\ w.r = 1 /\ k \in T /\ w.rejected \subseteq T
        /\ w.inner = FALSE /\ w.rejected \subseteq P
        /\ Keeps(rule, now, P, K) /\ k \in K /\ \A u \in K : k <= u
    BY <1>0 DEF OneRuleStates, KeepsSoFar
  <1>2. CASE w.i > N
    BY <1>0, <1>1, <1>2 DEF Turn, Consumes
  <1>3. CASE ~(w.i > N)
    <2>1. w.i \in 2 .. N /\ w.i \in 1 .. N /\ t \in T /\ w.i + 1 \in 2 .. N + 1 /\ w.i + 1 - 1 = w.i
      BY <1>0, <1>1, <1>3
    <2>2. P \subseteq 1 .. n /\ t \in 1 .. n /\ P \subseteq T
      <3>1. \A j \in 1 .. w.i - 1 : sorted[j] \in T
        BY <1>0, <2>1
      <3> QED
        BY <1>0, <2>1, <3>1 DEF Seen
    <2>3. \A u \in P : t < u
      <3>1. \A j \in 1 .. w.i - 1 : j \in 1 .. N /\ j < w.i
        BY <1>0, <2>1
      <3> QED
        BY <1>0, <2>1, <3>1 DEF Seen
    <2>4. Seen(sorted, w.i + 1) = P \cup {t}
      <3>1. 1 .. w.i = (1 .. w.i - 1) \cup {w.i}
        BY <1>0, <2>1
      <3> QED
        BY <1>0, <2>1, <3>1 DEF Seen
    <2> DEFINE step == Turn(rules, now, sorted, w)
               dropped == At(w.i + 1, t, w.rejected \cup {k}, w.inner)
               near == At(w.i + 1, k, w.rejected \cup {t}, w.inner)
               next == At(w.i + 1, t, w.rejected, w.inner)
    <2>5. t \notin P /\ t \notin w.rejected /\ t # k
      <3>1. t \in Int /\ ~(t < t)
        BY <2>2
      <3> QED
        BY <1>1, <2>3, <3>1
    <2>6. step = IF ~Inside(rule, now, k) THEN dropped
                 ELSE IF ~Apart(rule, k, t) THEN near ELSE next
      <3>1. k \in Int /\ t \in Int
        BY <1>1, <2>2
      <3>2. Bounded(rule.keep) => AsDelta(rule.keep) \in Nat
        BY DeltaIsPositive DEF Rules
      <3>3. Bounded(rule.duration) => AsDelta(rule.duration) \in Nat
        BY DeltaIsPositive DEF Rules
      <3>4. /\ ~Inside(rule, now, k) <=> Bounded(rule.duration) /\ now - k > AsDelta(rule.duration)
            /\ ~Apart(rule, k, t) <=> Bounded(rule.keep) /\ k - t < AsDelta(rule.keep)
        BY <3>1, <3>2, <3>3 DEF Inside, Apart
      <3>5. step = WalkStep(rules, now, sorted, w)
        BY <1>0, <1>3 DEF Turn
      <3>6. w = At(w.i, k, w.rejected, w.inner)
        BY <1>1 DEF At
      <3> DEFINE far == Bounded(rule.duration) /\ now - k > AsDelta(rule.duration)
                 close == Bounded(rule.keep) /\ k - t < AsDelta(rule.keep)
      <3>9. step = IF far THEN dropped ELSE IF close THEN near ELSE next
        <4> DEFINE first == rules[1]
        <4>1. w.inner = FALSE
          BY <1>1
        <4>2. WalkStep(rules, now, sorted, w) =
                  IF Bounded(first.duration) /\ now - k > AsDelta(first.duration)
                  THEN dropped
                  ELSE IF Bounded(first.keep) /\ k - t < AsDelta(first.keep) THEN near ELSE next
          BY <3>6, <4>1, OneRuleStep, Zenon
        <4> HIDE DEF k, step, dropped, near, next, t
        <4> QED
          BY <3>5, <4>2 DEF FirstRuleIs
      <3> HIDE DEF step, dropped, near, next, k, t, far, close
      <3>10. far <=> ~Inside(rule, now, k)
        BY <3>4 DEF far
      <3>11. close <=> ~Apart(rule, k, t)
        BY <3>4 DEF close
      <3> QED
        BY <3>9, <3>10, <3>11
    <2>7. step \in R /\ step.i = w.i + 1
      <3>1. /\ w.rejected \cup {k} \in SUBSET T /\ w.rejected \cup {t} \in SUBSET T
            /\ w.rejected \in SUBSET T /\ w.inner \in {FALSE}
        BY <1>1, <2>1
      <3>2. \A c \in T, all \in SUBSET T :
                At(w.i + 1, c, all, w.inner) \in R /\ At(w.i + 1, c, all, w.inner).i = w.i + 1
        BY <2>1, <3>1 DEF At
      <3>3. dropped \in R /\ near \in R /\ next \in R
        BY <1>1, <2>1, <3>1, <3>2
      <3>4. dropped.i = w.i + 1 /\ near.i = w.i + 1 /\ next.i = w.i + 1
        BY DEF At
      <3> HIDE DEF dropped, near, next, step, R
      <3> QED
        BY <2>6, <3>3, <3>4
    <2>8. \A u \in K : t <= u /\ u # t
      BY <2>2, <2>3
    <2> HIDE DEF P, k, t
    <2>9. ASSUME NEW v \in {dropped, near, next}, v = step,
                 NEW L, L = (P \cup {t}) \ v.rejected,
                 Keeps(rule, now, P \cup {t}, L), v.kept \in L, \A u \in L : v.kept <= u,
                 v.rejected \subseteq P \cup {t}
          PROVE  step \in OneRuleStates(rule, now, T, sorted)
      BY <1>0, <2>4, <2>7, <2>9 DEF OneRuleStates, KeepsSoFar
    <2>10. ASSUME ~Inside(rule, now, k)
          PROVE  step \in OneRuleStates(rule, now, T, sorted)
      <3> DEFINE L == (K \ {k}) \cup {t}
      <3>1. step = dropped
        BY <2>6, <2>10
      <3>2. L = (P \cup {t}) \ dropped.rejected
        BY <2>5 DEF At
      <3>3. Keeps(rule, now, P \cup {t}, L)
        BY <1>1, <2>2, <2>3, <2>10, KeepsNext
      <3>4. dropped.kept \in L /\ \A u \in L : dropped.kept <= u
        BY <2>2, <2>8 DEF At
      <3>5. dropped.rejected \subseteq P \cup {t}
        BY <1>1 DEF At
      <3> HIDE DEF L, dropped
      <3> QED
        BY <2>9, <3>1, <3>2, <3>3, <3>4, <3>5
    <2>11. ASSUME Inside(rule, now, k) /\ ~Apart(rule, k, t)
          PROVE  step \in OneRuleStates(rule, now, T, sorted)
      <3>1. step = near
        BY <2>6, <2>11
      <3>2. K = (P \cup {t}) \ near.rejected
        BY <2>5 DEF At
      <3>3. Keeps(rule, now, P \cup {t}, K)
        BY <1>1, <2>2, <2>3, <2>11, KeepsNext
      <3>4. near.kept \in K /\ \A u \in K : near.kept <= u
        BY <1>1 DEF At
      <3>5. near.rejected \subseteq P \cup {t}
        BY <1>1 DEF At
      <3> HIDE DEF K, near
      <3> QED
        BY <2>9, <3>1, <3>2, <3>3, <3>4, <3>5
    <2>12. ASSUME Inside(rule, now, k) /\ Apart(rule, k, t)
          PROVE  step \in OneRuleStates(rule, now, T, sorted)
      <3> DEFINE L == K \cup {t}
      <3>1. step = next
        BY <2>6, <2>12
      <3>2. L = (P \cup {t}) \ next.rejected
        BY <2>5 DEF At
      <3>3. Keeps(rule, now, P \cup {t}, L)
        BY <1>1, <2>2, <2>3, <2>12, KeepsNext
      <3>4. next.kept \in L /\ \A u \in L : next.kept <= u
        BY <2>2, <2>8 DEF At
      <3>5. next.rejected \subseteq P \cup {t}
        BY <1>1 DEF At
      <3> HIDE DEF L, next
      <3> QED
        BY <2>9, <3>1, <3>2, <3>3, <3>4, <3>5
    <2>13. step \in OneRuleStates(rule, now, T, sorted)
      BY <2>10, <2>11, <2>12
    <2> QED
      BY <1>3, <2>7, <2>13 DEF Consumes
  <1> QED
    BY <1>2, <1>3

HasOneRule(p) == Len(p) = 1

LEMMA OneRuleBegins ==
    ASSUME NEW T, NEW rule, NEW now, NEW N \in Nat \ {0}, NEW sorted \in [1 .. N -> T],
           Len(sorted) = N, \A t \in T : t \in Int, NEW rules, Len(rules) = 1
    PROVE  /\ FirstTurn(rules, sorted) \in OneRuleStates(rule, now, T, sorted)
           /\ FirstTurn(rules, sorted).i = 2
  <1> DEFINE w == FirstTurn(rules, sorted)
             s == sorted[1]
  <1>1. 1 \in 1 .. N /\ s \in T /\ 2 \in 2 .. N + 1
    OBVIOUS
  <1>2. w = [i |-> 2, r |-> 1, kept |-> s, rejected |-> {}, inner |-> FALSE]
    BY DEF FirstTurn
  <1> HIDE DEF w
  <1>3. w \in [i : 2 .. N + 1, r : {1}, kept : T, rejected : SUBSET T, inner : {FALSE}]
    BY <1>1, <1>2
  <1>4. w.i = 2 /\ w.kept = s /\ w.rejected = {}
    BY <1>2
  <1>5. Seen(sorted, 2) = {s}
    <2>1. 1 .. 2 - 1 = {1}
      OBVIOUS
    <2> QED
      BY <2>1, Zenon DEF Seen
  <1> HIDE DEF s
  <1>6. s \in Int /\ s <= s /\ ~(s > s)
    <2>1. s \in Int
      BY <1>1
    <2> QED
      BY <2>1
  <1>7. Keeps(rule, now, {s}, {s})
    BY <1>6 DEF Keeps
  <1>8. {s} \ {} = {s}
    OBVIOUS
  <1>9. KeepsSoFar(rule, now, sorted, w)
    BY <1>4, <1>5, <1>6, <1>7, <1>8 DEF KeepsSoFar
  <1> QED
    BY <1>3, <1>4, <1>9 DEF OneRuleStates, w

\* What the walk leaves is what the rule keeps.
LEMMA RejectKeeps ==
    ASSUME NEW n \in Nat, NEW T, T \subseteq 1 .. n, T # {},
           NEW rules \in Policies, HasOneRule(rules), NEW now \in Int
    PROVE  Keeps(rules[1], now, T, T \ Reject(rules, now, T))
  <1> DEFINE N == Cardinality(T)
             sorted == NewestFirst(T)
  <1>0. Descending(T, N, sorted)
    BY NewestFirstSorts DEF Descending
  <1>1. /\ N \in Nat /\ sorted \in [1 .. N -> T] /\ Len(sorted) = N
        /\ \A t \in T : \E i \in 1 .. N : sorted[i] = t
    BY <1>0 DEF Descending
  <1> DEFINE rule == rules[1]
             W == OneRuleStates(rule, now, T, sorted)
             walk == Walk(rules, now, sorted)
             last == Len(sorted) + Len(rules)
  <1>2. rules # << >> /\ Len(rules) = 1
    BY EmptySeq DEF HasOneRule
  <1>3. Reject(rules, now, T) = walk[N + 1].rejected
    BY <1>1, <1>2 DEF Reject
  <1> HIDE DEF N, sorted
  <1>4. N # 0 /\ last = N + 1 /\ N + 1 \in Nat
    <2>1. PICK t \in T : TRUE
      OBVIOUS
    <2>2. PICK i \in 1 .. N : sorted[i] = t
      BY <1>1, <2>1
    <2> QED
      BY <1>1, <1>2, <2>2
  <1>5. rule \in Rules
    <2>1. 1 \in 1 .. Len(rules)
      BY <1>2
    <2>2. rules[1] \in [duration : Spans, keep : Spans]
      BY <2>1, ElementOfSeq DEF Policies
    <2> QED
      BY <2>2 DEF Rules
  <1>6. FirstTurn(rules, sorted) \in W /\ FirstTurn(rules, sorted).i = 2
    <2>1. \A t \in T : t \in Int
      OBVIOUS
    <2> HIDE DEF rule
    <2> QED
      BY <1>1, <1>2, <1>4, <2>1, OneRuleBegins
  <1>7. ASSUME NEW w \in W
        PROVE  LET turn == Turn(rules, now, sorted, w)
               IN  turn \in W /\ Consumes(N, w, turn)
    <2>1. FirstRuleIs(rules, rule)
      BY DEF FirstRuleIs
    <2> HIDE DEF N, sorted, rule
    <2> QED
      BY <1>0, <1>5, <2>1, OneRuleTurns
  <1> HIDE DEF rule, W, last
  <1>7a. /\ walk \in [0 .. last -> W]
        /\ walk[0] = FirstTurn(rules, sorted)
        /\ \A k \in 1 .. last : walk[k] = Turn(rules, now, sorted, walk[k - 1])
    <2>1. last \in Nat /\ \A x \in W : Turn(rules, now, sorted, x) \in W
      BY <1>4, <1>7
    <2> QED
      BY <1>6, <2>1, WalkIterates DEF last
  <1>8. /\ walk \in [0 .. N + 1 -> W]
        /\ walk[0] = FirstTurn(rules, sorted)
        /\ \A k \in 1 .. N + 1 : walk[k] = Turn(rules, now, sorted, walk[k - 1])
    BY <1>4, <1>7a
  <1> HIDE DEF walk
  <1> DEFINE S == {k \in 0 .. N + 1 : walk[k].i > N \/ walk[k].i = k + 2}
  <1>9. 0 \in S
    BY <1>1, <1>6, <1>8
  <1>10. ASSUME NEW k \in 0 .. N + 1, k \in S, k < N + 1
         PROVE  k + 1 \in S
    <2>1. k + 1 \in 1 .. N + 1 /\ k + 1 \in 0 .. N + 1 /\ k + 1 - 1 = k
      BY <1>1, <1>10
    <2>2. walk[k + 1] = Turn(rules, now, sorted, walk[k])
      <3>1. \A j \in 1 .. N + 1 : j - 1 = k => walk[j] = Turn(rules, now, sorted, walk[k])
        BY <1>8
      <3> QED
        BY <2>1, <3>1
    <2>3. walk[k] \in W /\ (walk[k].i > N \/ walk[k].i = k + 2)
      BY <1>8, <1>10
    <2>4. walk[k + 1].i = IF walk[k].i > N THEN walk[k].i ELSE walk[k].i + 1
      BY <1>7, <2>2, <2>3 DEF Consumes
    <2>5. walk[k + 1].i > N \/ walk[k + 1].i = k + 1 + 2
      BY <2>3, <2>4
    <2> QED
      BY <2>1, <2>5
  <1>11. 0 .. N + 1 \subseteq S
    <2>1. N + 1 \in Nat
      BY <1>1
    <2> HIDE DEF S
    <2> QED
      BY <1>9, <1>10, <2>1, CountUp
  <1> DEFINE w == walk[N + 1]
  <1>12. w \in W /\ w.i > N
    <2>1. N + 1 \in 0 .. N + 1
      BY <1>1
    <2>2. w.i > N \/ w.i = N + 1 + 2
      BY <1>11, <2>1
    <2> QED
      BY <1>1, <1>8, <2>1, <2>2
  <1> HIDE DEF w
  <1>13. /\ w.i = N + 1 /\ w.rejected \subseteq T
         /\ Keeps(rule, now, Seen(sorted, w.i), Seen(sorted, w.i) \ w.rejected)
    BY <1>1, <1>12 DEF W, OneRuleStates, KeepsSoFar
  <1>14. Seen(sorted, N + 1) = T
    <2>1. 1 .. (N + 1) - 1 = 1 .. N
      BY <1>1
    <2>2. \A i \in 1 .. N : sorted[i] \in T
      BY <1>1
    <2>3. \A t \in T : t \in {sorted[i] : i \in 1 .. N}
      BY <1>1
    <2>4. Seen(sorted, N + 1) = {sorted[i] : i \in 1 .. N}
      BY <2>1, Zenon DEF Seen
    <2> QED
      BY <2>2, <2>3, <2>4
  <1> QED
    BY <1>3, <1>13, <1>14 DEF w, rule

(***************************************************************************)
(* What a poll leaves.                                                     *)
(***************************************************************************)

\* The time of the newest block, and the chain's times in their order.
Top == ledger.chain[Len(ledger.chain)]
Increasing(chain) == \A i, j \in 1 .. Len(chain) : i < j => chain[i] < chain[j]
AtTop == node.last = Len(ledger.chain)

\* The header that is written is the newest that is known.
HeaderIsNewest ==
    node.pc \in {"content", "open", "write", "insert"} =>
        /\ node.header.height >= node.last
        /\ \A e \in manager : e.height <= node.header.height

\* What is deleted leaves the checkpoint just written and what the rule keeps.
CullSpares ==
    node.pc = "cull" =>
        /\ node.header \in manager \ node.doomed
        /\ AtTop => node.header.time = Top
        /\ \A d \in node.doomed, e \in manager : e.time = d.time => e \in node.doomed
        /\ node.header.time \in Int
        /\ HasOneRule(policy) =>
               Keeps(policy[1], node.header.time, Times(manager), Times(manager \ node.doomed))

\* After a poll at the top there is a checkpoint that is new enough.
Recent(e) == Bounded(policy[1].keep) => Top - e.time < AsDelta(policy[1].keep)
PollLeavesOne ==
    /\ node.pc \in {"started", "purge"} => ~node.polled
    /\ (node.pc = "idle" /\ node.polled /\ AtTop /\ policy # << >>) => \E e \in manager : Recent(e)

PollInv == Increasing(ledger.chain) /\ HeaderIsNewest /\ CullSpares /\ PollLeavesOne

LEMMA RulesOfPolicy ==
    ASSUME ManagedInv
    PROVE  /\ policy \in Policies
           /\ policy # << >> => policy[1] \in Rules
           /\ HasOneRule(policy) => policy # << >>
  <1>1. policy \in Policies /\ policy \in Seq([duration : Spans, keep : Spans])
    BY PolicyAssumption DEF ManagedInv, NodeFields, Policies
  <1>2. ASSUME policy # << >>
        PROVE  policy[1] \in Rules
    <2>1. Len(policy) \in Nat /\ Len(policy) # 0
      BY <1>1, <1>2, EmptySeq
    <2>2. 1 \in 1 .. Len(policy)
      BY <2>1
    <2>3. policy[1] \in [duration : Spans, keep : Spans]
      BY <1>1, <2>2, ElementOfSeq
    <2> QED
      BY <2>3 DEF Rules
  <1>3. HasOneRule(policy) => policy # << >>
    BY EmptySeq DEF HasOneRule
  <1> QED
    BY <1>1, <1>2, <1>3

LEMMA TopOfChain ==
    ASSUME RewindInv, ManagedInv
    PROVE  /\ Len(ledger.chain) \in Nat
           /\ \A i \in 1 .. Len(ledger.chain) : ledger.chain[i] \in 1 .. MaxTime
           /\ node.pc # "off" => CurrentHeight(ledger) = Len(ledger.chain)
  <1>1. ledger.chain \in Seq(1 .. MaxTime)
    BY DEF RewindInv, HeightsOfChain
  <1>2. Len(ledger.chain) \in Nat /\ \A i \in 1 .. Len(ledger.chain) : ledger.chain[i] \in 1 .. MaxTime
    BY <1>1, ElementOfSeq, LenProperties
  <1>3. node.pc # "off" => ledger.committees = 1 .. Len(ledger.chain)
    BY DEF ManagedInv, StoresAgree
  <1> QED
    BY <1>2, <1>3, TallestOfInterval DEF CurrentHeight

\* The time of a block of the ledger.
LEMMA TimeOnChain ==
    ASSUME RewindInv, NEW e, Sound(e), OnChain(e)
    PROVE  /\ e.height \in 1 .. Len(ledger.chain) /\ e.time = ledger.chain[e.height]
           /\ e.time \in 1 .. MaxTime
  <1>1. ledger.chain \in Seq(1 .. MaxTime) /\ e.height \in 1 .. Len(ledger.chain)
    BY DEF RewindInv, HeightsOfChain, OnChain
  <1>2. Hash(ledger.chain, e.height)[e.height] = ledger.chain[e.height]
    BY <1>1, EndOfHash
  <1> QED
    BY <1>1, <1>2 DEF Sound, OnChain, Entries

LEMMA ManagerTimes ==
    ASSUME RewindInv, ManagedInv
    PROVE  /\ MaxTime \in Nat
           /\ \A e \in manager : e.time \in 1 .. MaxTime /\ e.height \in Int
           /\ Times(manager) \subseteq 1 .. MaxTime
           /\ node.pc \in Loop => \A e \in manager : Sound(e) /\ OnChain(e)
  <1>1. \A e \in manager : Sound(e)
    BY DEF ManagedInv, ManagerSound, EntrySound
  <1>2. \A e \in manager : e.time \in 1 .. MaxTime /\ e.height \in Int
    BY <1>1 DEF Sound, Entries, Heights
  <1>3. Times(manager) \subseteq 1 .. MaxTime
    BY <1>2 DEF Times
  <1> QED
    BY <1>1, <1>2, <1>3, BoundsAssumption DEF ManagedInv, ManagerSound

LEMMA HashElements ==
    ASSUME NEW S, NEW chain \in Seq(S), NEW h \in 0 .. Len(chain)
    PROVE  \A i \in 1 .. h : Hash(chain, h)[i] = chain[i]
  <1>1. Len(chain) \in Nat /\ \A i \in 1 .. Len(chain) : chain[i] \in S
    BY ElementOfSeq, LenProperties
  <1>2. h \in Int /\ h - 1 + 1 = h
    BY <1>1
  <1>3. \A i \in 1 .. h : chain[i] \in S /\ 1 + i - 1 = i
    BY <1>1
  <1>4. \A i \in 1 .. h - 1 + 1 : SubSeq(chain, 1, h)[i] = chain[1 + i - 1]
    BY <1>2, <1>3, SubSeqProperties
  <1> QED
    BY <1>2, <1>3, <1>4 DEF Hash

LEMMA HashIncreases ==
    ASSUME NEW S, NEW chain \in Seq(S), NEW h \in 0 .. Len(chain), Increasing(chain)
    PROVE  Increasing(Hash(chain, h))
  <1>1. Len(chain) \in Nat /\ Len(Hash(chain, h)) = h
    BY LenProperties, HashOfChain
  <1>2. \A i \in 1 .. h : Hash(chain, h)[i] = chain[i] /\ i \in 1 .. Len(chain)
    BY <1>1, HashElements
  <1> QED
    BY <1>1, <1>2 DEF Increasing

\* A node that is off has nothing to keep.
LEMMA OffPolls ==
    ASSUME node'.pc = "off", Increasing(ledger'.chain)
    PROVE  PollInv'
  BY DEF PollInv, HeaderIsNewest, CullSpares, PollLeavesOne

LEMMA InitPolls == Init => PollInv
  <1> SUFFICES ASSUME Init
               PROVE  PollInv
    OBVIOUS
  <1> DEFINE none == << >>
  <1>1. ledger = Ledger(none, none) /\ node = Off
    BY DEF Init
  <1>2. none \in Seq(1 .. MaxTime) /\ Len(none) = 0
    BY EmptySeq
  <1> HIDE DEF none
  <1>3. ledger.chain = none
    BY <1>1, LedgerFields
  <1>4. Increasing(ledger.chain)
    BY <1>2, <1>3 DEF Increasing
  <1>5. node.pc = "off"
    BY <1>1 DEF Off
  <1> QED
    BY <1>4, <1>5 DEF PollInv, HeaderIsNewest, CullSpares, PollLeavesOne

\* The commands leave the chain, or a part of it, or none.
LEMMA CommandsPoll ==
    ASSUME RewindInv, ManagedInv, PollInv,
           \/ Apply \/ Remove \/ DropMappings \/ WriteMappings \/ SetRound \/ KillTool
           \/ Clean \/ Create \/ Wipe
    PROVE  PollInv'
  <1>1. node' = node /\ node.pc = "off"
    BY DEF Apply, Idle, Remove, DropMappings, WriteMappings, SetRound, KillTool, Clean, Create, Wipe,
           RewindInv, Rewinding
  <1>2. ledger.chain \in Seq(1 .. MaxTime) /\ Increasing(ledger.chain) /\ Len(ledger.chain) \in Nat
    BY DEF RewindInv, HeightsOfChain, PollInv
  <1>3. CASE Apply \/ Clean \/ Create
    <2>1. ledger' = ledger
      BY <1>3 DEF Apply, Clean, Create
    <2> QED
      BY <1>1, <1>2, <2>1, OffPolls
  <1>4. CASE Remove
    <2>1. PICK h \in Removed : RemoveBlock(h) \/ RemoveTransactions(h) \/ RemoveCommittee(h)
      BY <1>4 DEF Remove
    <2>2. ledger'.chain = ledger.chain
      BY <2>1 DEF RemoveBlock, RemoveTransactions, RemoveCommittee, RewindInv, Fields
    <2> QED
      BY <1>1, <1>2, <2>2, OffPolls
  <1>5. CASE DropMappings \/ WriteMappings
    <2>1. ledger'.chain = ledger.chain
      BY <1>5 DEF DropMappings, WriteMappings, RewindInv, Fields
    <2> QED
      BY <1>1, <1>2, <2>1, OffPolls
  <1>6. CASE SetRound
    <2> DEFINE k == tool.file.height
    <2>1. Exact
      BY <1>6, SetRoundKeeps
    <2>2. HasUpTo(k)
      BY <1>6 DEF SetRound, RewindInv, Rewinding
    <2>3. k \in 0 .. Len(ledger.chain) /\ Hash(ledger.chain, k) = tool.file.hash
      BY <1>2, <2>2 DEF HasUpTo
    <2>4. ledger'.chain = Hash(ledger.chain, k)
      BY <2>1, <2>3 DEF Exact
    <2> HIDE DEF k
    <2>5. Increasing(Hash(ledger.chain, k))
      BY <1>2, <2>3, HashIncreases
    <2> QED
      BY <1>1, <2>4, <2>5, OffPolls
  <1>7. CASE KillTool
    <2> DEFINE h == Tallest(Stored(ledger))
    <2>1. ledger' = [ledger EXCEPT !.chain = Hash(ledger.chain, h)]
      BY <1>7 DEF KillTool, Stored
    <2>2. Stored(ledger) \subseteq 1 .. Len(ledger.chain)
      BY DEF RewindInv, HeightsOfChain, Stored
    <2>3. h \in 0 .. Len(ledger.chain)
      BY <1>2, <2>2, TallestExists
    <2> HIDE DEF h
    <2>4. ledger'.chain = Hash(ledger.chain, h)
      BY <2>1 DEF RewindInv, Fields
    <2>5. Increasing(Hash(ledger.chain, h))
      BY <1>2, <2>3, HashIncreases
    <2> QED
      BY <1>1, <2>4, <2>5, OffPolls
  <1>8. CASE Wipe
    <2> DEFINE none == << >>
    <2>1. ledger' = Ledger(none, none)
      BY <1>8 DEF Wipe
    <2>2. none \in Seq(1 .. MaxTime) /\ Len(none) = 0
      BY EmptySeq
    <2> HIDE DEF none
    <2>3. ledger'.chain = none
      BY <2>1, LedgerFields
    <2>4. Increasing(ledger'.chain)
      BY <2>2, <2>3 DEF Increasing
    <2> QED
      BY <1>1, <2>4, OffPolls
  <1> QED
    BY <1>3, <1>4, <1>5, <1>6, <1>7, <1>8

LEMMA StartPolls ==
    ASSUME RewindInv, ManagedInv, PollInv, Start \/ KillNode
    PROVE  PollInv'
  <1>1. ledger' = ledger /\ (node' = [Off EXCEPT !.pc = "started"] \/ node' = Off)
    BY DEF Start, KillNode
  <1>2. node'.pc \in {"off", "started"} /\ node'.polled = FALSE
    BY <1>1 DEF Off
  <1> QED
    BY <1>1, <1>2 DEF PollInv, HeaderIsNewest, CullSpares, PollLeavesOne

\* A block that is added is above what the loop has seen.
LEMMA AdvancePolls ==
    ASSUME RewindInv, ManagedInv, PollInv, Advance
    PROVE  PollInv'
  <1>1. PICK t \in 1 .. MaxTime :
            /\ ledger.chain # << >> => t > ledger.chain[Len(ledger.chain)]
            /\ \E maps : ledger' = Ledger(Append(ledger.chain, t), maps)
    BY DEF Advance
  <1> DEFINE old == ledger.chain
             chain == Append(old, t)
             n == Len(old)
  <1>2. UNCHANGED <<policy, manager, node>> /\ node.pc # "off"
    BY DEF Advance, Running
  <1>3. /\ old \in Seq(1 .. MaxTime) /\ n \in Nat /\ \A i \in 1 .. n : old[i] \in 1 .. MaxTime
        /\ Increasing(old) /\ (n # 0 => old # << >>)
    BY TopOfChain, EmptySeq DEF RewindInv, HeightsOfChain, PollInv
  <1>4. /\ Len(chain) = n + 1 /\ chain[n + 1] = t
        /\ \A i \in 1 .. n : chain[i] = old[i]
    <2> HIDE DEF old
    <2> QED
      BY <1>3, AppendProperties
  <1>5. ledger'.chain = chain
    <2>1. PICK maps : ledger' = Ledger(chain, maps)
      BY <1>1
    <2> HIDE DEF chain
    <2> QED
      BY <2>1, LedgerFields
  <1>6. n # 0 => t > old[n]
    BY <1>1, <1>3
  <1> HIDE DEF chain, old, n
  <1>7. Increasing(chain)
    <2> SUFFICES ASSUME NEW i \in 1 .. n + 1, NEW j \in 1 .. n + 1, i < j
                 PROVE  chain[i] < chain[j]
      BY <1>4 DEF Increasing
    <2>1. i \in 1 .. n /\ n \in 1 .. n /\ n # 0
      BY <1>3
    <2>2. CASE j \in 1 .. n
      BY <1>3, <1>4, <2>1, <2>2 DEF Increasing, n
    <2>3. CASE j = n + 1
      <3>1. old[i] <= old[n]
        <4>1. CASE i = n
          BY <1>3, <2>1, <4>1
        <4>2. CASE i < n
          BY <1>3, <2>1, <4>2 DEF Increasing, n
        <4> QED
          BY <1>3, <2>1, <4>1, <4>2
      <3>2. old[i] \in Int /\ old[n] \in Int /\ t \in Int
        BY <1>3, <2>1
      <3> QED
        BY <1>4, <1>6, <2>1, <2>3, <3>1, <3>2
    <2> QED
      BY <1>3, <2>2, <2>3
  <1>8. node.pc \in Loop => node.last \in 0 .. n
    BY DEF ManagedInv, HeaderSound, n, old
  <1>9. node.pc \in {"cull", "idle"} => ~AtTop'
    BY <1>2, <1>3, <1>4, <1>5, <1>8 DEF Loop, AtTop
  <1>10. CullSpares'
    BY <1>2, <1>9 DEF PollInv, CullSpares
  <1>11. PollLeavesOne' /\ HeaderIsNewest'
    BY <1>2, <1>9 DEF PollInv, PollLeavesOne, HeaderIsNewest
  <1> QED
    BY <1>5, <1>7, <1>10, <1>11 DEF PollInv

\* Steps of the loop that leave what the manager knows.
LEMMA LoopPolls ==
    ASSUME RewindInv, ManagedInv, PollInv,
           Purge \/ Purged \/ Tick \/ ReadContent \/ OpenFile \/ WriteHeader
    PROVE  PollInv'
  <1>1. UNCHANGED <<policy, ledger, manager>>
    BY DEF Purge, Purged, Tick, ReadContent, OpenFile, WriteHeader
  <1>2. /\ node.pc \in {"content", "open", "write"} =>
                /\ node'.pc \in {"open", "write", "insert"}
                /\ node'.header = node.header /\ node'.last = node.last
        /\ node.pc = "started" => node'.pc = "purge" /\ node'.polled = node.polled
        /\ node.pc = "purge" => node'.pc = "idle" /\ node'.polled = node.polled
        /\ node.pc = "idle" => node'.pc = "header"
        /\ node.pc \in {"content", "open", "write", "started", "purge", "idle"}
    <2>1. CASE Purge
      <3>1. node' = [[node EXCEPT !.pc = "purge"] EXCEPT !.doomed = Incompatible(manager, ledger)]
            /\ node.pc = "started"
        BY <2>1, Zenon DEF Purge
      <3> QED
        BY <3>1 DEF ManagedInv, NodeFields
    <2>2. CASE Purged
      <3>1. node' = [[node EXCEPT !.pc = "idle"] EXCEPT !.last = CurrentHeight(ledger)]
            /\ node.pc = "purge"
        BY <2>2, Zenon DEF Purged
      <3> QED
        BY <3>1 DEF ManagedInv, NodeFields
    <2>3. CASE Tick
      <3>1. node' = [[node EXCEPT !.pc = "header"] EXCEPT !.last = CurrentHeight(ledger)]
            /\ node.pc = "idle"
        BY <2>3, Zenon DEF Tick
      <3> QED
        BY <3>1 DEF ManagedInv, NodeFields
    <2>4. CASE ReadContent
      <3>1. node' = [[node EXCEPT !.pc = "open"] EXCEPT !.content = ledger.maps] /\ node.pc = "content"
        BY <2>4, Zenon DEF ReadContent
      <3> QED
        BY <3>1 DEF ManagedInv, NodeFields
    <2>5. CASE OpenFile \/ WriteHeader
      <3>1. \/ node.pc = "open" /\ node' = [node EXCEPT !.pc = "write"]
            \/ node.pc = "write" /\ node' = [node EXCEPT !.pc = "insert"]
        BY <2>5 DEF OpenFile, WriteHeader
      <3> QED
        BY <3>1 DEF ManagedInv, NodeFields
    <2> QED
      BY <2>1, <2>2, <2>3, <2>4, <2>5
  <1>3. HeaderIsNewest'
    BY <1>1, <1>2 DEF PollInv, HeaderIsNewest
  <1>4. CullSpares'
    BY <1>2 DEF CullSpares
  <1>5. PollLeavesOne'
    BY <1>1, <1>2 DEF PollInv, PollLeavesOne
  <1> QED
    BY <1>1, <1>3, <1>4, <1>5 DEF PollInv

\* A poll that is not due has found a checkpoint that is new enough.
LEMMA ReadHeaderPolls ==
    ASSUME RewindInv, ManagedInv, PollInv, ReadHeader
    PROVE  PollInv'
  <1> DEFINE x == Header(ledger)
  <1>1. UNCHANGED <<policy, ledger, manager>> /\ node.pc = "header"
    BY DEF ReadHeader
  <1>2. /\ Len(ledger.chain) \in Nat /\ CurrentHeight(ledger) = Len(ledger.chain)
        /\ node.last \in 0 .. Len(ledger.chain)
    BY <1>1, TopOfChain DEF ManagedInv, HeaderSound, Loop
  <1>3. x.time = Top /\ x.height = Len(ledger.chain)
    BY <1>2 DEF Header, Top
  <1> HIDE DEF x
  <1>4. CASE IsReady(manager, x.time)
    <2>1. node' = [[node EXCEPT !.pc = "content"] EXCEPT !.header = x]
      BY <1>4, Zenon DEF ReadHeader, x
    <2>2. node'.pc = "content" /\ node'.header = x /\ node'.last = node.last
      BY <2>1 DEF ManagedInv, NodeFields
    <2>3. \A e \in manager : e.height <= Len(ledger.chain)
      BY <1>1, <1>2 DEF ManagedInv, ManagerSound, OnChain, Loop
    <2>4. HeaderIsNewest'
      BY <1>1, <1>2, <1>3, <2>2, <2>3 DEF HeaderIsNewest
    <2> QED
      BY <1>1, <2>2, <2>4 DEF PollInv, CullSpares, PollLeavesOne
  <1>5. CASE ~IsReady(manager, x.time)
    <2>1. node' = [[node EXCEPT !.pc = "idle"] EXCEPT !.polled = TRUE]
      BY <1>5, Zenon DEF ReadHeader, x
    <2>2. node'.pc = "idle"
      BY <2>1 DEF ManagedInv, NodeFields
    <2> DEFINE last == Latest(Times(manager))
    <2>3. manager # {} /\ ~ReadyWithTime(policy, x.time, last)
      BY <1>5 DEF IsReady
    <2>4. last \in Times(manager)
      <3>1. Times(manager) # {}
        BY <2>3 DEF Times
      <3> QED
        BY <3>1, ManagerTimes, Extremes
    <2> HIDE DEF last
    <2>5. PICK e \in manager : e.time = last
      BY <2>4 DEF Times
    <2>6. policy # << >> => Recent(e)
      <3> SUFFICES ASSUME policy # << >>, Bounded(policy[1].keep)
                   PROVE  Top - e.time < AsDelta(policy[1].keep)
        BY DEF Recent
      <3>1. ~(x.time - last >= AsDelta(policy[1].keep))
        BY <2>3 DEF ReadyWithTime
      <3>2. AsDelta(policy[1].keep) \in Int
        <4>1. policy[1] \in Rules
          BY RulesOfPolicy
        <4> QED
          BY <4>1, DeltaIsPositive DEF Rules
      <3>3. e.time \in Int
        BY ManagerTimes
      <3>4. x.time \in Int
        <4>1. Len(ledger.chain) # 0
          BY <1>1 DEF ManagedInv, HeaderSound
        <4>2. Len(ledger.chain) \in 1 .. Len(ledger.chain)
          BY <1>2, <4>1
        <4>3. Top \in 1 .. MaxTime
          BY <4>2, TopOfChain DEF Top
        <4> QED
          BY <1>3, <4>3
      <3> QED
        BY <1>3, <2>5, <3>1, <3>2, <3>3, <3>4
    <2>7. PollLeavesOne'
      <3>1. policy # << >> => \E d \in manager : Recent(d)
        BY <2>6
      <3> QED
        BY <1>1, <2>2, <3>1 DEF PollLeavesOne, Recent, Top
    <2> QED
      BY <1>1, <2>2, <2>7 DEF PollInv, CullSpares, HeaderIsNewest
  <1> QED
    BY <1>4, <1>5

\* The checkpoint that was written is left when the rest is deleted.
LEMMA CulledPolls ==
    ASSUME RewindInv, ManagedInv, PollInv, Culled
    PROVE  PollInv'
  <1>1. UNCHANGED <<policy, ledger, manager>> /\ node.pc = "cull" /\ node.doomed = {}
    BY DEF Culled
  <1>2. node' = [[[[node EXCEPT !.pc = "idle"] EXCEPT !.polled = TRUE] EXCEPT !.header = NoFile]
                    EXCEPT !.content = << >>]
    BY Zenon DEF Culled
  <1>3. node'.pc = "idle" /\ node'.last = node.last
    BY <1>2 DEF ManagedInv, NodeFields
  <1>4. AtTop /\ policy # << >> => \E e \in manager : Recent(e)
    <2> SUFFICES ASSUME AtTop, policy # << >>
                 PROVE  Recent(node.header) /\ node.header \in manager
      OBVIOUS
    <2>1. node.header \in manager /\ node.header.time = Top /\ Top \in Int
      BY <1>1 DEF PollInv, CullSpares
    <2>2. Top - Top = 0
      BY <2>1
    <2>3. policy[1] \in Rules
      BY RulesOfPolicy
    <2>4. Bounded(policy[1].keep) => AsDelta(policy[1].keep) \in Nat \ {0}
      BY <2>3, DeltaIsPositive DEF Rules
    <2> QED
      BY <2>1, <2>2, <2>4 DEF Recent
  <1>5. PollLeavesOne'
    BY <1>1, <1>3, <1>4 DEF PollLeavesOne, Recent, Top, AtTop
  <1> QED
    BY <1>1, <1>3, <1>5 DEF PollInv, CullSpares, HeaderIsNewest

\* What the rule keeps is kept until the rest is deleted.
LEMMA DeletePolls ==
    ASSUME RewindInv, ManagedInv, PollInv, Delete
    PROVE  PollInv'
  <1>1. PICK e \in node.doomed :
            manager' = manager \ {e} /\ node' = [node EXCEPT !.doomed = @ \ {e}]
    BY DEF Delete
  <1>2. UNCHANGED <<policy, ledger>> /\ node.pc \in {"purge", "cull"}
    BY DEF Delete
  <1>3. /\ node'.pc = node.pc /\ node'.doomed = node.doomed \ {e} /\ node'.last = node.last
        /\ node'.header = node.header /\ node'.polled = node.polled
    BY <1>1 DEF ManagedInv, NodeFields
  <1>4. manager' \ node'.doomed = manager \ node.doomed
    BY <1>1, <1>3
  <1>5. CullSpares'
    <2> SUFFICES ASSUME node.pc = "cull"
                 PROVE  CullSpares'
      BY <1>3 DEF CullSpares
    <2>1. CullSpares
      BY DEF PollInv
    <2>2. /\ node'.header \in manager' \ node'.doomed
          /\ AtTop' => node'.header.time = Top'
      BY <1>2, <1>3, <1>4, <2>1 DEF CullSpares, AtTop, Top
    <2>3. \A d \in node'.doomed, x \in manager' : x.time = d.time => x \in node'.doomed
      BY <1>1, <1>3, <2>1 DEF CullSpares
    <2>4. ASSUME HasOneRule(policy)
          PROVE  Keeps(policy[1], node.header.time, Times(manager'), Times(manager \ node.doomed))
      <3> DEFINE S == Times(manager')
                 K == Times(manager \ node.doomed)
                 T == Times(manager)
      <3>1. Keeps(policy[1], node.header.time, T, K) /\ node.header.time \in Int
        BY <2>1, <2>4 DEF CullSpares
      <3>2. S \subseteq T /\ K \subseteq S
        BY <1>1 DEF Times
      <3>3. T \subseteq 1 .. MaxTime /\ MaxTime \in Nat
        BY ManagerTimes
      <3>4. policy[1] \in Rules
        BY <2>4, RulesOfPolicy
      <3> HIDE DEF S, K, T
      <3>5. Keeps(policy[1], node.header.time, S, K)
        BY <3>1, <3>2, <3>3, <3>4, KeepsWhileDeleted
      <3> QED
        BY <3>5 DEF S, K
    <2>5. HasOneRule(policy') =>
              Keeps(policy'[1], node'.header.time, Times(manager'), Times(manager' \ node'.doomed))
      BY <1>2, <1>3, <1>4, <2>4
    <2> QED
      BY <1>3, <2>1, <2>2, <2>3, <2>5 DEF CullSpares, Times
  <1>6. HeaderIsNewest' /\ PollLeavesOne'
    BY <1>2, <1>3 DEF PollInv, HeaderIsNewest, PollLeavesOne
  <1> QED
    BY <1>2, <1>5, <1>6 DEF PollInv

\* The checkpoint that is written is not among those that are rejected.
LEMMA InsertPolls ==
    ASSUME RewindInv, ManagedInv, PollInv, WriteAndInsert
    PROVE  PollInv'
  <1> DEFINE x == node.header
             now == x.time
             m == {e \in manager : e.time # now} \cup {x}
             T == Times(m)
             rejected == Reject(policy, now, T)
  <1>1. /\ UNCHANGED <<policy, ledger>> /\ node.pc = "insert" /\ manager' = m
        /\ node' = [[node EXCEPT !.pc = "cull"] EXCEPT !.doomed = Rejected(m, now)]
    BY Zenon DEF WriteAndInsert
  <1>2. /\ node'.pc = "cull" /\ node'.doomed = Rejected(m, now)
        /\ node'.last = node.last /\ node'.header = x
    <2> HIDE DEF m
    <2> QED
      BY <1>1 DEF ManagedInv, NodeFields
  <1>3. Sound(x) /\ OnChain(x) /\ x.height >= node.last /\ \A e \in manager : e.height <= x.height
    BY <1>1 DEF ManagedInv, HeaderSound, PollInv, HeaderIsNewest
  <1>4. /\ x.height \in 1 .. Len(ledger.chain) /\ now = ledger.chain[x.height]
        /\ now \in 1 .. MaxTime
    BY <1>3, TimeOnChain
  <1>5. /\ Len(ledger.chain) \in Nat /\ \A i \in 1 .. Len(ledger.chain) : ledger.chain[i] \in 1 .. MaxTime
    BY TopOfChain
  <1>6. ASSUME NEW e \in manager
        PROVE  e.time \in 1 .. MaxTime /\ e.time <= now
    <2>1. Sound(e) /\ OnChain(e)
      BY <1>1, ManagerTimes DEF Loop
    <2>2. e.height \in 1 .. Len(ledger.chain) /\ e.time = ledger.chain[e.height] /\ e.time \in 1 .. MaxTime
      BY <2>1, TimeOnChain
    <2>3. CASE e.height = x.height
      BY <1>4, <1>5, <2>2, <2>3
    <2>4. CASE e.height < x.height
      <3>1. ledger.chain[e.height] < ledger.chain[x.height]
        BY <1>4, <2>2, <2>4 DEF PollInv, Increasing
      <3> QED
        BY <1>4, <2>2, <3>1
    <2>5. e.height <= x.height /\ e.height \in Int /\ x.height \in Int
      BY <1>3, <1>4, <2>2
    <2> QED
      BY <2>2, <2>3, <2>4, <2>5
  <1>7. T \subseteq 1 .. MaxTime /\ now \in T /\ MaxTime \in Nat
    BY <1>4, <1>6, ManagerTimes DEF Times
  <1>8. \A t \in T : t <= now
    <2>1. now <= now
      BY <1>4
    <2> QED
      BY <1>6, <2>1 DEF Times
  <1>9. now \notin rejected
    <2>1. policy \in Policies
      BY RulesOfPolicy
    <2> HIDE DEF T, now
    <2> QED
      BY <1>7, <1>8, <2>1, NewestStays
  <1>10. Rejected(m, now) = {e \in m : e.time \in rejected}
    BY DEF Rejected
  <1>11. x \in m \ Rejected(m, now)
    BY <1>9, <1>10
  <1>12. Times(m \ Rejected(m, now)) = T \ rejected
    <2> HIDE DEF m, rejected
    <2> QED
      BY <1>10 DEF Times
  <1>13. \A d \in Rejected(m, now), e \in m : e.time = d.time => e \in Rejected(m, now)
    BY <1>10
  <1>14. ASSUME HasOneRule(policy)
         PROVE  Keeps(policy[1], now, T, T \ rejected)
    <2>1. policy \in Policies
      BY RulesOfPolicy
    <2>2. now \in Int
      BY <1>4
    <2> HIDE DEF T, now
    <2>3. T # {}
      BY <1>7
    <2> QED
      BY <1>7, <1>14, <2>1, <2>2, <2>3, RejectKeeps
  <1>15. node.last = Len(ledger.chain) => now = Top
    <2>1. node.last = Len(ledger.chain) => x.height = Len(ledger.chain)
      BY <1>3, <1>4, <1>5
    <2> QED
      BY <1>4, <2>1 DEF Top
  <1>16. now \in Int
    BY <1>4
  <1>17. CullSpares'
    <2>1. /\ node'.doomed = Rejected(manager', now) /\ node'.header.time = now /\ node'.header = x
          /\ policy' = policy /\ ledger' = ledger /\ node'.last = node.last /\ manager' = m
      BY <1>1, <1>2
    <2>2. x \in manager' \ node'.doomed /\ (AtTop' => now = Top')
      BY <1>11, <1>15, <2>1 DEF AtTop, Top
    <2>3. \A d \in node'.doomed, e \in manager' : e.time = d.time => e \in node'.doomed
      BY <1>13, <2>1
    <2>4. HasOneRule(policy') =>
              Keeps(policy'[1], node'.header.time, Times(manager'), Times(manager' \ node'.doomed))
      <3> HIDE DEF m, T, now, rejected
      <3>1. HasOneRule(policy) => Keeps(policy[1], now, T, Times(m \ Rejected(m, now)))
        BY <1>12, <1>14
      <3> QED
        BY <2>1, <3>1 DEF T
    <2> HIDE DEF m, T, now, rejected, x
    <2> QED
      BY <1>16, <2>1, <2>2, <2>3, <2>4 DEF CullSpares, Times
  <1> HIDE DEF m
  <1> QED
    BY <1>1, <1>2, <1>17 DEF PollInv, HeaderIsNewest, PollLeavesOne

LEMMA StepPolls ==
    RewindInv /\ ManagedInv /\ PollInv /\ [Next]_vars => PollInv'
  <1> SUFFICES ASSUME RewindInv, ManagedInv, PollInv, [Next]_vars
               PROVE  PollInv'
    OBVIOUS
  <1>1. CASE Start \/ KillNode
    BY <1>1, StartPolls
  <1>2. CASE Purge \/ Purged \/ Tick \/ ReadContent \/ OpenFile \/ WriteHeader
    BY <1>2, LoopPolls
  <1>3. CASE ReadHeader
    BY <1>3, ReadHeaderPolls
  <1>4. CASE Culled
    BY <1>4, CulledPolls
  <1>5. CASE Delete
    BY <1>5, DeletePolls
  <1>6. CASE WriteAndInsert
    BY <1>6, InsertPolls
  <1>7. CASE Advance
    BY <1>7, AdvancePolls
  <1>8. CASE \/ Apply \/ Remove \/ DropMappings \/ WriteMappings \/ SetRound \/ KillTool
             \/ Clean \/ Create \/ Wipe
    BY <1>8, CommandsPoll
  <1>9. CASE UNCHANGED vars
    BY <1>9 DEF vars, PollInv, HeaderIsNewest, CullSpares, PollLeavesOne, Recent, AtTop, Top, Times
  <1> QED
    BY <1>1, <1>2, <1>3, <1>4, <1>5, <1>6, <1>7, <1>8, <1>9 DEF Next

LEMMA PollsHold == Spec => [](RewindInv /\ ManagedInv /\ PollInv)
  <1>1. Init => RewindInv /\ ManagedInv /\ PollInv
    BY InitHolds, InitManages, InitPolls
  <1>2. RewindInv /\ [Next]_vars => RewindInv'
    BY StepKeeps
  <1>3. RewindInv /\ ManagedInv /\ PollInv /\ [Next]_vars => (RewindInv /\ ManagedInv /\ PollInv)'
    BY <1>2, StepManages, StepPolls
  <1> QED
    BY <1>1, <1>3, PTL DEF Spec

(* After a poll at the top of the ledger the manager has a checkpoint      *)
(* younger than the keep span of the first rule: with any policy, for one  *)
(* just written is never rejected by the walk, whatever a kill left and    *)
(* whatever the node adds while the loop reads and writes.                 *)
THEOREM RestorePointsExist == Spec => []RestorePoint
  <1>1. RewindInv /\ ManagedInv /\ PollInv => RestorePoint
    <2> SUFFICES ASSUME RewindInv, ManagedInv, PollInv, node.pc = "idle", node.polled,
                        node.last = CurrentHeight(ledger), policy # << >>
                 PROVE  \E e \in manager : Recent(e)
      BY DEF RestorePoint, Recent, Top
    <2>1. AtTop
      BY TopOfChain DEF AtTop
    <2> QED
      BY <2>1 DEF PollInv, PollLeavesOne
  <1> QED
    BY <1>1, PollsHold, PTL

\* What meets the definition without a walk is what KeptWithLast chooses.
LEMMA KeptIsWithLast ==
    ASSUME NEW n \in Nat, NEW T, T \subseteq 1 .. n, T # {}, NEW rule \in Rules, NEW now \in Int,
           NEW K, Keeps(rule, now, T, K)
    PROVE  K = KeptWithLast(rule, now, T)
  <1> DEFINE L == KeptWithLast(rule, now, T)
  <1>1. Keeps(rule, now, T, L)
    BY WithLastKeeps
  <1> HIDE DEF L
  <1>2. K = L
    BY <1>1, KeepsOnlyOne
  <1> QED
    BY <1>2 DEF L

(* While a policy of one rule is carried out, what it leaves is the        *)
(* promised checkpoints and the last one when the chain leaves the         *)
(* duration, and it stays so until the last rejected one is deleted.       *)
WalkLeaves ==
    (node.pc = "cull" /\ Len(policy) = 1) =>
        Left = KeptWithLast(policy[1], node.header.time, Times(manager))

LEMMA LeavesExactly == RewindInv /\ ManagedInv /\ PollInv => WalkLeaves
  <1> SUFFICES ASSUME RewindInv, ManagedInv, PollInv, node.pc = "cull", Len(policy) = 1
               PROVE  Left = KeptWithLast(policy[1], node.header.time, Times(manager))
    BY DEF WalkLeaves
  <1> DEFINE T == Times(manager)
             K == Times(manager \ node.doomed)
             now == node.header.time
  <1>1. /\ \A d \in node.doomed, e \in manager : e.time = d.time => e \in node.doomed
        /\ now \in Int /\ Keeps(policy[1], now, T, K)
    BY DEF PollInv, CullSpares, HasOneRule
  <1>2. T \subseteq 1 .. MaxTime /\ MaxTime \in Nat
    BY ManagerTimes
  <1>3. policy[1] \in Rules
    BY RulesOfPolicy DEF HasOneRule
  <1>4. Left = K
    BY <1>1 DEF Left, Times
  <1>5. T # {}
    BY DEF PollInv, CullSpares, Times
  <1> HIDE DEF T, K, now
  <1>6. ASSUME NEW rule \in Rules, Keeps(rule, now, T, K)
        PROVE  K = KeptWithLast(rule, now, T)
    BY <1>1, <1>2, <1>5, <1>6, KeptIsWithLast
  <1>7. K = KeptWithLast(policy[1], now, T)
    BY <1>1, <1>3, <1>6
  <1> QED
    BY <1>4, <1>7 DEF T, now

(* The walk of the code against the promise, which has no walk: for every  *)
(* number of checkpoints, every rule and every time, what the rule         *)
(* promises is left, and beside it at most the oldest checkpoint.          *)
THEOREM PromiseIsKept == Spec => []PromisedIsKept
  <1>1. RewindInv /\ ManagedInv /\ PollInv => PromisedIsKept
    <2> SUFFICES ASSUME RewindInv, ManagedInv, PollInv, node.pc = "cull", Len(policy) = 1
                 PROVE  /\ Promised \subseteq Left
                        /\ Left \ Promised \subseteq {Earliest(Times(manager))}
      BY DEF PromisedIsKept
    <2>1. Left = KeptWithLast(policy[1], node.header.time, Times(manager))
      BY LeavesExactly DEF WalkLeaves
    <2>2. /\ Promised \subseteq Left
          /\ Left \subseteq Promised \cup {Earliest(Times(manager))}
      BY <2>1 DEF KeptWithLast, Promised
    <2> QED
      BY <2>2
  <1> QED
    BY <1>1, PollsHold, PTL
================================================================================
