--------------------------- MODULE NodeDocuments ---------------------------
(***************************************************************************)
(* The nodes an environment document describes (controlplane/src/schema/   *)
(* nodes.rs): the keys of nodes, the targets that select them (common/src/ *)
(* node_targets.rs), the sources of their private keys (common/src/        *)
(* key_source.rs, controlplane/src/schema/storage/loaded.rs), the          *)
(* expansion of replicas (env/mod.rs), and the form in which all of it is  *)
(* saved (persist/node.rs, persist/env.rs).                                *)
(*                                                                         *)
(* The id of a node is a name, or a name and the index of a replica; a     *)
(* text that selects ids is a name, "any", "*", or a pattern, given by the *)
(* set of ids it matches.                                                  *)
(***************************************************************************)
EXTENDS Naturals, SequencesExt

CONSTANTS
    Glob,        \* [patterns -> the ids they match]
    Committee,   \* the private keys of the storage's committee, a sequence
    Accounts,    \* [account files -> sequences of private keys]
    None

----------------------------------------------------------------------------
(* Targets.                                                                *)

NodeTypes == {"client", "validator", "prover"}
Key(ty, id, ns) == [ty |-> ty, id |-> id, ns |-> ns]
Namespace(ns) == IF ns = "local" THEN None ELSE ns
ParsedKey(text) == [text EXCEPT !.ns = Namespace(@)]

Wildcards == {"any", "*"}
All == <<"all">>
Local == <<"local">>
Literal(x) == <<"literal", x>>
Pattern(x) == <<"pattern", x>>

\* From<NodeKey>, and FromStr: a text has the three parts; ns may be absent.
TargetOf(key) ==
    [ty |-> <<"one", key.ty>>, id |-> Literal(key.id),
     ns |-> IF key.ns = None THEN Local ELSE Literal(key.ns)]
Parse(text) ==
    [ty |-> IF text.ty \in Wildcards THEN All ELSE <<"one", text.ty>>,
     id |-> IF text.id \in {<<w>> : w \in Wildcards} THEN All
            ELSE IF text.id \in DOMAIN Glob THEN Pattern(text.id) ELSE Literal(text.id),
     ns |-> IF text.ns \in Wildcards THEN All
            ELSE IF Namespace(text.ns) = None THEN Local ELSE Literal(text.ns)]

TargetMatches(t, key) ==
    /\ t.ty = All \/ t.ty = <<"one", key.ty>>
    /\ \/ t.id = All \/ t.id = Literal(key.id)
       \/ t.id[1] = "pattern" /\ key.id \in Glob[t.id[2]]
    /\ \/ t.ns = All
       \/ t.ns \in {Local, Literal("local")} /\ key.ns \in {None, "local"}
       \/ t.ns = Literal(key.ns)

\* NodeTargets: None, One or Many are told apart by nothing but their length.
TargetsMatch(targets, key) == \E i \in DOMAIN targets : TargetMatches(targets[i], key)

----------------------------------------------------------------------------
(* Sources of keys: <<"local">>, <<"private", k>>, <<"public", a>>,        *)
(* <<"program", p>>, <<"committee", i>> and <<"named", file, i>>, where i  *)
(* may be None.                                                            *)

WithIndex(source, i) ==
    IF Last(source) = None THEN [source EXCEPT ![Len(source)] = i] ELSE source

GetIndex(keys, i) == IF i # None /\ i + 1 \in DOMAIN keys THEN keys[i + 1] ELSE None

\* lookup_keysource_pk.  The states of a key are None, "local" and a key.
LookupPk(source) ==
    CASE source = None -> None
      [] source[1] = "local" -> "local"
      [] source[1] = "private" -> source[2]
      [] source[1] \in {"public", "program"} -> None
      [] source[1] = "committee" -> GetIndex(Committee, source[2])
      [] source[1] = "named" ->
             IF source[2] \in DOMAIN Accounts
             THEN GetIndex(Accounts[source[2]], source[3]) ELSE None

----------------------------------------------------------------------------
(* The documents: nodes with replicas, and external nodes.                 *)

ReplicaKey(key, n, i) == IF n = 1 THEN key ELSE [key EXCEPT !.id = Append(@, i)]
NodeKeys(doc) ==
    UNION {{ReplicaKey(k, doc.nodes[k].replicas, i) : i \in 0 .. doc.nodes[k].replicas - 1} :
               k \in DOMAIN doc.nodes}

\* A node of the flattened document: the texts are parsed, the key indexed.
Flat(doc, k, i) ==
    LET node == doc.nodes[k] IN
    [peers |-> [j \in DOMAIN node.peers |-> Parse(node.peers[j])],
     validators |-> [j \in DOMAIN node.validators |-> Parse(node.validators[j])],
     key |-> IF node.key = None THEN None ELSE WithIndex(node.key, i)]
Flattened(doc) ==
    [nk \in NodeKeys(doc) |->
        LET source == CHOOSE s \in {<<k, i>> : k \in DOMAIN doc.nodes, i \in 0 .. 9} :
                          /\ s[2] < doc.nodes[s[1]].replicas
                          /\ ReplicaKey(s[1], doc.nodes[s[1]].replicas, s[2]) = nk
        IN Flat(doc, source[1], source[2])]

----------------------------------------------------------------------------
(* The saved form: parts one after the other, each a sequence of tags,     *)
(* lengths and values.  A reader takes a part from the front of the data   *)
(* and leaves the rest.                                                    *)

Got(value, rest) == [value |-> value, rest |-> rest]
Past(data, n) == SubSeq(data, n + 1, Len(data))

\* Option, and Vec: a tag or the length comes first.
WriteOption(Write(_), x) == IF x = None THEN <<0>> ELSE <<1>> \o Write(x)
ReadOption(Read(_), data) == IF data[1] = 0 THEN Got(None, Tail(data)) ELSE Read(Tail(data))

WriteMany(Write(_), s) == <<Len(s)>> \o FlattenSeq([i \in DOMAIN s |-> Write(s[i])])
ReadMany(Read(_), data) ==
    LET more[n \in 0 .. data[1]] ==
            IF n = 0 THEN Got(<<>>, Tail(data))
            ELSE LET before == more[n - 1]
                     got == Read(before.rest)
                 IN Got(Append(before.value, got.value), got.rest)
    IN more[data[1]]

\* A string, an index, an address or an id, as it is.
WriteValue(x) == <<x>>
ReadValue(data) == Got(data[1], Tail(data))

WriteNodeKey(key) == <<key.ty, key.id>> \o WriteOption(WriteValue, key.ns)
ReadNodeKey(data) ==
    LET ns == ReadOption(ReadValue, Past(data, 2))
    IN Got(Key(data[1], data[2], ns.value), ns.rest)

WriteOne(part, tags) ==
    IF Len(part) = 1 THEN <<tags[part[1]]>> ELSE <<tags[part[1]], part[2]>>
TypeTags == [all |-> 0, one |-> 1]
IdTags == [all |-> 0, pattern |-> 1, literal |-> 2]
NsTags == [all |-> 0, local |-> 1, literal |-> 2]
WriteTarget(t) == WriteOne(t.ty, TypeTags) \o WriteOne(t.id, IdTags) \o WriteOne(t.ns, NsTags)

ReadOne(data, tags) ==
    LET name == CHOOSE n \in DOMAIN tags : tags[n] = data[1]
    IN IF name \in {"all", "local"} THEN Got(<<name>>, Tail(data))
       ELSE Got(<<name, data[2]>>, Past(data, 2))
ReadTarget(data) ==
    LET ty == ReadOne(data, TypeTags)
        id == ReadOne(ty.rest, IdTags)
        ns == ReadOne(id.rest, NsTags)
    IN Got([ty |-> ty.value, id |-> id.value, ns |-> ns.value], ns.rest)

WriteSource(s) ==
    CASE s[1] = "local" -> <<0>>
      [] s[1] = "private" -> <<1, s[2]>>
      [] s[1] = "committee" -> IF s[2] = None THEN <<2>> ELSE <<3, s[2]>>
      [] s[1] = "named" -> IF s[3] = None THEN <<4, s[2]>> ELSE <<5, s[2], s[3]>>
      [] s[1] = "public" -> <<6, s[2]>>
      [] s[1] = "program" -> <<7, s[2]>>
ReadSource(data) ==
    CASE data[1] = 0 -> Got(<<"local">>, Tail(data))
      [] data[1] = 1 -> Got(<<"private", data[2]>>, Past(data, 2))
      [] data[1] = 2 -> Got(<<"committee", None>>, Tail(data))
      [] data[1] = 3 -> Got(<<"committee", data[2]>>, Past(data, 2))
      [] data[1] = 4 -> Got(<<"named", data[2], None>>, Past(data, 2))
      [] data[1] = 5 -> Got(<<"named", data[2], data[3]>>, Past(data, 3))
      [] data[1] = 6 -> Got(<<"public", data[2]>>, Past(data, 2))
      [] data[1] = 7 -> Got(<<"program", data[2]>>, Past(data, 2))

\* Node.  What peers do not depend on (height, labels, binary...) is left out.
WriteNode(node) ==
    WriteOption(WriteSource, node.key)
      \o WriteMany(WriteTarget, node.validators) \o WriteMany(WriteTarget, node.peers)
\* Mutant: the peers are read first.
ReadNodeSwapped(data) ==
    LET key == ReadOption(ReadSource, data)
        peers == ReadMany(ReadTarget, key.rest)
        validators == ReadMany(ReadTarget, peers.rest)
    IN Got([key |-> key.value, validators |-> validators.value, peers |-> peers.value],
           validators.rest)
ReadNode(data) ==
    LET key == ReadOption(ReadSource, data)
        validators == ReadMany(ReadTarget, key.rest)
        peers == ReadMany(ReadTarget, validators.rest)
    IN Got([key |-> key.value, validators |-> validators.value, peers |-> peers.value],
           peers.rest)

WriteExternal(x) ==
    WriteOption(WriteValue, x.bft) \o WriteOption(WriteValue, x.node)
      \o WriteOption(WriteValue, x.rest)
ReadExternal(data) ==
    LET bft == ReadOption(ReadValue, data)
        node == ReadOption(ReadValue, bft.rest)
        rest == ReadOption(ReadValue, node.rest)
    IN Got([bft |-> bft.value, node |-> node.value, rest |-> rest.value], rest.rest)

\* PersistNode: a node with its agent, or an external node with none.
WritePersist(p) ==
    IF p.agent # None THEN <<0, p.agent>> \o WriteNode(p.node) ELSE <<1>> \o WriteExternal(p.node)
ReadPersist(data) ==
    IF data[1] = 0
    THEN LET node == ReadNode(Past(data, 2))
         IN Got([agent |-> data[2], node |-> node.value], node.rest)
    ELSE LET node == ReadExternal(Tail(data))
         IN Got([agent |-> None, node |-> node.value], node.rest)

\* PersistEnv, as it is made from an environment and as it is loaded.  The
\* nodes are in the order of a hash map.
PersistEnv(e) ==
    [i \in 1 .. Cardinality(DOMAIN e.nodes \cup DOMAIN e.external) |->
        LET key == SetToSeq(DOMAIN e.nodes \cup DOMAIN e.external)[i]
        IN [key |-> key,
            node |-> IF key \in DOMAIN e.nodes
                     THEN [agent |-> e.agents[key], node |-> e.nodes[key]]
                     ELSE [agent |-> None, node |-> e.external[key]]]]
Load(entries) ==
    LET internal == {i \in DOMAIN entries : entries[i].node.agent # None}
        at(S, key) == CHOOSE i \in S : entries[i].key = key
        map(S, field) == [key \in {entries[i].key : i \in S} |-> entries[at(S, key)].node[field]]
    IN [nodes |-> map(internal, "node"), agents |-> map(internal, "agent"),
        external |-> map(DOMAIN entries \ internal, "node")]

WriteEntry(entry) == WriteNodeKey(entry.key) \o WritePersist(entry.node)
ReadEntry(data) ==
    LET key == ReadNodeKey(data)
        node == ReadPersist(key.rest)
    IN Got([key |-> key.value, node |-> node.value], node.rest)
WriteEnv(e) == WriteMany(WriteEntry, PersistEnv(e))
ReadEnv(data) == Load(ReadMany(ReadEntry, data).value)
=============================================================================
