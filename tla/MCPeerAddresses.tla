-------------------------- MODULE MCPeerAddresses --------------------------
(* Two agents that host the replicas of a client, or a validator and a     *)
(* prover with another namespace; and external nodes.                      *)
EXTENDS PeerAddresses, TLC

CONSTANTS a1, a2, e1, e2, i1, i2, x1, x2, k1, k2

At(external, internal, port) ==
    [external |-> external, internal |-> internal, node |-> port, bft |-> port, rest |-> 30]

Globs == (<<"c-*">> :> {<<"c", 0>>, <<"c", 1>>})
Keys == <<k1, k2>>
Files == ("accounts" :> <<k2>>)

C == Key("client", <<"c">>, None)
C1 == Key("client", <<"c", 0>>, None)
C2 == Key("client", <<"c", 1>>, None)
V == Key("validator", <<"v">>, None)
P == Key("prover", <<"p">>, "far")
X == Key("client", <<"x">>, "far")
Y == Key("validator", <<"y">>, None)
Text(ty, id, ns) == [ty |-> ty, id |-> id, ns |-> ns]
Outside == (X :> [bft |-> None, node |-> x1, rest |-> None])
Outside2 == (Y :> [bft |-> x2, node |-> None, rest |-> x1]) @@ Outside

Replicas == [nodes |-> (C :> [replicas |-> 2, key |-> <<"committee", None>>,
                              peers |-> <<Text("any", <<"c-*">>, None), Text("*", <<"x">>, "*")>>,
                              validators |-> <<Text("client", <<"any">>, "local")>>]),
             external |-> Outside]

\* The keys of the two come from every kind of source.
Sourced(v, p) ==
    [nodes |-> (V :> [replicas |-> 1, key |-> v, peers |-> <<Text("client", <<"*">>, "far")>>,
                      validators |-> <<Text("prover", <<"p">>, "far"), Text("*", <<"y">>, "any")>>])
            @@ (P :> [replicas |-> 1, key |-> p, peers |-> <<Text("validator", <<"v">>, "local")>>,
                      validators |-> <<>>]),
     external |-> Outside2]
Sources == {Sourced(<<"named", "accounts", None>>, <<"private", k1>>),
            Sourced(<<"committee", 1>>, <<"public", k1>>),
            Sourced(<<"local">>, None),
            Sourced(<<"program", "p">>, <<"named", "accounts", 0>>)}
Delegation == (C1 :> a1) @@ (C2 :> a2) @@ (V :> a1) @@ (P :> a2)

World(start, places, hasty, troubles, applies, documents) ==
    [at |-> (a1 :> start[1]) @@ (a2 :> start[2]), places |-> places,
     hasty |-> hasty, troubles |-> troubles, applies |-> applies, documents |-> documents]

\* Two agents in one place are in one network.
N1 == At(e1, i1, 41)
N2 == At(e2, i2, 41)
P1 == At(None, i1, 41)
P2 == At(None, i2, 42)
TheWorlds ==
    {World(<<N1, x>>, {N1, N2}, FALSE, 2, 2, {Replicas}) : x \in {N1, N2}}
    \cup {World(<<P1, x>>, {P1, P2}, FALSE, 2, 2, {Replicas}) : x \in {P1, P2}}
    \cup {World(<<N1, N2>>, {N1, N2}, TRUE, 1, 1, {Replicas}),
          World(<<N1, N2>>, {N1, N2}, FALSE, 1, 1, Sources)}
=============================================================================
