---------------------------- MODULE EventFilters ----------------------------
(***************************************************************************)
(* The filters of the event stream (common/src/events): what an event      *)
(* matches, how filters are combined with &, |, ^ and !, how one is        *)
(* written as a string and read back.  A string is a sequence of the       *)
(* tokens of the lexer; the text of a token is a name or an id.            *)
(***************************************************************************)
EXTENDS Naturals, Sequences, FiniteSets, SequencesExt

CONSTANTS
    AgentIds, EnvNames, Targets, \* ids, and node targets
    Kinds,                       \* EventKindFilter
    Matching,                    \* [Targets -> SUBSET AgentIds]: the nodes a target
                                 \* matches; a node is named as its agent
    None

Ids == AgentIds \cup EnvNames \cup Targets

\* An event, and a filter: a record with its kind and operands.
Events == [agent : AgentIds \cup {None}, env : EnvNames \cup {None},
           node : AgentIds \cup {None}, event : Kinds]
Fields == {"agent", "env", "node", "event"}

Unfiltered == [op |-> "unfiltered"]
Is(field, id) == [op |-> "is", field |-> field, id |-> id]
Has(field) == [op |-> "has", field |-> field]
TargetIs(targets) == [op |-> "target", targets |-> targets]
Many(op, filters) == [op |-> op, of |-> filters]
Not(f) == Many("not", <<f>>)

\* Event::matches.
RECURSIVE Matches(_, _)
Matches(e, f) ==
    LET met == IF f.op \in {"all-of", "any-of", "one-of", "not"}
               THEN {i \in DOMAIN f.of : Matches(e, f.of[i])} ELSE {}
    IN CASE f.op = "unfiltered" -> TRUE
         [] f.op = "all-of" -> met = DOMAIN f.of
         [] f.op = "any-of" -> met # {}
         [] f.op = "one-of" -> Cardinality(met) = 1
         [] f.op = "not" -> met = {}
         [] f.op = "is" -> e[f.field] = f.id
         [] f.op = "has" -> e[f.field] # None
         [] f.op = "target" ->
              \E i \in DOMAIN f.targets : e.node \in Matching[f.targets[i]]

----------------------------------------------------------------------------
(* The operators.  Lists of the same kind are concatenated, one list takes *)
(* the other operand at its end, on whichever side it stood.               *)

Joined(op, l, r) ==
    CASE l.op = op /\ r.op = op -> Many(op, l.of \o r.of)
      [] l.op = op /\ r.op # op -> Many(op, Append(l.of, r))
      [] l.op # op /\ r.op = op -> Many(op, Append(r.of, l))
      [] OTHER -> Many(op, <<l, r>>)

And(l, r) ==
    IF l = Unfiltered THEN r ELSE IF r = Unfiltered THEN l ELSE Joined("all-of", l, r)

\* Mutant: an unfiltered operand is dropped, as the conjunction does.
OrElse(l, r) ==
    IF l = Unfiltered THEN r ELSE IF r = Unfiltered THEN l ELSE Joined("any-of", l, r)
Or(l, r) ==
    IF Unfiltered \in {l, r} THEN Unfiltered ELSE Joined("any-of", l, r)

Xor(l, r) ==
    IF l = Unfiltered THEN r ELSE IF r = Unfiltered THEN l ELSE Joined("one-of", l, r)

----------------------------------------------------------------------------
(* Display: the tokens of the string of a filter.                          *)

Token(kind) == [kind |-> kind, text |-> None]
Text(t) == [kind |-> "text", text |-> t]
Parenthesized(name, inside) == <<Text(name), Token("open")>> \o inside \o <<Token("close")>>

NameOfIs == [agent |-> "agent-is", env |-> "env-is", node |-> "node-key-is", event |-> "event-is"]
NameOfHas == [agent |-> "has-agent", env |-> "has-env", node |-> "has-node-key"]

\* Strings with ", " between them.
Listed(strings) ==
    FlattenSeq([i \in DOMAIN strings |->
                   (IF i = 1 THEN <<>> ELSE <<Token("comma"), Token("space")>>) \o strings[i]])

RECURSIVE Display(_)
Display(f) ==
    CASE f.op = "unfiltered" -> <<Text("unfiltered")>>
      [] f.op \in {"all-of", "any-of", "one-of", "not"} ->
            Parenthesized(f.op, Listed([i \in DOMAIN f.of |-> Display(f.of[i])]))
      [] f.op = "is" -> Parenthesized(NameOfIs[f.field], <<Text(f.id)>>)
      [] f.op = "has" -> <<Text(NameOfHas[f.field])>>
      [] f.op = "target" ->
            Parenthesized("node-target-is",
                          Listed([i \in DOMAIN f.targets |-> <<Text(f.targets[i])>>]))

----------------------------------------------------------------------------
(* FilterParser.  A parse is the value read and the tokens left; Error is  *)
(* the parse that failed.                                                  *)

Error == [value |-> None, rest |-> <<>>, ok |-> FALSE]
Read(value, rest) == [value |-> value, rest |-> rest, ok |-> TRUE]
NextIs(ts, kind) == IF ts = <<>> THEN FALSE ELSE Head(ts).kind = kind

RECURSIVE Trim(_)
Trim(ts) == IF NextIs(ts, "space") THEN Trim(Tail(ts)) ELSE ts

ReadId(ts, ids) ==
    IF ~NextIs(ts, "text") THEN Error
    ELSE IF Head(ts).text \in ids THEN Read(Head(ts).text, Tail(ts)) ELSE Error

Named(ts, name) == CHOOSE field \in DOMAIN ts : ts[field] = name

RECURSIVE ReadFilter(_), ReadList(_, _, _)

\* vec_of, and the close paren that parens expects after it.
ReadList(ts, read, isFilter) ==
    LET one == IF isFilter THEN ReadFilter(ts) ELSE ReadId(ts, Targets)
        after == Trim(one.rest)
    IN CASE NextIs(ts, "close") -> Read(read, Tail(ts))
         [] ts = <<>> \/ (~NextIs(ts, "close") /\ ~one.ok) -> Error
         [] OTHER ->
              IF NextIs(after, "comma")
              THEN ReadList(Trim(Tail(after)), Append(read, one.value), isFilter)
              ELSE IF NextIs(after, "close") THEN Read(Append(read, one.value), Tail(after))
              ELSE Error

\* parens around one value: spaces are taken before it and not after it.
ReadOne(parsed) ==
    IF parsed.ok /\ NextIs(parsed.rest, "close")
    THEN Read(parsed.value, Tail(parsed.rest)) ELSE Error

\* expect_filter.
ReadFilter(ts0) ==
    LET ts == Trim(ts0)
        name == IF NextIs(ts, "text") THEN Head(ts).text ELSE None
        opened == IF ts = <<>> THEN <<>> ELSE Trim(Tail(ts))
        inside == Trim(Tail(opened))
        isOpen == NextIs(opened, "open")
        field == Named(NameOfIs, name)
        ids == CASE field \in {"agent", "node"} -> AgentIds
                 [] field = "env" -> EnvNames
                 [] OTHER -> Kinds
        list == ReadList(inside, <<>>, name # "node-target-is")
    IN CASE name = None -> Error
         [] name = "unfiltered" -> Read(Unfiltered, Tail(ts))
         [] name \in {NameOfHas[x] : x \in DOMAIN NameOfHas} ->
              Read(Has(Named(NameOfHas, name)), Tail(ts))
         [] name \in {"any-of", "all-of", "one-of"} ->
              IF isOpen /\ list.ok THEN Read(Many(name, list.value), list.rest) ELSE Error
         [] name = "not" ->
              IF isOpen THEN [ReadOne(ReadFilter(inside)) EXCEPT !.value = Not(@)] ELSE Error
         [] name \in {NameOfIs[x] : x \in Fields} ->
              IF isOpen THEN [ReadOne(ReadId(inside, ids)) EXCEPT !.value = Is(field, @)] ELSE Error
         [] name = "node-target-is" ->
              IF isOpen /\ list.ok THEN Read(TargetIs(list.value), list.rest) ELSE Error
         [] name \in Kinds -> Read(Is("event", name), Tail(ts))
         [] OTHER -> Error

\* FromStr: tokens may not be left over.
Parse(ts) ==
    LET p == ReadFilter(ts) IN IF p.ok /\ Trim(p.rest) = <<>> THEN p ELSE Error

----------------------------------------------------------------------------
(* Filters without an operator, from which the models combine others.      *)

Leaves ==
    {Unfiltered, Has("node")}
    \cup {Is("agent", a) : a \in AgentIds} \cup {Is("event", k) : k \in Kinds}
    \cup {TargetIs(s) : s \in {<<>>} \cup {<<t>> : t \in Targets} \cup {<<t, u>> : t, u \in Targets}}
Lists ==
    {Many(op, s) : op \in {"all-of", "any-of", "one-of"},
                   s \in {<<>>} \cup {<<f, g>> : f, g \in Leaves}}
=============================================================================
