--------------------------- MODULE ClaimRegistry ---------------------------
(***************************************************************************)
(* What the busy claims of an agent promise their users, without the       *)
(* reference counts that implement them: a claimant owns at most one       *)
(* agent, and no agent is owned by two claimants of the same kind at a     *)
(* time.  The kinds are the two claims every Agent carries, env_claim and  *)
(* compute_claim (controlplane/src/state/agent.rs).                        *)
(***************************************************************************)
CONSTANTS Agents,     \* the agents of the pool
          Claimants,  \* env nodes being delegated and executions being placed
          Kind,       \* the claim each claimant competes for
          NoAgent     \* owns nothing

VARIABLE owns         \* the agent each claimant owns

Init == owns = [c \in Claimants |-> NoAgent]

\* A claimant takes an agent nobody else of its kind owns.
Claim(c, a) ==
    /\ owns[c] = NoAgent
    /\ \A d \in Claimants : Kind[d] = Kind[c] => owns[d] # a
    /\ owns' = [owns EXCEPT ![c] = a]

\* A claimant gives its agent back.
Release(c) ==
    /\ owns[c] # NoAgent
    /\ owns' = [owns EXCEPT ![c] = NoAgent]

Next == \E c \in Claimants : Release(c) \/ \E a \in Agents : Claim(c, a)

Spec == Init /\ [][Next]_owns
=============================================================================
