---------------------------- MODULE MCCheckpoints ----------------------------
(* Policies in minutes, with the shape of those of the retention tests.      *)
EXTENDS Checkpoints

Min(n) == [unit |-> "m", count |-> n]
Rule(duration, keep) == [duration |-> duration, keep |-> keep]

TestedPolicies == {
    << >>,
    <<Rule(Min(1), Min(1))>>,
    <<Rule(Min(2), Min(2))>>,
    <<Rule(Unlimited, Min(2))>>,
    <<Rule(Unlimited, Unlimited)>>,
    <<Rule(Min(2), Min(1)), Rule(Min(4), Min(2)), Rule(Unlimited, Min(3))>>}
==============================================================================
