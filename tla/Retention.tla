------------------------------- MODULE Retention -------------------------------
(***************************************************************************)
(* Retention policies of the checkpoint crate: when a new checkpoint is    *)
(* due and which of the existing ones are thrown away.  A policy is a      *)
(* sequence of rules, the shortest first; a rule keeps, of the checkpoints *)
(* younger than its duration, one per keep span.  Times are integers of    *)
(* the smallest unit that matters; a span is a unit and a count.           *)
(***************************************************************************)
EXTENDS Integers, Sequences, FiniteSets

Unlimited == [unit |-> "U", count |-> 0]

\* The units in minutes; a month has 30 days and a year 365.
Minutes == [m |-> 1, h |-> 60, D |-> 1440, W |-> 10080, M |-> 43200, Y |-> 525600]

\* RetentionSpan::as_delta: an unlimited span has no length.
Bounded(span) == span # Unlimited
AsDelta(span) == Minutes[span.unit] * span.count

Spans == [unit : DOMAIN Minutes, count : 1..255] \cup {Unlimited}
Policies == Seq([duration : Spans, keep : Spans])

(* A checkpoint is due when the keep span of the first rule has passed.    *)
ReadyWithTime(policy, new, last) ==
    /\ policy # << >>
    /\ Bounded(policy[1].keep) => new - last >= AsDelta(policy[1].keep)

(* The walk over the times, newest first, and the rules, last first.  Its  *)
(* state: the next time (i), the rule it is at (r), the time it keeps for  *)
(* now (kept) and the times thrown away.                                   *)
Consume(w, kept) == [w EXCEPT !.i = @ + 1, !.kept = kept]

\* Mutant: a time kept before is not given up when it leaves the duration.
WalkStepHoarding(policy, now, times, w) ==
    IF Bounded(policy[w.r].keep) /\ w.kept - times[w.i] < AsDelta(policy[w.r].keep)
    THEN Consume([w EXCEPT !.rejected = @ \cup {times[w.i]}], w.kept)
    ELSE Consume(w, times[w.i])

\* One turn of the loop of reject_with_time, or of the search for the next
\* rule inside it: a time is consumed, or the walk moves to the next rule.
WalkStep(policy, now, times, w) ==
    LET time == times[w.i]
        rule == policy[w.r]
        next == policy[w.r - 1]
        age == now - time
        keptAge == now - w.kept
        hasNext == w.r > 1
        sameSpan == \/ rule.duration = next.duration
                    \/ next.duration = Unlimited
        moveOn == age < AsDelta(next.duration) \/ keptAge < AsDelta(next.duration)
        leaves == ~w.inner /\ Bounded(rule.duration) /\ keptAge > AsDelta(rule.duration)
        near == Bounded(rule.keep) /\ w.kept - time < AsDelta(rule.keep)
    IN IF leaves THEN
            Consume([w EXCEPT !.rejected = @ \cup {w.kept}], time)
       ELSE IF hasNext /\ sameSpan THEN
            [w EXCEPT !.r = @ - 1, !.inner = TRUE]
       ELSE IF hasNext /\ moveOn THEN
            [(IF age < AsDelta(next.duration) THEN Consume(w, time) ELSE w)
                EXCEPT !.r = @ - 1, !.inner = FALSE]
       ELSE IF near THEN
            Consume([w EXCEPT !.rejected = @ \cup {time}, !.inner = FALSE], w.kept)
       ELSE Consume([w EXCEPT !.inner = FALSE], time)

\* Mutant: the heap is walked in its own order.
OldestFirst(times) ==
    [i \in 1..Cardinality(times) |->
        CHOOSE t \in times : Cardinality({u \in times : u < t}) = i - 1]

NewestFirst(times) ==
    [i \in 1..Cardinality(times) |->
        CHOOSE t \in times : Cardinality({u \in times : u > t}) = i - 1]

(* The walk: one turn after the other until the times are consumed.        *)
FirstTurn(policy, sorted) ==
    [i |-> 2, r |-> Len(policy), kept |-> sorted[1], rejected |-> {}, inner |-> FALSE]
Turn(policy, now, sorted, w) ==
    IF w.i > Len(sorted) THEN w ELSE WalkStep(policy, now, sorted, w)
Walk(policy, now, sorted) ==
    LET walk[n \in 0..(Len(sorted) + Len(policy))] ==
            IF n = 0 THEN FirstTurn(policy, sorted) ELSE Turn(policy, now, sorted, walk[n - 1])
    IN walk

(* reject_with_time: the times to throw away.                              *)
Reject(policy, now, times) ==
    LET sorted == NewestFirst(times)
    IN IF policy = << >> \/ times = {} THEN {}
       ELSE Walk(policy, now, sorted)[Len(sorted) + Len(policy)].rejected

(***************************************************************************)
(* What a policy of one rule promises, without the walk: for checkpoints   *)
(* created in its duration, one per keep span - the newest time, then      *)
(* always the next time that is at least a keep span older - and none that *)
(* is older than the duration.                                             *)
(***************************************************************************)
Latest(S) == CHOOSE t \in S : \A u \in S : u <= t
Earliest(S) == CHOOSE t \in S : \A u \in S : t <= u

Apart(rule, later, time) == Bounded(rule.keep) => later - time >= AsDelta(rule.keep)
Inside(rule, now, time) == Bounded(rule.duration) => now - time <= AsDelta(rule.duration)

\* The times to choose the next one from, and a chain with it.
Older(rule, times, t) == {u \in times : u < t /\ Apart(rule, t, u)}
Longer(rule, times, kept) ==
    LET rest == Older(rule, times, Earliest(kept))
    IN kept \cup (IF rest = {} THEN {} ELSE {Latest(rest)})
Chains(rule, times) ==
    LET chain[n \in 0..Cardinality(times)] ==
            IF n = 0 THEN {Latest(times)} ELSE Longer(rule, times, chain[n - 1])
    IN chain
Spaced(rule, times) == Chains(rule, times)[Cardinality(times)]

KeptBy(rule, now, times) == {t \in Spaced(rule, times) : Inside(rule, now, t)}

\* What the walk leaves: it gives a time up when it comes to an older one, so
\* the last checkpoint stays when the chain leaves the duration.
KeptWithLast(rule, now, times) ==
    KeptBy(rule, now, times)
      \cup (IF \A t \in Spaced(rule, times) : Inside(rule, now, t)
            THEN {} ELSE {Earliest(times)})
================================================================================
