---------------------------- MODULE MCSubscriber ----------------------------
(* Small instances of Subscriber. *)
EXTENDS Subscriber, TLC

CONSTANTS l1, l2, l3, A, B, s1, s2, s3

OneSymbol == [l \in Listeners |-> A]
TwoSymbols == [l \in Listeners |-> IF l = l2 THEN B ELSE A]

\* UPASubscriptions are interchangeable, and so are the listeners that leave.
SymmetryThree == Permutations(Subs) \cup Permutations(Leavers)
=============================================================================
