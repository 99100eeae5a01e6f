---------------------------- MODULE MCScreening -----------------------------
(* One or two callers who say something, for the model checker. *)
EXTENDS Screening, TLC

CONSTANTS c1, c2, accept, reject, hello

MCOneCall == {c1}
MCTwoCalls == {c1, c2}
MCSymmetry == Permutations(MCTwoCalls)
MCSpeech == [c \in Calls |-> hello]
MCSeconds == {60}

=============================================================================
