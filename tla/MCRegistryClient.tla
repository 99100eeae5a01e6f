-------------------------- MODULE MCRegistryClient --------------------------
(* A talkative and a silent caller, for the model checker. *)
EXTENDS RegistryClient, TLC

CONSTANTS c1, c2, hello

MCCalls == {c1, c2}
MCSpeech == c1 :> hello @@ c2 :> None
MCCaller == {c1}
MCSeconds == {60}

=============================================================================
