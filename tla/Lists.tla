------------------------------- MODULE Lists --------------------------------
(***************************************************************************)
(* The filter of a list, as a recursive function: the built-in SelectSeq   *)
(* has no definition that a proof can unfold.                              *)
(***************************************************************************)
EXTENDS Integers, Sequences

\* The elements of s that are in T, in their order.
Among(s, T) ==
  LET f[i \in 0..Len(s)] ==
        IF i = 0 THEN <<>>
        ELSE IF s[i] \in T THEN Append(f[i - 1], s[i]) ELSE f[i - 1]
  IN  f[Len(s)]

=============================================================================
