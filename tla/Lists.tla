-------------------------------- MODULE Lists --------------------------------
(***************************************************************************)
(* Sequences less some of their elements.  SelectSeq() of the standard     *)
(* module takes a test; a set is a value, which theorems can speak of.     *)
(***************************************************************************)
EXTENDS Integers, Sequences

\* The elements of s that are in S, in their order.
Only(s, S) ==
    LET kept[i \in 0..Len(s)] ==
            IF i = 0 THEN <<>>
            ELSE IF s[i] \in S THEN Append(kept[i - 1], s[i]) ELSE kept[i - 1]
    IN  kept[Len(s)]
=============================================================================
