------------------------------- MODULE Lists --------------------------------
(* A loop of the code that keeps the elements of a list it wants.          *)
EXTENDS Naturals, Sequences

Kept(s, S) ==
    LET kept[n \in 0..Len(s)] ==
            IF n = 0 THEN <<>>
            ELSE IF s[n] \in S THEN Append(kept[n - 1], s[n])
            ELSE kept[n - 1]
    IN kept[Len(s)]
=============================================================================
