------------------------------ MODULE PortSet ------------------------------
(***************************************************************************)
(* What the media code promises its users about RTP port pairs: whoever    *)
(* has a pair has it alone, and gives it back.  Which pair is taken is not *)
(* promised.  CallEngine and Conference take and release pairs this way.   *)
(***************************************************************************)
CONSTANTS
    Pairs,      \* the RTP port of each pair
    Owners,     \* endpoints that take a pair
    None        \* no pair, and not one of them

VARIABLES
    avail,      \* pairs nobody has
    held        \* per owner: its pair, or None

vars == <<avail, held>>

Init == avail = Pairs /\ held = [o \in Owners |-> None]

Take(o) ==
    /\ held[o] = None
    /\ \E p \in avail : /\ avail' = avail \ {p}
                        /\ held' = [held EXCEPT ![o] = p]

Give(o) ==
    /\ held[o] # None
    /\ avail' = avail \cup {held[o]}
    /\ held' = [held EXCEPT ![o] = None]

Next == \E o \in Owners : Take(o) \/ Give(o)

Spec == Init /\ [][Next]_vars
=============================================================================
