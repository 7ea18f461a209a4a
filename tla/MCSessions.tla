------------------------------ MODULE MCSessions ------------------------------
(***************************************************************************)
(* Small instances of Sessions for TLC.                                    *)
(***************************************************************************)
EXTENDS Sessions, TLC

CONSTANTS first, second   \* labels of requests

\* Two requests of one tab, one of another.
TwoAndOne == {<<"left", first>>, <<"left", second>>, <<"right", 0>>}

\* The requests of one tab are interchangeable.
Labels == Permutations({first, second})

LeftAndRight == {"left", "right"}
=============================================================================
