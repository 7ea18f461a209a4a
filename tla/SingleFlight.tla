----------------------------- MODULE SingleFlight -----------------------------
(***************************************************************************)
(* What the client of the browser promises about expired pairs, without    *)
(* servers, storage or users: of the requests of one tab that are answered *)
(* with 401 one refreshes and the others wait for it; whoever waits is     *)
(* released when that refresh ends and not before, together with all the   *)
(* others, and all of them go on with the pair it obtained or none does.   *)
(***************************************************************************)
EXTENDS Naturals

CONSTANT Calls     \* requests: pairs of a tab and a label

VARIABLES
    flying,    \* requests that refresh
    waiting,   \* requests that wait for the refresh of their tab
    carries    \* request -> the pair it was last sent with, 0 for none

flightVars == <<flying, waiting, carries>>

SameTab(c) == {d \in Calls : d[1] = c[1]}

Busy(c) == SameTab(c) \cap flying # {}

Free == Calls \ (flying \cup waiting)

FlightInit ==
    /\ flying = {}
    /\ waiting = {}
    /\ carries = [c \in Calls |-> 0]

(* Requests that neither refresh nor wait are sent, answered and ended.    *)
Exchange ==
    /\ carries' \in [Calls -> Nat]
    /\ \A d \in Calls \ Free : carries'[d] = carries[d]
    /\ UNCHANGED <<flying, waiting>>

Begin(c) ==
    /\ c \in Free
    /\ ~Busy(c)
    /\ flying' = flying \cup {c}
    /\ UNCHANGED <<waiting, carries>>

Wait(c) ==
    /\ c \in Free
    /\ Busy(c)
    /\ waiting' = waiting \cup {c}
    /\ UNCHANGED <<flying, carries>>

Released(c) == {c} \cup (waiting \cap SameTab(c))

(* The refresh of c ends, with a pair or without one.                      *)
Land(c, pair) ==
    /\ c \in flying
    /\ flying' = flying \ {c}
    /\ waiting' = waiting \ SameTab(c)
    /\ carries' \in [Calls -> Nat]
    /\ \A d \in Calls \ Released(c) : carries'[d] = carries[d]
    /\ \/ pair > 0 /\ \A d \in Released(c) : carries'[d] = pair
       \/ \A d \in Released(c) : carries'[d] \in {0, carries[d]}

(* The page is loaded again: its requests are gone.                        *)
Leave(c) ==
    /\ flying' = flying \ SameTab(c)
    /\ waiting' = waiting \ SameTab(c)
    /\ carries' = [d \in Calls |-> IF d \in SameTab(c) THEN 0 ELSE carries[d]]

FlightNext ==
    \/ Exchange
    \/ \E c \in Calls : Begin(c) \/ Wait(c) \/ Land(c, carries'[c]) \/ Leave(c)

FlightSpec == FlightInit /\ [][FlightNext]_flightVars

=============================================================================
