------------------------------- MODULE Delivery -------------------------------
(***************************************************************************)
(* What a node may rely on when it increments its frame counter: a frame   *)
(* with the old counter was taken by the gateway. LoRaLink implements it.  *)
(***************************************************************************)
EXTENDS Integers

CONSTANTS
    Node,    \* the nodes
    CntMod   \* number of values of FCnt

VARIABLES
    cnt,     \* each node's frame counter
    status   \* "new", or "taken": a frame with this counter is the gateway's

dvars == <<cnt, status>>

Init == /\ cnt = [n \in Node |-> 0]
        /\ status = [n \in Node |-> "new"]

\* The gateway takes the node's frame over. Repetitions of a frame change nothing.
Take(n) ==
    /\ status[n] = "new"
    /\ status' = [status EXCEPT ![n] = "taken"]
    /\ UNCHANGED cnt

\* The node goes on to its next frame.
Advance(n) ==
    /\ status[n] = "taken"
    /\ cnt' = [cnt EXCEPT ![n] = (@ + 1) % CntMod]
    /\ status' = [status EXCEPT ![n] = "new"]

Next == \E n \in Node : Take(n) \/ Advance(n)
Spec == Init /\ [][Next]_dvars
==============================================================================
