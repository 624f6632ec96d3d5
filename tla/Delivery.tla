------------------------------ MODULE Delivery ------------------------------
(***************************************************************************)
(* What the routers promise together: between a router's clients and a     *)
(* server there is one queue, from which the server takes each event once  *)
(* and in the order they were sent.                                        *)
(***************************************************************************)
EXTENDS Naturals, Sequences

CONSTANT Pair      \* of a router and a server

VARIABLES sent, queue

Init ==
    /\ sent = [p \in Pair |-> 0]
    /\ queue = [p \in Pair |-> <<>>]

Send(p) ==
    /\ sent' = [sent EXCEPT ![p] = @ + 1]
    /\ queue' = [queue EXCEPT ![p] = Append(@, sent[p] + 1)]

Take(p) ==
    /\ queue[p] # <<>>
    /\ queue' = [queue EXCEPT ![p] = Tail(@)]
    /\ UNCHANGED sent

Next == \E p \in Pair : Send(p) \/ Take(p)

Spec == Init /\ [][Next]_<<sent, queue>>
=============================================================================
