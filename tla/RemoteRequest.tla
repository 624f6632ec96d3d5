--------------------------- MODULE RemoteRequest ---------------------------
(***************************************************************************)
(* What remote requests promise to an application, without router, servers *)
(* or messages: a request that was made is outstanding until it is         *)
(* answered, once, with an answer that fits it.                            *)
(***************************************************************************)
EXTENDS Naturals, Sequences

CONSTANTS
    Client,         \* those who make requests
    Request,        \* what can be asked
    Ids,            \* the positions a request of one client can have
    NoAnswer,       \* what a buffer holds before the answer
    Fits(_, _)      \* Fits(req, ans): ans is an answer of req

VARIABLES
    made,           \* the requests of each client, in order
    outstanding,    \* the positions of those that have not been answered
    answer          \* the answers

vars == <<made, outstanding, answer>>

Init ==
    /\ made = [x \in Client |-> <<>>]
    /\ outstanding = [x \in Client |-> {}]
    /\ answer = [x \in Client |-> [i \in Ids |-> NoAnswer]]

Make(x) ==
    /\ \E r \in Request : made' = [made EXCEPT ![x] = Append(@, r)]
    /\ outstanding' = [outstanding EXCEPT ![x] = @ \cup {Len(made[x]) + 1}]
    /\ UNCHANGED answer

Complete(x, i) ==
    /\ i \in outstanding[x]
    /\ outstanding' = [outstanding EXCEPT ![x] = @ \ {i}]
    /\ Fits(made[x][i], answer'[x][i])
    /\ \A y \in Client, j \in Ids :
         <<y, j>> # <<x, i>> => answer'[y][j] = answer[y][j]
    /\ UNCHANGED made

Next == \E x \in Client : Make(x) \/ \E i \in Ids : Complete(x, i)

Spec == Init /\ [][Next]_vars
=============================================================================
