------------------------------ MODULE RpcCalls ------------------------------
(***************************************************************************)
(* What a JSON-RPC connection promises to the goroutines that call its     *)
(* peer: a call is either refused or pending until it gets its one and     *)
(* only outcome, none begins once the connection is shutting down, and the *)
(* connection is done only when no call is pending.                        *)
(***************************************************************************)
EXTENDS Integers

CONSTANT Calls

VARIABLES
    status,  \* status[c]: how far call c has got
    conn     \* how far the connection has got

vars == <<status, conn>>

Init ==
    /\ status = [c \in Calls |-> "idle"]
    /\ conn = "open"

Pending == {c \in Calls : status[c] = "pending"}

Begin(c) ==
    /\ conn = "open"
    /\ status[c] = "idle"
    /\ status' = [status EXCEPT ![c] = "pending"]
    /\ UNCHANGED conn

Refuse(c) ==
    /\ status[c] = "idle"
    /\ status' = [status EXCEPT ![c] = "retired"]
    /\ UNCHANGED conn

\* The states a connection may go to: it never reopens.
Later(k) == CASE k = "open" -> {"open", "shut", "done"}
              [] k = "shut" -> {"shut", "done"}
              [] k = "done" -> {"done"}

\* Pending calls get their outcomes, and the connection may shut down.
Settle(S) ==
    /\ status' = [c \in Calls |-> IF c \in S THEN "retired" ELSE status[c]]
    /\ conn' \in Later(conn)
    /\ conn' = "done" => S = Pending

Next ==
    \/ \E c \in Calls : Begin(c) \/ Refuse(c)
    \/ \E S \in SUBSET Pending : Settle(S)

Spec == Init /\ [][Next]_vars
=============================================================================
