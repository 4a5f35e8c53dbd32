---------------------------- MODULE SerialStore ----------------------------
(***************************************************************************)
(* What the sharded server promises its clients: there is one store, and   *)
(* every command takes effect on all of its keys at one instant.           *)
(***************************************************************************)
EXTENDS KvOps

VARIABLES
    store,    \* the value of every key
    served,   \* the requests that took effect
    result    \* per request, the values it found on its keys

vars == <<store, served, result>>

Init ==
    /\ store = [k \in Keys |-> {}]
    /\ served = {}
    /\ result = [r \in Reqs |-> [k \in Keys |-> {}]]

(* Request r takes effect: it finds the values of its keys and leaves its  *)
(* own, in one step.                                                       *)
Serve(r) ==
    /\ r \notin served
    /\ served' = served \cup {r}
    /\ result' = [result EXCEPT ![r] = [k \in Keys |-> IF k \in KeysOf(r) THEN store[k] ELSE {}]]
    /\ store' = After(r, store, Keys)

Next == \E r \in Reqs : Serve(r)

Spec == Init /\ [][Next]_vars
=============================================================================
