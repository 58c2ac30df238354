----------------------------- MODULE MostMirror -----------------------------
(***************************************************************************)
(* What the MOST volume library promises, without timers, indexes or       *)
(* flags: a mirror of desired volumes on unreliable nodes, through a link  *)
(* that carries one write at a time.  A write carries the volume desired   *)
(* when it started, is started only towards a reachable node whose         *)
(* confirmed volume differs, and only a successful answer confirms it.  A  *)
(* node that comes or goes has nothing confirmed any more.                 *)
(***************************************************************************)
CONSTANTS
    Values,     \* the mirrored values
    Volumes,    \* the volumes a value may have
    Unset,      \* the volume of a value nobody has set or confirmed yet
    Addresses,  \* the nodes
    Address,    \* the node of each value
    NoWrite     \* not a volume: no write is under way

VARIABLES desired, confirmed, reachable, pending
vars == <<desired, confirmed, reachable, pending>>

Init ==
    /\ desired = [i \in Values |-> Unset]
    /\ confirmed = [i \in Values |-> Unset]
    /\ reachable = [i \in Values |-> FALSE]
    /\ pending = [i \in Values |-> NoWrite]

Want ==
    /\ desired' \in [Values -> Volumes]
    /\ UNCHANGED <<confirmed, reachable, pending>>

StartWrite(i) ==
    /\ reachable[i]
    /\ desired[i] # confirmed[i]
    /\ \A j \in Values : pending[j] = NoWrite
    /\ pending' = [pending EXCEPT ![i] = desired[i]]
    /\ UNCHANGED <<desired, confirmed, reachable>>

EndWrite(i, success) ==
    /\ pending[i] # NoWrite
    /\ confirmed' = IF success
                    THEN [confirmed EXCEPT ![i] = pending[i]]
                    ELSE confirmed
    /\ pending' = [pending EXCEPT ![i] = NoWrite]
    /\ UNCHANGED <<desired, reachable>>

Node(address, up) ==
    LET moved == {i \in Values : Address[i] = address}
    IN  /\ reachable' = [i \in Values |-> IF i \in moved THEN up ELSE reachable[i]]
        /\ confirmed' = [i \in Values |-> IF i \in moved THEN Unset ELSE confirmed[i]]
        /\ UNCHANGED <<desired, pending>>

Next ==
    \/ Want
    \/ \E i \in Values : StartWrite(i)
    \/ \E i \in Values, success \in BOOLEAN : EndWrite(i, success)
    \/ \E a \in Addresses, up \in BOOLEAN : Node(a, up)

Spec == Init /\ [][Next]_vars
=============================================================================
