-------------------------------- MODULE Lease --------------------------------
(***************************************************************************)
(* What the instances of one identity promise each other about the         *)
(* resources of the host: a user joins only when everything it needs is    *)
(* present, and nothing a user needs is released before that user leaves.  *)
(* internal/outcome, internal/store and internal/system implement this     *)
(* promise together, with a state entry per user and a segment lock.       *)
(***************************************************************************)
CONSTANTS
    Inst,   \* instances of the identity
    Need    \* Need[i]: the resources instance i relies on

VARIABLES
    users,    \* instances whose container may be running
    present   \* resources that exist on the host

vars == << users, present >>

Init == users = {} /\ present = {}

Acquire(r) == present' = present \cup {r} /\ UNCHANGED users

Join(i) ==
    /\ Need[i] \subseteq present
    /\ users' = users \cup {i}
    /\ UNCHANGED present

Leave(i) == users' = users \ {i} /\ UNCHANGED present

Release(r) ==
    /\ \A i \in users : r \notin Need[i]
    /\ present' = present \ {r}
    /\ UNCHANGED users

Next ==
    \/ \E i \in Inst : Join(i) \/ Leave(i)
    \/ \E r \in UNION {Need[i] : i \in Inst} : Acquire(r) \/ Release(r)

Spec == Init /\ [][Next]_vars
=============================================================================
