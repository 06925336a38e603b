------------------------------- MODULE Mounts -------------------------------
(***************************************************************************)
(* The mount table of a namespace as container/vfs reads it from           *)
(* mountinfo, and the recursive remount of container/mount.go on top of    *)
(* it.  A pathname is a sequence of names, the empty one being the root;   *)
(* a mount table is a sequence of mounts in the order they were made, and  *)
(* the position of a mount is its ID.                                      *)
(***************************************************************************)
EXTENDS Naturals, Sequences, SequencesExt

CONSTANTS
    NamePrefix,  \* pairs << x, y >> of names where x is a prefix of y
    Denied       \* sources of mounts that may not be remounted: EACCES

\* f(v); v is bound by the set and f(v) compared, so that TLC computes v once.
Computed(v, f(_)) == CHOOSE t \in {f(x) : x \in {v}} : t = t

Under(p, q) == IsPrefix(q, p)   \* p is q or a pathname below q

(***************************************************************************)
(* strings.HasPrefix on the two pathnames written out: the last name of q  *)
(* may be only the beginning of a name of p.                               *)
(***************************************************************************)
HasPrefix(p, q) ==
    \/ q = << >>
    \/ /\ Len(q) <= Len(p)
       /\ \A k \in 1..(Len(q) - 1) : p[k] = q[k]
       /\ \/ p[Len(q)] = q[Len(q)]
          \/ << q[Len(q)], p[Len(q)] >> \in NamePrefix

-----------------------------------------------------------------------------
(***************************************************************************)
(* What the kernel does with a mount table.                                *)
(***************************************************************************)
\* The mount a pathname resolves to: the last one made at or above it.
Owner(mt, p) ==
    LET above == {k \in DOMAIN mt : Under(p, mt[k].at)} IN
    IF above = {} THEN 0 ELSE CHOOSE k \in above : \A j \in above : j <= k

\* The mount a mount point was found in when the mount was made.
Parent(mt, k) == Owner(SubSeq(mt, 1, k - 1), mt[k].at)

\* The mounts at or below p that some pathname still resolves to.
Visible(mt, p) == {k \in DOMAIN mt : Under(mt[k].at, p) /\ Owner(mt, mt[k].at) = k}

-----------------------------------------------------------------------------
(***************************************************************************)
(* MountInfoDecoder.Unfold: mounts are hung below their parents in order.  *)
(* A mount with an earlier sibling above it is left out, and earlier       *)
(* siblings below it are taken off the list: all of them, or those ahead   *)
(* of the first that covers the new one, where the loop breaks.  A list of *)
(* siblings is in the order of the table, since a mount goes to its end:   *)
(* the set of their positions stands for it.                               *)
(***************************************************************************)
Insert(mt, siblings, cur) ==
    LET covering == {s \in siblings : HasPrefix(mt[cur].at, mt[s].at)}
        below    == {s \in siblings : HasPrefix(mt[s].at, mt[cur].at)}
    IN  IF covering = {} THEN (siblings \ below) \cup {cur}
        ELSE siblings \ {s \in below : \A c \in covering : s < c}

\* The entries Unfold puts in its tree for a target.
Related(mt, target) ==
    {k \in DOMAIN mt : HasPrefix(mt[k].at, target) /\ Parent(mt, k) # 0}

\* The children of every mount, as the loop over mountinfo leaves them.
Children(mt, target) ==
    LET related == Related(mt, target)
        after[n \in 0..Len(mt)] ==
            IF n = 0 THEN [k \in DOMAIN mt |-> {}]
            ELSE IF n \in related
                 THEN [after[n - 1] EXCEPT ![Parent(mt, n)] = Insert(mt, @, n)]
                 ELSE after[n - 1]
    IN  after[Len(mt)]

\* A mount with another one on its own mount point.
Covered(mt, target) ==
    {Parent(mt, k) : k \in {c \in Related(mt, target) : mt[c].at = mt[Parent(mt, c)].at}}

\* The final entry to match the target; 0 when Unfold fails.
UnfoldTarget(mt, target) ==
    LET same == {k \in DOMAIN mt : mt[k].at = target} IN
    IF same = {} THEN 0 ELSE CHOOSE k \in same : \A j \in same : j <= k

\* Collective of the node of the target; a child comes after its parent.
Collective(mt, target) ==
    LET children == Children(mt, target)
        visit[k \in DOMAIN mt] == {k} \cup UNION {visit[c] : c \in children[k]}
    IN  visit[UnfoldTarget(mt, target)] \ Covered(mt, target)

-----------------------------------------------------------------------------
\* remountWithFlags adds the flags to those the mount has, if any is missing.
Refused(m, mf) == m.source \in Denied /\ ~(mf \subseteq m.flags)

remountWithFlags(m, mf) == [m EXCEPT !.flags = @ \cup mf]

remountFlags(flags) == {"nosuid"} \cup (flags \cap {"nodev", "ro"})

\* The target is a mount point and may be remounted.
Remountable(mt, target, flags) ==
    LET node == UnfoldTarget(mt, target)
    IN  node # 0 /\ ~Refused(mt[node], remountFlags(flags))

\* Mutant: the mounts below the target are left as they are.
remountTop(mt, target, flags) ==
    [mt EXCEPT ![UnfoldTarget(mt, target)] = remountWithFlags(@, remountFlags(flags))]

(***************************************************************************)
(* procPaths.remount of a remountable target: MS_REC takes the rest of the *)
(* collective with it, but for the mounts that refuse, which are left as   *)
(* they are.                                                               *)
(***************************************************************************)
remount(mt, target, flags) ==
    LET mf   == remountFlags(flags)
        node == UnfoldTarget(mt, target)
        all  == IF "rec" \in flags THEN {node} \cup Collective(mt, target) ELSE {node}
    IN  Computed(all, LAMBDA set :
            [k \in DOMAIN mt |-> IF k \in set /\ ~Refused(mt[k], mf)
                                 THEN remountWithFlags(mt[k], mf) ELSE mt[k]])
=============================================================================
