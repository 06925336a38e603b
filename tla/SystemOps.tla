------------------------------ MODULE SystemOps ------------------------------
(***************************************************************************)
(* The reversible operations of internal/system.                           *)
(*                                                                         *)
(* An operation is known by its kind, its enablement type, the resource it *)
(* creates on the host, and the ephemeral directory that holds this        *)
(* resource, if any.  A resource is known by what it is, the name of its   *)
(* path, and its owner: {i} when the path contains the identifier of       *)
(* instance i, {} when every instance of the identity shares it.           *)
(***************************************************************************)

\* hst.Enablement, one string per bit.
Enablements == {"EWayland", "EX11", "EDBus", "EPulse"}

\* The two types package system adds above hst.EM.
User    == "User"
Process == "Process"
Types   == Enablements \cup {User, Process}

Kinds == {"acl", "ensure", "ephemeral", "link", "xhost", "wayland", "dbus",
          "cgroup"}

Resource(what, name, owner) ==
    [what |-> what, name |-> name, owner |-> owner]

Operation(kind, et, res, within) ==
    [kind |-> kind, et |-> et, res |-> res, within |-> within]

Dir(name, owner) == Resource("dir", name, owner)

(***************************************************************************)
(* Constructors, one for each method of system.I that appends an Op.       *)
(***************************************************************************)
UpdatePermType(et, name, owner) ==
    Operation("acl", et, Resource("acl", name, owner), {})

\* Ensure registers a directory that is never removed.
Ensure(name) == Operation("ensure", User, Dir(name, {}), {})

Ephemeral(et, name, owner) == Operation("ephemeral", et, Dir(name, owner), {})

LinkFileType(et, name, owner, dir) ==
    Operation("link", et, Resource("link", name, owner), {dir})

ChangeHosts(display) ==
    Operation("xhost", "EX11", Resource("xhost", display, {}), {})

Wayland(name, owner, dir) ==
    Operation("wayland", Process, Resource("socket", name, owner), {dir})

ProxyDBus(name, owner, dir) ==
    Operation("dbus", Process, Resource("proxy", name, owner), {dir})

Cgroup(name, owner) ==
    Operation("cgroup", Process, Resource("cgroup", name, owner), {})

(***************************************************************************)
(* Criteria.  A criteria is the set of types it reverts; the nil criteria  *)
(* reverts everything except User.                                         *)
(***************************************************************************)
NilCriteria == Types \ {User}

hasType(ec, t) == t \in ec

\* Whether revert of op under ec undoes it: wayland and dbus ignore the
\* criteria, Ensure has no revert, and the others consult their type.
Reverts(op, ec) ==
    \/ op.kind \in {"wayland", "dbus"}
    \/ op.kind \notin {"wayland", "dbus", "ensure"} /\ hasType(ec, op.et)

\* Whether remove(2) of the directory of op reports ENOTEMPTY on this host,
\* where all is the set of operations known to the system.
Busy(op, host, all) ==
    /\ op.kind = "ephemeral"
    /\ \E o \in all : o.res \in host /\ op.res \in o.within

\* Operations whose apply creates its resource before its last fallible step
\* and does not remove it when that step fails: waylandOp (chmod or ACL of the
\* bound socket) and cgroupOp (writing the controller files).
LeavesPartial(op) == op.kind \in {"wayland", "cgroup"}
=============================================================================
