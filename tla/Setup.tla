------------------------------- MODULE Setup -------------------------------
(***************************************************************************)
(* The setup operations of the container init (container/init*.go,         *)
(* autoroot.go, autoetc.go, mount.go, path.go) on a small file system.     *)
(* early runs in the host root and resolves host pathnames; apply runs     *)
(* after pivot_root and builds the tree below sysroot.  The state of the   *)
(* setup is a record:                                                      *)
(*   nodes   what every pathname of the container is: dir, file or link    *)
(*   links   links[p]: the text of the symbolic link at p                  *)
(*   mounts  the mount table of the container                              *)
(*   host    what every pathname of the host is                            *)
(*   final   final[k]: what early has resolved for operation k             *)
(*   nonrepeatable   the operations that may not be applied again          *)
(*   ok      no operation has failed                                       *)
(* Pathnames of the container are relative to sysroot, those of the host   *)
(* to the host root: toSysroot and toHost prefix them in the code.  The    *)
(* text of a symbolic link is [abs, up, down]: from the root, or as many   *)
(* times .. from the directory of the link, then the names down.           *)
(***************************************************************************)
EXTENDS Naturals, FiniteSets, Sequences, SequencesExt, Mounts

CONSTANTS
    HostNodes,      \* HostNodes[p]: kind of a pathname of the host
    HostLinks,      \* HostLinks[p]: text of a symbolic link of the host
    MaxLinks,       \* how many links a pathname may lead through
    HostMounts,     \* mount table of the host
    RetainSession,  \* the session of the host is kept, and its terminal
    Missing         \* no pathname

\* A list of names.
IsPathname(p) == p \in Seq(Range(p))

IsText(text) == text.up \in Nat /\ IsPathname(text.down)

ASSUME SetupAssumption ==
    /\ IsFiniteSet(DOMAIN HostNodes)
    /\ \A p \in DOMAIN HostNodes : IsPathname(p)
    /\ \A p \in DOMAIN HostLinks : IsPathname(p) /\ IsText(HostLinks[p])
    /\ MaxLinks \in Nat
    /\ HostMounts \in Seq(Range(HostMounts))
    /\ \A m \in Range(HostMounts) : IsPathname(m.at)

\* The types of Op.
OpKinds == {"bind", "root", "etc", "overlay", "dev", "place", "link", "tmpfs", "proc",
            "mkdir", "remount"}

NotBindable == {"proc", "dev", "tmp", "mnt", "etc"}

Fail(st) == [st EXCEPT !.ok = FALSE]

\* Go on with the result of a step, computed once, unless it has failed.
Then(st, f(_)) == CHOOSE t \in {IF s.ok THEN f(s) ELSE s : s \in {st}} : t = t

NewSetup(n) == [
    nodes |-> [p \in {<< >>} |-> "dir"], links |-> [p \in {} |-> Missing],
    mounts |-> << [at |-> << >>, flags |-> {"nosuid", "nodev"}, source |-> Missing] >>,
    host |-> HostNodes, final |-> [k \in 1..n |-> Missing],
    nonrepeatable |-> {}, ok |-> TRUE]

-----------------------------------------------------------------------------
(***************************************************************************)
(* Symbolic links.  leads[p] is where the link at p leads: the first link  *)
(* on the way of a pathname is replaced by that, again and again.  With    *)
(* more links than MaxLinks on its way a pathname still goes through one,  *)
(* and leads to nothing.                                                   *)
(***************************************************************************)
\* n times .. from p; the root is its own parent.
Above(p, n) == SubSeq(p, 1, IF n <= Len(p) THEN Len(p) - n ELSE 0)

LeadsTo(p, text) == (IF text.abs THEN << >> ELSE Above(p, text.up + 1)) \o text.down

Leads(links) == [p \in DOMAIN links |-> LeadsTo(p, links[p])]

OnTheWay(links, p) == {n \in 1..Len(p) : SubSeq(p, 1, n) \in DOMAIN links}

FollowFirst(leads, p) ==
    LET n == CHOOSE n \in OnTheWay(leads, p) : \A j \in OnTheWay(leads, p) : n <= j
    IN  IF OnTheWay(leads, p) = {} THEN p
        ELSE leads[SubSeq(p, 1, n)] \o SubSeq(p, n + 1, Len(p))

Follow(leads, p) ==
    LET after[n \in 0..MaxLinks] ==
            IF n = 0 THEN p ELSE Computed(after[n - 1], LAMBDA q : FollowFirst(leads, q))
    IN  after[MaxLinks]

\* In the host root.
Resolve(p) == Follow(Leads(HostLinks), p)

(***************************************************************************)
(* While the container is set up the root is the intermediate one: a link  *)
(* that is absolute, or leads above sysroot, leads to nothing.             *)
(***************************************************************************)
InSysroot(links) == [p \in {q \in DOMAIN links : ~links[q].abs /\ links[q].up < Len(q)} |-> links[p]]

Real(st, p) == Follow(Leads(InSysroot(st.links)), p)

\* The program is in the new root.
Seen(st, p) == Follow(Leads(st.links), p)

-----------------------------------------------------------------------------
(***************************************************************************)
(* The file system calls                                                   *)
(***************************************************************************)
IsDir(nodes, p)  == p \in DOMAIN nodes /\ nodes[p] = "dir"
Writable(st, p)  == "ro" \notin st.mounts[Owner(st.mounts, p)].flags

\* A name in a directory: links are followed on the way to the directory.
InDir(st, p) == Append(Real(st, Front(p)), Last(p))

MayCreate(st, at) ==
    /\ at \notin DOMAIN st.nodes
    /\ IsDir(st.nodes, Front(at)) /\ Writable(st, Front(at))

AddNodes(nodes, new, kind) ==
    [q \in DOMAIN nodes \cup new |-> IF q \in new THEN kind ELSE nodes[q]]

Create(st, p, kind) ==
    IF MayCreate(st, InDir(st, p))
    THEN [st EXCEPT !.nodes = AddNodes(@, {InDir(st, p)}, kind)] ELSE Fail(st)

\* os.MkdirAll, from the root down.
mkdirAll(st, p) ==
    LET dir(s, q) == IF IsDir(s.nodes, Real(s, q)) THEN s ELSE Create(s, q, "dir")
        after[n \in 0..Len(p)] ==
            IF n = 0 THEN st
            ELSE Then(after[n - 1], LAMBDA s : dir(s, SubSeq(p, 1, n)))
    IN  after[Len(p)]

ensureFile(st, p) ==
    IF Real(st, p) \in DOMAIN st.nodes
    THEN IF st.nodes[Real(st, p)] = "file" THEN st ELSE Fail(st)
    ELSE Then(mkdirAll(st, Front(p)), LAMBDA s : Create(s, p, "file"))

\* Links in a directory that exists, with their texts by name.  A failure ends
\* init: what has been made before it is seen by nobody.
symlinks(st, dir, texts) ==
    LET new == {Append(Real(st, dir), n) : n \in DOMAIN texts}
    IN  IF \A p \in new : MayCreate(st, p)
        THEN [st EXCEPT !.nodes = AddNodes(@, new, "link"),
                        !.links = [q \in DOMAIN @ \cup new |->
                                      IF q \in new THEN texts[Last(q)] ELSE @[q]]]
        ELSE Fail(st)

symlink(st, p, text) ==
    Then(mkdirAll(st, Front(p)),
         LAMBDA s : symlinks(s, Front(p), [n \in {Last(p)} |-> text]))

(***************************************************************************)
(* mount covers what is at the target with the content of a file system:   *)
(* nodes and links, on the pathnames relative to it.  The source is the    *)
(* pathname of the host it shows, if any.                                  *)
(***************************************************************************)
Cover(nodes, p, content) ==
    LET below == {p \o q : q \in DOMAIN content}
        kept  == {q \in DOMAIN nodes : ~Under(q, p)}
    IN  [q \in kept \cup below |->
            IF q \in below THEN content[SubSeq(q, Len(p) + 1, Len(q))] ELSE nodes[q]]

Empty == [nodes |-> [q \in {<< >>} |-> "dir"], links |-> [q \in {} |-> Missing]]

mount(st, p, content, flags, source) ==
    LET at == Real(st, p) IN
    IF at \in DOMAIN st.nodes /\ st.nodes[at] = content.nodes[<< >>]
    THEN [st EXCEPT !.nodes = Cover(@, at, content.nodes),
                    !.links = Cover(@, at, content.links),
                    !.mounts = Append(@, [at |-> at, flags |-> flags, source |-> source])]
    ELSE Fail(st)

mountTmpfs(st, p, flags) ==
    Then(mkdirAll(st, p), LAMBDA s : mount(s, p, Empty, flags, Missing))

\* The tree of the host below a pathname, and the mounts inside it.
Below(nodes, p) ==
    [q \in {SubSeq(r, Len(p) + 1, Len(r)) : r \in {h \in DOMAIN nodes : Under(h, p)}} |->
        nodes[p \o q]]

HostTree(st, p) == [nodes |-> Below(st.host, p), links |-> Below(HostLinks, p)]

HostBelow(p) ==
    LET below[n \in 0..Len(HostMounts)] ==
            IF n = 0 THEN << >>
            ELSE IF Under(HostMounts[n].at, p) /\ HostMounts[n].at # p
                 THEN Append(below[n - 1], HostMounts[n]) ELSE below[n - 1]
    IN  below[Len(HostMounts)]

\* Where a pathname below one is when that one is bound to another.
Rebased(p, from, to) == to \o SubSeq(p, Len(from) + 1, Len(p))

Moved(ms, from, to) ==
    [k \in DOMAIN ms |-> [at |-> Rebased(ms[k].at, from, to),
                          flags |-> ms[k].flags, source |-> ms[k].at]]

\* procPaths.remount goes through the links on the way to its target again.
remountPath(st, p, flags) ==
    IF Real(st, p) \in DOMAIN st.nodes /\ Remountable(st.mounts, Real(st, p), flags)
    THEN [st EXCEPT !.mounts = remount(@, Real(st, p), flags)] ELSE Fail(st)

(***************************************************************************)
(* bindMount: the bind takes the flags of its source along, and those of   *)
(* the mounts below it when it is recursive; then it is remounted.         *)
(***************************************************************************)
bindMount(st, source, target, flags) ==
    LET own   == HostMounts[Owner(HostMounts, source)].flags
        taken == IF "rec" \in flags
                 THEN Moved(HostBelow(source), source, Real(st, target)) ELSE << >>
        bound == Then(mount(st, target, HostTree(st, source), own, source),
                      LAMBDA s : [s EXCEPT !.mounts = @ \o taken])
    IN  Then(bound, LAMBDA s : remountPath(s, target, flags))

\* filepath.EvalSymlinks on the host: a pathname that leads to nothing has none.
evalSymlinks(st, p) ==
    IF Resolve(p) \in DOMAIN st.host /\ Resolve(p) \notin DOMAIN HostLinks
    THEN Resolve(p) ELSE Missing

-----------------------------------------------------------------------------
(***************************************************************************)
(* BindMountOp                                                             *)
(***************************************************************************)
BindValid(op) == ~({"optional", "ensure"} \subseteq op.flags)

\* os.MkdirAll on the host, which fails at what is there and is no directory.
MissingDirs(nodes, p) == {SubSeq(p, 1, n) : n \in 0..Len(p)} \ DOMAIN nodes

NotDir(st, p) ==
    \E n \in 1..Len(p) :
        LET q == SubSeq(p, 1, n) IN
        /\ Append(Resolve(Front(q)), Last(q)) \in DOMAIN st.host
        /\ ~IsDir(st.host, Resolve(q))

Ensured(st, op) ==
    IF "ensure" \notin op.flags THEN st
    ELSE IF NotDir(st, op.source) THEN Fail(st)
    ELSE [st EXCEPT !.host = AddNodes(@, MissingDirs(@, Resolve(op.source)), "dir")]

\* The resolved source; a missing one is left to apply when it is optional.
BindEarly(st, k, op) ==
    LET made == Ensured(st, op)
        path == evalSymlinks(made, op.source)
    IN  IF ~made.ok \/ (path = Missing /\ "optional" \notin op.flags) THEN Fail(made)
        ELSE [made EXCEPT !.final[k] = path]

BindFlags(op) ==
    {"rec"} \cup (IF "writable" \in op.flags THEN {} ELSE {"ro"})
            \cup (IF "device" \in op.flags THEN {} ELSE {"nodev"})

BindApply(st, op, source) ==
    IF source = Missing
    THEN IF "optional" \in op.flags THEN st ELSE Fail(st)
    ELSE LET target == IF st.host[source] = "dir" THEN mkdirAll(st, op.target)
                       ELSE ensureFile(st, op.target)
         IN  Then(target, LAMBDA s : bindMount(s, source, op.target, BindFlags(op)))

(***************************************************************************)
(* AutoRootOp binds every entry of a directory of the host but a few.      *)
(***************************************************************************)
IsAutoRootBindable(name) == name \notin NotBindable

RootEntries(st, host) ==
    {Last(p) : p \in {q \in DOMAIN st.host : Len(q) = Len(host) + 1 /\ Under(q, host)}}

\* The binds of the entries, in the order readdir lists them.
RootBinds(st, op) ==
    LET names == SetToSeq({n \in RootEntries(st, Resolve(op.host)) : IsAutoRootBindable(n)})
    IN  [i \in DOMAIN names |->
            [source |-> Append(op.host, names[i]), target |-> << names[i] >>,
             flags |-> op.flags, final |-> evalSymlinks(st, Append(op.host, names[i]))]]

RootEarly(st, k, op) ==
    LET resolved == RootBinds(st, op)
    IN  IF ~IsDir(st.host, Resolve(op.host)) \/ \E i \in DOMAIN resolved :
                resolved[i].final = Missing /\ "optional" \notin op.flags
        THEN Fail(st)
        ELSE [st EXCEPT !.final[k] = resolved]

\* A nonrepeatable operation fails the second time.
Once(st, name) == IF name \in st.nonrepeatable THEN Fail(st)
                  ELSE [st EXCEPT !.nonrepeatable = @ \cup {name}]

RootApply(st, k, op) ==
    LET resolved == st.final[k]
        after[n \in 0..Len(resolved)] ==
            IF n = 0 THEN Once(st, "autoroot")
            ELSE Then(after[n - 1],
                      LAMBDA s : BindApply(s, resolved[n], resolved[n].final))
    IN  after[Len(resolved)]

(***************************************************************************)
(* AutoEtcOp mirrors the entries of the host etc, bound below .host by the *)
(* operation before it, as links.                                          *)
(***************************************************************************)
EtcHost(op) == << "etc", ".host", op.prefix >>

EtcEntries(st, op) ==
    LET dir == Real(st, EtcHost(op)) IN
    {Last(p) : p \in {q \in DOMAIN st.nodes : Len(q) = Len(dir) + 1 /\ Under(q, dir)}}
        \ {".host", "passwd", "group"}

EtcLinks(st, op) ==
    [n \in EtcEntries(st, op) |->
        IF n = "mtab" THEN [abs |-> TRUE, up |-> 0, down |-> << "proc", "mounts" >>]
        ELSE [abs |-> FALSE, up |-> 0, down |-> << ".host", op.prefix, n >>]]

EtcApply(st, op) ==
    LET made == Then(Once(st, "autoetc"), LAMBDA s : mkdirAll(s, << "etc" >>))
    IN  IF made.ok /\ ~IsDir(made.nodes, Real(made, EtcHost(op))) THEN Fail(made)
        ELSE Then(made, LAMBDA s : symlinks(s, << "etc" >>, EtcLinks(s, op)))

(***************************************************************************)
(* MountOverlayOp: without upperdir and workdir the overlay is readonly.   *)
(***************************************************************************)
Ephemeral(op) == op.upper = << >> /\ op.work = Missing

OverlayValid(op) == op.work = Missing \/ op.upper # Missing

OverlayEarly(st, op) ==
    LET dirs == ToSet(op.lower)
                    \cup (IF Ephemeral(op) THEN {} ELSE {op.upper, op.work} \ {Missing})
    IN  IF \/ op.work = Missing /\ op.upper \notin {Missing, << >>}
           \/ \E p \in dirs : evalSymlinks(st, p) = Missing
        THEN Fail(st) ELSE st

OverlayApply(st, op) ==
    LET readonly == op.upper = Missing
        layers   == ToSet(op.lower) \cup (IF op.upper \in {Missing, << >>} THEN {} ELSE {op.upper})
        trees    == {HostTree(st, p) : p \in {evalSymlinks(st, q) : q \in layers} \ {Missing}}
        names    == UNION {DOMAIN t.nodes : t \in trees}
        layer(q) == CHOOSE t \in trees : q \in DOMAIN t.nodes
        content  == [nodes |-> [q \in names |-> layer(q).nodes[q]],
                     links |-> [q \in {n \in names : n \in DOMAIN layer(n).links} |->
                                   layer(q).links[q]]]
    IN  IF Len(op.lower) < (IF readonly THEN 2 ELSE 1)
        THEN Fail(mkdirAll(st, op.target))
        ELSE Then(mkdirAll(st, op.target),
                  LAMBDA s : mount(s, op.target, content, IF readonly THEN {"ro"} ELSE {}, Missing))

(***************************************************************************)
(* MountDevOp: device nodes of the host on a tmpfs that is made readonly,  *)
(* with a fresh devpts, an optional mqueue, and a writable shm on top.     *)
(***************************************************************************)
DevApply(st, op) ==
    LET at(name) == Append(op.target, name)
        node(s)  == Then(ensureFile(s, at("null")),
                         LAMBDA t : bindMount(t, << "dev", "null" >>, at("null"), {}))
        fd(s)    == symlinks(s, op.target,
                             [n \in {"fd"} |-> [abs |-> TRUE, up |-> 0,
                                                down |-> << "proc", "self", "fd" >>]])
        dirs(s)  == Then(Create(s, at("shm"), "dir"), LAMBDA t : Create(t, at("pts"), "dir"))
        pts(s)   == mount(s, at("pts"), Empty, {"nosuid", "noexec"}, Missing)
        console(s) == IF RetainSession
                      THEN Then(ensureFile(s, at("console")),
                                LAMBDA t : bindMount(t, << "dev", "tty" >>, at("console"), {}))
                      ELSE s
        mqueue(s) == IF op.mqueue
                     THEN Then(Create(s, at("mqueue"), "dir"),
                               LAMBDA t : mount(t, at("mqueue"), Empty,
                                                {"nosuid", "noexec", "nodev"}, Missing))
                     ELSE s
        seal(s)  == IF op.write THEN s
                    ELSE Then(remountPath(s, op.target, {"ro"}),
                              LAMBDA t : mountTmpfs(t, at("shm"), {"nosuid", "nodev"}))
    IN  Then(Then(Then(Then(Then(Then(Then(
            mountTmpfs(st, op.target, {"nosuid", "nodev"}),
            node), fd), dirs), pts), console), mqueue), seal)

-----------------------------------------------------------------------------
(***************************************************************************)
(* SymlinkOp: the text it has been given, or that of a link of the host.   *)
(***************************************************************************)
LinkEarly(st, k, op) ==
    LET name == op.linkname.down
        at   == Append(Resolve(Front(name)), Last(name))
    IN  IF ~op.dereference THEN [st EXCEPT !.final[k] = op.linkname]
        ELSE IF op.linkname.abs /\ at \in DOMAIN HostLinks
             THEN [st EXCEPT !.final[k] = HostLinks[at]] ELSE Fail(st)

Valid(op) == CASE op.kind = "bind"    -> BindValid(op)
               [] op.kind = "overlay" -> OverlayValid(op)
               [] OTHER               -> TRUE

\* early of operation k, called in the host root.
early(st, k, op) ==
    IF ~Valid(op) THEN Fail(st)
    ELSE CASE op.kind = "bind"    -> BindEarly(st, k, op)
           [] op.kind = "root"    -> RootEarly(st, k, op)
           [] op.kind = "overlay" -> OverlayEarly(st, op)
           [] op.kind = "link"    -> LinkEarly(st, k, op)
           [] OTHER               -> st

\* TmpfileOp binds a file of the intermediate root and removes its name.
PlaceApply(st, op) ==
    LET file == [nodes |-> [q \in {<< >>} |-> "file"], links |-> [q \in {} |-> Missing]]
    IN  Then(Then(ensureFile(st, op.target),
                  LAMBDA s : mount(s, op.target, file, {"nosuid", "nodev"}, Missing)),
             LAMBDA s : remountPath(s, op.target, {"ro", "nodev"}))

ProcApply(st, op) ==
    Then(mkdirAll(st, op.target),
         LAMBDA s : mount(s, op.target, Empty, {"nosuid", "noexec", "nodev"}, Missing))

\* apply of operation k, called in the intermediate root.
apply(st, k, op) ==
    CASE op.kind = "bind"    -> BindApply(st, op, st.final[k])
      [] op.kind = "root"    -> RootApply(st, k, op)
      [] op.kind = "etc"     -> EtcApply(st, op)
      [] op.kind = "overlay" -> OverlayApply(st, op)
      [] op.kind = "dev"     -> DevApply(st, op)
      [] op.kind = "place"   -> PlaceApply(st, op)
      [] op.kind = "link"    -> symlink(st, op.target, st.final[k])
      [] op.kind = "tmpfs"   -> mountTmpfs(st, op.target, {"nosuid", "nodev"} \cup op.flags)
      [] op.kind = "proc"    -> ProcApply(st, op)
      [] op.kind = "mkdir"   -> mkdirAll(st, op.target)
      [] op.kind = "remount" -> remountPath(st, op.target, op.flags)
=============================================================================
