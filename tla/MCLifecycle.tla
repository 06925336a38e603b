----------------------------- MODULE MCLifecycle -----------------------------
(***************************************************************************)
(* Instances of Lifecycle for TLC.  Plans are what Outcome computes from   *)
(* configurations of the program.                                          *)
(***************************************************************************)
EXTENDS Lifecycle, TLC

CONSTANTS a, b, c

O == INSTANCE Outcome

Base == [et |-> {}, shareRuntime |-> FALSE, shareTmpdir |-> FALSE,
         directWayland |-> FALSE, systemBus |-> FALSE, cgroup |-> FALSE,
         display |-> ":0", x11Socket |-> FALSE, extraPerms |-> << >>]

\* X11 and D-Bus with one user-scoped ACL.
X11Bus == [Base EXCEPT !.et = {"EX11", "EDBus"},
           !.extraPerms = << [path |-> "extra", ensure |-> FALSE] >>]

\* X11 only, with the same ACL.
X11 == [Base EXCEPT !.et = {"EX11"}, !.extraPerms = X11Bus.extraPerms]

\* No enablements, with the same ACL.
Plain == [Base EXCEPT !.extraPerms = X11Bus.extraPerms]

\* A security-context Wayland socket and a cgroup.
Contained == [Base EXCEPT !.et = {"EWayland"}, !.cgroup = TRUE]

\* PulseAudio and D-Bus with the system bus.
Audio == [Base EXCEPT !.et = {"EPulse", "EDBus"}, !.systemBus = TRUE]

Pair(p, q)      == (a :> p) @@ (b :> q)
Triple(p, q, r) == Pair(p, q) @@ (c :> r)

PlanFor(configs)  == [i \in DOMAIN configs |-> O!toSystem(configs[i], i)]
EnablFor(configs) == [i \in DOMAIN configs |-> configs[i].et]

\* A definition is evaluated once and the operator that replaces a CONSTANT
\* every time, so that each Plan is the name of a definition.

\* Instances that share X11 and an ACL, one of them with D-Bus.
SharedX11      == Pair(X11Bus, X11)
SharedX11Ops   == PlanFor(SharedX11)
SharedX11Plan  == SharedX11Ops
SharedX11Enabl == EnablFor(SharedX11)

\* Three instances, two of which share X11 and all of which share an ACL.
Trio      == Triple(X11, X11, Plain)
TrioOps   == PlanFor(Trio)
TrioPlan  == TrioOps
TrioEnabl == EnablFor(Trio)

ASSUME TrioAlike == Alike(TrioPlan, TrioEnabl)

\* Instances with every kind of process-scoped operation between them.
Scoped      == Pair(Audio, Contained)
ScopedOps   == PlanFor(Scoped)
ScopedPlan  == ScopedOps
ScopedEnabl == EnablFor(Scoped)
=============================================================================
