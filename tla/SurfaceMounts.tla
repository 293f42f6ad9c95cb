------------------------------ MODULE SurfaceMounts ------------------------------
(***************************************************************************)
(* createLatestSurfaceMountLifecycle: component surfaces mount and dispose *)
(* asynchronously, and only the newest scheduled one may stay. A surface   *)
(* is named by the render of the view that asked for it.                   *)
(***************************************************************************)
EXTENDS Naturals, FiniteSets

CONSTANT None

\* null is not the number of a render.
ASSUME NoneIsNoRender == None \notin Nat

VARIABLES
  surface,  \* generation: counts schedules and invalidating disposals
  mounted,  \* the handle the lifecycle holds, or None
  mounts,   \* schedule calls whose promise has not settled
  dying,    \* handles whose dispose() has been called and not settled
  live      \* handles that exist on the page: mounted and not disposed of

surfaceVars == <<surface, mounted, mounts, dying, live>>

Mounted == IF mounted = None THEN {} ELSE {mounted}

Mount == [generation : Nat, render : Nat, at : {"queued", "disposing", "mounting"},
          old : Nat \cup {None}]

SurfaceTypeOK ==
  /\ surface \in Nat
  /\ mounted \in Nat \cup {None}
  /\ mounts \subseteq Mount
  /\ dying \subseteq Nat
  /\ live \subseteq Nat

SurfaceInit ==
  surface = 0 /\ mounted = None /\ mounts = {} /\ dying = {} /\ live = {}

\* dispose(true), up to its await: the handle is forgotten, every mount under way is stale.
Invalidate ==
  /\ surface' = surface + 1
  /\ mounted' = None
  /\ dying' = dying \cup Mounted
  /\ UNCHANGED <<mounts, live>>

\* schedule(mount): the work starts in a microtask.
Schedule(render) ==
  /\ surface' = surface + 1
  /\ mounts' = mounts \cup
       {[generation |-> surface + 1, render |-> render, at |-> "queued", old |-> None]}
  /\ UNCHANGED <<mounted, dying, live>>

Newest(m) == m.generation = surface
Moved(m, step, old) == (mounts \ {m}) \cup {[m EXCEPT !.at = step, !.old = old]}

\* The microtask: dispose(false) of the handle it replaces, unless it is stale already.
MountTurn(m) ==
  /\ m \in mounts /\ m.at = "queued"
  /\ IF Newest(m)
       THEN /\ mounted' = None
            /\ dying' = dying \cup Mounted
            /\ mounts' = Moved(m, "disposing", mounted)
       ELSE mounts' = mounts \ {m} /\ UNCHANGED <<mounted, dying>>
  /\ UNCHANGED <<surface, live>>

\* The old handle is gone: mount(), unless a newer schedule or disposal came.
MountStarts(m) ==
  /\ m \in mounts /\ m.at = "disposing" /\ m.old \notin dying
  /\ mounts' = IF Newest(m) THEN Moved(m, "mounting", None) ELSE mounts \ {m}
  /\ UNCHANGED <<surface, mounted, dying, live>>

\* Slip: a candidate that arrives late is kept.
MountArrivesUnchecked(m) ==
  /\ m \in mounts /\ m.at = "mounting"
  /\ live' = live \cup {m.render}
  /\ mounted' = m.render
  /\ mounts' = mounts \ {m}
  /\ UNCHANGED <<surface, dying>>

\* mount() resolves: kept if it is still the newest, disposed of otherwise.
MountArrives(m) ==
  /\ m \in mounts /\ m.at = "mounting"
  /\ live' = live \cup {m.render}
  /\ IF Newest(m) THEN mounted' = m.render /\ UNCHANGED dying
                  ELSE dying' = dying \cup {m.render} /\ UNCHANGED mounted
  /\ mounts' = mounts \ {m}
  /\ UNCHANGED surface

\* mount() rejects: the error is rendered in the target if it is still the newest.
MountFails(m) ==
  /\ m \in mounts /\ m.at = "mounting"
  /\ mounts' = mounts \ {m}
  /\ UNCHANGED <<surface, mounted, dying, live>>

\* A handle's own dispose() settles: the component kit's work.
Disposed(h) ==
  /\ h \in dying
  /\ dying' = dying \ {h}
  /\ live' = live \ {h}
  /\ UNCHANGED <<surface, mounted, mounts>>

SurfaceNext ==
  \/ \E m \in mounts : MountTurn(m) \/ MountStarts(m) \/ MountArrives(m) \/ MountFails(m)
  \/ \E h \in dying : Disposed(h)

=============================================================================
