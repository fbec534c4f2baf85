--------------------------- MODULE GraphProjection ---------------------------
(***************************************************************************)
(* The derived graph of the active revision of a Workspace. A hydrate run  *)
(* writes it to the graph store in several statements, each atomic: it     *)
(* deletes the completion marker and the nodes of an older copy, writes    *)
(* nodes and claims, and sets the marker. The graph phase lives in         *)
(* Postgres. Who finds that the store lost a ready graph sets the phase    *)
(* back and starts a rebuild; the tip check starts one for a phase that is *)
(* not ready.                                                              *)
(*                                                                         *)
(* The revision stays active here (WorkspaceProjection changes it), and    *)
(* has nodes and claims. A statement of a worker that stops was executed   *)
(* before or never. A read is taken at the moment it misses something.     *)
(***************************************************************************)
EXTENDS Naturals

CONSTANTS
  Hydrates,   \* hydrate runs under way at once
  MaxLosses   \* bound: failed statements, crashes and losses of the store

ASSUME GraphAssumption == MaxLosses \in Nat

VARIABLES
  graphPhase, \* hydratePhases.graph of the active revision
  store,      \* what the graph store holds of it
  hydrate,    \* the runs
  watch,      \* who reads the graph: the tip check, a reader
  losses,     \* failures so far
  mixed       \* history: a second run or a loss came amid the writes of a run,
              \* and no run has begun anew alone since

graphVars == <<graphPhase, store, hydrate, watch, losses, mixed>>

-----------------------------------------------------------------------------
(* Values *)

Watchers == {"tip", "reader"}

Writing == {"deleteMarker", "deleteNodes", "writeNodes", "writeClaims",
            "writeMarker", "persistReady"}

\* memo: the step persist-graph-retry of the run is done.
Hydrate(at, memo) == [at |-> at, memo |-> memo]

Empty == [marker |-> FALSE, nodes |-> FALSE, claims |-> FALSE]

Full == [marker |-> TRUE, nodes |-> TRUE, claims |-> TRUE]

\* A new revision, or one whose graph was written.
GraphInit ==
  /\ \/ graphPhase = "pending" /\ store = Empty
     \/ graphPhase = "ready" /\ store = Full
  /\ hydrate = [h \in Hydrates |-> Hydrate("none", FALSE)]
  /\ watch = [w \in Watchers |-> "idle"]
  /\ losses = 0
  /\ mixed = FALSE

Whole == store = Full

HydrateAt(h, stage) == hydrate[h].at = stage

Forward(h, stage) == hydrate' = [hydrate EXCEPT ![h].at = stage]

OthersWrite(h) == \E g \in Hydrates \ {h} : hydrate[g].at \in Writing

Loss == losses < MaxLosses /\ losses' = losses + 1

-----------------------------------------------------------------------------
(* A hydrate run *)

\* It reads the phase: a ready graph is not written. A failed one is pending
\* while it is written again.
StartHydrate(h) ==
  /\ HydrateAt(h, "queued")
  /\ IF graphPhase = "ready"
     THEN /\ hydrate' = [hydrate EXCEPT ![h] = Hydrate("none", FALSE)]
          /\ UNCHANGED <<graphPhase, mixed>>
     ELSE /\ hydrate' = [hydrate EXCEPT ![h] =
               Hydrate("deleteMarker",
                       hydrate[h].memo \/ graphPhase = "failed")]
          /\ graphPhase' = IF hydrate[h].memo THEN graphPhase ELSE "pending"
          /\ mixed' = (mixed \/ OthersWrite(h))
  /\ UNCHANGED <<store, watch, losses>>

\* Mutant: the marker of the older copy stays while it is written anew.
DeleteMarker_Skip(h) ==
  /\ HydrateAt(h, "deleteMarker")
  /\ Forward(h, "deleteNodes")
  /\ mixed' = (mixed /\ OthersWrite(h))
  /\ UNCHANGED <<graphPhase, store, watch, losses>>

DeleteMarker(h) ==
  /\ HydrateAt(h, "deleteMarker")
  /\ store' = [store EXCEPT !.marker = FALSE]
  /\ Forward(h, "deleteNodes")
  /\ mixed' = (mixed /\ OthersWrite(h))
  /\ UNCHANGED <<graphPhase, watch, losses>>

\* The claims are the edges of the nodes.
DeleteNodes(h) ==
  /\ HydrateAt(h, "deleteNodes")
  /\ store' = [store EXCEPT !.nodes = FALSE, !.claims = FALSE]
  /\ Forward(h, "writeNodes")
  /\ UNCHANGED <<graphPhase, watch, losses, mixed>>

WriteNodes(h) ==
  /\ HydrateAt(h, "writeNodes")
  /\ store' = [store EXCEPT !.nodes = TRUE]
  /\ Forward(h, "writeClaims")
  /\ UNCHANGED <<graphPhase, watch, losses, mixed>>

\* A claim is written when its two nodes are there.
WriteClaims(h) ==
  /\ HydrateAt(h, "writeClaims")
  /\ store' = [store EXCEPT !.claims = store.nodes]
  /\ Forward(h, "writeMarker")
  /\ UNCHANGED <<graphPhase, watch, losses, mixed>>

WriteMarker(h) ==
  /\ HydrateAt(h, "writeMarker")
  /\ store' = [store EXCEPT !.marker = TRUE]
  /\ Forward(h, "persistReady")
  /\ UNCHANGED <<graphPhase, watch, losses, mixed>>

PersistReady(h) ==
  /\ HydrateAt(h, "persistReady")
  /\ graphPhase' = "ready"
  /\ hydrate' = [hydrate EXCEPT ![h] = Hydrate("none", FALSE)]
  /\ UNCHANGED <<store, watch, losses, mixed>>

\* A statement fails; the phase leaves "pending" in a step of its own.
WriteFails(h) ==
  /\ hydrate[h].at \in Writing /\ Loss
  /\ Forward(h, "failing")
  /\ UNCHANGED <<graphPhase, store, watch, mixed>>

PersistFailed(h) ==
  /\ HydrateAt(h, "failing")
  /\ graphPhase' = "failed"
  /\ hydrate' = [hydrate EXCEPT ![h] = Hydrate("none", FALSE)]
  /\ UNCHANGED <<store, watch, losses, mixed>>

\* The worker stops: the run is replayed, and the graph is no step of it.
HydrateCrash(h) ==
  /\ hydrate[h].at \in Writing \cup {"failing"} /\ Loss
  /\ Forward(h, "queued")
  /\ UNCHANGED <<graphPhase, store, watch, mixed>>

-----------------------------------------------------------------------------
(* Who starts a run *)

Queue(h) == HydrateAt(h, "none") /\ hydrate' =
              [hydrate EXCEPT ![h] = Hydrate("queued", FALSE)]

\* Mutant: the tip check retries failed graphs, not those that stay pending.
TipHydrate_Failed(h) ==
  /\ graphPhase = "failed"
  /\ \A g \in Hydrates : HydrateAt(g, "none")
  /\ Queue(h)
  /\ UNCHANGED <<graphPhase, store, watch, losses, mixed>>

\* The tip check: the phase is not ready, and no hydrate is unfinished.
TipHydrate(h) ==
  /\ graphPhase # "ready"
  /\ \A g \in Hydrates : HydrateAt(g, "none")
  /\ Queue(h)
  /\ UNCHANGED <<graphPhase, store, watch, losses, mixed>>

\* The route that rebuilds a failed graph; then the phase is pending.
Rebuild(h) ==
  /\ graphPhase = "failed"
  /\ Queue(h)
  /\ graphPhase' = "pending"
  /\ UNCHANGED <<store, watch, losses, mixed>>

\* A read starts with a projection whose graph is ready.
Look(w) ==
  /\ watch[w] = "idle" /\ graphPhase = "ready"
  /\ watch' = [watch EXCEPT ![w] = "reading"]
  /\ UNCHANGED <<graphPhase, store, hydrate, losses, mixed>>

\* The tip check reads the marker alone. A reader counts nodes and claims too.
Misses(w) == IF w = "tip" THEN ~store.marker ELSE ~Whole

Read(w) ==
  /\ watch[w] = "reading"
  /\ watch' = [watch EXCEPT ![w] = IF Misses(w) THEN "missing" ELSE "idle"]
  /\ UNCHANGED <<graphPhase, store, hydrate, losses, mixed>>

\* markWorkspaceGraphLost: one caller wins for each loss.
MarkLost(w) ==
  /\ watch[w] = "missing"
  /\ IF graphPhase = "ready"
     THEN graphPhase' = "pending" /\ watch' = [watch EXCEPT ![w] = "lost"]
     ELSE watch' = [watch EXCEPT ![w] = "idle"] /\ UNCHANGED graphPhase
  /\ UNCHANGED <<store, hydrate, losses, mixed>>

StartRebuild(w, h) ==
  /\ watch[w] = "lost"
  /\ Queue(h)
  /\ watch' = [watch EXCEPT ![w] = "idle"]
  /\ UNCHANGED <<graphPhase, store, losses, mixed>>

\* The run is not queued: the phase fails, or the process stopped and it
\* stays pending.
StartRebuildFails(w) ==
  /\ watch[w] = "lost" /\ Loss
  /\ graphPhase' \in {"failed", graphPhase}
  /\ watch' = [watch EXCEPT ![w] = "idle"]
  /\ UNCHANGED <<store, hydrate, mixed>>

\* The store loses the graph.
StoreLoses ==
  /\ store # Empty /\ Loss
  /\ store' = Empty
  /\ mixed' = (mixed \/ \E h \in Hydrates : hydrate[h].at \in Writing)
  /\ UNCHANGED <<graphPhase, hydrate, watch>>

-----------------------------------------------------------------------------

HydrateWork ==
  \E h \in Hydrates :
    \/ StartHydrate(h) \/ DeleteMarker(h) \/ DeleteNodes(h) \/ WriteNodes(h)
    \/ WriteClaims(h) \/ WriteMarker(h) \/ PersistReady(h) \/ PersistFailed(h)

TipHydrates == \E h \in Hydrates : TipHydrate(h)

WatchWork(w) ==
  Read(w) \/ MarkLost(w) \/ \E h \in Hydrates : StartRebuild(w, h)

GraphNext ==
  \/ HydrateWork \/ TipHydrates \/ StoreLoses
  \/ \E h \in Hydrates : WriteFails(h) \/ HydrateCrash(h) \/ Rebuild(h)
  \/ \E w \in Watchers : Look(w) \/ WatchWork(w) \/ StartRebuildFails(w)

GraphSpec == GraphInit /\ [][GraphNext]_graphVars

\* Runs are worked off, and the tip check comes every hour.
GraphFairness ==
  /\ WF_graphVars(HydrateWork) /\ WF_graphVars(TipHydrates)
  /\ WF_graphVars(Look("tip") \/ WatchWork("tip"))

-----------------------------------------------------------------------------
(* Properties *)

GraphTypeOK ==
  /\ graphPhase \in {"pending", "ready", "failed"}
  /\ store \in [marker : BOOLEAN, nodes : BOOLEAN, claims : BOOLEAN]
  /\ hydrate \in [Hydrates -> [at : {"none", "queued", "failing"} \cup Writing,
                               memo : BOOLEAN]]
  /\ watch \in [Watchers -> {"idle", "reading", "missing", "lost"}]
  /\ losses \in 0..MaxLosses
  /\ mixed \in BOOLEAN

\* "True when the graph store holds a complete graph" (graph-projection.ts:172):
\* while one run writes and nothing is lost amid its writes, a marker stands
\* over all nodes and claims, whatever failed, crashed and was repeated over
\* what was left. After runs that overlapped it does so again as soon as one
\* begins alone.
MarkerMeansWhole == ~mixed /\ store.marker => store.nodes /\ store.claims

\* A graph that is not there is written some time: a run fails, the store loses
\* it, and who notices the loss may stop before a run is queued.
LostGraphIsRebuilt == []<>store.marker
=============================================================================
