------------------------ MODULE GraphProjectionProofs ------------------------
(***************************************************************************)
(* Theorems about GraphProjection, for any number of hydrate runs and of   *)
(* failures. Unless a second run or a loss came between the writes of a    *)
(* run, one run writes at most, and what the store holds follows from the  *)
(* statement that the run has reached. A run that deletes the marker and   *)
(* nodes while no other writes restores that, whatever it found.           *)
(***************************************************************************)
EXTENDS GraphProjection, TLAPS

HydrateStates ==
  [at : {"none", "queued", "failing"} \cup Writing, memo : BOOLEAN]

Stores == [marker : BOOLEAN, nodes : BOOLEAN, claims : BOOLEAN]

\* One run writes at most.
OneWriter ==
  ~mixed => \A g, h \in Hydrates :
    hydrate[g].at \in Writing /\ hydrate[h].at \in Writing => g = h

\* What the store holds when a run has reached a statement.
WriterKnows ==
  ~mixed => \A h \in Hydrates :
    /\ hydrate[h].at \in {"deleteNodes", "writeNodes", "writeClaims"}
         => ~store.marker
    /\ hydrate[h].at = "writeClaims" => store.nodes
    /\ hydrate[h].at = "writeMarker" => store.nodes /\ store.claims

GraphInv == GraphTypeOK /\ OneWriter /\ WriterKnows /\ MarkerMeansWhole

-----------------------------------------------------------------------------
(* Steps *)

LEMMA GraphInit_Inv == GraphInit => GraphInv
<1> SUFFICES ASSUME GraphInit PROVE GraphInv
  OBVIOUS
<1> USE GraphAssumption DEF GraphInit
<1>1. GraphTypeOK
  <2>1. Empty \in Stores /\ Full \in Stores
    BY DEF Empty, Full, Stores
  <2>2. Hydrate("none", FALSE) \in HydrateStates
    BY DEF Hydrate, HydrateStates
  <2>3. store \in Stores /\ graphPhase \in {"pending", "ready", "failed"}
    BY <2>1
  <2>4. hydrate \in [Hydrates -> HydrateStates]
    BY <2>2
  <2>5. watch \in [Watchers -> {"idle", "reading", "missing", "lost"}]
    OBVIOUS
  <2>6. losses \in 0..MaxLosses
    BY SMT
  <2>7. mixed \in BOOLEAN
    BY Zenon
  <2> QED BY <2>3, <2>4, <2>5, <2>6, <2>7 DEF GraphTypeOK, Stores, HydrateStates
<1>2. OneWriter /\ WriterKnows /\ MarkerMeansWhole
  BY DEF OneWriter, WriterKnows, MarkerMeansWhole, Empty, Full, Hydrate, Writing
<1> QED BY <1>1, <1>2 DEF GraphInv

\* A run starts: a second one among the writes of another is remembered.
LEMMA StartHydrateInv ==
  ASSUME GraphInv, NEW h \in Hydrates, StartHydrate(h)
  PROVE  GraphInv'
<1> USE DEF GraphInv, StartHydrate, HydrateAt
<1>1. GraphTypeOK'
  <2>1. (hydrate[h].memo \/ graphPhase = "failed") \in BOOLEAN
    OBVIOUS
  <2>2. /\ Hydrate("none", FALSE) \in HydrateStates
        /\ Hydrate("deleteMarker", hydrate[h].memo \/ graphPhase = "failed")
             \in HydrateStates
    BY <2>1 DEF Hydrate, HydrateStates, Writing
  <2>3. hydrate' \in [Hydrates -> HydrateStates]
    BY <2>2 DEF GraphTypeOK, HydrateStates
  <2>4. (mixed \/ OthersWrite(h)) \in BOOLEAN
    OBVIOUS
  <2>5. mixed' \in BOOLEAN
    BY <2>4 DEF GraphTypeOK
  <2> QED BY <2>3, <2>5 DEF GraphTypeOK, HydrateStates
<1>2. CASE graphPhase = "ready"
  BY <1>1, <1>2
     DEF GraphTypeOK, Hydrate, Writing, OneWriter, WriterKnows, MarkerMeansWhole
<1>3. CASE graphPhase # "ready"
  <2>1. \A g \in Hydrates : hydrate'[g].at = IF g = h THEN "deleteMarker"
                                             ELSE hydrate[g].at
    BY <1>3 DEF GraphTypeOK, Hydrate
  <2>2. ~mixed' =>
          /\ ~mixed
          /\ \A g \in Hydrates \ {h} : hydrate[g].at \notin Writing
    BY <1>3 DEF OthersWrite
  <2>3. OneWriter'
    BY <2>1, <2>2 DEF OneWriter
  <2>4. WriterKnows' /\ MarkerMeansWhole'
    BY <2>1, <2>2 DEF WriterKnows, MarkerMeansWhole
  <2> QED BY <1>1, <2>3, <2>4
<1> QED BY <1>2, <1>3

\* A part of the store is written or deleted.
LEMMA StoreTakes ==
  ASSUME store \in Stores, NEW b \in BOOLEAN, NEW d \in BOOLEAN
  PROVE  /\ [store EXCEPT !.marker = b] \in Stores
         /\ [store EXCEPT !.nodes = b] \in Stores
         /\ [store EXCEPT !.claims = b] \in Stores
         /\ [store EXCEPT !.nodes = b, !.claims = d] \in Stores
BY DEF Stores

LEMMA StatementTypes ==
  ASSUME GraphTypeOK, NEW h \in Hydrates,
         \/ DeleteMarker(h) \/ DeleteNodes(h) \/ WriteNodes(h)
         \/ WriteClaims(h) \/ WriteMarker(h)
  PROVE  GraphTypeOK'
<1>1. store \in Stores /\ store.nodes \in BOOLEAN
  BY DEF GraphTypeOK, Stores
<1>2. store' \in Stores
  BY <1>1, StoreTakes
     DEF DeleteMarker, DeleteNodes, WriteNodes, WriteClaims, WriteMarker
<1>3. hydrate' \in
        [Hydrates -> [at : {"none", "queued", "failing"} \cup Writing,
                      memo : BOOLEAN]]
  BY DEF GraphTypeOK, Forward, Writing, DeleteMarker, DeleteNodes, WriteNodes,
         WriteClaims, WriteMarker
<1> QED BY <1>2, <1>3
        DEF GraphTypeOK, Stores, DeleteMarker, DeleteNodes, WriteNodes,
            WriteClaims, WriteMarker

\* A statement of a run: it is the only writer, so it knows what the statements
\* before it left.
LEMMA StatementInv ==
  ASSUME GraphInv, NEW h \in Hydrates,
         \/ DeleteMarker(h) \/ DeleteNodes(h) \/ WriteNodes(h)
         \/ WriteClaims(h) \/ WriteMarker(h)
  PROVE  GraphInv'
<1> USE DEF GraphInv, GraphTypeOK, HydrateAt, Forward
<1>1. GraphTypeOK'
  BY StatementTypes
<1>2. ASSUME ~DeleteMarker(h)
      PROVE  OneWriter'
  BY <1>2 DEF OneWriter, Writing, DeleteNodes, WriteNodes, WriteClaims,
              WriteMarker
<1>3. CASE DeleteMarker(h)
  <2>1. /\ hydrate[h].at = "deleteMarker" /\ ~store'.marker
        /\ \A g \in Hydrates : hydrate'[g].at = IF g = h THEN "deleteNodes"
                                                ELSE hydrate[g].at
    BY <1>3 DEF DeleteMarker
  <2>2. ~mixed' => \A g \in Hydrates \ {h} : hydrate[g].at \notin Writing
    BY <1>3, <2>1 DEF DeleteMarker, OthersWrite, OneWriter, Writing
  <2>3. OneWriter'
    BY <2>1, <2>2 DEF OneWriter
  <2>4. WriterKnows'
    BY <2>1, <2>2 DEF WriterKnows, Writing
  <2> QED BY <1>1, <2>1, <2>3, <2>4 DEF MarkerMeansWhole
<1>4. CASE ~DeleteMarker(h) /\ DeleteNodes(h)
  <2>1. WriterKnows'
    BY <1>4 DEF DeleteNodes, OneWriter, Writing, WriterKnows
  <2>2. MarkerMeansWhole'
    BY <1>4 DEF DeleteNodes, OneWriter, Writing, WriterKnows, MarkerMeansWhole
  <2> QED BY <1>1, <1>2, <1>4, <2>1, <2>2
<1>5. CASE ~DeleteMarker(h) /\ WriteNodes(h)
  <2>1. WriterKnows'
    BY <1>5 DEF WriteNodes, OneWriter, Writing, WriterKnows
  <2>2. MarkerMeansWhole'
    BY <1>5 DEF WriteNodes, OneWriter, Writing, WriterKnows, MarkerMeansWhole
  <2> QED BY <1>1, <1>2, <1>5, <2>1, <2>2
<1>6. CASE ~DeleteMarker(h) /\ WriteClaims(h)
  <2>1. WriterKnows'
    BY <1>6 DEF WriteClaims, OneWriter, Writing, WriterKnows
  <2>2. MarkerMeansWhole'
    BY <1>6 DEF WriteClaims, OneWriter, Writing, WriterKnows, MarkerMeansWhole
  <2> QED BY <1>1, <1>2, <1>6, <2>1, <2>2
<1>7. CASE ~DeleteMarker(h) /\ WriteMarker(h)
  <2>1. WriterKnows'
    BY <1>7 DEF WriteMarker, OneWriter, Writing, WriterKnows
  <2>2. MarkerMeansWhole'
    BY <1>7 DEF WriteMarker, OneWriter, Writing, WriterKnows, MarkerMeansWhole
  <2> QED BY <1>1, <1>2, <1>7, <2>1, <2>2
<1> QED BY <1>3, <1>4, <1>5, <1>6, <1>7

\* A run leaves its writes: it ends, fails or starts again.
LEMMA LeaveInv ==
  ASSUME GraphInv, NEW h \in Hydrates,
         PersistReady(h) \/ WriteFails(h) \/ PersistFailed(h) \/ HydrateCrash(h)
  PROVE  GraphInv'
<1> USE GraphAssumption
    DEF GraphInv, GraphTypeOK, HydrateAt, Forward, Hydrate, Loss, Writing
<1>1. CASE PersistReady(h)
  BY <1>1 DEF PersistReady, OneWriter, WriterKnows, MarkerMeansWhole
<1>2. CASE WriteFails(h)
  BY <1>2 DEF WriteFails, OneWriter, WriterKnows, MarkerMeansWhole
<1>3. CASE PersistFailed(h)
  BY <1>3 DEF PersistFailed, OneWriter, WriterKnows, MarkerMeansWhole
<1>4. CASE HydrateCrash(h)
  BY <1>4 DEF HydrateCrash, OneWriter, WriterKnows, MarkerMeansWhole
<1> QED BY <1>1, <1>2, <1>3, <1>4

\* A run is queued: it does not write yet.
LEMMA QueueInv ==
  ASSUME GraphInv, NEW h \in Hydrates,
         \/ TipHydrate(h) \/ Rebuild(h)
         \/ \E w \in Watchers : StartRebuild(w, h)
  PROVE  GraphInv'
<1> USE DEF GraphInv, GraphTypeOK, HydrateAt, Queue, Hydrate, Writing, Watchers
<1>1. CASE TipHydrate(h)
  BY <1>1 DEF TipHydrate, OneWriter, WriterKnows, MarkerMeansWhole
<1>2. CASE Rebuild(h)
  BY <1>2 DEF Rebuild, OneWriter, WriterKnows, MarkerMeansWhole
<1>3. CASE \E w \in Watchers : StartRebuild(w, h)
  BY <1>3 DEF StartRebuild, OneWriter, WriterKnows, MarkerMeansWhole
<1> QED BY <1>1, <1>2, <1>3

\* Who looks at the graph changes neither the store nor a run.
LEMMA WatchInv ==
  ASSUME GraphInv, NEW w \in Watchers,
         Look(w) \/ Read(w) \/ MarkLost(w) \/ StartRebuildFails(w)
  PROVE  GraphInv'
<1> USE GraphAssumption DEF GraphInv, GraphTypeOK, Loss, Watchers
<1>1. GraphTypeOK'
  BY DEF Look, Read, MarkLost, StartRebuildFails
<1>2. UNCHANGED <<store, hydrate, mixed>>
  BY DEF Look, Read, MarkLost, StartRebuildFails
<1> QED BY <1>1, <1>2 DEF OneWriter, WriterKnows, MarkerMeansWhole

\* The store loses the graph: among the writes of a run that is remembered.
LEMMA StoreLosesInv ==
  ASSUME GraphInv, StoreLoses
  PROVE  GraphInv'
BY GraphAssumption
   DEF GraphInv, GraphTypeOK, StoreLoses, Loss, Empty, Writing, OneWriter,
       WriterKnows, MarkerMeansWhole

LEMMA GraphNext_Inv == GraphInv /\ [GraphNext]_graphVars => GraphInv'
<1> SUFFICES ASSUME GraphInv, [GraphNext]_graphVars PROVE GraphInv'
  OBVIOUS
<1>1. CASE HydrateWork
  BY <1>1, StartHydrateInv, StatementInv, LeaveInv DEF HydrateWork
<1>2. CASE TipHydrates
  BY <1>2, QueueInv DEF TipHydrates
<1>3. CASE StoreLoses
  BY <1>3, StoreLosesInv
<1>4. CASE \E h \in Hydrates : WriteFails(h) \/ HydrateCrash(h) \/ Rebuild(h)
  BY <1>4, LeaveInv, QueueInv
<1>5. CASE \E w \in Watchers : Look(w) \/ WatchWork(w) \/ StartRebuildFails(w)
  BY <1>5, WatchInv, QueueInv DEF WatchWork
<1>6. CASE UNCHANGED graphVars
  BY <1>6 DEF graphVars, GraphInv, GraphTypeOK, OneWriter, WriterKnows,
              MarkerMeansWhole
<1> QED BY <1>1, <1>2, <1>3, <1>4, <1>5, <1>6 DEF GraphNext

-----------------------------------------------------------------------------
(* Theorems *)

\* The invariant, whatever fails, crashes or is lost (graph-projection.ts,
\* writeWorkspaceRevisionGraph).
THEOREM GraphInvariance == GraphSpec => []GraphInv
BY GraphInit_Inv, GraphNext_Inv, PTL DEF GraphSpec

\* Every variable keeps its type.
THEOREM GraphTypes == GraphSpec => []GraphTypeOK
<1>1. GraphInv => GraphTypeOK
  BY DEF GraphInv
<1> QED BY <1>1, GraphInvariance, PTL

\* While one run writes and the store loses nothing amid its writes, a marker
\* stands over a whole graph, wherever a run failed, stopped and was repeated;
\* and after runs that overlapped, once one has begun alone
\* (graph-projection.ts, writeWorkspaceRevisionGraph).
THEOREM MarkersMeanWhole == GraphSpec => []MarkerMeansWhole
<1>1. GraphInv => MarkerMeansWhole
  BY DEF GraphInv
<1> QED BY <1>1, GraphInvariance, PTL
=============================================================================
