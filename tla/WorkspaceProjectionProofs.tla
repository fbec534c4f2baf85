---------------------- MODULE WorkspaceProjectionProofs ----------------------
(***************************************************************************)
(* Proofs about the projection of a Workspace, for any number of remotes,  *)
(* root folders, hydrate runs, tips and relinks.                           *)
(*                                                                         *)
(* Shape says what the values in flight look like: a sha that a process    *)
(* holds was a tip of its remote, and a tip is never older than the sha it *)
(* was asked for.  Order adds how they relate to the row, and needs that   *)
(* no two updates of the link overlap: every revision in flight is of the  *)
(* link of the row or of an earlier one, and what is served is never ahead *)
(* of what is wanted.                                                      *)
(***************************************************************************)
EXTENDS WorkspaceProjection, TLAPS

-----------------------------------------------------------------------------
(* The shape of the state *)

RowShape(w, t) ==
  /\ w \in Rows
  /\ w.sha <= t[w.url]
  /\ w.active # None => w.active.sha > 0

TipShape(t) == t \in [Urls -> Nat \ {0}]

CallerShape(k, t) ==
  /\ k \in CallerRecs
  /\ k.pc \in {"tip", "capture", "queue"} => k.exp \in Revisions
  /\ k.pc \in {"tip", "capture"} => k.exp.sha <= t[k.exp.url]
  /\ k.pc = "capture" => k.exp.sha <= k.tip /\ 0 < k.tip /\ k.tip <= t[k.exp.url]
  /\ k.pc = "queue" => k.exp.sha > 0

HydrateShape(k) ==
  /\ k \in HydrateRecs
  /\ k.pc # "free" => k.rev \in Revisions /\ k.rev.sha > 0

CallersShape == caller \in [Callers -> CallerRecs] /\ \A c \in Callers : CallerShape(caller[c], tip)
HydratesShape == hydrate \in [Hydrates -> HydrateRecs] /\ \A h \in Hydrates : HydrateShape(hydrate[h])
RelinkShape == relink \in [Relinkers -> Nat \cup {None}]
RestShape ==
  /\ built \subseteq Revisions
  /\ checkout \subseteq Urls
  /\ idxq \subseteq Revisions
  /\ idxrun \subseteq [rev : Revisions, has : BOOLEAN]

Shape ==
  /\ RowShape(ws, tip) /\ TipShape(tip) /\ CallersShape /\ HydratesShape
  /\ RelinkShape /\ RestShape

\* The shape implies the types.
LEMMA ShapeTypes == Shape => TypeOK
BY DEF Shape, TypeOK, RowShape, TipShape, CallersShape, HydratesShape, RelinkShape, RestShape

\* A caller that takes a new record of the right shape.
LEMMA CallerTakes ==
  ASSUME CallersShape, NEW c \in Callers, NEW k, CallerShape(k, tip),
         Set(c, k), tip' = tip
  PROVE  CallersShape'
BY DEF CallersShape, CallerShape, Set

\* A hydrate run that takes a new record of the right shape.
LEMMA HydrateTakes ==
  ASSUME HydratesShape, NEW h \in Hydrates, NEW k, HydrateShape(k),
         hydrate' = [hydrate EXCEPT ![h] = k]
  PROVE  HydratesShape'
BY DEF HydratesShape, HydrateShape

\* An idle caller and the last part of a check have the right shape.
LEMMA RestingCallers ==
  /\ CallerShape(IdleCaller, tip)
  /\ \A c \in Callers : CallersShape => CallerShape(LastPart(c), tip)
BY DEF CallerShape, CallersShape, IdleCaller, LastPart, CallerRecs, Uses

LEMMA CallerLeaves ==
  ASSUME CallersShape, NEW c \in Callers, Leave(c), tip' = tip
  PROVE  CallersShape'
BY RestingCallers, CallerTakes DEF Leave

LEMMA FreeSlotShape == HydrateShape(FreeSlot)
BY DEF HydrateShape, FreeSlot, HydrateRecs

LEMMA HydrateEnds ==
  ASSUME HydratesShape, NEW h \in Hydrates, Ends(h)
  PROVE  HydratesShape'
BY FreeSlotShape, HydrateTakes DEF Ends

LEMMA HydrateRestarts ==
  ASSUME HydratesShape, NEW h \in Hydrates, hydrate[h].pc # "free", Restart(h)
  PROVE  HydratesShape'
<1> DEFINE k == [hydrate[h] EXCEPT !.pc = "start", !.need = {}]
<1>1. HydrateShape(k)
  BY DEF HydratesShape, HydrateShape, HydrateRecs
<1>2. hydrate' = [hydrate EXCEPT ![h] = k]
  BY DEF Restart, HydratesShape, HydrateRecs
<1> QED BY <1>1, <1>2, HydrateTakes

LEMMA HydrateOnward ==
  ASSUME HydratesShape, NEW h \in Hydrates, hydrate[h].pc # "free",
         NEW step \in SUBSET {"retry", "failure"}, Onward(h, step)
  PROVE  HydratesShape'
<1> DEFINE next == FirstOf(hydrate[h].need)
           k == [hydrate[h] EXCEPT !.pc = next, !.need = hydrate[h].need \ {next},
                                   !.done = hydrate[h].done \cup step]
<1>1. CASE hydrate[h].need = {}
  BY <1>1, HydrateEnds DEF Onward
<1>2. CASE hydrate[h].need # {}
  <2>1. next \in {"graph", "emb", "index"}
    BY DEF FirstOf
  <2>2. HydrateShape(k)
    BY <2>1 DEF HydratesShape, HydrateShape, HydrateRecs
  <2>3. hydrate' = [hydrate EXCEPT ![h] = k]
    BY <1>2 DEF Onward
  <2> QED BY <2>2, <2>3, HydrateTakes
<1> QED BY <1>1, <1>2

\* A caller that reads the row.
LEMMA CallerReads ==
  ASSUME Shape, NEW c \in Callers, NEW use \in Uses, NEW again \in BOOLEAN,
         Reads(c, use, again), tip' = tip
  PROVE  CallersShape'
<1> DEFINE k == [pc |-> IF use = "check" \/ ws.sha = 0 THEN "tip" ELSE "capture",
                 use |-> use, exp |-> Desired, tip |-> ws.sha, again |-> again,
                 index |-> caller[c].index]
<1>1. Desired \in Revisions /\ Desired.sha = ws.sha /\ Desired.url = ws.url
  BY DEF Shape, RowShape, Rows, Desired, Revisions
<1>2. ws.sha \in Nat /\ ws.sha <= tip[ws.url] /\ caller[c].index \in Revisions \cup {None}
  BY DEF Shape, RowShape, Rows, CallersShape, CallerRecs
<1>3. CallerShape(k, tip)
  BY <1>1, <1>2 DEF CallerShape, CallerRecs
<1> QED BY <1>3, CallerTakes DEF Reads, Shape

LEMMA RowFails ==
  ASSUME RowShape(ws, tip), NEW reason \in {"none", "access", "other"}
  PROVE  RowShape(Fail(reason), tip)
BY DEF RowShape, Rows, Fail, Kinds

\* A store result, written or not.
LEMMA RowTakesResult ==
  ASSUME RowShape(ws, tip), NEW s, NEW kind \in Kinds
  PROVE  RowShape([ws EXCEPT !.st[s] = kind], tip)
BY DEF RowShape, Rows

LEMMA RowPersists ==
  ASSUME RowShape(ws, tip), NEW s, NEW rev, NEW kind \in Kinds,
         Persist(s, rev, kind)
  PROVE  RowShape(ws', tip)
BY RowTakesResult DEF Persist

LEMMA ShapeInit == Init => Shape
<1> SUFFICES ASSUME Init PROVE Shape
  OBVIOUS
<1>1. RowShape(ws, tip) /\ TipShape(tip)
  BY ProjectionAssumption DEF Init, RowShape, TipShape, Rows, Kinds
<1>2. CallersShape
  BY RestingCallers DEF Init, CallersShape, CallerShape
<1>3. HydratesShape
  BY FreeSlotShape DEF Init, HydratesShape, HydrateShape
<1> QED BY <1>1, <1>2, <1>3 DEF Init, Shape, RelinkShape, RestShape

LEMMA ShapeStep == Shape /\ [Next]_vars => Shape'
<1> SUFFICES ASSUME Shape, [Next]_vars PROVE Shape'
  OBVIOUS
<1> USE DEF Shape
<1>1. CASE HumanCommit
  <2>1. PICK u \in Urls : tip' = [tip EXCEPT ![u] = @ + 1]
    BY <1>1 DEF HumanCommit
  <2>2. TipShape(tip')
    BY <2>1 DEF TipShape
  <2>3. \A v \in Urls : tip[v] \in Nat /\ tip'[v] \in Nat /\ tip[v] <= tip'[v]
    BY <2>1 DEF TipShape
  <2>4. RowShape(ws, tip')
    BY <2>3 DEF RowShape, Rows
  <2>5. \A c \in Callers : CallerShape(caller[c], tip')
    BY <2>3 DEF CallersShape, CallerShape, CallerRecs, Revisions
  <2> QED BY <1>1, <2>2, <2>4, <2>5
    DEF HumanCommit, CallersShape, HydratesShape, RelinkShape, RestShape
<1>2. ASSUME NEW r \in Relinkers, RelinkRead(r) PROVE Shape'
  <2>1. RelinkShape'
    BY <1>2 DEF RelinkRead, RelinkShape, RowShape, Rows
  <2> QED BY <1>2, <2>1 DEF RelinkRead, CallersShape, HydratesShape, RestShape
<1>3. ASSUME NEW r \in Relinkers, RelinkWrite(r) PROVE Shape'
  <2>1. relink[r] \in Nat
    BY <1>3 DEF RelinkWrite, RelinkShape
  <2>2. PICK u \in Urls, f \in Roots, st \in {"pending", "failed"} :
          ws' = [ws EXCEPT !.gen = NextGeneration(relink[r]), !.url = u, !.root = f,
                           !.sha = 0, !.status = st,
                           !.reason = IF st = "failed" THEN "other" ELSE "none"]
    BY <1>3 DEF RelinkWrite
  <2>3. relink[r] + 1 \in Nat /\ tip[u] \in Nat /\ 0 <= tip[u]
    BY <2>1 DEF TipShape
  <2>4. ws' \in Rows
    BY <2>2, <2>3 DEF RowShape, Rows, Kinds, NextGeneration
  <2>5. ws'.url = u /\ ws'.sha = 0 /\ ws'.active = ws.active
    BY <2>2 DEF RowShape, Rows
  <2>6. RowShape(ws', tip)
    BY <2>3, <2>4, <2>5 DEF RowShape
  <2>7. RelinkShape'
    BY <1>3 DEF RelinkWrite, RelinkShape
  <2> QED BY <1>3, <2>6, <2>7 DEF RelinkWrite, CallersShape, HydratesShape, RestShape
<1>4. CASE GraphLost
  BY <1>4 DEF GraphLost, CallersShape, HydratesShape, RelinkShape, RestShape
<1>5. ASSUME NEW u \in Urls, Ingest(u) PROVE Shape'
  <2>1. Desired \in Revisions
    BY DEF RowShape, Rows, Desired, Revisions
  <2>2. RestShape'
    BY <1>5, <2>1 DEF Ingest, RestShape
  <2> QED BY <1>5, <2>2 DEF Ingest, CallersShape, HydratesShape, RelinkShape
<1>6. ASSUME NEW c \in Callers, Begin(c) \/ ReadRow(c) PROVE Shape'
  <2>1. PICK use \in Uses, again \in BOOLEAN : Reads(c, use, again)
    BY <1>6 DEF Begin, ReadRow, Uses, CallersShape, CallerRecs
  <2>2. CallersShape'
    BY <1>6, <2>1, CallerReads DEF Begin, ReadRow
  <2> QED BY <1>6, <2>2 DEF Begin, ReadRow, HydratesShape, RelinkShape, RestShape
<1>7. CASE Retry
  <2>1. RowShape(ws', tip)
    BY <1>7 DEF Retry, RowShape, Rows, Kinds
  <2>2. CallerShape([IdleCaller EXCEPT !.pc = "read"], tip)
    BY DEF CallerShape, IdleCaller, CallerRecs, Uses
  <2>3. CallersShape'
    BY <1>7, <2>2, CallerTakes DEF Retry
  <2> QED BY <1>7, <2>1, <2>3 DEF Retry, HydratesShape, RelinkShape, RestShape
<1>8. ASSUME NEW c \in Callers, ReadTip(c) PROVE Shape'
  <2> DEFINE k == [caller[c] EXCEPT !.pc = "capture", !.tip = tip[caller[c].exp.url]]
  <2>1. /\ caller[c] \in CallerRecs /\ caller[c].exp \in Revisions
        /\ caller[c].exp.sha <= tip[caller[c].exp.url]
    BY <1>8 DEF ReadTip, CallersShape, CallerShape
  <2>2. tip[caller[c].exp.url] \in Nat \ {0}
    BY <2>1 DEF TipShape, Revisions
  <2>3. /\ k \in CallerRecs /\ k.pc = "capture" /\ k.exp = caller[c].exp
        /\ k.tip = tip[k.exp.url]
    BY <2>1, <2>2 DEF CallerRecs
  <2>4. CallerShape(k, tip)
    BY <2>1, <2>2, <2>3 DEF CallerShape
  <2>5. CallersShape'
    BY <1>8, <2>4, CallerTakes DEF ReadTip
  <2> QED BY <1>8, <2>5 DEF ReadTip, HydratesShape, RelinkShape, RestShape
<1>9. ASSUME NEW c \in Callers, ReadTipFails(c) PROVE Shape'
  <2>1. CallersShape'
    BY <1>9, RestingCallers, CallerTakes, CallerLeaves DEF ReadTipFails
  <2>2. RowShape(ws', tip)
    BY <1>9, RowFails DEF ReadTipFails
  <2> QED BY <1>9, <2>1, <2>2 DEF ReadTipFails, HydratesShape, RelinkShape, RestShape
<1>10. ASSUME NEW c \in Callers, Capture(c) PROVE Shape'
  <2> DEFINE k == caller[c]
             stored == [Desired EXCEPT !.sha = k.tip]
             check == [IdleCaller EXCEPT !.pc = "decide", !.use = "check"]
  <2>1. /\ k \in CallerRecs /\ k.exp \in Revisions /\ k.tip > 0
        /\ k.tip <= tip[k.exp.url]
    BY <1>10 DEF Capture, CallersShape, CallerShape
  <2>2. stored \in Revisions /\ stored.sha = k.tip
    BY <2>1 DEF RowShape, Rows, Desired, Revisions, CallerRecs
  <2>3. CallerShape(check, tip) /\ CallerShape([check EXCEPT !.index = stored], tip)
    BY <2>2 DEF CallerShape, IdleCaller, CallerRecs, Uses
  <2>4. CallerShape([k EXCEPT !.pc = "queue", !.exp = stored, !.tip = 0], tip)
    BY <2>1, <2>2 DEF CallerShape, CallerRecs
  <2>5. CASE Capturable(k.exp)
    <3>1. RowShape(ws', tip)
      BY <1>10, <2>1, <2>5 DEF Capture, RowShape, Rows, Capturable, Matches, CallerRecs
    <3>2. CallersShape'
      BY <1>10, <2>3, <2>4, <2>5, CallerTakes DEF Capture
    <3> QED BY <1>10, <3>1, <3>2 DEF Capture, HydratesShape, RelinkShape, RestShape
  <2>6. CASE ~Capturable(k.exp)
    <3>1. CallersShape'
      BY <1>10, <2>3, <2>6, CallerTakes, CallerLeaves DEF Capture
    <3> QED BY <1>10, <2>6, <3>1 DEF Capture, HydratesShape, RelinkShape, RestShape
  <2> QED BY <2>5, <2>6
<1>11. ASSUME NEW c \in Callers, Decide(c) PROVE Shape'
  <2>1. CallerShape([caller[c] EXCEPT !.pc = "read", !.use = "due"], tip)
    BY DEF CallersShape, CallerShape, CallerRecs, Uses
  <2>2. CallersShape'
    BY <1>11, <2>1, RestingCallers, CallerTakes DEF Decide
  <2>3. Desired \in Revisions
    BY DEF RowShape, Rows, Desired, Revisions
  <2>4. RestShape'
    BY <1>11, <2>3 DEF Decide, RestShape
  <2> QED BY <1>11, <2>2, <2>4 DEF Decide, HydratesShape, RelinkShape
<1>12. ASSUME NEW c \in Callers, Queue(c) PROVE Shape'
  <2> DEFINE k == [FreeSlot EXCEPT !.pc = "start", !.rev = caller[c].exp,
                                   !.again = caller[c].again]
  <2>1. HydrateShape(k)
    BY <1>12 DEF Queue, CallersShape, CallerShape, CallerRecs, HydrateShape,
                 HydrateRecs, FreeSlot
  <2>2. HydratesShape'
    BY <1>12, <2>1, HydrateTakes DEF Queue
  <2>3. CallersShape'
    BY <1>12, CallerLeaves DEF Queue
  <2> QED BY <1>12, <2>2, <2>3 DEF Queue, RelinkShape, RestShape
<1>13. ASSUME NEW c \in Callers, QueueFails(c) PROVE Shape'
  <2>1. RowShape(ws', tip)
    BY <1>13, RowFails, RowTakesResult DEF QueueFails, Kinds
  <2>2. CallersShape'
    BY <1>13, CallerLeaves DEF QueueFails
  <2> QED BY <1>13, <2>1, <2>2 DEF QueueFails, HydratesShape, RelinkShape, RestShape
<1>14. ASSUME NEW c \in Callers, Rebuild(c) PROVE Shape'
  <2>1. RowShape(ws', tip)
    BY <1>14, RowTakesResult DEF Rebuild, Kinds
  <2>2. ws.active # None =>
          CallerShape([IdleCaller EXCEPT !.pc = "queue", !.use = "rebuild",
                                         !.exp = ws.active], tip)
    BY DEF RowShape, Rows, CallerShape, IdleCaller, CallerRecs, Uses
  <2>3. CallersShape'
    BY <1>14, <2>2, RestingCallers, CallerTakes DEF Rebuild
  <2>4. RestShape'
    BY <1>14 DEF Rebuild, RestShape, CallersShape, CallerRecs
  <2> QED BY <1>14, <2>1, <2>3, <2>4 DEF Rebuild, HydratesShape, RelinkShape
<1>15. ASSUME NEW c \in Callers, Stop(c) PROVE Shape'
  <2>1. CallersShape'
    BY <1>15, RestingCallers, CallerTakes DEF Stop
  <2> QED BY <1>15, <2>1 DEF Stop, HydratesShape, RelinkShape, RestShape
<1>16. ASSUME NEW h \in Hydrates, HydrateStart(h) PROVE Shape'
  <2> DEFINE k == hydrate[h]
             active == SameRevision(ws.active, k.rev) /\ ~k.again
             pending == {s \in Stores : ws.st[s] # "ready"}
             first == FirstOf(pending)
             next == [k EXCEPT !.rev = Desired,
               !.pc = IF ~active THEN "commit"
                      ELSE IF pending = {} THEN "settle"
                      ELSE IF first = "graph" /\ ws.st["graph"] = "failed" THEN "retry"
                      ELSE first,
               !.need = IF active THEN pending \ {first} ELSE Stores]
  <2>1. CASE ~Matches(k.rev)
    BY <1>16, <2>1, HydrateEnds DEF HydrateStart, CallersShape, RelinkShape, RestShape
  <2>2. CASE Matches(k.rev)
    <3>1. Desired \in Revisions /\ Desired.sha = k.rev.sha /\ k.rev.sha > 0
      BY <1>16, <2>2 DEF HydrateStart, Matches, RowShape, Rows, Desired, Revisions,
                         HydratesShape, HydrateShape
    <3>2. first \in {"graph", "emb", "index"}
      BY DEF FirstOf
    <3> HIDE DEF first, active
    <3>3. pending \subseteq Stores
      OBVIOUS
    <3> HIDE DEF pending
    <3>4. HydrateShape(next)
      BY <3>1, <3>2, <3>3 DEF HydratesShape, HydrateShape, HydrateRecs
    <3>5. hydrate' = [hydrate EXCEPT ![h] = next]
      BY <1>16, <2>2 DEF HydrateStart, first, active, pending
    <3>6. HydratesShape'
      BY <3>4, <3>5, HydrateTakes
    <3> QED BY <1>16, <3>6 DEF HydrateStart, CallersShape, RelinkShape, RestShape
  <2> QED BY <2>1, <2>2
<1>17. ASSUME NEW h \in Hydrates, HydrateSettle(h) PROVE Shape'
  <2>1. RowShape(ws', tip)
    BY <1>17 DEF HydrateSettle, RowShape, Rows, Kinds
  <2> QED BY <1>17, <2>1, HydrateEnds DEF HydrateSettle, CallersShape, RelinkShape, RestShape
<1>18. ASSUME NEW h \in Hydrates, HydrateCommit(h) PROVE Shape'
  <2>1. hydrate[h].rev \in Revisions /\ hydrate[h].rev.sha > 0
    BY <1>18 DEF HydrateCommit, HydratesShape, HydrateShape
  <2> DEFINE w == [ws EXCEPT !.active = hydrate[h].rev, !.status = "ready",
                             !.reason = "none", !.st = InitialPhases]
  <2>2. InitialPhases \in [Stores -> Kinds]
    BY DEF InitialPhases, Kinds
  <2>3. RowShape(w, tip)
    BY <2>1, <2>2 DEF RowShape, Rows, Kinds
  <2>4. RowShape(ws', tip)
    BY <1>18, <2>3 DEF HydrateCommit
  <2>5. HydratesShape'
    BY <1>18, HydrateEnds, HydrateOnward DEF HydrateCommit
  <2> QED BY <1>18, <2>4, <2>5 DEF HydrateCommit, CallersShape, RelinkShape, RestShape
<1>19. ASSUME NEW h \in Hydrates, HydrateRetryGraph(h) PROVE Shape'
  <2> DEFINE k == [hydrate[h] EXCEPT !.pc = "graph", !.done = @ \cup {"retry"}]
  <2>1. RowShape(ws', tip)
    BY <1>19, RowPersists DEF HydrateRetryGraph, Once, Kinds
  <2>2. HydrateShape(k)
    BY <1>19 DEF HydrateRetryGraph, HydratesShape, HydrateShape, HydrateRecs
  <2>3. hydrate' = [hydrate EXCEPT ![h] = k]
    BY <1>19 DEF HydrateRetryGraph, HydratesShape, HydrateRecs
  <2>4. HydratesShape'
    BY <2>2, <2>3, HydrateTakes
  <2> QED BY <1>19, <2>1, <2>4 DEF HydrateRetryGraph, CallersShape, RelinkShape, RestShape
<1>20. ASSUME NEW h \in Hydrates, HydrateGraph(h) \/ HydrateGraphFails(h) PROVE Shape'
  <2>1. RowShape(ws', tip)
    BY <1>20, RowPersists DEF HydrateGraph, HydrateGraphFails, Once, Kinds
  <2>2. HydratesShape'
    BY <1>20, HydrateOnward DEF HydrateGraph, HydrateGraphFails
  <2>3. RestShape'
    BY <1>20 DEF HydrateGraph, HydrateGraphFails, RestShape, HydratesShape, HydrateShape
  <2> QED BY <1>20, <2>1, <2>2, <2>3
    DEF HydrateGraph, HydrateGraphFails, CallersShape, RelinkShape
<1>21. ASSUME NEW h \in Hydrates, HydrateEmbed(h) \/ HydrateEmbedFails(h) PROVE Shape'
  <2>1. RowShape(ws', tip)
    BY <1>21, RowPersists, RowTakesResult DEF HydrateEmbed, HydrateEmbedFails, Kinds
  <2>2. HydratesShape'
    BY <1>21, HydrateOnward DEF HydrateEmbed, HydrateEmbedFails
  <2> QED BY <1>21, <2>1, <2>2
    DEF HydrateEmbed, HydrateEmbedFails, CallersShape, RelinkShape, RestShape
<1>22. ASSUME NEW h \in Hydrates, HydrateIndex(h) PROVE Shape'
  <2>1. RestShape'
    BY <1>22 DEF HydrateIndex, RestShape, HydratesShape, HydrateShape
  <2> QED BY <1>22, <2>1, HydrateEnds DEF HydrateIndex, CallersShape, RelinkShape
<1>23. ASSUME NEW h \in Hydrates, HydrateFails(h) \/ HydrateCrash(h) PROVE Shape'
  <2>1. RowShape(ws', tip)
    BY <1>23, RowFails DEF HydrateFails, HydrateCrash
  <2>2. HydratesShape'
    BY <1>23, HydrateEnds, HydrateRestarts DEF HydrateFails, HydrateCrash
  <2> QED BY <1>23, <2>1, <2>2
    DEF HydrateFails, HydrateCrash, CallersShape, RelinkShape, RestShape
<1>24. ASSUME NEW rev \in idxq, IndexStart(rev) PROVE Shape'
  <2>1. [rev |-> rev, has |-> rev.url \in checkout] \in [rev : Revisions, has : BOOLEAN]
    BY <1>24 DEF RestShape
  <2>2. idxrun' \subseteq [rev : Revisions, has : BOOLEAN]
    BY <1>24, <2>1 DEF IndexStart, RestShape
  <2>3. RestShape'
    BY <1>24, <2>2 DEF IndexStart, RestShape
  <2> QED BY <1>24, <2>3 DEF IndexStart, CallersShape, HydratesShape, RelinkShape
<1>25. ASSUME NEW r \in idxrun, IndexEnd(r) PROVE Shape'
  <2>1. RowShape(ws', tip)
    BY <1>25, RowPersists DEF IndexEnd, Kinds
  <2> QED BY <1>25, <2>1 DEF IndexEnd, CallersShape, HydratesShape, RelinkShape, RestShape
<1>26. CASE UNCHANGED vars
  BY <1>26 DEF vars, CallersShape, HydratesShape, RelinkShape, RestShape
<1> QED
  BY <1>1, <1>2, <1>3, <1>4, <1>5, <1>6, <1>7, <1>8, <1>9, <1>10, <1>11, <1>12, <1>13,
     <1>14, <1>15, <1>16, <1>17, <1>18, <1>19, <1>20, <1>21, <1>22, <1>23, <1>24,
     <1>25, <1>26
  DEF Next, Work, Disturbance, Resolve, Hydrate

\* Every value that is reachable has its type.
THEOREM TypeCorrect == Spec => []TypeOK
BY ShapeInit, ShapeStep, ShapeTypes, PTL DEF Spec

-----------------------------------------------------------------------------
(* The order of the revisions *)

\* updateWorkspace is not called again before it is over.
OneRelinker == \A a, b \in Relinkers : a = b

\* A revision of the link of row w, or of an earlier link.
Current(rev, w) ==
  rev.gen <= w.gen /\ (rev.gen = w.gen => rev.url = w.url /\ rev.root = w.root)

RowOrder(w) ==
  /\ w.active # None =>
       /\ Current(w.active, w)
       /\ w.active.gen = w.gen => w.active.sha <= w.sha
  /\ w.status = "ready" => w.active # None /\ w.active.gen = w.gen /\ w.active.url = w.url
  /\ w.status = "failed" /\ w.reason = "other" =>
       w.sha = 0 \/ w.active # [gen |-> w.gen, url |-> w.url, root |-> w.root, sha |-> w.sha]

CallerOrder(k, w) == k.pc \in {"tip", "capture", "queue"} => Current(k.exp, w)
HydrateOrder(k, w) == k.pc # "free" => Current(k.rev, w)

CallersOrder == \A c \in Callers : CallerOrder(caller[c], ws)
HydratesOrder == \A h \in Hydrates : HydrateOrder(hydrate[h], ws)
RelinksOrder == \A r \in Relinkers : relink[r] # None => relink[r] = ws.gen

Order == RowOrder(ws) /\ CallersOrder /\ HydratesOrder /\ RelinksOrder

\* A step that leaves the link alone.
SameLink == ws'.gen = ws.gen /\ ws'.url = ws.url /\ ws'.root = ws.root

LEMMA CallerOrderTakes ==
  ASSUME CallersShape, CallersOrder, SameLink, NEW c \in Callers, NEW k,
         CallerOrder(k, ws), Set(c, k)
  PROVE  CallersOrder'
BY DEF CallersShape, CallersOrder, CallerOrder, Current, SameLink, Set

LEMMA RestingOrder ==
  CallerOrder(IdleCaller, ws) /\ \A c \in Callers : CallerOrder(LastPart(c), ws)
BY DEF CallerOrder, IdleCaller, LastPart

LEMMA CallerOrderLeaves ==
  ASSUME CallersShape, CallersOrder, SameLink, NEW c \in Callers, Leave(c)
  PROVE  CallersOrder'
BY RestingOrder, CallerOrderTakes DEF Leave

LEMMA CallersOrderKept ==
  ASSUME CallersOrder, SameLink, caller' = caller
  PROVE  CallersOrder'
BY DEF CallersOrder, CallerOrder, Current, SameLink

LEMMA HydrateOrderTakes ==
  ASSUME HydratesShape, HydratesOrder, SameLink, NEW h \in Hydrates, NEW k,
         HydrateOrder(k, ws), hydrate' = [hydrate EXCEPT ![h] = k]
  PROVE  HydratesOrder'
BY DEF HydratesShape, HydratesOrder, HydrateOrder, Current, SameLink

LEMMA HydratesOrderKept ==
  ASSUME HydratesOrder, SameLink, hydrate' = hydrate
  PROVE  HydratesOrder'
BY DEF HydratesOrder, HydrateOrder, Current, SameLink

\* A run keeps its revision as long as it runs.
LEMMA HydrateOrderGoes ==
  ASSUME HydratesShape, HydratesOrder, SameLink, NEW h \in Hydrates,
         hydrate[h].pc # "free",
         \/ Ends(h) \/ Restart(h)
         \/ \E step \in SUBSET {"retry", "failure"} : Onward(h, step)
  PROVE  HydratesOrder'
<1>1. hydrate[h] \in HydrateRecs /\ Current(hydrate[h].rev, ws)
  BY DEF HydratesShape, HydratesOrder, HydrateOrder
<1>2. CASE Ends(h)
  <2>1. HydrateOrder(FreeSlot, ws)
    BY DEF HydrateOrder, FreeSlot
  <2> QED BY <1>2, <2>1, HydrateOrderTakes DEF Ends
<1>3. CASE Restart(h)
  <2> DEFINE k == [hydrate[h] EXCEPT !.pc = "start", !.need = {}]
  <2>1. HydrateOrder(k, ws)
    BY <1>1 DEF HydrateOrder, HydrateRecs
  <2>2. hydrate' = [hydrate EXCEPT ![h] = k]
    BY <1>3 DEF Restart, HydratesShape, HydrateRecs
  <2> QED BY <2>1, <2>2, HydrateOrderTakes
<1>4. ASSUME NEW step \in SUBSET {"retry", "failure"}, Onward(h, step), ~Ends(h)
      PROVE  HydratesOrder'
  <2> DEFINE next == FirstOf(hydrate[h].need)
             k == [hydrate[h] EXCEPT !.pc = next, !.need = hydrate[h].need \ {next},
                                     !.done = hydrate[h].done \cup step]
  <2>1. HydrateOrder(k, ws)
    BY <1>1 DEF HydrateOrder, HydrateRecs
  <2>2. hydrate' = [hydrate EXCEPT ![h] = k]
    BY <1>4 DEF Onward
  <2> QED BY <2>1, <2>2, HydrateOrderTakes
<1> QED BY <1>2, <1>3, <1>4

LEMMA RelinksOrderKept ==
  ASSUME RelinksOrder, SameLink, relink' = relink
  PROVE  RelinksOrder'
BY DEF RelinksOrder, SameLink

\* What matches the row, and is not of another link, is what the row wants.
LEMMA MatchIsDesired ==
  ASSUME ws \in Rows, NEW rev \in Revisions, Current(rev, ws), Matches(rev)
  PROVE  rev = Desired
BY DEF Rows, Revisions, Current, Matches, Desired

\* An access failure is always shown; another one only of an unserved revision.
LEMMA RowOrderFails ==
  ASSUME ws \in Rows, RowOrder(ws), NEW reason \in {"access", "other"},
         reason = "other" => ws.sha = 0 \/ ws.active # Desired
  PROVE  RowOrder(Fail(reason)) /\ (ws' = Fail(reason) => SameLink)
BY DEF Rows, RowOrder, Fail, Current, Desired, SameLink

LEMMA RowOrderFailable ==
  ASSUME ws \in Rows, RowOrder(ws), NEW rev \in Revisions, Current(rev, ws), Failable(rev)
  PROVE  RowOrder(Fail("other")) /\ (ws' = Fail("other") => SameLink)
BY MatchIsDesired, RowOrderFails DEF Failable

LEMMA RowOrderResult ==
  ASSUME ws \in Rows, RowOrder(ws), NEW s, NEW kind, ws' = [ws EXCEPT !.st[s] = kind]
  PROVE  RowOrder(ws') /\ SameLink
BY DEF Rows, RowOrder, Current, SameLink

LEMMA RowOrderPersists ==
  ASSUME ws \in Rows, RowOrder(ws), NEW s, NEW rev, NEW kind, Persist(s, rev, kind)
  PROVE  RowOrder(ws') /\ SameLink
BY RowOrderResult DEF Persist, SameLink

LEMMA OrderInit == Init => Order
BY DEF Init, Order, RowOrder, CallersOrder, CallerOrder, IdleCaller, HydratesOrder,
       HydrateOrder, FreeSlot, RelinksOrder

LEMMA OrderStep == OneRelinker /\ Shape /\ Order /\ [Next]_vars => Order'
<1> SUFFICES ASSUME OneRelinker, Shape, Order, [Next]_vars PROVE Order'
  OBVIOUS
<1>0. /\ ws \in Rows /\ CallersShape /\ HydratesShape
      /\ RowOrder(ws) /\ CallersOrder /\ HydratesOrder /\ RelinksOrder
  BY DEF Shape, RowShape, Order
\* Steps that leave the row and the callers, hydrates and relinks alone.
<1>1. ASSUME ws' = ws PROVE SameLink /\ RowOrder(ws')
  BY <1>0, <1>1 DEF SameLink
<1>2. CASE HumanCommit \/ GraphLost \/ (\E u \in Urls : Ingest(u))
           \/ (\E rev \in idxq : IndexStart(rev)) \/ UNCHANGED vars
  BY <1>0, <1>1, <1>2, CallersOrderKept, HydratesOrderKept, RelinksOrderKept
  DEF HumanCommit, GraphLost, Ingest, IndexStart, vars, Order
<1>3. ASSUME NEW r \in Relinkers, RelinkRead(r) PROVE Order'
  <2>1. RelinksOrder'
    BY <1>0, <1>3 DEF RelinkRead, RelinksOrder, Shape, RelinkShape
  <2> QED BY <1>0, <1>1, <1>3, <2>1, CallersOrderKept, HydratesOrderKept DEF RelinkRead, Order
<1>4. ASSUME NEW r \in Relinkers, RelinkWrite(r) PROVE Order'
  <2>1. PICK u \in Urls, f \in Roots, st \in {"pending", "failed"} :
          ws' = [ws EXCEPT !.gen = NextGeneration(relink[r]), !.url = u, !.root = f,
                           !.sha = 0, !.status = st,
                           !.reason = IF st = "failed" THEN "other" ELSE "none"]
    BY <1>4 DEF RelinkWrite
  <2>2. relink[r] = ws.gen
    BY <1>0, <1>4 DEF RelinkWrite, RelinksOrder
  <2>3. /\ ws.gen \in Nat /\ ws'.gen = ws.gen + 1 /\ ws'.sha = 0
        /\ ws'.active = ws.active /\ ws'.status # "ready"
    BY <1>0, <2>1, <2>2 DEF Rows, NextGeneration
  <2>4. \A rev \in Revisions : Current(rev, ws) => Current(rev, ws') /\ rev.gen # ws'.gen
    BY <2>3 DEF Current, Revisions
  <2>5. RowOrder(ws')
    BY <1>0, <2>3, <2>4 DEF RowOrder, Rows
  <2>6. CallersOrder'
    BY <1>0, <1>4, <2>4 DEF RelinkWrite, CallersOrder, CallerOrder, CallersShape, CallerShape
  <2>7. HydratesOrder'
    BY <1>0, <1>4, <2>4 DEF RelinkWrite, HydratesOrder, HydrateOrder, HydratesShape, HydrateShape
  <2>8. RelinksOrder'
    BY <1>4 DEF RelinkWrite, RelinksOrder, OneRelinker, Shape, RelinkShape
  <2> QED BY <2>5, <2>6, <2>7, <2>8 DEF Order
<1>5. ASSUME NEW c \in Callers, Begin(c) \/ ReadRow(c) PROVE Order'
  <2>1. PICK use, again : Reads(c, use, again)
    BY <1>5 DEF Begin, ReadRow
  <2> DEFINE k == [pc |-> IF use = "check" \/ ws.sha = 0 THEN "tip" ELSE "capture",
                   use |-> use, exp |-> Desired, tip |-> ws.sha, again |-> again,
                   index |-> caller[c].index]
  <2>2. CallerOrder(k, ws)
    BY <1>0 DEF CallerOrder, Current, Desired, Rows
  <2>3. ws' = ws
    BY <1>5 DEF Begin, ReadRow
  <2>4. CallersOrder'
    BY <1>0, <1>1, <2>1, <2>2, <2>3, CallerOrderTakes DEF Reads
  <2> QED BY <1>0, <1>1, <1>5, <2>3, <2>4, HydratesOrderKept, RelinksOrderKept
    DEF Begin, ReadRow, Order
<1>6. CASE Retry
  <2>1. RowOrder(ws') /\ SameLink
    BY <1>0, <1>6 DEF Retry, RowOrder, Rows, Current, SameLink
  <2>2. CallerOrder([IdleCaller EXCEPT !.pc = "read"], ws)
    BY DEF CallerOrder, IdleCaller
  <2>3. CallersOrder'
    BY <1>0, <1>6, <2>1, <2>2, CallerOrderTakes DEF Retry
  <2> QED BY <1>0, <1>6, <2>1, <2>3, HydratesOrderKept, RelinksOrderKept DEF Retry, Order
<1>7. ASSUME NEW c \in Callers, ReadTip(c) PROVE Order'
  <2> DEFINE k == [caller[c] EXCEPT !.pc = "capture", !.tip = tip[caller[c].exp.url]]
  <2>1. CallerOrder(k, ws)
    BY <1>0, <1>7 DEF ReadTip, CallersOrder, CallerOrder, CallersShape, CallerRecs
  <2>2. CallersOrder'
    BY <1>0, <1>1, <1>7, <2>1, CallerOrderTakes DEF ReadTip
  <2> QED BY <1>0, <1>1, <1>7, <2>2, HydratesOrderKept, RelinksOrderKept DEF ReadTip, Order
<1>8. ASSUME NEW c \in Callers, ReadTipFails(c) PROVE Order'
  <2>1. caller[c].exp \in Revisions /\ Current(caller[c].exp, ws)
    BY <1>0, <1>8 DEF ReadTipFails, CallersOrder, CallerOrder, CallersShape, CallerShape
  <2>2. RowOrder(ws') /\ SameLink
    <3>1. PICK reason \in {"access", "other"} :
            ws' = IF Matches(caller[c].exp) /\ (reason = "access" \/ caller[c].exp.sha = 0
                                                 \/ ws.active # caller[c].exp)
                    THEN Fail(reason) ELSE ws
      BY <1>8 DEF ReadTipFails
    <3>2. CASE ws' = ws
      BY <1>1, <3>2
    <3>3. CASE ws' # ws
      <4>1. Matches(caller[c].exp)
        BY <3>1, <3>3
      <4>2. caller[c].exp = Desired
        BY <1>0, <2>1, <4>1, MatchIsDesired
      <4>3. reason = "other" => ws.sha = 0 \/ ws.active # Desired
        BY <3>1, <3>3, <4>2 DEF Desired
      <4> QED BY <1>0, <3>1, <3>3, <4>3, RowOrderFails
    <3> QED BY <3>2, <3>3
  <2>3. CallersOrder'
    BY <1>0, <1>8, <2>2, RestingOrder, CallerOrderTakes, CallerOrderLeaves DEF ReadTipFails
  <2> QED BY <1>0, <1>8, <2>2, <2>3, HydratesOrderKept, RelinksOrderKept
    DEF ReadTipFails, Order
<1>9. ASSUME NEW c \in Callers, Capture(c) PROVE Order'
  <2> DEFINE k == caller[c]
             stored == [Desired EXCEPT !.sha = k.tip]
             check == [IdleCaller EXCEPT !.pc = "decide", !.use = "check"]
  <2>1. /\ k \in CallerRecs /\ k.exp \in Revisions
        /\ k.exp.sha <= k.tip /\ k.tip > 0
    BY <1>0, <1>9 DEF Capture, CallersShape, CallerShape
  <2>2. CallerOrder(check, ws) /\ CallerOrder([check EXCEPT !.index = stored], ws)
    BY DEF CallerOrder, IdleCaller
  <2>3. CASE Capturable(k.exp)
    <3>1. ws' = [ws EXCEPT !.sha = k.tip] /\ ws.sha <= k.tip /\ k.tip \in Nat
      BY <1>9, <2>1, <2>3 DEF Capture, Capturable, Matches, CallerRecs
    <3>2. SameLink
      BY <1>0, <3>1 DEF Rows, SameLink
    <3>3. RowOrder(ws')
      <4>1. /\ ws'.gen = ws.gen /\ ws'.url = ws.url /\ ws'.root = ws.root
            /\ ws'.status = ws.status /\ ws'.reason = ws.reason
            /\ ws'.active = ws.active /\ ws'.sha = k.tip /\ ws.sha \in Nat
        BY <1>0, <3>1 DEF Rows
      <4>2. ws.active # None => ws.active \in Revisions
        BY <1>0 DEF Rows
      <4>3. ws.active # None /\ ws.active.gen = ws.gen => ws.active.sha <= k.tip
        BY <1>0, <3>1, <4>1, <4>2 DEF RowOrder, Revisions
      <4>4. ws.active = [gen |-> ws.gen, url |-> ws.url, root |-> ws.root, sha |-> k.tip]
              => ws.sha = k.tip
        <5> SUFFICES ASSUME ws.active = [gen |-> ws.gen, url |-> ws.url,
                                         root |-> ws.root, sha |-> k.tip]
                     PROVE  ws.sha = k.tip
          OBVIOUS
        <5>1. ws.active \in Revisions
          BY <1>0, <3>1 DEF Rows, Revisions
        <5>2. ws.active # None
          BY <5>1, NoneAssumption
        <5>3. ws.active.sha <= ws.sha
          BY <1>0, <5>2 DEF RowOrder
        <5> QED BY <3>1, <4>1, <5>3
      <4>5. ws.sha = 0 => ws.active # [gen |-> ws.gen, url |-> ws.url,
                                       root |-> ws.root, sha |-> k.tip]
        BY <2>1, <4>4 DEF CallerRecs
      <4> QED BY <1>0, <4>1, <4>3, <4>4, <4>5 DEF RowOrder, Current
    <3>4. CallerOrder([k EXCEPT !.pc = "queue", !.exp = stored, !.tip = 0], ws)
      BY <1>0, <2>1 DEF CallerOrder, CallerRecs, Current, Desired, Rows
    <3>5. CallersOrder'
      BY <1>0, <1>9, <2>2, <2>3, <3>2, <3>4, CallerOrderTakes DEF Capture
    <3> QED BY <1>0, <1>9, <3>2, <3>3, <3>5, HydratesOrderKept, RelinksOrderKept
      DEF Capture, Order
  <2>4. CASE ~Capturable(k.exp)
    <3>1. ws' = ws
      BY <1>9, <2>4 DEF Capture
    <3>2. CallersOrder'
      BY <1>0, <1>1, <1>9, <2>2, <2>4, <3>1, CallerOrderTakes, CallerOrderLeaves DEF Capture
    <3> QED BY <1>0, <1>1, <1>9, <3>1, <3>2, HydratesOrderKept, RelinksOrderKept
      DEF Capture, Order
  <2> QED BY <2>3, <2>4
<1>10. ASSUME NEW c \in Callers, Decide(c) PROVE Order'
  <2>1. CallerOrder([caller[c] EXCEPT !.pc = "read", !.use = "due"], ws)
    BY <1>0 DEF CallerOrder, CallersShape, CallerRecs
  <2>2. CallersOrder'
    BY <1>0, <1>1, <1>10, <2>1, RestingOrder, CallerOrderTakes DEF Decide
  <2> QED BY <1>0, <1>1, <1>10, <2>2, HydratesOrderKept, RelinksOrderKept DEF Decide, Order
<1>11. ASSUME NEW c \in Callers, Queue(c) PROVE Order'
  <2>1. CallersOrder'
    BY <1>0, <1>1, <1>11, CallerOrderLeaves DEF Queue
  <2>2. Current(caller[c].exp, ws)
    BY <1>0, <1>11 DEF Queue, CallersOrder, CallerOrder
  <2>3. HydrateOrder([FreeSlot EXCEPT !.pc = "start", !.rev = caller[c].exp,
                                      !.again = caller[c].again], ws)
    BY <2>2 DEF HydrateOrder, FreeSlot
  <2>4. HydratesOrder'
    BY <1>0, <1>1, <1>11, <2>3, HydrateOrderTakes DEF Queue
  <2> QED BY <1>0, <1>1, <1>11, <2>1, <2>4, RelinksOrderKept DEF Queue, Order
<1>12. ASSUME NEW c \in Callers, QueueFails(c) PROVE Order'
  <2>1. caller[c].exp \in Revisions /\ Current(caller[c].exp, ws)
    BY <1>0, <1>12 DEF QueueFails, CallersOrder, CallerOrder, CallersShape, CallerShape
  <2>2. RowOrder(ws') /\ SameLink
    BY <1>0, <1>1, <1>12, <2>1, RowOrderFailable, RowOrderResult DEF QueueFails
  <2>3. CallersOrder'
    BY <1>0, <1>12, <2>2, CallerOrderLeaves DEF QueueFails
  <2> QED BY <1>0, <1>12, <2>2, <2>3, HydratesOrderKept, RelinksOrderKept DEF QueueFails, Order
<1>13. ASSUME NEW c \in Callers, Rebuild(c) PROVE Order'
  <2>1. RowOrder(ws') /\ SameLink
    BY <1>0, <1>1, <1>13, RowOrderResult DEF Rebuild
  <2>2. ws.active # None =>
          CallerOrder([IdleCaller EXCEPT !.pc = "queue", !.use = "rebuild",
                                         !.exp = ws.active], ws)
    BY <1>0 DEF RowOrder, CallerOrder, IdleCaller
  <2>3. CallersOrder'
    BY <1>0, <1>13, <2>1, <2>2, RestingOrder, CallerOrderTakes DEF Rebuild
  <2> QED BY <1>0, <1>13, <2>1, <2>3, HydratesOrderKept, RelinksOrderKept DEF Rebuild, Order
<1>14. ASSUME NEW c \in Callers, Stop(c) PROVE Order'
  <2>1. CallersOrder'
    BY <1>0, <1>1, <1>14, RestingOrder, CallerOrderTakes DEF Stop
  <2> QED BY <1>0, <1>1, <1>14, <2>1, HydratesOrderKept, RelinksOrderKept DEF Stop, Order
<1>15. ASSUME NEW h \in Hydrates, HydrateStart(h) PROVE Order'
  <2>1. Current(Desired, ws) /\ hydrate[h] \in HydrateRecs
    BY <1>0 DEF Current, Desired, Rows, HydratesShape
  <2>2. ~Ends(h) => \E pc, need :
          hydrate' = [hydrate EXCEPT ![h] = [hydrate[h] EXCEPT !.rev = Desired,
                                               !.pc = pc, !.need = need]]
    BY <1>15 DEF HydrateStart
  <2>3. \A pc, need :
          HydrateOrder([hydrate[h] EXCEPT !.rev = Desired, !.pc = pc, !.need = need], ws)
    BY <2>1 DEF HydrateOrder, HydrateRecs
  <2>4. SameLink /\ hydrate[h].pc # "free"
    BY <1>1, <1>15 DEF HydrateStart
  <2>5. ASSUME Ends(h) PROVE HydratesOrder'
    BY <1>0, <2>4, <2>5, HydrateOrderGoes
  <2>6. ASSUME ~Ends(h) PROVE HydratesOrder'
    <3>1. PICK pc, need :
            hydrate' = [hydrate EXCEPT ![h] = [hydrate[h] EXCEPT !.rev = Desired,
                                                 !.pc = pc, !.need = need]]
      BY <2>2, <2>6
    <3>2. HydrateOrder([hydrate[h] EXCEPT !.rev = Desired, !.pc = pc, !.need = need], ws)
      BY <2>3
    <3> QED BY <1>0, <2>4, <3>1, <3>2, HydrateOrderTakes
  <2>7. HydratesOrder'
    BY <2>5, <2>6
  <2> QED BY <1>0, <1>1, <1>15, <2>7, CallersOrderKept, RelinksOrderKept
    DEF HydrateStart, Order
<1>16. ASSUME NEW h \in Hydrates, HydrateSettle(h) PROVE Order'
  <2>1. RowOrder(ws') /\ SameLink
    <3>1. CASE Settleable(hydrate[h].rev)
      <4>1. ws' = [ws EXCEPT !.status = "ready", !.reason = "none"]
        BY <1>16, <3>1 DEF HydrateSettle
      <4>2. /\ ws'.gen = ws.gen /\ ws'.url = ws.url /\ ws'.root = ws.root
            /\ ws'.sha = ws.sha /\ ws'.active = ws.active /\ ws'.status = "ready"
        BY <1>0, <4>1 DEF Rows
      <4>3. ws.active \in Revisions /\ ws.active.gen = ws.gen
        BY <1>0, <1>16, <3>1 DEF HydrateSettle, Settleable, HydratesShape, HydrateShape
      <4>4. ws.active # None /\ ws.active.url = ws.url
        BY <1>0, <4>3, NoneAssumption DEF RowOrder, Current
      <4> QED BY <1>0, <4>2, <4>3, <4>4 DEF RowOrder, Current, SameLink
    <3>2. CASE ~Settleable(hydrate[h].rev)
      BY <1>1, <1>16, <3>2 DEF HydrateSettle
    <3> QED BY <3>1, <3>2
  <2>2. HydratesOrder'
    BY <1>0, <1>16, <2>1, HydrateOrderGoes DEF HydrateSettle
  <2> QED BY <1>0, <1>16, <2>1, <2>2, CallersOrderKept, RelinksOrderKept
    DEF HydrateSettle, Order
<1>17. ASSUME NEW h \in Hydrates, HydrateCommit(h) PROVE Order'
  <2>1. hydrate[h].rev \in Revisions /\ Current(hydrate[h].rev, ws)
    BY <1>0, <1>17 DEF HydrateCommit, HydratesOrder, HydrateOrder, HydratesShape, HydrateShape
  <2>2. RowOrder(ws') /\ SameLink
    <3>1. CASE Activatable(hydrate[h].rev)
      <4>1. ws' = [ws EXCEPT !.active = hydrate[h].rev, !.status = "ready",
                             !.reason = "none", !.st = InitialPhases]
        BY <1>17, <3>1 DEF HydrateCommit
      <4>2. /\ ws'.gen = ws.gen /\ ws'.url = ws.url /\ ws'.root = ws.root
            /\ ws'.sha = ws.sha /\ ws'.active = hydrate[h].rev /\ ws'.status = "ready"
        BY <1>0, <4>1 DEF Rows
      <4>3. /\ hydrate[h].rev.gen = ws.gen /\ hydrate[h].rev.url = ws.url
            /\ hydrate[h].rev.sha = ws.sha /\ ws.sha \in Nat
        BY <1>0, <3>1 DEF Activatable, Matches, Rows
      <4>4. hydrate[h].rev # None
        BY <2>1, NoneAssumption
      <4> QED BY <2>1, <4>2, <4>3, <4>4 DEF RowOrder, Current, SameLink
    <3>2. CASE ~Activatable(hydrate[h].rev)
      BY <1>1, <1>17, <3>2 DEF HydrateCommit
    <3> QED BY <3>1, <3>2
  <2>3. HydratesOrder'
    BY <1>0, <1>17, <2>2, HydrateOrderGoes DEF HydrateCommit
  <2> QED BY <1>0, <1>17, <2>2, <2>3, CallersOrderKept, RelinksOrderKept
    DEF HydrateCommit, Order
<1>18. ASSUME NEW h \in Hydrates, HydrateRetryGraph(h) PROVE Order'
  <2>1. RowOrder(ws') /\ SameLink
    BY <1>0, <1>1, <1>18, RowOrderPersists DEF HydrateRetryGraph, Once
  <2> DEFINE k == [hydrate[h] EXCEPT !.pc = "graph", !.done = @ \cup {"retry"}]
  <2>2. HydrateOrder(k, ws)
    BY <1>0, <1>18 DEF HydrateRetryGraph, HydratesOrder, HydrateOrder, HydratesShape, HydrateRecs
  <2>3. hydrate' = [hydrate EXCEPT ![h] = k]
    BY <1>0, <1>18 DEF HydrateRetryGraph, HydratesShape, HydrateRecs
  <2>4. HydratesOrder'
    BY <1>0, <2>1, <2>2, <2>3, HydrateOrderTakes
  <2> QED BY <1>0, <1>18, <2>1, <2>4, CallersOrderKept, RelinksOrderKept
    DEF HydrateRetryGraph, Order
<1>19. ASSUME NEW h \in Hydrates,
              \/ HydrateGraph(h) \/ HydrateGraphFails(h)
              \/ HydrateEmbed(h) \/ HydrateEmbedFails(h)
       PROVE  Order'
  <2>1. RowOrder(ws') /\ SameLink
    BY <1>0, <1>1, <1>19, RowOrderPersists, RowOrderResult
    DEF HydrateGraph, HydrateGraphFails, HydrateEmbed, HydrateEmbedFails, Once
  <2>2. HydratesOrder'
    BY <1>0, <1>19, <2>1, HydrateOrderGoes
    DEF HydrateGraph, HydrateGraphFails, HydrateEmbed, HydrateEmbedFails
  <2> QED BY <1>0, <1>19, <2>1, <2>2, CallersOrderKept, RelinksOrderKept
    DEF HydrateGraph, HydrateGraphFails, HydrateEmbed, HydrateEmbedFails, Order
<1>20. ASSUME NEW h \in Hydrates, HydrateIndex(h) PROVE Order'
  <2>1. HydratesOrder'
    BY <1>0, <1>1, <1>20, HydrateOrderGoes DEF HydrateIndex
  <2> QED BY <1>0, <1>1, <1>20, <2>1, CallersOrderKept, RelinksOrderKept DEF HydrateIndex, Order
<1>21. ASSUME NEW h \in Hydrates, HydrateFails(h) \/ HydrateCrash(h) PROVE Order'
  <2>1. hydrate[h].rev \in Revisions /\ Current(hydrate[h].rev, ws)
    BY <1>0, <1>21 DEF HydrateFails, HydrateCrash, HydratesOrder, HydrateOrder,
                       HydratesShape, HydrateShape
  <2>2. RowOrder(ws') /\ SameLink
    BY <1>0, <1>1, <1>21, <2>1, RowOrderFailable DEF HydrateFails, HydrateCrash
  <2>3. HydratesOrder'
    BY <1>0, <1>21, <2>2, HydrateOrderGoes DEF HydrateFails, HydrateCrash
  <2> QED BY <1>0, <1>21, <2>2, <2>3, CallersOrderKept, RelinksOrderKept
    DEF HydrateFails, HydrateCrash, Order
<1>22. ASSUME NEW r \in idxrun, IndexEnd(r) PROVE Order'
  <2>1. RowOrder(ws') /\ SameLink
    BY <1>0, <1>22, RowOrderPersists DEF IndexEnd
  <2> QED BY <1>0, <1>22, <2>1, CallersOrderKept, HydratesOrderKept, RelinksOrderKept
    DEF IndexEnd, Order
<1> QED
  BY <1>2, <1>3, <1>4, <1>5, <1>6, <1>7, <1>8, <1>9, <1>10, <1>11, <1>12, <1>13, <1>14,
     <1>15, <1>16, <1>17, <1>18, <1>19, <1>20, <1>21, <1>22
  DEF Next, Work, Disturbance, Resolve, Hydrate

-----------------------------------------------------------------------------
(* The theorems *)

LEMMA Invariance == ASSUME OneRelinker PROVE Spec => [](Shape /\ Order)
BY ShapeInit, ShapeStep, OrderInit, OrderStep, PTL DEF Spec

LEMMA OrderSafety ==
  Shape /\ Order => ReadyIsServed /\ FailedIsUnserved /\ ServedFromRoot
BY DEF Shape, RowShape, Order, RowOrder, ReadyIsServed, FailedIsUnserved, ServedFromRoot,
       SameBinding, Desired, Current

\* A Workspace that is ready serves its present link, provided that two
\* updates of the link (updateWorkspace) never overlap.
THEOREM ReadyServes == ASSUME OneRelinker PROVE Spec => []ReadyIsServed
BY Invariance, OrderSafety, PTL

\* No late or repeated hydrate run (persistHydrateFailure) shows a failure of
\* a revision that is served, provided that updates of the link do not overlap.
THEOREM FailuresAreUnserved == ASSUME OneRelinker PROVE Spec => []FailedIsUnserved
BY Invariance, OrderSafety, PTL

\* The generation stands for the root folder (revision.ts: "the binding check
\* needs no second comparison"), provided that updates of the link do not
\* overlap; Projection_root.cfg shows what happens when they do.
THEOREM RootIsServed == ASSUME OneRelinker PROVE Spec => []ServedFromRoot
BY Invariance, OrderSafety, PTL

LEMMA PromiseInit == Init => Promise!Init
BY DEF Init, Promise!Init

LEMMA PromiseStep ==
  ASSUME OneRelinker
  PROVE  Shape /\ Order /\ [Next]_vars =>
           [Promise!Next]_<<[gen |-> ws.gen, sha |-> ws.sha],
                            IF ws.active = None THEN None
                            ELSE [gen |-> ws.active.gen, sha |-> ws.active.sha]>>
<1> DEFINE wanted == [gen |-> ws.gen, sha |-> ws.sha]
           served == IF ws.active = None THEN None
                     ELSE [gen |-> ws.active.gen, sha |-> ws.active.sha]
<1> SUFFICES ASSUME Shape, Order, [Next]_vars
             PROVE  Promise!Next \/ UNCHANGED <<wanted, served>>
  OBVIOUS
<1>0. ws \in Rows
  BY DEF Shape, RowShape
<1>1. ASSUME NEW r \in Relinkers, RelinkWrite(r) PROVE Promise!Next
  <2>1. ws'.gen = ws.gen + 1 /\ ws'.sha = 0 /\ ws'.active = ws.active
    BY <1>0, <1>1 DEF RelinkWrite, Order, RelinksOrder, NextGeneration, Rows
  <2>2. Promise!Relink
    BY <2>1 DEF Promise!Relink
  <2> QED BY <2>2 DEF Promise!Next
<1>2. ASSUME NEW c \in Callers, Capture(c), Capturable(caller[c].exp)
      PROVE  Promise!Next \/ UNCHANGED <<wanted, served>>
  <2>1. /\ caller[c].exp \in Revisions /\ caller[c].tip \in Nat
        /\ caller[c].exp.sha <= caller[c].tip
    BY <1>2 DEF Capture, Shape, CallersShape, CallerShape, CallerRecs
  <2>2. ws.sha \in Nat /\ ws.sha <= caller[c].tip
    BY <1>0, <1>2, <2>1 DEF Capturable, Matches, Rows
  <2>3. ws'.gen = ws.gen /\ ws'.sha = caller[c].tip /\ ws'.active = ws.active
    BY <1>0, <1>2 DEF Capture, Rows
  <2>4. CASE caller[c].tip = ws.sha
    BY <2>3, <2>4
  <2>5. CASE caller[c].tip > ws.sha
    BY <2>3, <2>5 DEF Promise!Next, Promise!Advance
  <2> QED BY <2>1, <2>2, <2>4, <2>5
<1>3. ASSUME NEW h \in Hydrates, HydrateCommit(h), Activatable(hydrate[h].rev)
      PROVE  Promise!Next
  <2>1. hydrate[h].rev \in Revisions /\ hydrate[h].rev.sha > 0
    BY <1>3 DEF HydrateCommit, Shape, HydratesShape, HydrateShape
  <2>2. /\ ws'.gen = ws.gen /\ ws'.sha = ws.sha /\ ws'.active = hydrate[h].rev
        /\ hydrate[h].rev.gen = ws.gen /\ hydrate[h].rev.sha = ws.sha
    BY <1>0, <1>3 DEF HydrateCommit, Activatable, Matches, Rows
  <2>3. ws.sha # 0 /\ hydrate[h].rev # None
    BY <2>1, <2>2, NoneAssumption DEF Revisions
  <2>4. Promise!Publish
    BY <2>2, <2>3 DEF Promise!Publish
  <2> QED BY <2>4 DEF Promise!Next
<1>4. CASE \/ \E r \in Relinkers : RelinkWrite(r)
           \/ \E c \in Callers : Capture(c) /\ Capturable(caller[c].exp)
           \/ \E h \in Hydrates : HydrateCommit(h) /\ Activatable(hydrate[h].rev)
  BY <1>1, <1>2, <1>3, <1>4
<1>5. CASE ~ (\/ \E r \in Relinkers : RelinkWrite(r)
              \/ \E c \in Callers : Capture(c) /\ Capturable(caller[c].exp)
              \/ \E h \in Hydrates : HydrateCommit(h) /\ Activatable(hydrate[h].rev))
  <2> DEFINE Same(w) == w.gen = ws.gen /\ w.sha = ws.sha /\ w.active = ws.active
  <2>1. /\ Same(ws)
        /\ \A reason : Same(Fail(reason))
        /\ \A s, kind : Same([ws EXCEPT !.st[s] = kind])
        /\ Same([ws EXCEPT !.status = "ready", !.reason = "none"])
        /\ Same([ws EXCEPT !.status = "pending", !.reason = "none"])
    BY <1>0 DEF Fail, Rows
  <2> HIDE DEF Same
  <2>2. ASSUME Retry PROVE Same(ws')
    BY <2>1, <2>2 DEF Retry
  <2>3. ASSUME NEW c \in Callers, ReadTipFails(c) \/ QueueFails(c) \/ Rebuild(c)
        PROVE  Same(ws')
    BY <2>1, <2>3 DEF ReadTipFails, QueueFails, Rebuild
  <2>4. ASSUME NEW c \in Callers, Capture(c) PROVE Same(ws')
    BY <1>5, <2>1, <2>4 DEF Capture
  <2>5. ASSUME NEW h \in Hydrates,
               HydrateSettle(h) \/ HydrateCommit(h) \/ HydrateFails(h)
        PROVE  Same(ws')
    BY <1>5, <2>1, <2>5 DEF HydrateSettle, HydrateCommit, HydrateFails
  <2>6. ASSUME NEW h \in Hydrates,
               \/ HydrateRetryGraph(h) \/ HydrateGraph(h) \/ HydrateGraphFails(h)
               \/ HydrateEmbed(h) \/ HydrateEmbedFails(h)
        PROVE  Same(ws')
    BY <2>1, <2>6 DEF HydrateRetryGraph, HydrateGraph, HydrateGraphFails, HydrateEmbed,
                      HydrateEmbedFails, Persist, Once
  <2>7. ASSUME NEW r \in idxrun, IndexEnd(r) PROVE Same(ws')
    BY <2>1, <2>7 DEF IndexEnd, Persist
  <2>8. Same(ws')
    BY <1>5, <2>1, <2>2, <2>3, <2>4, <2>5, <2>6, <2>7
    DEF Next, Work, Disturbance, Resolve, Hydrate, vars, HumanCommit, RelinkRead,
        GraphLost, Ingest, Begin, ReadRow, ReadTip, Decide, Queue, Stop, HydrateStart,
        HydrateIndex, HydrateCrash, IndexStart
  <2> QED BY <2>8 DEF Same
<1> QED BY <1>4, <1>5

\* The Workspace keeps the promise of Serving: what is wanted only moves
\* forward, and what is published is what is wanted at that moment, provided
\* that updates of the link do not overlap.
THEOREM PromiseKept == ASSUME OneRelinker PROVE Spec => KeepsPromise
BY Invariance, PromiseInit, PromiseStep, PTL DEF Spec, KeepsPromise, Promise!Spec

\* Readers are never sent back: neither to an earlier link nor to an earlier
\* commit of the same link.
THEOREM ReadersNeverGoBack == ASSUME OneRelinker PROVE Spec => Promise!NeverGoesBack
<1> DEFINE wanted == [gen |-> ws.gen, sha |-> ws.sha]
           served == IF ws.active = None THEN None
                     ELSE [gen |-> ws.active.gen, sha |-> ws.active.sha]
<1>1. ASSUME Shape, Order, [Next]_vars
      PROVE  [served # None => Promise!Upto(served, served')]_<<wanted, served>>
  <2>1. Promise!Next \/ UNCHANGED <<wanted, served>>
    BY <1>1, PromiseStep
  <2>2. ws.active # None =>
          /\ ws.active.gen \in Nat /\ ws.active.sha \in Nat /\ ws.gen \in Nat
          /\ Promise!Upto(served, wanted) /\ Promise!Upto(served, served)
    BY <1>1 DEF Shape, RowShape, Rows, Revisions, Order, RowOrder, Current, Promise!Upto
  <2>3. served' = served \/ served' = wanted
    BY <2>1 DEF Promise!Next, Promise!Relink, Promise!Advance, Promise!Publish
  <2> QED BY <2>2, <2>3
<1> QED BY <1>1, Invariance, PTL DEF Spec, Promise!NeverGoesBack

=============================================================================
