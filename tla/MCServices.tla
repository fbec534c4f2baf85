----------------------------- MODULE MCServices -----------------------------
(* One run for the services around the Workspace lane that share no state:  *)
(* `part` chooses the one that moves.                                       *)
EXTENDS IndexPhases, ShardPins, SandboxLock, SandboxSlots, GraphProjection, TLC

CONSTANTS b1, b2

VARIABLE part

Org(all, ingest, k1, k2) ==
  [all |-> all, ingest |-> ingest, kind |-> b1 :> k1 @@ b2 :> k2]

MCOrgs == { Org(1, 1, "chat", "chat"), Org(1, 1, "chat", "ingest"),
            Org(2, 1, "ingest", "ingest") }

Init ==
  /\ part \in {"phases", "pins", "lock", "slots", "graph"}
  /\ PhaseInit /\ PinInit /\ LockInit /\ SlotInit /\ GraphInit
  /\ part # "slots" => org = Org(1, 1, "chat", "chat")
  /\ part # "graph" => graphPhase = "ready"

\* The other parts stand still.
PhasesOnly == UNCHANGED <<part, pinVars, lockVars, slotVars, graphVars>>

PinsOnly == UNCHANGED <<part, phaseVars, lockVars, slotVars, graphVars>>

LockOnly == UNCHANGED <<part, phaseVars, pinVars, slotVars, graphVars>>

SlotsOnly == UNCHANGED <<part, phaseVars, pinVars, lockVars, graphVars>>

GraphOnly == UNCHANGED <<part, phaseVars, pinVars, lockVars, slotVars>>

Next ==
  \/ \E c \in Calls, r \in Repos :
       \/ \E k \in {"clone", "zoekt", "merge"} :
            part = "phases" /\ AskPhase(c, k, r) /\ PhasesOnly
       \/ \E k \in Phases :
            part = "phases" /\ AskRefused(c, k, r) /\ PhasesOnly
       \/ part = "phases" /\ AskScip(c, r) /\ PhasesOnly
       \/ part = "phases" /\ AskScipAgain(c, r) /\ PhasesOnly
       \/ part = "phases" /\ AskPurge(c, r) /\ PhasesOnly
       \/ part = "phases" /\ AskCollect(c, r) /\ PhasesOnly
  \/ \E r \in Repos : part = "phases" /\ Idle(r) /\ PhasesOnly
  \/ \E c \in Calls :
       \/ part = "phases" /\ Resolve(c) /\ PhasesOnly
       \/ part = "phases" /\ ResolveFails(c) /\ PhasesOnly
       \/ part = "phases" /\ ResolveThrows(c) /\ PhasesOnly
       \/ part = "phases" /\ AskSlot(c) /\ PhasesOnly
       \/ part = "phases" /\ FreeSlot(c) /\ PhasesOnly
       \/ part = "phases" /\ Leave(c, TRUE) /\ PhasesOnly
       \/ part = "phases" /\ Leave(c, FALSE) /\ PhasesOnly
  \/ part = "pins" /\ Search /\ PinsOnly
  \/ part = "pins" /\ Build /\ PinsOnly
  \/ part = "pins" /\ Purge /\ PinsOnly
  \/ part = "pins" /\ RefreshPinnedRepo /\ PinsOnly
  \/ part = "pins" /\ Fire /\ PinsOnly
  \/ part = "pins" /\ Link /\ PinsOnly
  \/ part = "pins" /\ Arm /\ PinsOnly
  \/ part = "pins" /\ SkipRefresh /\ PinsOnly
  \/ part = "pins" /\ Unload /\ PinsOnly
  \/ part = "pins" /\ PurgeShards /\ PinsOnly
  \/ part = "lock" /\ Tick /\ LockOnly
  \/ \E a \in Attempts :
       \/ part = "lock" /\ SendInsert(a) /\ LockOnly
       \/ part = "lock" /\ Insert(a) /\ LockOnly
       \/ part = "lock" /\ Granted(a) /\ LockOnly
       \/ part = "lock" /\ Retry(a) /\ LockOnly
       \/ part = "lock" /\ Busy(a) /\ LockOnly
       \/ part = "lock" /\ SendRenew(a) /\ LockOnly
       \/ part = "lock" /\ Renew(a) /\ LockOnly
       \/ part = "lock" /\ Renewed(a) /\ LockOnly
       \/ part = "lock" /\ RenewFails(a) /\ LockOnly
       \/ part = "lock" /\ LoseByDeadline(a) /\ LockOnly
       \/ part = "lock" /\ EndFn(a) /\ LockOnly
       \/ part = "lock" /\ FnThrows(a) /\ LockOnly
       \/ part = "lock" /\ Release(a) /\ LockOnly
       \/ part = "lock" /\ Crash(a) /\ LockOnly
  \/ \E b \in Boxes :
       \/ part = "slots" /\ Begin(b) /\ SlotsOnly
       \/ part = "slots" /\ Count(b) /\ SlotsOnly
       \/ part = "slots" /\ AtCapacity(b) /\ SlotsOnly
       \/ part = "slots" /\ Reserve(b) /\ SlotsOnly
       \/ part = "slots" /\ Create(b) /\ SlotsOnly
       \/ part = "slots" /\ CreateFails(b) /\ SlotsOnly
       \/ part = "slots" /\ Attach(b) /\ SlotsOnly
       \/ part = "slots" /\ AttachGone(b) /\ SlotsOnly
       \/ part = "slots" /\ AttachFails(b) /\ SlotsOnly
       \/ part = "slots" /\ End(b) /\ SlotsOnly
       \/ part = "slots" /\ TurnCrash(b) /\ SlotsOnly
       \/ part = "slots" /\ Age(b) /\ SlotsOnly
       \/ part = "slots" /\ SweepKeeps(b) /\ SlotsOnly
       \/ part = "slots" /\ SweepStops(b) /\ SlotsOnly
       \/ part = "slots" /\ SweepDeletes(b) /\ SlotsOnly
       \/ part = "slots" /\ StopWhenDone(b) /\ SlotsOnly
       \/ part = "slots" /\ DestroyShard(b) /\ SlotsOnly
  \/ part = "slots" /\ Backstop /\ SlotsOnly
  \/ part = "slots" /\ SweepStart /\ SlotsOnly
  \/ part = "slots" /\ SweepEnd /\ SlotsOnly
  \/ part = "slots" /\ SweepCrash /\ SlotsOnly
  \/ \E h \in Hydrates :
       \/ part = "graph" /\ StartHydrate(h) /\ GraphOnly
       \/ part = "graph" /\ DeleteMarker(h) /\ GraphOnly
       \/ part = "graph" /\ DeleteNodes(h) /\ GraphOnly
       \/ part = "graph" /\ WriteNodes(h) /\ GraphOnly
       \/ part = "graph" /\ WriteClaims(h) /\ GraphOnly
       \/ part = "graph" /\ WriteMarker(h) /\ GraphOnly
       \/ part = "graph" /\ PersistReady(h) /\ GraphOnly
       \/ part = "graph" /\ WriteFails(h) /\ GraphOnly
       \/ part = "graph" /\ PersistFailed(h) /\ GraphOnly
       \/ part = "graph" /\ HydrateCrash(h) /\ GraphOnly
       \/ part = "graph" /\ TipHydrate(h) /\ GraphOnly
       \/ part = "graph" /\ Rebuild(h) /\ GraphOnly
  \/ \E w \in Watchers :
       \/ part = "graph" /\ Look(w) /\ GraphOnly
       \/ part = "graph" /\ Read(w) /\ GraphOnly
       \/ part = "graph" /\ MarkLost(w) /\ GraphOnly
       \/ \E h \in Hydrates :
            part = "graph" /\ StartRebuild(w, h) /\ GraphOnly
       \/ part = "graph" /\ StartRebuildFails(w) /\ GraphOnly
  \/ part = "graph" /\ StoreLoses /\ GraphOnly

vars == <<part, phaseVars, pinVars, lockVars, slotVars, graphVars>>

\* The fairness of each module, for the part that moves.
Fairness ==
  /\ WF_phaseVars(part = "phases" /\ PhaseWork)
  /\ WF_pinVars(part = "pins" /\ PinWork)
  /\ WF_lockVars(part = "lock" /\ Tick)
  /\ \A a \in Attempts :
       /\ WF_lockVars(part = "lock" /\ LockStep(a))
       /\ WF_lockVars(part = "lock" /\ (EndFn(a) \/ FnThrows(a)))
  /\ WF_slotVars(part = "slots" /\ SweepStep)
  /\ \A b \in Boxes :
       /\ WF_slotVars(part = "slots" /\ TurnStep(b))
       /\ WF_slotVars(part = "slots" /\ Age(b))
  /\ WF_graphVars(part = "graph" /\ HydrateWork)
  /\ WF_graphVars(part = "graph" /\ TipHydrates)
  /\ WF_graphVars(part = "graph" /\ (Look("tip") \/ WatchWork("tip")))

Spec == Init /\ [][Next]_vars /\ Fairness

-----------------------------------------------------------------------------

\* Every variable of the five services has its type.
ServicesTypeOK ==
  PhaseTypeOK /\ PinTypeOK /\ LockTypeOK /\ SlotTypeOK /\ GraphTypeOK
=============================================================================
