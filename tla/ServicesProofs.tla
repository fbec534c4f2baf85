--------------------------- MODULE ServicesProofs ---------------------------
(* The run `services` moves one service at a time. Its specification        *)
(* implies the specification of each service it is made of, so everything   *)
(* proved of a service on its own holds of the run.                         *)
EXTENDS MCServices, CodesearchProofs, SandboxProofs, GraphProjectionProofs,
        TLAPS

\* Each service starts as its own module says.
LEMMA InitOfAll ==
  ASSUME Init
  PROVE  PhaseInit /\ PinInit /\ LockInit /\ SlotInit /\ GraphInit
  BY DEF Init

\* A request to the codesearch service is a step of IndexPhases.
LEMMA PhasesStep ==
  ASSUME NEW c \in Calls, NEW r \in Repos,
         \/ \E k \in {"clone", "zoekt", "merge"} :
              part = "phases" /\ AskPhase(c, k, r) /\ PhasesOnly
         \/ \E k \in Phases :
              part = "phases" /\ AskRefused(c, k, r) /\ PhasesOnly
         \/ part = "phases" /\ AskScip(c, r) /\ PhasesOnly
         \/ part = "phases" /\ AskScipAgain(c, r) /\ PhasesOnly
         \/ part = "phases" /\ AskPurge(c, r) /\ PhasesOnly
         \/ part = "phases" /\ AskCollect(c, r) /\ PhasesOnly
  PROVE  PhaseNext /\ PhasesOnly
  BY Zenon DEF PhaseNext, Ask

\* A step of the run is a step of one service, and leaves the variables of the
\* others alone.
LEMMA OneMoves ==
  ASSUME Next
  PROVE  \/ PhaseNext /\ PhasesOnly
         \/ PinNext /\ PinsOnly
         \/ LockNext /\ LockOnly
         \/ SlotNext /\ SlotsOnly
         \/ GraphNext /\ GraphOnly
  <1>1. CASE \E c \in Calls, r \in Repos :
               \/ \E k \in {"clone", "zoekt", "merge"} :
                    part = "phases" /\ AskPhase(c, k, r) /\ PhasesOnly
               \/ \E k \in Phases :
                    part = "phases" /\ AskRefused(c, k, r) /\ PhasesOnly
               \/ part = "phases" /\ AskScip(c, r) /\ PhasesOnly
               \/ part = "phases" /\ AskScipAgain(c, r) /\ PhasesOnly
               \/ part = "phases" /\ AskPurge(c, r) /\ PhasesOnly
               \/ part = "phases" /\ AskCollect(c, r) /\ PhasesOnly
    BY <1>1, PhasesStep
  <1>2. CASE (\E r \in Repos : Idle(r)) /\ PhasesOnly
    BY <1>2 DEF PhaseNext
  <1>3. CASE PhaseWork /\ PhasesOnly
    BY <1>3 DEF PhaseNext
  <1>4. CASE PinNext /\ PinsOnly
    BY <1>4
  <1>5. CASE LockNext /\ LockOnly
    BY <1>5
  <1>6. CASE SlotNext /\ SlotsOnly
    BY <1>6
  <1>7. CASE GraphNext /\ GraphOnly
    BY <1>7
  <1> QED
    BY <1>1, <1>2, <1>3, <1>4, <1>5, <1>6, <1>7
    DEF Next, PhaseWork, PinNext, PinWork, LockNext, LockStep, SlotNext,
        SweepStep, TurnStep, GraphNext, HydrateWork, TipHydrates, WatchWork

\* A step of the run is a step of each service, or leaves it alone.
LEMMA StepOfAll ==
  ASSUME [Next]_vars
  PROVE  /\ [PhaseNext]_phaseVars
         /\ [PinNext]_pinVars
         /\ [LockNext]_lockVars
         /\ [SlotNext]_slotVars
         /\ [GraphNext]_graphVars
  <1>1. CASE UNCHANGED vars
    BY <1>1 DEF vars
  <1>2. CASE PhaseNext /\ PhasesOnly
    BY <1>2 DEF PhasesOnly
  <1>3. CASE PinNext /\ PinsOnly
    BY <1>3 DEF PinsOnly
  <1>4. CASE LockNext /\ LockOnly
    BY <1>4 DEF LockOnly
  <1>5. CASE SlotNext /\ SlotsOnly
    BY <1>5 DEF SlotsOnly
  <1>6. CASE GraphNext /\ GraphOnly
    BY <1>6 DEF GraphOnly
  <1> QED
    BY <1>1, <1>2, <1>3, <1>4, <1>5, <1>6, OneMoves

-----------------------------------------------------------------------------
(* The theorems *)

\* Every behaviour of the run is one of each service as its own module
\* specifies it, so the run adds no step to a service.
THEOREM ServicesCompose ==
  Spec => PhaseSpec /\ PinSpec /\ LockSpec /\ SlotSpec /\ GraphSpec
  BY InitOfAll, StepOfAll, PTL
  DEF Spec, PhaseSpec, PinSpec, LockSpec, SlotSpec, GraphSpec

\* Every variable of the five services has its type in every state of the
\* run.
THEOREM ServicesTypes == Spec => []ServicesTypeOK
  <1>1. ASSUME PhaseTypeOK, PinTypeOK, LockTypeOK, SlotTypeOK, GraphTypeOK
        PROVE  ServicesTypeOK
    BY <1>1 DEF ServicesTypeOK
  <1> QED
    BY <1>1, ServicesCompose, PhaseTypes, PinTypes, LockTypes, SlotTypes,
       GraphTypes, PTL
=============================================================================
